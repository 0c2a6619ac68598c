SPECIFICATION Spec
CONSTANTS
  Accounts = {a1, a2}
  Portfolios = {p1}
  NoPortfolio = none
  Amounts <- MCAmounts
  StatusInputs = {"ACTIVE"}
  RenewalInputs = {}
  ManualBalances <- MCManualBalances
  MaxDay = 1
  MaxMovements = 3
  MaxDeposits = 1
  MaxPayments = 1
CHECK_DEADLOCK FALSE
INVARIANTS
  CacheIsLedgerSum
  ReversalMirrorsOriginal
  ReversalsCancelOut
SYMMETRY MCSymmetry
