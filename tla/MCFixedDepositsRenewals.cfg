SPECIFICATION Spec
CONSTANTS
  Accounts = {a1}
  Portfolios = {p1}
  NoPortfolio = none
  Amounts <- MCAmounts
  StatusInputs = {"ACTIVE"}
  RenewalInputs = {}
  ManualBalances = {}
  MaxDay = 1
  MaxMovements = 2
  MaxDeposits = 2
  MaxPayments = 0
CHECK_DEADLOCK FALSE
INVARIANTS
  SettlementOwnsItsLegs

