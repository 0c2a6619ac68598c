SPECIFICATION Spec
CONSTANTS
  Accounts = {a1}
  Portfolios = {p1}
  NoPortfolio = none
  Amounts <- MCSingleAmount
  StatusInputs = {"ACTIVE"}
  RenewalInputs = {}
  ManualBalances <- MCManualBalances
  MaxDay = 2
  MaxMovements = 3
  MaxDeposits = 0
  MaxPayments = 0
CHECK_DEADLOCK FALSE
INVARIANTS
  NoOverdraft

