SPECIFICATION Spec
CONSTANTS
  Accounts = {a1}
  Portfolios = {p1}
  NoPortfolio = none
  Amounts <- MCSingleAmount
  StatusInputs = {"ACTIVE", "CLOSED"}
  RenewalInputs = {}
  ManualBalances <- MCManualBalances
  MaxDay = 1
  MaxMovements = 3
  MaxDeposits = 1
  MaxPayments = 0
CHECK_DEADLOCK FALSE
INVARIANTS
  SettledContributesNothing

