SPECIFICATION Spec
CONSTANTS
  Accounts = {a1}
  Portfolios = {p1}
  NoPortfolio = none
  Amounts <- MCSingleAmount
  StatusInputs = {"ACTIVE", "CLOSED", "CANCELLED"}
  RenewalInputs = {1}
  ManualBalances <- MCManualBalances
  MaxDay = 2
  MaxMovements = 3
  MaxDeposits = 1
  MaxPayments = 1
CHECK_DEADLOCK FALSE
INVARIANTS
  TypeOK
  OneReversalPerMovement
  OpeningMirrorsDeposit
  RefundIsFinal
  PaymentMirrorsMovement
PROPERTIES
  AuditedLedger
  AuditTrailFrozen
  InactiveStaysInactive
