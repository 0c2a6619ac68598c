SPECIFICATION MCSpec
CONSTANTS
  Requests <- MCRequests
  NoRequest = 0
  RequestKinds <- MCAllKinds
  Funds = 4
  Principal = 3
  Interest = 2
  NewInterest = 1
  Withdrawal = 1
CHECK_DEADLOCK FALSE
INVARIANTS TypeOK SettledOnce PaymentMatchesMovement SolePosterKeepsCache
PROPERTY AllFinish
