SPECIFICATION Spec
CONSTANTS
  Requests <- MCTwoRequests
  NoRequest = 0
  RequestKinds <- MCRefundKinds
  Funds = 5
  Principal = 3
  Interest = 2
  NewInterest = 1
  Withdrawal = 1
CHECK_DEADLOCK FALSE
INVARIANT RefundIsFinal

