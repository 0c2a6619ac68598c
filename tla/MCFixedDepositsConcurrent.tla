---------------------- MODULE MCFixedDepositsConcurrent ----------------------
(* FixedDepositsConcurrent on small sets of requests: see the .cfg files.  *)
EXTENDS FixedDepositsConcurrent

MCRequests == 1 .. 3
MCTwoRequests == 1 .. 2

MCKindOrder ==
  <<"withdraw", "cancel", "settle", "record", "edit", "reverse", "put", "matured", "account">>
MCAllKinds == Range(MCKindOrder)
MCRefundKinds == {"cancel", "settle", "record"}
MCCacheKinds == {"withdraw", "account"}

\* Requests differ in their kind only, so it is enough to start them in one order.
MCInit ==
  /\ Init
  /\ \E at \in [Requests -> DOMAIN MCKindOrder] :
       /\ \A r \in Requests : kind[r] = MCKindOrder[at[r]]
       /\ \A q, r \in Requests : q < r => at[q] <= at[r]

MCSpec == MCInit /\ [][Next]_vars /\ WF_vars(Next)
=============================================================================
