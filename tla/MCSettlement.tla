---------------------------- MODULE MCSettlement ----------------------------
(* Settlement on small instances: see the .cfg files for the bounds.       *)
EXTENDS Settlement, TLC

\* In quarters of 0.0001: 5 and 6 have more decimals than the ledger has, 5 is rounded
\* down to 4 and 6 up to 8.
MCGross == {0, 5, 6, 8}
MCEntered == {0, 6}
MCAmounts == {4}
MCRow(type, day, gross) == [type |-> type, day |-> day, currency |-> "EUR", gross |-> gross]

\* One buy, a sale before a buy, two buys of a day, a file not in date order, a buy
\* that is rounded down and a pair of buys that are rounded up.
MCFiles ==
  {<<MCRow("BUY", 2, 8)>>,
   <<MCRow("SELL", 1, 8), MCRow("BUY", 1, 8)>>,
   <<MCRow("BUY", 1, 8), MCRow("BUY", 1, 8)>>,
   <<MCRow("BUY", 2, 8), MCRow("SELL", 1, 8)>>,
   <<MCRow("BUY", 1, 5)>>,
   <<MCRow("BUY", 1, 6), MCRow("BUY", 1, 6)>>}

Shape(p, t, r) == [portfolios |-> p, trades |-> t, rows |-> r]
MCShapes ==
  {Shape(1, 1, 3), Shape(1, 2, 2), Shape(2, 1, 1), Shape(2, 0, 3), Shape(3, 0, 1)}
=============================================================================
