---------------------------- MODULE MCMarketValue ----------------------------
(* MarketValue on small instances: see the .cfg files for the bounds.      *)
EXTENDS MarketValue, TLC

MCStocks == <<"A", "B">>
MCIndices == <<"I">>
MCFunds == <<"F">>
MCAlphabet == <<"EUR", "INR", "USD">>
MCQuotedIn == [s \in {"A", "B", "I"} |-> IF s = "A" THEN "USD" ELSE "EUR"]
MCWorth == [c \in {"EUR", "INR", "USD"} |->
  CASE c = "EUR" -> <<4, 4, 4, 4, 4>>
    [] c = "INR" -> <<1, 2, 1, 1, 2>>
    [] OTHER     -> <<2, 4, 8, 4, 2>>]

\* A splits one into two on day 4 and is not traded on day 3.
MCSplits == {[sym |-> "A", day |-> 4, from |-> 1, to |-> 2]}
MCQuotes ==
  [s \in {"A", "B", "I", "F"} |->
    CASE s = "A" -> (1 :> 128 @@ 2 :> 256 @@ 4 :> 64 @@ 5 :> 128)
      [] s = "B" -> (1 :> 16 @@ 2 :> 32 @@ 3 :> 16 @@ 5 :> 48)
      [] s = "I" -> (3 :> 32 @@ 5 :> 16)
      [] OTHER   -> (1 :> 64 @@ 2 :> 128 @@ 4 :> 128 @@ 5 :> 64)]
MCFxOpen == {2, 3, 4}

MCTrade(p, s, type, d, q, price, c) ==
  [portfolio |-> p, sym |-> s, type |-> type, day |-> d, qty |-> q, price |-> price,
   ccy |-> c, from |-> 0, to |-> 0]
MCSplit(p, d) ==
  [portfolio |-> p, sym |-> "A", type |-> "STOCK_SPLIT", day |-> d, qty |-> 0, price |-> 0,
   ccy |-> "EUR", from |-> 1, to |-> 2]

MCHistories ==
  {[day |-> 3, trades |-> <<MCTrade("P", "A", "BUY", 2, 4, 128, "EUR")>>],
   [day |-> 4, trades |-> <<MCTrade("P", "A", "BUY", 1, 4, 64, "EUR"), MCSplit("P", 4),
                            MCTrade("P", "A", "BUY", 4, 2, 32, "EUR")>>],
   [day |-> 4, trades |-> <<MCTrade("P", "B", "BUY", 1, 2, 16, "EUR"),
                            MCTrade("P", "B", "BUY", 2, 2, 48, "EUR"),
                            MCTrade("P", "B", "SELL", 2, 3, 32, "EUR"),
                            MCTrade("Q", "B", "SELL", 4, 1, 32, "EUR")>>],
   [day |-> 4, trades |-> <<MCTrade("Q", "A", "BUY", 2, 2, 128, "EUR"),
                            MCTrade("P", "B", "BUY", 2, 2, 32, "EUR"),
                            MCTrade("P", "F", "BUY", 2, 2, 128, "INR")>>]}
MCInputs ==
  {MCTrade("P", "A", "BUY", 1, 2, 64, "EUR"),
   MCTrade("Q", "A", "BUY", 4, 1, 128, "USD")}

MCPlan(phases, only) == [phases |-> phases, only |-> only]
MCPlans ==
  {MCPlan(<<"STOCK", "INDEX", "FX", "FUND">>, {"A", "B", "I", "F"}),
   MCPlan(<<"STOCK">>, {"A"})}

MCCashRows ==
  {[portfolio |-> "Q", day |-> 1, ccy |-> "EUR", amount |-> 256],
   [portfolio |-> "Q", day |-> 3, ccy |-> "EUR", amount |-> -64]}

MCDeposit(name, p, a, c, n, from, until) ==
  [name |-> name, portfolio |-> p, account |-> a, ccy |-> c, principal |-> n, from |-> from,
   until |-> until]
MCDeposits ==
  {MCDeposit("fd1", "P", "own", "EUR", 64, 2, 4), MCDeposit("fd2", "Q", "other", "EUR", 32, 1, 5)}

MCAccount(name, c, ps, rows) == [name |-> name, ccy |-> c, portfolios |-> ps, rows |-> rows]
MCBankRow(d, type, n) == [day |-> d, type |-> type, amount |-> n]
MCAccounts ==
  {MCAccount("own", "EUR", {"P"},
     {MCBankRow(1, "OPENING_BALANCE", 128), MCBankRow(2, "FD_FUNDING", -64),
      MCBankRow(3, "FD_INTEREST", 16), MCBankRow(4, "FD_SETTLEMENT", 64)}),
   MCAccount("shared", "EUR", {"P", "Q"},
     {MCBankRow(1, "OPENING_BALANCE", 32), MCBankRow(3, "MANUAL_WITHDRAWAL", -16)}),
   MCAccount("dollars", "USD", {"Q"}, {MCBankRow(5, "OPENING_BALANCE", 32)})}

MCPayout(p, a, d, n) == [portfolio |-> p, account |-> a, day |-> d, ccy |-> "EUR", amount |-> n]
MCPayouts == {MCPayout("P", "own", 3, 16), MCPayout("Q", "other", 4, 8)}

MCAssetClass == [f \in {"F"} |-> "EQUITY"]
=============================================================================
