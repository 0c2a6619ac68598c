---------------------------- MODULE HoldingsView ----------------------------
(***************************************************************************)
(* The holdings of a scope one by one (portfolios/holdings_service.py and  *)
(* the rows of debt/portfolio_value.py), what they are allocated to, and   *)
(* the buckets of the dashboard.  Unlike the summary, a row of a stock or  *)
(* a fund stays in the currency it was traded in.                          *)
(***************************************************************************)
EXTENDS PortfolioValue

CONSTANT AssetClass       \* primary asset class of a fund: "EQUITY", "DEBT", ...

ASSUME HoldingsAssumption == AssetClass \in [Range(Funds) -> STRING]

CurrencyOf(s, ts) == IF s \in Range(Funds) THEN FundCurrency ELSE BaseCurrency(OfSymbol(ts, s))

\* _resolve_price and _resolve_nav
ResolvedPrice(s, unit) ==
  IF prices[s] = <<>> THEN Missing
  ELSE IF s \in Range(Funds) THEN prices[s][LatestDay(s)]
  ELSE Converted(prices[s][LatestDay(s)], QuotedIn[s], unit,
                 LookupStored(rates, QuotedIn[s], unit, LatestDay(s)))

\* Mutant: a holding that was oversold and is empty counts as closed.
ClosedFirst(qty, over) ==
  IF qty = 0 THEN "closed" ELSE IF over THEN "oversold" ELSE "ok"

\* _holding_status
HoldingStatus(qty, over) ==
  IF over THEN "oversold" ELSE IF qty = 0 THEN "closed" ELSE "ok"

\* _build_holding_item and _build_mf_holding_item; the asset detail has the same figures.
HoldingRow(s, unit, m, price, over) ==
  [kind |-> IF s \in Range(Funds) THEN "MUTUAL_FUND" ELSE "STOCK", of |-> s, ccy |-> unit,
   qty |-> m.qty, realized |-> m.realized, invested |-> m.invested,
   value |-> IF price # Missing /\ m.qty > 0 THEN price * m.qty ELSE 0,
   priced |-> price # Missing,
   status |-> HoldingStatus(m.qty, over)]

Item(ts, s) ==
  LET of(trades, unit) ==
        HoldingRow(s, unit, Metrics(trades), ResolvedPrice(s, unit), Oversold(trades))
  IN  of(OfSymbol(ts, s), CurrencyOf(s, ts))

\* build_fd_holding_rows and build_bank_cash_holding_rows: what is held is shown in the
\* display currency.
DebtRow(kind, item, amount, worth) ==
  LET shown == IF amount <= 0 THEN amount ELSE IF worth = Missing THEN 0 ELSE worth
  IN  [kind |-> kind, of |-> item.name, ccy |-> item.ccy, qty |-> 0, realized |-> 0,
       invested |-> IF kind = "BANK_CASH" THEN shown ELSE item.principal,
       value |-> shown, priced |-> TRUE,
       status |-> IF amount <= 0 THEN "closed" ELSE "ok"]

Row(kind, item, amount) ==
  DebtRow(kind, item, amount,
          Converted(amount, item.ccy, Display, Lookup(rates, item.ccy, Display, today, today)))

DepositRows(ps) ==
  {Row("FIXED_DEPOSIT", fd, IF IsSettled(fd) THEN 0 ELSE fd.principal) : fd \in OnRecord(ps)}

AccountRows(ps, all) == {Row("BANK_CASH", a, Balance(a, today)) : a \in Includable(ps, all)}

\* cash_allocation_rows
CashAllocation(ps) ==
  LET found(c) == Lookup(rates, c, Display, today, today - FillDays)
  IN  {[kind |-> "CASH", of |-> c, ccy |-> Display,
        value |-> Converted(CashOf(ps, c, today), c, Display, found(c))]
         : c \in {x \in Currencies : CashOf(ps, x, today) # 0 /\ found(x).day # 0}}

\* build_holdings
Items(ts) == {Item(ts, s) : s \in StocksIn(ts) \cup FundsIn(ts)}
Holdings(ps, all) == Items(TradesIn(ps)) \cup DepositRows(ps) \cup AccountRows(ps, all)

\* The slices of the allocation: what is open and worth something.
Allocation(ps, all) ==
  {h \in Holdings(ps, all) :
     /\ h.status # "closed" /\ h.value > 0
     /\ h.kind \in {"STOCK", "MUTUAL_FUND"} => h.qty > 0}

\* _classify_asset_class_bucket
BucketOf(h) ==
  LET fund == h.kind = "MUTUAL_FUND"
  IN  CASE h.kind = "STOCK"                                -> "Equity"
        [] h.kind = "BANK_CASH"                            -> "Cash"
        [] fund /\ AssetClass[h.of] = "EQUITY"             -> "Equity"
        [] fund /\ AssetClass[h.of] \in {"DEBT", "LIQUID"} -> "Debt"
        [] OTHER                                           -> "Other"

\* Deposits are added from their totals and not from their rows, broker cash is added to
\* the bucket of what is left.
BucketSums(items, deposits, cash) ==
  LET counted(b) == {h \in items : h.kind # "FIXED_DEPOSIT" /\ h.value > 0
                                   /\ h.status # "closed" /\ BucketOf(h) = b}
      sum(b) == Total(LAMBDA h : h.value, counted(b))
  IN  [equity |-> sum("Equity"), debt |-> sum("Debt") + deposits,
       cash |-> sum("Cash"), other |-> sum("Other") + Larger(0, cash)]

\* Mutant: deposits are taken from the holdings and added once more.
DepositsTwice(ps, all) ==
  BucketSums(Holdings(ps, all), 2 * DepositTotals(ps, Display).value,
             CashToday(ps, Display).value)

\* calculate_allocation_buckets, on the rows and the cash of the same scope.
Buckets(ps, all) ==
  BucketSums(Holdings(ps, all), DepositTotals(ps, Display).value, CashToday(ps, Display).value)
=============================================================================
