-------------------------------- MODULE Lots --------------------------------
(***************************************************************************)
(* First-in-first-out lots of one holding (finance/splits.py, fifo.py,     *)
(* oversell.py, and the copy of the walk over lots in                      *)
(* portfolios/summary_service.py for mutual funds).                        *)
(*                                                                         *)
(* The operators take the trades of a holding as a sequence in the order   *)
(* of the queries, by day and then by id.  A trade is a record with type,  *)
(* day, qty, price, from and to.  Fees are ignored by the code and left    *)
(* out here.  Instances choose quantities and prices that split ratios     *)
(* divide, so that integers stand for the decimals of the code.            *)
(***************************************************************************)
EXTENDS Integers, Sequences, SequencesExt, Functions

Total(f(_), S) == SumFunction([x \in S |-> f(x)])

\* The elements of s at some positions as sorted() leaves them: by their keys, and in the
\* order they have in s where the keys are equal.
Sorted(s, K, key) ==
  LET before(k) == {j \in K : key[j] < key[k] \/ (key[j] = key[k] /\ j < k)}
      nth(n) == CHOOSE k \in K : Cardinality(before(k)) = n - 1
  IN  [n \in 1..Cardinality(K) |-> s[nth(n)]]

Only(s, K) == Sorted(s, K, [k \in K |-> k])

-----------------------------------------------------------------------------
IsSplit(t) == t.type = "STOCK_SPLIT"
ValidSplit(t) == IsSplit(t) /\ t.from > 0 /\ t.to > 0

\* Mutant: a split also scales the trades of its own day.
SplitSameDay(t, split) ==
  IF split.day < t.day THEN t
  ELSE [t EXCEPT !.qty = (@ * split.to) \div split.from, !.price = (@ * split.from) \div split.to]

\* A split scales the trades of the days before it.
SplitBy(t, split) ==
  IF split.day <= t.day THEN t
  ELSE [t EXCEPT !.qty = (@ * split.to) \div split.from, !.price = (@ * split.from) \div split.to]

\* The trade in shares of today.
Scaled(t, splits) == FoldLeft(SplitBy, t, splits)

\* apply_stock_split_adjustments; the sequence is in the order of days already.
Adjusted(ts) ==
  LET others == Only(ts, {k \in DOMAIN ts : ~IsSplit(ts[k])})
      splits == Only(ts, {k \in DOMAIN ts : ValidSplit(ts[k])})
  IN  [k \in DOMAIN others |-> Scaled(others[k], splits)]

-----------------------------------------------------------------------------
Lesser(a, b) == IF a < b THEN a ELSE b

\* Mutant: the newest lots are sold first.
SellNewest(lots, qty) ==
  LET take(walk, lot) ==
        LET sold == Lesser(lot.qty, walk.left)
            rest == [lot EXCEPT !.qty = @ - sold]
        IN  [left |-> walk.left - sold, cost |-> walk.cost + sold * lot.cost,
             lots |-> IF rest.qty = 0 THEN walk.lots ELSE <<rest>> \o walk.lots]
  IN  FoldLeft(take, [left |-> qty, cost |-> 0, lots |-> <<>>], Reverse(lots))

\* A lot a sale comes to: what it takes of it, and what it leaves.
Taken(walk, lot) ==
  LET sold == Lesser(lot.qty, walk.left)
      rest == [lot EXCEPT !.qty = @ - sold]
  IN  [left |-> walk.left - sold, cost |-> walk.cost + sold * lot.cost,
       lots |-> IF rest.qty = 0 THEN walk.lots ELSE Append(walk.lots, rest)]

\* The loop over the lots a sale consumes: what is left of them, what they cost, and
\* how much of the sale no lot covered.
Sell(lots, qty) == FoldLeft(Taken, [left |-> qty, cost |-> 0, lots |-> <<>>], lots)

LotQty(lots) == Total(LAMBDA k : lots[k].qty, DOMAIN lots)
LotCost(lots) == Total(LAMBDA k : lots[k].qty * lots[k].cost, DOMAIN lots)

\* Lots after one trade: a sale beyond the lots empties them and no more.
AfterTrade(lots, t) ==
  CASE t.type = "BUY" /\ t.qty > 0 -> Append(lots, [qty |-> t.qty, cost |-> t.price])
    [] t.type = "SELL" -> Sell(lots, t.qty).lots
    [] OTHER -> lots

\* A trade in the walk over a holding. Shares sold beyond the lots cost nothing.
Booked(m, t) ==
  [lots     |-> AfterTrade(m.lots, t),
   realized |-> IF t.type = "SELL" THEN m.realized + t.qty * t.price - Sell(m.lots, t.qty).cost
                ELSE m.realized]

\* calculate_fifo_cost_basis_metrics without a price: quantity, cost and realised gain.
Metrics(ts) ==
  LET m == FoldLeft(Booked, [lots |-> <<>>, realized |-> 0], Adjusted(ts))
  IN  [qty |-> LotQty(m.lots), invested |-> LotCost(m.lots), realized |-> m.realized]

\* A trade in the timelines by day of trade: the last trade of a day decides.
Entered(s, t) ==
  LET lots == AfterTrade(s.lots, t)
  IN  [lots |-> lots,
       days |-> [d \in DOMAIN s.days \cup {t.day} |->
                   IF d = t.day THEN [qty |-> LotQty(lots), invested |-> LotCost(lots)]
                   ELSE s.days[d]]]

Timeline(ts) == FoldLeft(Entered, [lots |-> <<>>, days |-> <<>>], ts).days

\* build_split_adjusted_lot_snapshots
Snapshots(ts) == Timeline(Adjusted(ts))

\* The copy in _mf_timeseries_by_date, which knows no splits.
FundSnapshots(ts) == Timeline(Only(ts, {k \in DOMAIN ts : ~IsSplit(ts[k])}))

\* Mutant: sales are taken before the buys of their day.
SalesFirst(a) ==
  Sorted(a, DOMAIN a, [k \in DOMAIN a |-> 2 * a[k].day + (IF a[k].type = "SELL" THEN 0 ELSE 1)])

\* The order detect_oversell sorts into: by day, and a buy before the sales of its day.
BuysFirst(a) ==
  Sorted(a, DOMAIN a, [k \in DOMAIN a |-> 2 * a[k].day + (IF a[k].type = "BUY" THEN 0 ELSE 1)])

\* A trade in the walk of detect_oversell.
Checked(s, t) ==
  CASE ~s.over /\ t.type = "BUY" -> [s EXCEPT !.held = @ + t.qty]
    [] ~s.over /\ t.type = "SELL" ->
         IF t.qty > s.held THEN [s EXCEPT !.over = TRUE] ELSE [s EXCEPT !.held = @ - t.qty]
    [] OTHER -> s

\* detect_oversell
Oversold(ts) == FoldLeft(Checked, [held |-> 0, over |-> FALSE], BuysFirst(Adjusted(ts))).over

-----------------------------------------------------------------------------
\* timeline[d] for the last event on or before a day: _forward_fill_decimal,
\* _last_on_or_before_optional.
LastOnOrBefore(days, d) ==
  LET before == {e \in days : e <= d}
  IN  CHOOSE e \in before : \A f \in before : f <= e

Held(timeline, d) ==
  IF \E e \in DOMAIN timeline : e <= d
  THEN timeline[LastOnOrBefore(DOMAIN timeline, d)]
  ELSE [qty |-> 0, invested |-> 0]
=============================================================================
