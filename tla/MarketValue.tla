---------------------------- MODULE MarketValue ----------------------------
(***************************************************************************)
(* The cache of market data together with the figures computed from it.    *)
(* The figures are operators on the state; a request may come in any state *)
(* between two runs, so they are stated as invariants of the idle states.  *)
(***************************************************************************)
EXTENDS HoldingsView

-----------------------------------------------------------------------------
\* A day with a rate near enough, and not before the first trade.
RateNear(ts, d) == \E e \in FxOpen : e <= d /\ d - FillDays <= e /\ Inception(ts) <= e

\* After a full run every holding is valued: what the rate sync takes to be needed is
\* what the valuations of today and of each day ask for, in a portfolio that keeps to one
\* currency (earliest_required_fx_date against _calculate_holdings and the series).
ValuedAfterSync ==
  current =>
    \A p \in Portfolios :
      LET ts == TradesIn({p})
          mine(s) == s \in Whole(Range(Stocks)) /\ prices[s] # <<>>
                     /\ BaseOf(s) = BaseCurrency(ts) /\ BaseOf(s) = BaseCurrency(OfSymbol(ts, s))
                     /\ <<QuotedIn[s], BaseOf(s)>> \notin torn
      IN  (ts # <<>> /\ \A s \in SymbolsOf(ts) : mine(s)) =>
             /\ \A s \in SymbolsOf(ts) :
                  RateNear(OfSymbol(ts, s), LatestDay(s)) => PriceToday(ts, s) # Missing
             /\ \A d \in Days :
                  (d \in Inception(ts)..today /\ \A s \in SymbolsOf(ts) : RateNear(OfSymbol(ts, s), d))
                    => BaseSeries(ts, 0)[d].value # Missing

-----------------------------------------------------------------------------
\* Lots.

Change(t) == CASE t.type = "BUY" -> t.qty [] t.type = "SELL" -> -t.qty [] OTHER -> 0
HeldAfter(a, k) == Total(LAMBDA j : Change(a[j]), 1..k)
HeldOn(ts, d) ==
  LET a == Adjusted(ts)
  IN  Total(LAMBDA k : Change(a[k]), {k \in DOMAIN a : a[k].day <= d})

NeverShort(ts) == LET a == Adjusted(ts) IN \A k \in DOMAIN a : HeldAfter(a, k) >= 0

Holding(p, s) == OfSymbol(TradesIn({p}), s)

Amount(a, K) == Total(LAMBDA k : a[k].qty * a[k].price, K)

KeepsNewest(m, a, buys, sales) ==
  LET later(k) == Total(LAMBDA j : a[j].qty, {j \in buys : k < j})
      kept(k) == Larger(0, Lesser(a[k].qty, m.qty - later(k)))
  IN  /\ m.qty = HeldAfter(a, Len(a))
      /\ m.invested = Total(LAMBDA k : kept(k) * a[k].price, buys)
      /\ m.realized = Amount(a, sales) - (Amount(a, buys) - m.invested)

\* The lots kept are the shares bought last, whatever was bought, sold and split before;
\* what was paid is either still invested or part of the realised gain; and the copies
\* of the walk in the series end where the walk of the summary ends.
FifoKeepsNewest ==
  Idle =>
    \A p \in Portfolios : \A s \in SymbolsOf(TradesIn({p})) :
      LET ts == Holding(p, s)
          keeps(m, a) == KeepsNewest(m, a, {k \in DOMAIN a : a[k].type = "BUY"},
                                     {k \in DOMAIN a : a[k].type = "SELL"})
          ends(m, copy) == Held(copy, today) = [qty |-> m.qty, invested |-> m.invested]
      IN  NeverShort(ts) =>
            /\ keeps(Metrics(ts), Adjusted(ts))
            /\ ends(Metrics(ts), IF s \in Range(Funds) THEN FundSnapshots(ts) ELSE Snapshots(ts))

\* A holding is flagged exactly when on some day more shares are sold than were bought up
\* to the end of that day, in shares of today, and its row says so even when nothing is
\* left of it (detect_oversell, _holding_status).
OversellNoticed ==
  Idle =>
    \A p \in Portfolios : \A s \in SymbolsOf(TradesIn({p})) :
      LET short == \E d \in Days : HeldOn(Holding(p, s), d) < 0
      IN  /\ Oversold(Holding(p, s)) <=> short
          /\ Item(TradesIn({p}), s).status = "oversold" <=> short

\* Shares on a day as they were counted on that day, before any later split.
Outstanding(ts, d) ==
  LET trades == {k \in DOMAIN ts : ts[k].day <= d}
      between(k) == {j \in DOMAIN ts : IsSplit(ts[j]) /\ ts[k].day < ts[j].day /\ ts[j].day <= d}
      up(k) == Product(LAMBDA j : ts[j].to, between(k))
      down(k) == Product(LAMBDA j : ts[j].from, between(k))
  IN  Total(LAMBDA k : (Change(ts[k]) * up(k)) \div down(k), trades)

\* A split changes no value: shares of today at the restated closes are worth what the
\* shares of the day were worth at its quote, as long as the splits on record are those
\* of the market and the closes were asked for after them.
SplitsAreNeutral ==
  Idle =>
    \A p \in Portfolios : \A s \in StocksIn(TradesIn({p})) :
      LET ts == Holding(p, s)
          recorded == {<<t.day, t.from, t.to>> : t \in {u \in Range(ts) : IsSplit(u)}}
          ofMarket == {<<x.day, x.from, x.to>> : x \in {y \in Splits : y.sym = s /\ y.day <= today}}
      IN  (recorded = ofMarket /\ NeverShort(ts)) =>
            \A d \in DOMAIN prices[s] :
              prices[s][d] = Close(s, d, today) =>
                Held(Snapshots(ts), d).qty * prices[s][d] = Outstanding(ts, d) * Quotes[s][d]

-----------------------------------------------------------------------------
\* Figures.

Scopes == {[ps |-> {p}, all |-> FALSE] : p \in Portfolios} \cup {[ps |-> Portfolios, all |-> TRUE]}

\* Every symbol has a close between the first trade of the portfolio and its own.
PricedThroughout(ts) ==
  \A s \in SymbolsOf(ts) :
    \E e \in DOMAIN prices[s] : Inception(ts) <= e /\ e <= Inception(OfSymbol(ts, s))

SameRate(from, to, d, e) ==
  from = to \/ LookupStored(rates, from, to, d).day = LookupStored(rates, from, to, e).day

\* A portfolio and its stocks are kept in the display currency.
KeptInDisplay(p) ==
  LET ts == TradesIn({p})
  IN  BaseCurrency(ts) = Display /\ \A s \in StocksIn(ts) : BaseCurrency(OfSymbol(ts, s)) = Display

\* A portfolio kept in the display currency whose value today is known from rates of the
\* same day, whether they are looked up for today or for the day of the latest price.
Comparable(p) ==
  LET ts == TradesIn({p})
      quoted(s) == IF s \in Range(Funds) THEN FundCurrency ELSE QuotedIn[s]
  IN  ts # <<>> =>
        /\ KeptInDisplay(p)
        /\ \A s \in Priced(SymbolsOf(ts)) :
             Inception(ts) <= LatestDay(s) /\ SameRate(quoted(s), Display, LatestDay(s), today)
        /\ ~SecuritiesTotals(ts).missing
        /\ BaseSeries(ts, 0)[today].value # Missing

SameDays(range, full) == \A d \in DOMAIN range : full[d].value # Missing => range[d] = full[d]

\* A range shows the same values as the whole history does on the same days, although it
\* loads prices and rates for its own days only (_data_load_start).
RangeIsSlice ==
  Idle =>
    \A p \in Portfolios :
      LET ts == TradesIn({p})
          full == BaseSeries(ts, 0)
      IN  (ts # <<>> /\ PricedThroughout(ts)) =>
            \A emit \in Inception(ts)..today : SameDays(BaseSeries(ts, emit), full)

IsToday(series, value) == today \in DOMAIN series => series[today].value = value

TerminalIs(kpi, ps, all) ==
  ((\A p \in ps : Comparable(p)) /\ kpi.status # "fx_unavailable") =>
    \A emit \in {0, today} : IsToday(ValueParts(ps, all, emit), kpi.value)

\* The last point of the value series, summed up from its parts, is the value the summary
\* computes on its own way, whatever is held in stocks, funds, cash, deposits and
\* accounts (performance_service.py, summary_service.py).
TerminalMatchesSummary ==
  Idle =>
    \A sc \in Scopes : TerminalIs(Summary(sc.ps, sc.all), sc.ps, sc.all)

AddUp(rows, totals) ==
  /\ Total(LAMBDA h : h.value, rows) = totals.value
  /\ totals.missing <=> \E h \in rows : prices[h.of] # <<>> /\ ~h.priced

\* The holdings of a portfolio, one by one, add up to the stocks of its summary, and the
\* two agree on what cannot be priced (holdings_service.py, summary_service.py).
HoldingsAddUp ==
  Idle =>
    \A p \in Portfolios :
      LET ts == TradesIn({p})
      IN  AddUp({Item(ts, s) : s \in StocksIn(ts)}, StockTotals(ts))

-----------------------------------------------------------------------------
\* Returns.

UnitPrice(s, d) ==
  LET from == IF s \in Range(Funds) THEN FundCurrency ELSE QuotedIn[s]
      known == {e \in DOMAIN prices[s] : e <= d}
  IN  IF known = {} THEN 0
      ELSE Converted(prices[s][Max(known)], from, Display, LookupStored(rates, from, Display, d))

Paid(t) ==
  LET e == TradeEvent(t)
  IN  Converted(e.amount, e.ccy, Display, LookupStored(rates, e.ccy, Display, t.day))

\* What the market gave on a day: the move of the shares held since the day before, and
\* for the shares traded on the day the difference between their price and the close.
MarketMove(p, d) ==
  LET ts == TradesIn({p})
      ofDay == SelectSeq(ts, LAMBDA t : t.day = d /\ ~IsSplit(t))
      held(s) == HeldOn(OfSymbol(ts, s), d - 1)
      traded(s) == HeldOn(OfSymbol(ts, s), d) - held(s)
  IN  Total(LAMBDA s : held(s) * (UnitPrice(s, d) - UnitPrice(s, d - 1))
                       + traded(s) * UnitPrice(s, d), SymbolsOf(ts))
      - FoldLeft(LAMBDA n, t : n + Paid(t), 0, ofDay)

Interest(ps, d) == Total(LAMBDA w : w.amount, {w \in Payouts : w.portfolio \in ps /\ w.day = d})

\* Deposits placed from, or paid back to, an account outside the scope.
Unbacked(ps, all, d) ==
  LET outside == {fd \in OnRecord(ps) : fd.account \notin {a.name : a \in Includable(ps, all)}}
  IN  Total(LAMBDA fd : fd.principal, {fd \in outside : fd.from = d})
      - Total(LAMBDA fd : fd.principal, {fd \in outside : IsSettled(fd) /\ fd.until = d})

\* Broker cash of before the first trade, which the whole history of a cash-aware portfolio
\* does not show until the day of that trade; a range does.
CashAppearing(p, back, d) ==
  LET ts == TradesIn({p})
  IN  IF back = 0 /\ IsAware(p) /\ ts # <<>> /\ d = Inception(ts) THEN Cash(p, Display, d - 1) ELSE 0

\* Trades, cash, deposits and accounts of a scope are all in the display currency, and
\* its trades can be followed one by one.
Traceable(ps, all) ==
  /\ \A p \in ps :
       LET ts == TradesIn({p})
       IN  /\ ts # <<>> => ts[1].ccy = Display /\ PricedThroughout(ts)
           /\ \A s \in SymbolsOf(ts) : NeverShort(OfSymbol(ts, s))
           /\ \A t \in Range(ts) : t.ccy = Display \/ (t.sym \in Range(Funds) /\ ~IsAware(p))
  /\ \A a \in Includable(ps, all) : a.ccy = Display
  /\ \A x \in OnRecord(ps) \cup {r \in CashRows : r.portfolio \in ps} : x.ccy = Display

UnknownDays(series) == {d \in DOMAIN series : series[d].value = Missing}

GainExplained(gain, ps, all, back, unknown) ==
  \A d \in DOMAIN gain :
    (d - 1 \in DOMAIN gain /\ gain[d] # Missing /\ unknown \cap {d - 1, d} = {}) =>
      gain[d] = Total(LAMBDA p : MarketMove(p, d), ps)
                + Interest(ps, d) + Unbacked(ps, all, d)
                + Total(LAMBDA p : CashAppearing(p, back, d), ps)

\* The gain of a day is what the market gave and the interest received: buying, selling,
\* settling, paying in or out and placing a deposit are no gain, and a payout of interest
\* counts once, wherever it was paid to (the time-weighted return).  The two exceptions are
\* deposits placed from outside the scope and, over the whole history, cash paid in before
\* the first trade: the return takes them for a gain.
ReturnIsMarketMove ==
  Idle =>
    \A sc \in Scopes : Traceable(sc.ps, sc.all) =>
      \A back \in Ranges :
        GainExplained(DailyGain(sc.ps, sc.all, back), sc.ps, sc.all, back,
                      UNION {UnknownDays(BaseSeries(TradesIn({p}), 0)) : p \in sc.ps})

SameGain(x, series, flows) ==
  (~x.blocked /\ flows.unknown = {} /\ today \in DOMAIN series) =>
    Total(LAMBDA d : x.flows[d], DOMAIN x.flows) + x.terminal
      = series[today].value - Total(LAMBDA d : flows.on[d], DOMAIN flows.on)

\* The flows the money-weighted return is solved for, with today's value at their end,
\* sum up to the gain the cumulative return is told for: the two returns see the same
\* money.  Interest paid to an account two portfolios share is the exception.
XirrSumsToGain ==
  Idle =>
    \A sc \in Scopes :
      LET alone == UNION {Attributed({p}, FALSE) : p \in sc.ps}
      IN  (/\ Traceable(sc.ps, sc.all) /\ \A p \in sc.ps : Comparable(p)
           /\ alone \subseteq Attributed(sc.ps, sc.all)) =>
             SameGain(Xirr(sc.ps, sc.all), ReturnSeries(sc.ps, sc.all, 0),
                      ExternalFlows(sc.ps, sc.all))

ValueOf(rows) == Total(LAMBDA h : h.value, rows)

SplitUp(b, slices, cash, kpi) ==
  /\ b.equity + b.debt + b.cash + b.other = kpi.value
  /\ ValueOf(slices) + ValueOf(cash) = kpi.value

\* The holdings of several portfolios are computed from all their trades together, and
\* their summary from those of one portfolio after the other: a split one of them has
\* recorded changes the shares of the others in the first and not in the second.
SplitsShared(ps) ==
  \E p, q \in ps : p # q /\ \E t \in Range(TradesIn({p})) :
                              IsSplit(t) /\ t.sym \in SymbolsOf(TradesIn({q}))

\* The buckets of the dashboard, and the slices of the allocation with those of the cash,
\* add up to the value of the summary when all of it is in the display currency and no
\* stock of two portfolios was split: deposits and accounts count once
\* (calculate_allocation_buckets, build_holdings).
BucketsAddUp ==
  Idle =>
    \A sc \in Scopes :
      LET trades == TradesIn(sc.ps)
      IN  (/\ FundsIn(trades) = {} /\ CashToday(sc.ps, Display).value >= 0
           /\ \A p \in sc.ps : \A s \in SymbolsOf(trades) : NeverShort(Holding(p, s))
           /\ ~SplitsShared(sc.ps) /\ \A p \in sc.ps : KeptInDisplay(p)) =>
             SplitUp(Buckets(sc.ps, sc.all), Allocation(sc.ps, sc.all), CashAllocation(sc.ps),
                     Summary(sc.ps, sc.all))

Unshown(shown, days) == \A d \in days \cap DOMAIN shown : shown[d] = Missing

\* A day of the past whose investments cannot be valued for want of a rate is shown as
\* unknown, in the value and in the gain: what else is held does not stand in for them.
UnknownStaysUnknown ==
  Idle =>
    \A p \in Portfolios : \A back \in Ranges :
      LET start == RangeStart(back, ScopeStart({p}, FALSE))
          base == BaseSeries(TradesIn({p}), IF back = 0 THEN 0 ELSE start)
          stays(days) == /\ Unshown(ValueMetric({p}, FALSE, back), days)
                         /\ Unshown(GainTold({p}, FALSE, back), days)
      IN  stays(UnknownDays(base) \ {today})

-----------------------------------------------------------------------------
EndsWith(metric, kpi) ==
  (metric # <<>> /\ kpi.status # "fx_unavailable") => metric[Max(DOMAIN metric)] = kpi.value

\* The last point of the value metric is the value of the summary, "same
\* scope/currency/date" (performance_service.py:91, docs/architecture.md:86).
TerminalShowsSummary ==
  Idle =>
    \A sc \in Scopes : \A back \in Ranges :
      EndsWith(ValueMetric(sc.ps, sc.all, back), Summary(sc.ps, sc.all))
=============================================================================
