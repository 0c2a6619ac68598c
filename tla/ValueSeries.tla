---------------------------- MODULE ValueSeries ----------------------------
(***************************************************************************)
(* What a portfolio's stocks and funds are worth, today and on every day   *)
(* of its history, in the currency of the portfolio                        *)
(* (portfolios/summary_service.py).  Both are computed from the cache at   *)
(* each request; nothing is stored.                                        *)
(*                                                                         *)
(* A series is a function from the days of an interval to                  *)
(* [value, invested, status]; a value that cannot be told is Missing.  The *)
(* folios of a fund are one folio here, and the investment date of a fund  *)
(* is its trade date.  Funds have no splits.                               *)
(***************************************************************************)
EXTENDS MarketSync, Lots

DefaultCurrency == "EUR"

\* fifo_eligible_queryset: the trades of some portfolios by day and then by id.
TradesIn(ps) ==
  Sorted(txns, {k \in DOMAIN txns : txns[k].portfolio \in ps}, [k \in DOMAIN txns |-> txns[k].day])

OfSymbol(ts, s) == Only(ts, {k \in DOMAIN ts : ts[k].sym = s})
SymbolsOf(ts) == {t.sym : t \in Range(ts)}
StocksIn(ts) == SymbolsOf(ts) \cap Range(Stocks)
FundsIn(ts) == SymbolsOf(ts) \cap Range(Funds)

\* _portfolio_base_currency, and _symbol_base_currency of one holding's trades.
BaseCurrency(ts) == IF ts = <<>> THEN DefaultCurrency ELSE ts[1].ccy

LatestDay(s) == Max(DOMAIN prices[s])
Priced(S) == {s \in S : prices[s] # <<>>}

\* Mutant: rates are loaded from the oldest of the latest prices, and none before it.
RatesSinceLatest(S) ==
  Min({LatestDay(s) : s \in Priced(S)} \cup (IF Priced(S) = {} THEN {today} ELSE {}))

\* First day the rates of a valuation of today are loaded for.
RatesSince(S) == Min({LatestDay(s) : s \in Priced(S)} \cup (IF Priced(S) = {} THEN {today} ELSE {}))
                 - FillDays

-----------------------------------------------------------------------------
\* The latest close of a symbol in a currency; 0 when there is none.
LatestIn(s, unit, since) ==
  IF prices[s] = <<>> THEN 0
  ELSE Converted(prices[s][LatestDay(s)], QuotedIn[s], unit,
                 Lookup(rates, QuotedIn[s], unit, LatestDay(s), since))

\* The latest price of a stock in the currency it was traded in.
PriceToday(ts, s) == LatestIn(s, BaseCurrency(OfSymbol(ts, s)), RatesSince(StocksIn(ts)))

\* The sums of _calculate_holdings: a stock whose price cannot be converted adds no value.
StockSums(metrics, price) ==
  LET unpriced == {s \in DOMAIN price : price[s] = Missing}
  IN  [invested |-> Total(LAMBDA s : metrics[s].invested, DOMAIN metrics),
       value    |-> Total(LAMBDA s : metrics[s].qty * price[s], DOMAIN metrics \ unpriced),
       realized |-> Total(LAMBDA s : metrics[s].realized, DOMAIN metrics),
       missing  |-> unpriced # {}]

MetricsIn(ts, S) == [s \in S |-> Metrics(OfSymbol(ts, s))]

\* _calculate_holdings
StockTotals(ts) ==
  StockSums(MetricsIn(ts, StocksIn(ts)), [s \in StocksIn(ts) |-> PriceToday(ts, s)])

\* _convert_mf_amount_to_base: a filled rate is used and still counts as missing.
FundToBase(amount, base, found) ==
  [amount  |-> IF found.day = 0 THEN 0 ELSE Converted(amount, FundCurrency, base, found),
   missing |-> FundCurrency # base /\ found.status # "ok"]

\* The sums of _calculate_mf_holdings, each amount converted on its own.
FundSums(metrics, nav, found, base) ==
  LET inBase(f, amount) == FundToBase(amount, base, found[f])
      unknown == {f \in DOMAIN metrics : inBase(f, 0).missing}
  IN  [invested |-> Total(LAMBDA f : inBase(f, metrics[f].invested).amount, DOMAIN metrics),
       value    |-> Total(LAMBDA f : inBase(f, nav[f] * metrics[f].qty).amount,
                          DOMAIN metrics \ unknown),
       realized |-> Total(LAMBDA f : inBase(f, metrics[f].realized).amount, DOMAIN metrics),
       missing  |-> unknown # {}]

\* _calculate_mf_holdings
FundTotals(ts) ==
  LET day(f) == IF prices[f] = <<>> THEN today ELSE LatestDay(f)
  IN  FundSums(MetricsIn(ts, FundsIn(ts)),
               [f \in FundsIn(ts) |-> IF prices[f] = <<>> THEN 0 ELSE prices[f][LatestDay(f)]],
               [f \in FundsIn(ts) |-> Lookup(rates, FundCurrency, BaseCurrency(ts), day(f),
                                             RatesSince(FundsIn(ts)))],
               BaseCurrency(ts))

\* _merge_holdings_results and its two companions.
Merged(a, b) ==
  [invested |-> a.invested + b.invested, value |-> a.value + b.value,
   realized |-> a.realized + b.realized, missing |-> a.missing \/ b.missing]

SecuritiesTotals(ts) == Merged(StockTotals(ts), FundTotals(ts))

-----------------------------------------------------------------------------
\* Mutant: a range loads nothing from before its first day.
LoadFromStart(emit, inception) == IF emit = 0 THEN inception ELSE emit

\* _data_load_start; emit is the first day asked for, 0 for the whole history.
LoadStart(emit, inception) == IF emit = 0 THEN inception ELSE emit - FillDays

Inception(ts) == Min(TradeDays(Range(ts)))
FirstDay(ts, emit) == IF emit = 0 THEN Inception(ts) ELSE emit

\* Cached days of a symbol a series works with: those in the loaded range, and for a
\* range the last one on or before its first day.
LoadedDays(s, ts, emit) ==
  LET cached == DOMAIN prices[s]
      before == {d \in cached : d <= FirstDay(ts, emit)}
  IN  {d \in cached : LoadStart(emit, Inception(ts)) <= d}
      \cup (IF emit = 0 \/ before = {} THEN {} ELSE {Max(before)})

\* The last close a series has loaded up to a day, 0 when there is none.
LoadedClose(s, days) == IF days = {} THEN 0 ELSE prices[s][Max(days)]

ClosesOn(S, ts, emit, d) ==
  [s \in S |-> LoadedClose(s, {e \in LoadedDays(s, ts, emit) : e <= d})]

\* A day of the funds, as _mf_timeseries_by_date has it.
FundPoint(held, close, found, base) ==
  LET inBase(amount) == FundToBase(amount, base, found)
      value == Total(LAMBDA f : held[f].qty * close[f], DOMAIN held)
      invested == inBase(Total(LAMBDA f : held[f].invested, DOMAIN held))
  IN  IF DOMAIN held = {} THEN [value |-> 0, invested |-> 0]
      ELSE [value |-> IF invested.missing THEN Missing
                      ELSE IF value > 0 THEN inBase(value).amount ELSE 0,
            invested |-> IF invested.missing THEN 0 ELSE invested.amount]

\* A day of the series: stocks without a loaded price count nothing, one without a rate
\* makes the whole day unknown.
DayPoint(held, close, found, base, funds) ==
  LET counted == {s \in DOMAIN held : held[s].qty # 0 /\ close[s] # 0}
      unknown == funds.value = Missing \/ \E s \in counted : found[s].day = 0
      worth(s) == Converted(held[s].qty * close[s], QuotedIn[s], base, found[s])
  IN  [value    |-> IF unknown THEN Missing ELSE Total(worth, counted) + funds.value,
       invested |-> Total(LAMBDA s : held[s].invested, DOMAIN held) + funds.invested,
       status   |-> IF unknown THEN "fx_unavailable"
                    ELSE Combined({found[s].status : s \in counted})]

SeriesPoint(ts, base, snapshots, emit, d) ==
  LET held(S) == [s \in S |-> Held(snapshots[s], d)]
      rate(from) == Lookup(rates, from, base, d, LoadStart(emit, Inception(ts)))
      stocks == StocksIn(ts)
      funds == FundsIn(ts)
  IN  DayPoint(held(stocks), ClosesOn(stocks, ts, emit, d), [s \in stocks |-> rate(QuotedIn[s])],
               base,
               FundPoint(held(funds), ClosesOn(funds, ts, emit, d), rate(FundCurrency), base))

\* _build_portfolio_value_timeseries
BaseSeries(ts, emit) ==
  LET snapshots == [s \in SymbolsOf(ts) |->
                      IF s \in Range(Funds) THEN FundSnapshots(OfSymbol(ts, s))
                      ELSE Snapshots(OfSymbol(ts, s))]
  IN  IF ts = <<>> THEN <<>>
      ELSE [d \in FirstDay(ts, emit)..today |->
              SeriesPoint(ts, BaseCurrency(ts), snapshots, emit, d)]

\* The series in another currency, from rates loaded as for the series itself.
InDisplay(series, base, emit) ==
  [d \in DOMAIN series |->
     [series[d] EXCEPT !.value =
        IF @ = Missing THEN Missing
        ELSE Converted(@, base, Display,
               Lookup(rates, base, Display, d, LoadStart(emit, Min(DOMAIN series))))]]

\* _aggregate_timeseries_lists: a day is the sum of the series that know it.
Summed(all) ==
  [d \in UNION {DOMAIN s : s \in Range(all)} |->
     LET rows == {k \in DOMAIN all : d \in DOMAIN all[k]}
         known == {k \in rows : all[k][d].value # Missing}
     IN  [value    |-> IF known = {} THEN Missing ELSE Total(LAMBDA k : all[k][d].value, known),
          invested |-> Total(LAMBDA k : all[k][d].invested, rows),
          status   |-> Combined({all[k][d].status : k \in rows})]]
=============================================================================
