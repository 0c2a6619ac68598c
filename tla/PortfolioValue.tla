--------------------------- MODULE PortfolioValue ---------------------------
(***************************************************************************)
(* The figures of a portfolio, or of all of them, in the display currency: *)
(* the summary (portfolios/summary_service.py), the value and return       *)
(* series of a range (portfolios/performance_service.py), the external     *)
(* flows they are measured against (portfolios/external_flows_service.py,  *)
(* cash_ledger_flows.py, debt/cash_ledger_flows.py), and what the          *)
(* money-weighted return is solved for (portfolios/xirr_service.py).       *)
(*                                                                         *)
(* A scope is a set of portfolios and whether it is the scope of all of    *)
(* them; one portfolio alone is its own scope.  Fees are left out, and the *)
(* amount paid for a fund is its units at the price of the trade.          *)
(***************************************************************************)
EXTENDS WealthSeries

CONSTANTS
  Ranges,         \* days a range reaches back, 0 for the whole history
  Payouts         \* interest paid out: [portfolio, account, day, ccy, amount]

ASSUME PortfolioAssumption ==
  /\ Ranges \subseteq Nat
  /\ \A w \in Payouts : w.portfolio \in Portfolios /\ w.day \in Days

IsAware(p) == p \in CashAware
Nothing == [invested |-> 0, value |-> 0, realized |-> 0, missing |-> FALSE]
NoCash == [value |-> 0, status |-> "ok"]

-----------------------------------------------------------------------------
\* The sum of all parts is converted at once, the deposits and accounts among them, and
\* stays as it is when there is no rate; broker cash comes on top.
InSummary(totals, cash, base, found) ==
  LET shown(v) == IF found.day = 0 THEN v ELSE Converted(v, base, Display, found)
  IN  [value    |-> shown(totals.value) + cash.value,
       invested |-> shown(totals.invested),
       realized |-> shown(totals.realized),
       gain     |-> shown(totals.realized + totals.value - totals.invested),
       status   |-> Combined({IF totals.missing THEN "fx_unavailable" ELSE "ok",
                              found.status, cash.status})]

\* Deposits are counted for every portfolio, accounts for one on its own.
WithDebtTotals(securities, p, own) ==
  Merged(Merged(securities, DepositTotals({p}, Display)),
         IF own THEN BankTotals({p}, FALSE, Display) ELSE Nothing)

\* Mutant: a portfolio of the scope of all also brings in its own broker cash.
OwnCashTwice(ts, p, own) ==
  InSummary(WithDebtTotals(SecuritiesTotals(ts), p, own), CashToday({p}, Display),
            BaseCurrency(ts), LookupStored(rates, BaseCurrency(ts), Display, today))

\* _build_single_portfolio_summary for the trades of a portfolio; `own` is whether its own
\* cash and bank accounts are counted.
SingleSummary(ts, p, own) ==
  InSummary(WithDebtTotals(SecuritiesTotals(ts), p, own),
            IF own THEN CashToday({p}, Display) ELSE NoCash,
            BaseCurrency(ts), LookupStored(rates, BaseCurrency(ts), Display, today))

\* The sums of _build_all_active_portfolio_summary.
AllSums(part, cash, bank) ==
  LET ps == DOMAIN part
  IN  [value    |-> Total(LAMBDA p : part[p].value, ps) + cash.value + bank.value,
       invested |-> Total(LAMBDA p : part[p].invested, ps) + bank.invested,
       realized |-> Total(LAMBDA p : part[p].realized, ps),
       gain     |-> Total(LAMBDA p : part[p].gain, ps),
       status   |-> Combined({part[p].status : p \in ps}
                             \cup {cash.status, IF bank.missing THEN "fx_unavailable" ELSE "ok"})]

\* _build_all_active_portfolio_summary
AllSummary(ps) ==
  AllSums([p \in ps |-> SingleSummary(TradesIn({p}), p, FALSE)],
          CashToday(ps, Display), BankTotals(ps, TRUE, Display))

Alone(ps) == CHOOSE p \in ps : TRUE

Summary(ps, all) ==
  IF all THEN AllSummary(ps) ELSE SingleSummary(TradesIn(ps), Alone(ps), TRUE)

-----------------------------------------------------------------------------
\* build_all_scope_portfolio_value_timeseries
AllSeries(ps, emit) ==
  LET shown(ts) == InDisplay(BaseSeries(ts, emit), BaseCurrency(ts), emit)
  IN  Summed([p \in {q \in ps : TradesIn({q}) # <<>>} |-> shown(TradesIn({p}))])

\* resolve_performance_range_start
RangeStart(back, inception) ==
  IF back = 0 THEN inception ELSE Larger(inception, today - back)

CashStart(ps) == IF CashDays(ps) = {} THEN {} ELSE {Min(CashDays(ps))}

\* Day the history of a scope begins.
ScopeStart(ps, all) ==
  Min(DebtStart(ps, all)
      \cup (IF TradesIn(ps) = <<>> THEN {today} \cup CashStart(ps)
            ELSE {Inception(TradesIn(ps))}))

\* The first day asked for, or that of the history.
StartOr(emit, start) == IF emit = 0 THEN start ELSE emit

\* The parts of the value metric, before its last point is set: a scope with trades keeps
\* to the days of their investments.
WithCashAndDebt(investments, ps, all, start) ==
  LET from == Min(DOMAIN investments \cup DebtStart(ps, all))
      whole(parts) == WithBoth(parts, ps, all, Min(DOMAIN parts), Max(DOMAIN parts))
  IN  IF investments = <<>>
      THEN WithBoth(WithCash(<<>>, CashSeries(ps, start, today)), ps, all, start, today)
      ELSE whole(WithCash(investments, CashSeries(ps, from, today)))

Investments(ts, ps, all, emit) ==
  IF ts = <<>> THEN <<>> ELSE IF all THEN AllSeries(ps, emit) ELSE BaseSeries(ts, emit)

ValueParts(ps, all, emit) ==
  WithCashAndDebt(Investments(TradesIn(ps), ps, all, emit), ps, all,
                  StartOr(emit, ScopeStart(ps, all)))

\* _align_terminal_value_with_summary
Aligned(series, kpi) ==
  IF series = <<>> \/ kpi.status = "fx_unavailable" THEN series
  ELSE [series EXCEPT ![Max(DOMAIN series)].value = kpi.value]

\* The values of one portfolio with trades, the last one among them, are converted at the
\* end (convert_amount_with_fill on each row).
ShownFrom(series, base, start) ==
  LET shown(v, d) == IF v = Missing THEN Missing
                     ELSE Converted(v, base, Display, LookupStored(rates, base, Display, d))
  IN  [d \in {e \in DOMAIN series : start <= e} |-> shown(series[d].value, d)]

\* build_portfolio_performance for the value metric.
ValueMetric(ps, all, back) ==
  LET start == RangeStart(back, ScopeStart(ps, all))
  IN  ShownFrom(Aligned(ValueParts(ps, all, IF back = 0 THEN 0 ELSE start), Summary(ps, all)),
                IF all \/ TradesIn(ps) = <<>> THEN Display ELSE BaseCurrency(TradesIn(ps)),
                start)

-----------------------------------------------------------------------------
\* External flows.  An event is [day, ccy, amount], a contribution being positive; a
\* flow map is what flows on each day, and the days with an event that has no rate.

NoFlows == [on |-> <<>>, unknown |-> {}]
FirstEvent(events) == Min({e.day : e \in Range(events)})
FlowOn(flows, d) == IF d \in DOMAIN flows.on THEN flows.on[d] ELSE 0

FlowsOf(events, to, since) ==
  LET found(e) == Lookup(rates, e.ccy, to, e.day, since)
      known == SelectSeq(events, LAMBDA e : found(e).day # 0)
      net(d) == FoldLeft(LAMBDA n, e : IF e.day # d THEN n
                                       ELSE n + Converted(e.amount, e.ccy, to, found(e)),
                         0, known)
  IN  [on |-> [d \in {e.day : e \in Range(known)} |-> net(d)],
       unknown |-> {e.day : e \in {x \in Range(events) : found(x).day = 0}}]

\* merge_external_flow_maps
MergedFlows(parts) ==
  [on |-> [d \in UNION {DOMAIN parts[k].on : k \in DOMAIN parts} |->
             Total(LAMBDA k : FlowOn(parts[k], d), DOMAIN parts)],
   unknown |-> UNION {parts[k].unknown : k \in DOMAIN parts}]

\* The flows of some events, with rates from so many days before the first of them.
FlowsFrom(events, to, slack) ==
  IF events = <<>> THEN NoFlows ELSE FlowsOf(events, to, FirstEvent(events) - slack)

\* portfolio_flows_known_on_date
KnownOn(flows, d) == \A u \in flows.unknown : d < u

TradeEvent(t) ==
  [day |-> t.day, amount |-> IF t.type = "BUY" THEN t.qty * t.price ELSE - (t.qty * t.price),
   ccy |-> IF t.sym \in Range(Funds) THEN FundCurrency ELSE t.ccy]

TradeEvents(ts) ==
  LET traded == SelectSeq(ts, LAMBDA t : ~IsSplit(t))
  IN  [k \in DOMAIN traded |-> TradeEvent(traded[k])]

\* Mutant: only purchases move money in or out.
PurchasesOnly(ts, base) ==
  FlowsFrom(SelectSeq(TradeEvents(ts), LAMBDA e : e.amount > 0), base, 0)

\* build_legacy_transaction_external_flows: no rate from before the first flow is used.
LegacyFlows(ts, base) == FlowsFrom(TradeEvents(ts), base, 0)

\* Mutant: the settlement of a trade counts as a withdrawal or a deposit.
SettlementsFlow(p) ==
  SetToSeq({[day |-> r.day, ccy |-> r.ccy, amount |-> r.amount]
              : r \in {x \in CashRows : x.portfolio = p /\ x.day <= today}})
  \o [k \in DOMAIN TradeEvents(TradesIn({p})) |->
        [TradeEvents(TradesIn({p}))[k] EXCEPT !.amount = -@]]

\* is_cash_aware_external_ledger_entry: deposits and withdrawals, not the settlements.
CashEvents(p) ==
  SetToSeq({[day |-> r.day, ccy |-> r.ccy, amount |-> r.amount]
              : r \in {x \in CashRows : x.portfolio = p /\ x.day <= today}})

\* build_cash_aware_external_flows
CashFlows(p, to) == FlowsFrom(CashEvents(p), to, FillDays)

\* classify_bank_cash_movement: what is paid in or out by hand.  Deposits placed and
\* their interest are internal, or income.
IsExternal(row) == row.type \in {"OPENING_BALANCE", "MANUAL_DEPOSIT", "MANUAL_WITHDRAWAL",
                                 "ADJUSTMENT"}

BankEvents(ps, all) ==
  SetToSeq(UNION {{[of |-> a.name, row |-> r, day |-> r.day, ccy |-> a.ccy, amount |-> r.amount]
                     : r \in {x \in RowsOf(a) : IsExternal(x)}} : a \in Includable(ps, all)})

\* build_bank_cash_external_flows
BankFlows(ps, all, to) == FlowsFrom(BankEvents(ps, all), to, FillDays)

\* A flow map in another currency; its own first flow is where the rates begin.
FlowsInDisplay(flows, base) ==
  LET days == DOMAIN flows.on
      found(d) == Lookup(rates, base, Display, d, Min(days))
      known == {d \in days : found(d).day # 0}
  IN  IF base = Display THEN flows
      ELSE [on |-> [d \in known |-> Converted(flows.on[d], base, Display, found(d))],
            unknown |-> flows.unknown \cup (days \ known)]

\* build_all_scope_external_flows and portfolio_external_flows_for_scope.  Portfolios
\* that are not cash aware are measured in their base currency when they are alone.
ExternalFlows(ps, all) ==
  LET inBase(flows, base) == IF all THEN FlowsInDisplay(flows, base) ELSE flows
      legacy(ts) == inBase(LegacyFlows(ts, BaseCurrency(ts)), BaseCurrency(ts))
      own(p) == IF IsAware(p) THEN CashFlows(p, Display) ELSE legacy(TradesIn({p}))
      unit == IF all \/ IsAware(Alone(ps)) \/ TradesIn(ps) = <<>> THEN Display
              ELSE BaseCurrency(TradesIn(ps))
  IN  MergedFlows(<<MergedFlows([p \in ps |-> own(p)]), BankFlows(ps, all, unit)>>)

-----------------------------------------------------------------------------
\* Interest paid to an account that the scope does not count: the income attributed to
\* it (list_fd_attributed_income_events).
Attributed(ps, all) ==
  {w \in Payouts : w.portfolio \in ps /\ w.day <= today
                   /\ w.account \notin {a.name : a \in Includable(ps, all)}}

\* Mutant: interest counts as income wherever it was paid to.
AttributedAlways(ps, all, to) ==
  FlowsFrom(SetToSeq({w \in Payouts : w.portfolio \in ps /\ w.day <= today}), to, FillDays)

\* build_fd_attributed_income_by_date
AttributedIncome(ps, all, to) == FlowsFrom(SetToSeq(Attributed(ps, all)), to, FillDays)

Through(flows, d) == Total(LAMBDA e : flows.on[e], {e \in DOMAIN flows.on : e <= d})

\* merge_fd_attributed_income_into_return_timeseries
WithIncome(series, income, emit) ==
  LET from == IF emit = 0 THEN today ELSE emit
  IN  IF income.on = <<>> THEN series
      ELSE IF series = <<>>
      THEN [d \in {e \in DOMAIN income.on : from <= e} |->
              [value |-> Through(income, d), invested |-> 0, status |-> "ok"]]
      ELSE [d \in DOMAIN series |->
              [series[d] EXCEPT !.value =
                 IF @ = Missing THEN Missing ELSE @ + Through(income, d)]]

\* _apply_fd_bank_to_return_timeseries
WithDebtReturns(series, ps, all, emit, deposits, bank) ==
  LET start == DebtStart(ps, all)
      days == DOMAIN series
      from == IF days # {} THEN Min(days \cup start)
              ELSE IF emit # 0 THEN emit ELSE Min(start)
      to == IF days = {} THEN today ELSE Max(days)
  IN  IF days = {} /\ start = {} THEN series
      ELSE WithDebt(series,
                    IF deposits THEN DepositSeries(ps, from, to) ELSE <<>>,
                    IF bank THEN BankSeries(ps, all, from, to) ELSE <<>>, from, to)

\* What one portfolio brings to the return metrics, without deposits and accounts.  A
\* cash-aware one is not converted; its cash is in the display currency already.
OwnReturns(series, ts, p, emit) ==
  LET from == IF emit # 0 THEN emit ELSE Min(CashStart({p}) \cup {today})
  IN  IF IsAware(p) THEN WithCash(series, CashSeries({p}, from, today))
      ELSE IF ts = <<>> THEN <<>> ELSE InDisplay(series, BaseCurrency(ts), emit)

\* build_return_value_timeseries
ReturnSeries(ps, all, emit) ==
  LET own(ts, p) == OwnReturns(BaseSeries(ts, emit), ts, p, emit)
      part(p) == WithDebtReturns(own(TradesIn({p}), p), {p}, FALSE, emit, TRUE, ~all)
      whole(parts) == IF all THEN WithDebtReturns(Summed(parts), ps, TRUE, emit, FALSE, TRUE)
                      ELSE parts[Alone(ps)]
  IN  WithIncome(whole([p \in ps |-> part(p)]), AttributedIncome(ps, all, Display), emit)

\* contributions_and_withdrawals_through, on the net flow of each day.
Contributed(flows, d) ==
  Total(LAMBDA e : flows.on[e], {e \in DOMAIN flows.on : e <= d /\ flows.on[e] >= 0})
Withdrawn(flows, d) ==
  Total(LAMBDA e : - flows.on[e], {e \in DOMAIN flows.on : e <= d /\ flows.on[e] < 0})

\* _cumulative_return_points: the gain a return is told for, Missing where it is not told.
\* The return is this gain over the contributions.
CumulativeGain(series, flows, start) ==
  [d \in {e \in DOMAIN series : start <= e} |->
     IF \/ series[d].value = Missing
        \/ ~KnownOn(flows, d)
        \/ Contributed(flows, d) <= 0
     THEN Missing
     ELSE series[d].value + Withdrawn(flows, d) - Contributed(flows, d)]

GainTold(ps, all, back) ==
  LET start == RangeStart(back, ScopeStart(ps, all))
  IN  CumulativeGain(ReturnSeries(ps, all, IF back = 0 THEN 0 ELSE start),
                     ExternalFlows(ps, all), start)

\* compute_twror_series: the gain of each day against the value of the day before, and
\* Missing where the chain says nothing.
ChainedGain(series, flows, start) ==
  LET days == {e \in DOMAIN series : start <= e}
      previous(d) == Max({e \in days : e < d})
  IN  [d \in days |->
         IF \/ d = Min(days)
            \/ series[d].value = Missing
            \/ series[previous(d)].value <= 0
            \/ ~KnownOn(flows, d)
         THEN Missing
         ELSE series[d].value - FlowOn(flows, d) - series[previous(d)].value]

DailyGain(ps, all, back) ==
  LET start == RangeStart(back, ScopeStart(ps, all))
  IN  ChainedGain(ReturnSeries(ps, all, IF back = 0 THEN 0 ELSE start),
                  ExternalFlows(ps, all), start)

-----------------------------------------------------------------------------
\* The flows from the investor's side, what a portfolio is worth today, and whether a rate
\* is missing.
Solved(flows, holdings, cash, deposits, accounts) ==
  [flows    |-> [d \in DOMAIN flows.on |-> -flows.on[d]],
   terminal |-> (IF holdings = Missing THEN 0 ELSE holdings)
                + cash.value + deposits.value + accounts.value,
   blocked  |-> \/ flows.unknown # {} \/ holdings = Missing
                \/ cash.status = "fx_unavailable"
                \/ deposits.missing \/ accounts.missing]

\* Interest received is money the investor gets.
AsReceived(income) == [income EXCEPT !.on = [d \in DOMAIN income.on |-> -income.on[d]]]

\* The trades of a portfolio as flows in its base currency, funds in theirs.
BaseEvents(ts, base) ==
  LET event(t) == [TradeEvent(t) EXCEPT !.ccy = IF t.sym \in Range(Funds) THEN @ ELSE base]
      all(traded) == [k \in DOMAIN traded |-> event(traded[k])]
  IN  all(SelectSeq(ts, LAMBDA t : ~IsSplit(t)))

\* _portfolio_xirr_inputs
XirrInputs(ts, p, unit, bank) ==
  LET base == IF ts = <<>> THEN unit ELSE BaseCurrency(ts)
  IN  Solved(MergedFlows(<<IF IsAware(p) THEN CashFlows(p, unit)
                           ELSE FlowsFrom(BaseEvents(ts, base), unit, FillDays),
                           AsReceived(AttributedIncome({p}, FALSE, unit)),
                           IF bank THEN BankFlows({p}, FALSE, unit) ELSE NoFlows>>),
             Converted(SecuritiesTotals(ts).value, base, unit,
                       Lookup(rates, base, unit, today, today - FillDays)),
             IF IsAware(p) THEN CashToday({p}, unit) ELSE NoCash,
             DepositTotals({p}, unit),
             IF bank THEN BankTotals({p}, FALSE, unit) ELSE Nothing)

\* The flows and values of all portfolios and of the accounts of their scope.
XirrSums(parts, accounts, bank) ==
  LET ps == DOMAIN parts
      days == UNION {DOMAIN parts[p].flows : p \in ps} \cup DOMAIN bank.on
      onDay(p, d) == IF d \in DOMAIN parts[p].flows THEN parts[p].flows[d] ELSE 0
  IN  [flows    |-> [d \in days |-> Total(LAMBDA p : onDay(p, d), ps) - FlowOn(bank, d)],
       terminal |-> Total(LAMBDA p : parts[p].terminal, ps) + accounts.value,
       blocked  |-> (\E p \in ps : parts[p].blocked) \/ accounts.missing \/ bank.unknown # {}]

\* Mutant: the accounts of the scope of all are counted with each portfolio as well.
XirrBankTwice(ps) ==
  XirrSums([p \in ps |-> XirrInputs(TradesIn({p}), p, Display, TRUE)],
           BankTotals(ps, TRUE, Display), BankFlows(ps, TRUE, Display))

\* compute_scope_xirr_detail for all portfolios; one that is blocked blocks them all.
XirrOfAll(ps) ==
  XirrSums([p \in ps |-> XirrInputs(TradesIn({p}), p, Display, FALSE)],
           BankTotals(ps, TRUE, Display), BankFlows(ps, TRUE, Display))

\* compute_scope_xirr_detail for one portfolio, in its base currency.
XirrOfOne(ts, p) == XirrInputs(ts, p, IF ts = <<>> THEN Display ELSE BaseCurrency(ts), TRUE)

Xirr(ps, all) == IF all THEN XirrOfAll(ps) ELSE XirrOfOne(TradesIn(ps), Alone(ps))
=============================================================================
