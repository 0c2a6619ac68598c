----------------------------- MODULE MarketSync -----------------------------
(***************************************************************************)
(* The cache of prices and exchange rates and the synchronous runs that    *)
(* fill it (market_data/services, fx/services.py).                         *)
(*                                                                         *)
(* A run is a sequence of phases; a phase takes its items one after the    *)
(* other, asks the provider for the days that are missing, and upserts the *)
(* rows one by one, each in a transaction of its own.  The provider may    *)
(* fail for an item (Outage), and the process may die between two rows     *)
(* (Crash).  The user writes trades at any time, during a run as well.     *)
(*                                                                         *)
(* The provider is external: it quotes a symbol on its open days, and      *)
(* after a split it restates the closes before it.  The quote of a day     *)
(* does not change otherwise.  A run does not pass midnight, and runs do   *)
(* not overlap.                                                            *)
(***************************************************************************)
EXTENDS FxLookup, Sequences, SequencesExt, Functions

CONSTANTS
  Portfolios,
  Stocks, Indices, Funds,   \* symbols, in the order they are synced in
  QuotedIn,       \* the currency a stock or index is quoted in
  FundCurrency,   \* MF_BASE_CURRENCY
  Quotes,         \* what the provider quotes: symbol -> open day -> price
  Splits,         \* splits the provider restates for: [sym, day, from, to]
  FxOpen,         \* days with exchange rates
  Alphabet,       \* the currencies in the order of their names, a sequence
  Plans,          \* the runs of an instance: [phases, only]
  Histories,      \* trades brought in before the first run: [day, trades]
  Inputs,         \* trades the user may write after that
  MaxEdits,       \* bound on trades written or deleted
  MaxRuns,        \* bound on runs begun
  MaxFaults       \* bound on outages and crashes

Symbols == Range(Stocks) \cup Range(Indices) \cup Range(Funds)
PhaseNames == {"STOCK", "INDEX", "FX", "FUND"}
Pairs == {pair \in Currencies \X Currencies : pair[1] # pair[2]}

\* The runs there are: each sync on its own, and all of them, the rates and the funds
\* left out when the request says so.
FullRun == <<"STOCK", "INDEX", "FX", "FUND">>
SyncRuns ==
  {<<phase>> : phase \in PhaseNames}
  \cup {FullRun, <<"STOCK", "INDEX">>, <<"STOCK", "INDEX", "FX">>, <<"STOCK", "INDEX", "FUND">>}

\* The trades of a fund are purchases and sales.
Trades ==
  {t \in [portfolio : Portfolios, sym : Symbols, type : {"BUY", "SELL", "STOCK_SPLIT"},
          day : Days, qty : Nat, price : Nat, ccy : Currencies, from : Nat, to : Nat] :
     t.sym \in Range(Funds) => t.type # "STOCK_SPLIT"}

ASSUME MarketAssumption ==
  /\ {Stocks, Indices, Funds} \subseteq Seq(Symbols)
  /\ Range(Stocks) \cap Range(Indices) = {}
  /\ (Range(Stocks) \cup Range(Indices)) \cap Range(Funds) = {}
  /\ \A s \in Symbols : DOMAIN Quotes[s] \subseteq Days
  /\ FundCurrency \in Currencies
  /\ \A s \in Range(Stocks) \cup Range(Indices) : QuotedIn[s] \in Currencies
  /\ Alphabet \in Seq(Currencies) /\ Range(Alphabet) = Currencies
  /\ FxOpen \subseteq Days
  /\ \A plan \in Plans : plan.phases \in SyncRuns /\ plan.only \subseteq Symbols
  /\ \A h \in Histories : /\ h.day \in Days /\ h.trades \in Seq(Trades)
                          /\ IsInjective(h.trades)
                          /\ \A t \in Range(h.trades) : t.day <= h.day
  /\ Inputs \subseteq Trades
  /\ {MaxEdits, MaxRuns, MaxFaults} \subseteq Nat

VARIABLES
  today,
  txns,      \* trades in the order they were written
  prices,    \* historical_prices: symbol -> cached day -> close
  rates,     \* fx_rates
  stamp,     \* day of last_sync_timestamp, 0 for none
  job,       \* the run in progress
  torn,      \* history: items whose rows a crash cut short, <<symbol>> or a pair
  current,   \* history: a full run has ended well and nothing changed since
  edits, runs, faults     \* what the bounds count

market == <<today, txns, prices, rates, stamp, job, torn, current,
            edits, runs, faults>>

\* A run: the phases left, the first of them in progress; the items left of it; the days
\* of the trades there were when the phase of the indices began; whether all was answered;
\* and, as history, whether it is a full run over unchanged trades.
NoJob ==
  [phases |-> <<>>, todo |-> {}, anchor |-> {}, ok |-> TRUE, full |-> FALSE, stamps |-> FALSE]
Idle == job.phases = <<>>

-----------------------------------------------------------------------------
TradeDays(trades) == {t.day : t \in trades}
TradesOf(s) == {t \in Range(txns) : t.sym = s}

Product(f(_), S) == FoldSet(LAMBDA x, n : f(x) * n, 1, S)

\* What the provider answers for a day when it is asked on another.
Close(s, d, asked) ==
  LET after == {x \in Splits : x.sym = s /\ d < x.day /\ x.day <= asked}
  IN  (Quotes[s][d] * Product(LAMBDA x : x.from, after)) \div Product(LAMBDA x : x.to, after)

ASSUME QuoteAssumption ==
  \A s \in Symbols : \A d \in DOMAIN Quotes[s] : \A asked \in Days :
    Close(s, d, asked) \in Nat \ {0}

\* _symbol_base_currency of the syncs: the currency that comes first by name.
BaseOf(s) ==
  LET used == {t.ccy : t \in TradesOf(s)}
  IN  IF used = {} THEN Display
      ELSE Alphabet[Min({k \in DOMAIN Alphabet : Alphabet[k] \in used})]

PairDays(pair) == {d \in Days : <<pair[1], pair[2], d>> \in rates}

-----------------------------------------------------------------------------
\* Mutant: older trades do not reach further back than the cache.
NeverBackfilled(required, cached) ==
  IF cached = {} THEN required ELSE Max(cached) + 1

\* Mutant: once there is something cached, only the day of the run is asked for.
NewestOnly(required, cached) ==
  IF cached = {} \/ required < Min(cached) THEN required ELSE today

\* resolve_stock_sync_start_date and resolve_fx_sync_start_date.
SyncStart(required, cached) ==
  IF cached = {} \/ required < Min(cached) THEN required ELSE Max(cached) + 1

\* The first trade of a symbol, and the day from which a priced stock is valued.
FirstTrade(s) == Min(TradeDays(TradesOf(s)))
IsPriced(s) == s \in Range(Stocks) /\ prices[s] # <<>>
NeededFrom(s) ==
  {FirstTrade(s)} \cup (IF IsPriced(s) THEN {Min(DOMAIN prices[s])} ELSE {})

\* earliest_required_fx_date: the days from which valuations need a pair, for the cash of
\* trades, the stocks quoted in its currency and the symbols kept in its currency.
Traded == {s \in Symbols : TradesOf(s) # {}}
PaidDays(pair) == TradeDays({t \in Range(txns) : t.ccy = pair[1] /\ pair[2] = Display})
ValuedDays(pair) ==
  UNION {NeededFrom(s) : s \in {q \in Traded : /\ IsPriced(q) /\ QuotedIn[q] = pair[1]
                                               /\ pair[2] \in {BaseOf(q), Display}}}
KeptDays(pair) ==
  {FirstTrade(s) : s \in {q \in Traded : BaseOf(q) = pair[1] /\ pair[2] = Display}}

\* Mutant: only the days of trades in the pair's own currency are asked for.
RequiredByTradesOnly(pair) == PaidDays(pair)

FxRequired(pair) == PaidDays(pair) \cup ValuedDays(pair) \cup KeptDays(pair)

\* collect_fx_pairs
CollectedPairs ==
  LET priced == {s \in Range(Stocks) : prices[s] # <<>>}
      bases(s) == IF TradesOf(s) = {} THEN {} ELSE {BaseOf(s)}
  IN  Pairs \cap
      ({<<t.ccy, Display>> : t \in Range(txns)}
       \cup UNION {{<<QuotedIn[s], Display>>}
                   \cup {<<QuotedIn[s], base>> : base \in bases(s)}
                   \cup {<<base, Display>> : base \in bases(s)} : s \in priced})

\* The items of a phase, cut down to the symbols of the request when there are any.
ItemsOf(phase, only) ==
  CASE phase = "STOCK" -> {s \in Range(Stocks) : TradesOf(s) # {} /\ s \in only}
    [] phase = "INDEX" -> IF txns = <<>> THEN {} ELSE Range(Indices)
    [] phase = "FX"    -> CollectedPairs
    [] phase = "FUND"  -> Range(Funds) \cap only

\* earliest_transaction_date is read once, when the phase begins, for all indices.
AnchorOf(phase) == IF phase = "INDEX" THEN TradeDays(Range(txns)) ELSE {}

Phase == Head(job.phases)

\* Stocks, funds and pairs of currencies are taken in the order of their symbols, indices
\* in the order of their display names, which is the one Indices lists them in.
Place(x, names) == CHOOSE k \in DOMAIN names : names[k] = x
Rank(i) ==
  CASE Phase = "STOCK" -> Place(i, Stocks)
    [] Phase = "INDEX" -> Place(i, Indices)
    [] Phase = "FX"    -> Place(i[1], Alphabet) * Len(Alphabet) + Place(i[2], Alphabet)
    [] Phase = "FUND"  -> Place(i, Funds)
Due == CHOOSE i \in job.todo : \A j \in job.todo : Rank(i) <= Rank(j)

CachedDays(i) == IF Phase = "FX" THEN PairDays(i) ELSE DOMAIN prices[i]
OpenDays(i) == IF Phase = "FX" THEN FxOpen ELSE DOMAIN Quotes[i]

\* The day from which an item is needed, as a set with that day or none.
Required(i) ==
  LET days == CASE Phase = "INDEX" -> job.anchor
                [] Phase = "FX"    -> FxRequired(i)
                [] OTHER           -> TradeDays(TradesOf(i))
  IN  IF days = {} THEN {} ELSE {Min(days)}

\* First day asked for, as a set with that day or none.  A fund with cached values goes
\* on from them whatever its trades are, and never looks back.
StartOf(i) ==
  IF Phase = "FUND" /\ CachedDays(i) # {} THEN {Max(CachedDays(i)) + 1}
  ELSE {SyncStart(day, CachedDays(i)) : day \in Required(i)}

\* Mutant: a day too many is asked for.
OneDayMore(i) == {d \in OpenDays(i) : d <= today + 1 /\ \E start \in StartOf(i) : start <= d}

\* What the provider has to answer; nothing when there is nothing to ask.
Answer(i) == {d \in OpenDays(i) : d <= today /\ \E start \in StartOf(i) : start <= d}
Asks(i) == \E start \in StartOf(i) : start <= today

\* Rows of the given days upserted.
Upserted(i, days) ==
  IF Phase = "FX"
  THEN /\ rates' = rates \cup {<<i[1], i[2], d>> : d \in days}
       /\ UNCHANGED prices
  ELSE /\ prices' = [prices EXCEPT ![i] =
                       [d \in days \cup DOMAIN @ |->
                          IF d \in days THEN Close(i, d, today) ELSE @[d]]]
       /\ UNCHANGED rates

-----------------------------------------------------------------------------
MarketInit ==
  /\ \E h \in Histories : today = h.day /\ txns = h.trades
  /\ stamp = 0
  /\ prices = [s \in Symbols |-> <<>>]
  /\ rates = {}
  /\ job = NoJob
  /\ torn = {} /\ current = FALSE
  /\ edits = 0 /\ runs = 0 /\ faults = 0

NextDay ==
  /\ Idle /\ today < LastDay
  /\ today' = today + 1
  /\ current' = FALSE
  /\ UNCHANGED <<txns, prices, rates, stamp, job, torn, edits, runs, faults>>

WriteTrade(t) ==
  /\ edits < MaxEdits
  /\ t \notin Range(txns) /\ t.day <= today
  /\ edits' = edits + 1
  /\ txns' = Append(txns, t)
  /\ job' = [job EXCEPT !.full = FALSE]
  /\ current' = FALSE
  /\ UNCHANGED <<today, prices, rates, stamp, torn, runs, faults>>

DeleteTrade(k) ==
  /\ edits < MaxEdits
  /\ edits' = edits + 1
  /\ txns' = RemoveAt(txns, k)
  /\ job' = [job EXCEPT !.full = FALSE]
  /\ current' = FALSE
  /\ UNCHANGED <<today, prices, rates, stamp, torn, runs, faults>>

\* sync_all_market_data with its flags, or one of the syncs on its own.  Only a run that
\* begins with the stocks sets the time stamp.
StartSync(plan) ==
  /\ Idle /\ runs < MaxRuns
  /\ runs' = runs + 1
  /\ job' = [phases |-> plan.phases, todo |-> ItemsOf(Head(plan.phases), plan.only),
             anchor |-> AnchorOf(Head(plan.phases)), ok |-> TRUE,
             stamps |-> Head(plan.phases) = "STOCK",
             full |-> plan.phases = FullRun /\ plan.only = Symbols]
  /\ current' = FALSE
  /\ UNCHANGED <<today, txns, prices, rates, stamp, torn, edits, faults>>

\* An item with nothing to ask for, or one the provider answers.
SyncItem ==
  /\ job.todo # {}
  /\ IF Asks(Due) THEN Upserted(Due, Answer(Due)) ELSE UNCHANGED <<prices, rates>>
  /\ job' = [job EXCEPT !.todo = @ \ {Due}]
  /\ UNCHANGED <<today, txns, stamp, torn, current, edits, runs, faults>>

\* A failure is counted against the run, except for a fund.
Outage ==
  /\ job.todo # {} /\ Asks(Due)
  /\ faults < MaxFaults
  /\ job' = [job EXCEPT !.todo = @ \ {Due}, !.ok = @ /\ Phase = "FUND"]
  /\ faults' = faults + 1
  /\ UNCHANGED <<today, txns, prices, rates, stamp, torn, current, edits, runs>>

\* The process dies after the rows up to a day.
Crash ==
  /\ job.todo # {} /\ faults < MaxFaults
  /\ \E last \in Answer(Due) : Upserted(Due, {d \in Answer(Due) : d <= last})
  /\ torn' = torn \cup {IF Phase = "FX" THEN Due ELSE <<Due>>}
  /\ job' = NoJob
  /\ faults' = faults + 1
  /\ UNCHANGED <<today, txns, stamp, current, edits, runs>>

\* The next phase finds its items when it begins.
NextPhase ==
  /\ ~Idle /\ job.todo = {} /\ Len(job.phases) > 1
  /\ job' = [job EXCEPT !.phases = Tail(@), !.todo = ItemsOf(job.phases[2], Symbols),
                        !.anchor = AnchorOf(job.phases[2])]
  /\ UNCHANGED <<today, txns, prices, rates, stamp, torn, current, edits, runs, faults>>

\* Mutant: the time stamp is set whatever the items answered.
FinishAnyway ==
  /\ ~Idle /\ job.todo = {} /\ Len(job.phases) = 1
  /\ stamp' = IF job.stamps THEN today ELSE stamp
  /\ current' = job.full
  /\ job' = NoJob
  /\ UNCHANGED <<today, txns, prices, rates, torn, edits, runs, faults>>

FinishSync ==
  /\ ~Idle /\ job.todo = {} /\ Len(job.phases) = 1
  /\ stamp' = IF job.ok /\ job.stamps THEN today ELSE stamp
  /\ current' = (job.ok /\ job.full)
  /\ job' = NoJob
  /\ UNCHANGED <<today, txns, prices, rates, torn, edits, runs, faults>>

MarketNext ==
  \/ NextDay
  \/ \E t \in Inputs : WriteTrade(t)
  \/ \E k \in DOMAIN txns : DeleteTrade(k)
  \/ \E plan \in Plans : StartSync(plan)
  \/ SyncItem \/ Outage \/ Crash \/ NextPhase \/ FinishSync

Spec == MarketInit /\ [][MarketNext]_market

-----------------------------------------------------------------------------
\* The cache holds closes of open days up to today and rates of pairs of currencies, and
\* a run is over once it has no phase left (historical_prices, fx_rates).
MarketTypeOK ==
  /\ today \in Days /\ stamp \in 0..today /\ edits \in 0..MaxEdits /\ runs \in 0..MaxRuns
  /\ faults \in 0..MaxFaults
  /\ Range(txns) \subseteq Trades /\ IsInjective(txns)
  /\ \A s \in Symbols : \A d \in DOMAIN prices[s] :
       d <= today /\ d \in DOMAIN Quotes[s] /\ prices[s][d] \in Nat \ {0}
  /\ \A r \in rates : <<r[1], r[2]>> \in Pairs /\ r[3] \in FxOpen \cap 1..today
  /\ Range(job.phases) \subseteq PhaseNames /\ (Idle => job = NoJob)
  /\ torn \subseteq {<<s>> : s \in Symbols} \cup Pairs

Whole(S) == {s \in S : <<s>> \notin torn}

Unbroken(open, cached) ==
  \A d \in open : (\E e, f \in cached : e <= d /\ d <= f) => d \in cached

\* An item that no crash has cut short has no open day missing between two cached ones,
\* whatever was asked for, failed or backfilled and in which order: the syncs find out
\* what is missing from the first and the last cached day alone.
CachesUnbroken ==
  /\ \A s \in Whole(Symbols) : Unbroken(DOMAIN Quotes[s], DOMAIN prices[s])
  /\ \A pair \in Pairs \ torn : Unbroken(FxOpen, PairDays(pair))

Complete(open, cached, needed) ==
  needed # {} => open \cap Min(needed)..today \subseteq cached

\* After a full run that reports success nothing is missing of a stock or a rate from the
\* day it is first needed, or of an index from the first trade, until the next change.
CurrentCachesComplete ==
  current =>
    /\ \A s \in Whole(Range(Stocks)) :
         Complete(DOMAIN Quotes[s], DOMAIN prices[s], TradeDays(TradesOf(s)))
    /\ \A s \in Whole(Range(Indices)) :
         Complete(DOMAIN Quotes[s], DOMAIN prices[s], TradeDays(Range(txns)))
    /\ \A pair \in CollectedPairs \ torn : Complete(FxOpen, PairDays(pair), FxRequired(pair))
=============================================================================
