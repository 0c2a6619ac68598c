-------------------------- MODULE MarketSync_proofs --------------------------
(***************************************************************************)
(* What holds of the cache of market data in every state, for any symbols, *)
(* quotes, trades, runs, outages and crashes.                              *)
(***************************************************************************)
EXTENDS MarketSync, FoldLemmas

-----------------------------------------------------------------------------
(* The inductive invariant.                                                *)

\* What a run has left to do: a tail of one of the runs there are, with items of the
\* phase it is in.
JobPhases ==
  SyncRuns \cup {<<"INDEX", "FX", "FUND">>, <<"INDEX", "FX">>, <<"INDEX", "FUND">>,
                 <<"FX", "FUND">>}
ItemsIn(phase) ==
  CASE phase = "STOCK" -> Range(Stocks)
    [] phase = "INDEX" -> Range(Indices)
    [] phase = "FX"    -> Pairs
    [] phase = "FUND"  -> Range(Funds)

JobOK ==
  \/ job = NoJob
  \/ /\ job \in [phases : JobPhases, todo : SUBSET (Symbols \cup Pairs), ok : BOOLEAN,
                 full : BOOLEAN, stamps : BOOLEAN, anchor : SUBSET Days]
     /\ job.todo \subseteq ItemsIn(Phase)
     /\ ~current

\* What the variables hold, beyond MarketTypeOK.
MarketShape ==
  /\ txns \in Seq(Trades)
  /\ DOMAIN prices = Symbols
  /\ \A s \in Symbols : prices[s] = [d \in DOMAIN prices[s] |-> prices[s][d]]
  /\ rates \subseteq Currencies \X Currencies \X Days
  /\ current \in BOOLEAN

StockDone(s) == Complete(DOMAIN Quotes[s], DOMAIN prices[s], TradeDays(TradesOf(s)))
IndexDone(s) == Complete(DOMAIN Quotes[s], DOMAIN prices[s], TradeDays(Range(txns)))
PairDone(pair) == Complete(FxOpen, PairDays(pair), FxRequired(pair))

\* What a full run over unchanged trades has completed so far, if all was answered.
RunSoFar ==
  (~Idle /\ job.full /\ job.ok) =>
    /\ job.phases \in {FullRun, <<"INDEX", "FX", "FUND">>, <<"FX", "FUND">>, <<"FUND">>}
    /\ Phase = "INDEX" => job.anchor = TradeDays(Range(txns))
    /\ \A s \in Whole(Range(Stocks)) :
         (Phase = "STOCK" /\ TradesOf(s) # {} /\ s \in job.todo) \/ StockDone(s)
    /\ \A s \in Whole(Range(Indices)) :
         Phase = "STOCK" \/ (Phase = "INDEX" /\ s \in job.todo) \/ IndexDone(s)
    /\ \A pair \in CollectedPairs \ torn :
         Phase \in {"STOCK", "INDEX"} \/ (Phase = "FX" /\ pair \in job.todo) \/ PairDone(pair)

MInv == MarketTypeOK /\ MarketShape /\ JobOK /\ CachesUnbroken /\ RunSoFar
          /\ CurrentCachesComplete

-----------------------------------------------------------------------------
(* Days.                                                                   *)

\* A set of days that is not empty has a first and a last one.
LEMMA FirstAndLast ==
  ASSUME NEW D \in SUBSET Days, D # {}
  PROVE  /\ Min(D) \in D /\ Max(D) \in D /\ D \subseteq Int
         /\ \A d \in D : Min(D) <= d /\ d <= Max(D)
<1>1. LastDay \in Nat
  BY FxAssumption DEF FxAssumption
<1>2. Days \in SUBSET Int /\ IsFiniteSet(Days)
  BY <1>1, FS_Interval DEF Days
<1>3. D \in SUBSET Int /\ IsFiniteSet(D)
  BY <1>2, FS_Subset
<1>. QED
  BY <1>3, MaxMin

\* Filling up from the day a sync starts at leaves no day out between two that are there.
LEMMA FillsUp ==
  ASSUME NEW open \in SUBSET Days, NEW cached \in SUBSET open, today \in Days,
         \A d \in cached : d <= today, Unbroken(open, cached),
         NEW start \in Int,
         cached # {} => start < Min(cached) \/ start = Max(cached) + 1
  PROVE  Unbroken(open, cached \cup {d \in open : d <= today /\ start <= d})
<1>. DEFINE answer == {d \in open : d <= today /\ start <= d}
<1>0. open \subseteq Int /\ today \in Int
  BY FxAssumption DEF FxAssumption, Days
<1>1. CASE cached = {}
  BY <1>0, <1>1 DEF Unbroken
<1>2. CASE cached # {}
  <2>1. /\ Min(cached) \in cached /\ Max(cached) \in cached
        /\ \A d \in cached : Min(cached) <= d /\ d <= Max(cached)
    BY <1>2, FirstAndLast
  <2>. SUFFICES ASSUME NEW d \in open, NEW e \in cached \cup answer,
                       NEW f \in cached \cup answer, e <= d, d <= f
                PROVE  d \in cached \cup answer
    BY DEF Unbroken
  <2>2. /\ d \in Int /\ e \in Int /\ f \in Int
        /\ Min(cached) \in Int /\ Max(cached) \in Int
    BY <1>0, <2>1
  <2>3. d <= today
    BY <1>0, <2>2
  <2>4. CASE start <= d
    BY <2>3, <2>4
  <2>5. CASE ~(start <= d)
    <3>1. e \in cached
      <4>1. e \in answer => start <= e
        OBVIOUS
      <4>. QED
        BY <2>2, <2>5, <4>1
    <3>2. Min(cached) <= e
      BY <2>1, <3>1
    <3>3. start = Max(cached) + 1
      BY <1>2, <2>2, <2>5, <3>2
    <3>4. d <= Max(cached)
      BY <2>2, <2>5, <3>3
    <3>. QED
      BY <2>1, <3>1, <3>4 DEF Unbroken
  <2>. QED
    BY <2>4, <2>5
<1>. QED
  BY <1>1, <1>2

\* Starting where a sync does also leaves no day out from the first that is needed.
LEMMA FillsFromFirst ==
  ASSUME NEW open \in SUBSET Days, NEW cached \in SUBSET open, today \in Days,
         \A d \in cached : d <= today,
         NEW needed \in SUBSET Days, needed # {},
         NEW start, start = SyncStart(Min(needed), cached),
         NEW answer, answer = {d \in open : d <= today /\ start <= d}
  PROVE  /\ start \in Int
         /\ cached # {} => start < Min(cached) \/ start = Max(cached) + 1
         /\ Unbroken(open, cached) =>
              Complete(open, cached \cup answer, needed)
<1>0. open \subseteq Int /\ today \in Int /\ Min(needed) \in Int
  BY FxAssumption, FirstAndLast DEF FxAssumption, Days
<1>1. CASE cached = {}
  BY <1>0, <1>1 DEF SyncStart, Complete
<1>2. CASE cached # {}
  <2>1. /\ Min(cached) \in cached /\ Max(cached) \in cached /\ cached \subseteq Int
        /\ \A d \in cached : Min(cached) <= d /\ d <= Max(cached)
    BY <1>2, FirstAndLast
  <2>2. CASE Min(needed) < Min(cached)
    BY <1>0, <1>2, <2>1, <2>2 DEF SyncStart, Complete
  <2>3. CASE ~(Min(needed) < Min(cached))
    <3>1. start = Max(cached) + 1
      BY <1>2, <2>3 DEF SyncStart
    <3>2. ASSUME Unbroken(open, cached), NEW d \in open, Min(needed) <= d, d <= today
          PROVE  d \in cached \/ start <= d
      <4>1. d \in Int /\ Min(cached) \in Int /\ Max(cached) \in Int
        BY <1>0, <2>1
      <4>2. CASE d <= Max(cached)
        <5>1. Min(cached) <= d
          BY <1>0, <2>3, <3>2, <4>1
        <5>. QED
          BY <2>1, <3>2, <4>2, <5>1 DEF Unbroken
      <4>3. CASE ~(d <= Max(cached))
        BY <3>1, <4>1, <4>3
      <4>. QED
        BY <4>2, <4>3
    <3>3. ASSUME Unbroken(open, cached)
          PROVE  Complete(open, cached \cup answer, needed)
      BY <1>0, <3>2, <3>3 DEF Complete
    <3>. QED
      BY <2>1, <3>1, <3>3
  <2>. QED
    BY <2>2, <2>3
<1>. QED
  BY <1>1, <1>2

\* What is complete stays so when more is cached or less is needed of the past.
LEMMA MoreStaysComplete ==
  ASSUME NEW open, NEW cached, NEW more, cached \subseteq more, NEW needed,
         Complete(open, cached, needed)
  PROVE  Complete(open, more, needed)
BY DEF Complete

-----------------------------------------------------------------------------
(* The items of a run.                                                     *)

\* The lists have only symbols in them, and no symbol is in two of them.
LEMMA Lists ==
  /\ Range(Stocks) \subseteq Symbols /\ Range(Indices) \subseteq Symbols
  /\ Range(Funds) \subseteq Symbols
  /\ Range(Stocks) \cap Range(Indices) = {} /\ Range(Stocks) \cap Range(Funds) = {}
  /\ Range(Indices) \cap Range(Funds) = {}
  /\ \A s \in Symbols : DOMAIN Quotes[s] \in SUBSET Days
  /\ FxOpen \in SUBSET Days
BY MarketAssumption DEF MarketAssumption, Symbols

\* A function of no argument is the empty sequence.
LEMMA NoArgument ==
  ASSUME NEW f, f = [x \in DOMAIN f |-> f[x]], DOMAIN f = {}
  PROVE  f = <<>>
OBVIOUS

\* The days an item is needed on are days.
LEMMA NeededDays ==
  ASSUME MarketTypeOK, MarketShape
  PROVE  /\ TradeDays(Range(txns)) \in SUBSET Days
         /\ \A s : TradeDays(TradesOf(s)) \in SUBSET Days
         /\ \A s : TradeDays(TradesOf(s)) # {} <=> TradesOf(s) # {}
         /\ \A s \in Symbols : DOMAIN prices[s] \in SUBSET Days
         /\ \A pair : FxRequired(pair) \in SUBSET Days
<1>1. \A t \in Range(txns) : t.day \in Days
  BY DEF MarketTypeOK, Trades
<1>2. \A s : TradesOf(s) \subseteq Range(txns)
  BY DEF TradesOf
<1>3. TradeDays(Range(txns)) \in SUBSET Days /\ \A s : TradeDays(TradesOf(s)) \in SUBSET Days
  BY <1>1, <1>2 DEF TradeDays
<1>4. \A s : TradeDays(TradesOf(s)) # {} <=> TradesOf(s) # {}
  BY DEF TradeDays
<1>5. \A s \in Symbols : DOMAIN prices[s] \in SUBSET Days
  BY Lists DEF MarketTypeOK
<1>6. ASSUME NEW pair
      PROVE  FxRequired(pair) \in SUBSET Days
  <2>1. ASSUME NEW s \in Symbols, TradesOf(s) # {}
        PROVE  FirstTrade(s) \in Days
    BY <1>3, <1>4, <2>1, FirstAndLast DEF FirstTrade
  <2>2. ASSUME NEW s, IsPriced(s)
        PROVE  Min(DOMAIN prices[s]) \in Days
    <3>1. s \in Symbols /\ prices[s] = [d \in DOMAIN prices[s] |-> prices[s][d]]
      BY <2>2, Lists DEF IsPriced, MarketShape
    <3>2. prices[s] # <<>>
      BY <2>2 DEF IsPriced
    <3>3. DOMAIN prices[s] # {}
      BY <3>1, <3>2, NoArgument
    <3>. QED
      BY <1>5, <3>1, <3>3, FirstAndLast
  <2>3. ASSUME NEW s \in Symbols, TradesOf(s) # {}
        PROVE  NeededFrom(s) \subseteq Days
    BY <2>1, <2>2, <2>3 DEF NeededFrom
  <2>4. PaidDays(pair) \subseteq Days
    BY <1>1 DEF PaidDays, TradeDays
  <2>5. ValuedDays(pair) \subseteq Days
    BY <2>3 DEF ValuedDays, Traded
  <2>6. KeptDays(pair) \subseteq Days
    BY <2>1 DEF KeptDays, Traded
  <2>. QED
    BY <2>4, <2>5, <2>6 DEF FxRequired
<1>. QED
  BY <1>3, <1>4, <1>5, <1>6

\* While a run has items left there is one whose turn it is.
LEMMA DueIsThere ==
  ASSUME JobOK, job.todo # {}
  PROVE  /\ ~Idle /\ Phase \in PhaseNames /\ job.phases \in JobPhases
         /\ Due \in job.todo /\ Due \in ItemsIn(Phase)
<1>1. /\ job.phases \in JobPhases
      /\ job.todo \subseteq ItemsIn(Phase)
  BY DEF JobOK, NoJob
<1>2. ~Idle /\ Phase \in PhaseNames
  BY <1>1 DEF Idle, JobPhases, SyncRuns, FullRun, PhaseNames, Phase
<1>3. ASSUME NEW S, NEW names \in Seq(S), NEW x \in Range(names)
      PROVE  Place(x, names) \in Nat
  <2>1. \E k \in DOMAIN names : names[k] = x
    BY DEF Range
  <2>2. DOMAIN names \subseteq Nat
    OBVIOUS
  <2>. QED
    BY <2>1, <2>2 DEF Place
<1>4. \A i \in ItemsIn(Phase) : Rank(i) \in Nat
  <2>1. CASE Phase = "STOCK"
    BY <1>3, <2>1, MarketAssumption DEF MarketAssumption, ItemsIn, Rank
  <2>2. CASE Phase = "INDEX"
    BY <1>3, <2>2, MarketAssumption DEF MarketAssumption, ItemsIn, Rank
  <2>3. CASE Phase = "FUND"
    BY <1>3, <2>3, MarketAssumption DEF MarketAssumption, ItemsIn, Rank
  <2>4. CASE Phase = "FX"
    <3>. SUFFICES ASSUME NEW i \in Pairs PROVE Rank(i) \in Nat
      BY <2>4 DEF ItemsIn
    <3>1. i[1] \in Range(Alphabet) /\ i[2] \in Range(Alphabet)
      BY MarketAssumption DEF MarketAssumption, Pairs
    <3>2. Place(i[1], Alphabet) \in Nat /\ Place(i[2], Alphabet) \in Nat
      BY <1>3, <3>1, MarketAssumption DEF MarketAssumption
    <3>3. Len(Alphabet) \in Nat
      BY MarketAssumption DEF MarketAssumption
    <3>4. \A a, b, c \in Nat : a * b + c \in Nat
      OBVIOUS
    <3>5. Rank(i) = Place(i[1], Alphabet) * Len(Alphabet) + Place(i[2], Alphabet)
      BY <2>4 DEF Rank
    <3>. QED
      BY <3>2, <3>3, <3>4, <3>5
  <2>. QED
    BY <1>2, <2>1, <2>2, <2>3, <2>4 DEF PhaseNames
<1>5. \E i \in job.todo : \A j \in job.todo : Rank(i) <= Rank(j)
  <2>. DEFINE ranks == {Rank(i) : i \in job.todo}
  <2>1. ranks \in SUBSET Nat /\ ranks # {}
    BY <1>1, <1>4
  <2>2. PICK n \in ranks : \A m \in ranks : n <= m
    BY <2>1, LeastNumber
  <2>. QED
    BY <2>2
<1>6. Due \in job.todo
  BY <1>5 DEF Due
<1>. QED
  BY <1>1, <1>2, <1>6

-----------------------------------------------------------------------------
(* Rows upserted.                                                          *)

\* What the type of the cache is made of.
CacheTypes ==
  /\ DOMAIN prices = Symbols
  /\ \A s \in Symbols : prices[s] = [d \in DOMAIN prices[s] |-> prices[s][d]]
  /\ \A s \in Symbols : \A d \in DOMAIN prices[s] :
       d <= today /\ d \in DOMAIN Quotes[s] /\ prices[s][d] \in Nat \ {0}
  /\ rates \subseteq Currencies \X Currencies \X Days
  /\ \A r \in rates : <<r[1], r[2]>> \in Pairs /\ r[3] \in FxOpen \cap 1..today

\* Closes upserted are added to the cached days of one symbol, and to no other.
LEMMA UpsertedPrices ==
  ASSUME CacheTypes, today \in Days, today' = today, NEW i \in Symbols,
         NEW days \in SUBSET DOMAIN Quotes[i],
         \A d \in days : d <= today, Phase # "FX", Upserted(i, days)
  PROVE  /\ CacheTypes' /\ rates' = rates
         /\ DOMAIN prices'[i] = DOMAIN prices[i] \cup days
         /\ \A s \in Symbols : s # i => prices'[s] = prices[s]
<1>. DEFINE new == [d \in days \cup DOMAIN prices[i] |->
                     IF d \in days THEN Close(i, d, today) ELSE prices[i][d]]
<1>1. prices' = [prices EXCEPT ![i] = new] /\ rates' = rates
  BY DEF Upserted
<1>2. DOMAIN new = days \cup DOMAIN prices[i] /\ new = [d \in DOMAIN new |-> new[d]]
  OBVIOUS
<1>3. \A d \in DOMAIN new : new[d] \in Nat \ {0}
  <2>1. \A d \in days : Close(i, d, today) \in Nat \ {0}
    BY QuoteAssumption DEF QuoteAssumption
  <2>. QED
    BY <2>1 DEF CacheTypes
<1>4. \A d \in DOMAIN new : d <= today /\ d \in DOMAIN Quotes[i]
  BY <1>2 DEF CacheTypes
<1>. HIDE DEF new
<1>5. /\ DOMAIN prices' = Symbols /\ prices'[i] = new
      /\ \A s \in Symbols : s # i => prices'[s] = prices[s]
  BY <1>1 DEF CacheTypes
<1>6. CacheTypes'
  <2>1. ASSUME NEW s \in Symbols
        PROVE  /\ prices'[s] = [d \in DOMAIN prices'[s] |-> prices'[s][d]]
               /\ \A d \in DOMAIN prices'[s] :
                    d <= today /\ d \in DOMAIN Quotes[s] /\ prices'[s][d] \in Nat \ {0}
    <3>1. CASE s = i
      BY <1>2, <1>3, <1>4, <1>5, <3>1
    <3>2. CASE s # i
      BY <1>5, <3>2 DEF CacheTypes
    <3>. QED
      BY <3>1, <3>2
  <2>. QED
    BY <1>1, <1>5, <2>1 DEF CacheTypes
<1>. QED
  BY <1>1, <1>2, <1>5, <1>6

\* Rates upserted are added to the cached days of one pair, and to no other.
LEMMA UpsertedRates ==
  ASSUME CacheTypes, today \in Days, today' = today, NEW i \in Pairs,
         NEW days \in SUBSET FxOpen, \A d \in days : d <= today, Phase = "FX",
         Upserted(i, days)
  PROVE  /\ CacheTypes' /\ prices' = prices
         /\ PairDays(i)' = PairDays(i) \cup days
         /\ \A pair \in Pairs : pair # i => PairDays(pair)' = PairDays(pair)
<1>1. prices' = prices /\ rates' = rates \cup {<<i[1], i[2], d>> : d \in days}
  BY DEF Upserted
<1>2. days \subseteq Days
  BY Lists
<1>3. i = <<i[1], i[2]>> /\ i[1] \in Currencies /\ i[2] \in Currencies
  BY DEF Pairs
<1>4. \A r \in rates' \ rates :
        r \in Currencies \X Currencies \X Days /\ <<r[1], r[2]>> \in Pairs /\ r[3] \in days
  BY <1>1, <1>2, <1>3
<1>5. \A d \in days : d \in FxOpen \cap 1..today
  BY <1>2 DEF Days
<1>6. CacheTypes'
  <2>1. \A r \in rates' : /\ r \in Currencies \X Currencies \X Days
                          /\ <<r[1], r[2]>> \in Pairs /\ r[3] \in FxOpen \cap 1..today
    BY <1>4, <1>5 DEF CacheTypes
  <2>. QED
    BY <1>1, <2>1 DEF CacheTypes
<1>7. PairDays(i)' = PairDays(i) \cup days
  BY <1>1, <1>2, <1>3 DEF PairDays
<1>8. ASSUME NEW pair \in Pairs, pair # i
      PROVE  PairDays(pair)' = PairDays(pair)
  <2>1. pair = <<pair[1], pair[2]>>
    BY DEF Pairs
  <2>2. \A d : <<pair[1], pair[2], d>> \in rates' <=> <<pair[1], pair[2], d>> \in rates
    BY <1>1, <1>3, <1>8, <2>1
  <2>. QED
    BY <2>2 DEF PairDays
<1>. QED
  BY <1>1, <1>6, <1>7, <1>8

-----------------------------------------------------------------------------
(* What the provider is asked.                                             *)

\* The days an item of the phase is needed on.
DaysOf(i) ==
  CASE Phase = "INDEX" -> job.anchor
    [] Phase = "FX"    -> FxRequired(i)
    [] OTHER           -> TradeDays(TradesOf(i))

\* The days a run keeps are days.
LEMMA AnchorDays ==
  ASSUME JobOK
  PROVE  job.anchor \in SUBSET Days
BY DEF JobOK, NoJob

\* What is cached of an item is of open days up to today, and its days are days.
LEMMA ItemDays ==
  ASSUME MarketTypeOK, MarketShape, JobOK, Phase \in PhaseNames, NEW i \in ItemsIn(Phase)
  PROVE  /\ OpenDays(i) \in SUBSET Days /\ CachedDays(i) \in SUBSET OpenDays(i)
         /\ \A d \in CachedDays(i) : d <= today
         /\ DaysOf(i) \in SUBSET Days
         /\ IF Phase = "FX" THEN i \in Pairs ELSE i \in Symbols
<1>1. CASE Phase = "FX"
  <2>1. i \in Pairs
    BY <1>1 DEF ItemsIn
  <2>2. OpenDays(i) = FxOpen /\ CachedDays(i) = PairDays(i) /\ DaysOf(i) = FxRequired(i)
    BY <1>1 DEF OpenDays, CachedDays, DaysOf
  <2>3. \A d \in PairDays(i) : d \in FxOpen /\ d <= today
    <3>. SUFFICES ASSUME NEW d \in PairDays(i) PROVE d \in FxOpen /\ d <= today
      OBVIOUS
    <3>1. <<i[1], i[2], d>> \in rates
      BY DEF PairDays
    <3>2. d \in FxOpen \cap 1..today
      BY <3>1 DEF MarketTypeOK
    <3>. QED
      BY <3>2
  <2>. QED
    BY <1>1, <2>1, <2>2, <2>3, Lists, NeededDays
<1>2. CASE Phase # "FX"
  <2>1. i \in Symbols
    BY <1>2, Lists DEF ItemsIn, PhaseNames
  <2>2. OpenDays(i) = DOMAIN Quotes[i] /\ CachedDays(i) = DOMAIN prices[i]
    BY <1>2 DEF OpenDays, CachedDays
  <2>3. DaysOf(i) \in SUBSET Days
    BY <1>2, NeededDays, AnchorDays DEF DaysOf, PhaseNames
  <2>. QED
    BY <1>2, <2>1, <2>2, <2>3, Lists DEF MarketTypeOK
<1>. QED
  BY <1>1, <1>2

\* The answer is the open days from the start of the sync, if there is one.  What was
\* unbroken stays so, and what is needed of a stock, an index or a rate is then there.
LEMMA Answered ==
  ASSUME MarketTypeOK, MarketShape, JobOK, Phase \in PhaseNames, NEW i \in ItemsIn(Phase)
  PROVE  /\ Answer(i) \in SUBSET OpenDays(i) /\ \A d \in Answer(i) : d <= today
         /\ ~Asks(i) => Answer(i) = {}
         /\ Unbroken(OpenDays(i), CachedDays(i)) =>
              /\ Unbroken(OpenDays(i), CachedDays(i) \cup Answer(i))
              /\ Phase # "FUND" =>
                   Complete(OpenDays(i), CachedDays(i) \cup Answer(i), DaysOf(i))
<1>. DEFINE open == OpenDays(i)
            cached == CachedDays(i)
            needed == DaysOf(i)
<1>1. /\ open \in SUBSET Days /\ cached \in SUBSET open /\ needed \in SUBSET Days
      /\ \A d \in cached : d <= today
      /\ today \in Days
  BY ItemDays DEF MarketTypeOK
<1>2. Days \subseteq Int
  BY FxAssumption DEF FxAssumption, Days
<1>3. Answer(i) = {d \in open : d <= today /\ \E start \in StartOf(i) : start <= d}
  BY DEF Answer
<1>4. Required(i) = IF needed = {} THEN {} ELSE {Min(needed)}
  BY DEF Required, DaysOf
<1>5. StartOf(i) = IF Phase = "FUND" /\ cached # {} THEN {Max(cached) + 1}
                   ELSE {SyncStart(day, cached) : day \in Required(i)}
  BY DEF StartOf
<1>. HIDE DEF open, cached, needed
<1>9. today \in Int /\ \A d \in open : d \in Int
  BY <1>1, <1>2
<1>6. CASE Phase = "FUND" /\ cached # {}
  <2>1. StartOf(i) = {Max(cached) + 1}
    BY <1>5, <1>6
  <2>2. Max(cached) \in Int
    BY <1>1, <1>2, <1>6, FirstAndLast
  <2>3. Answer(i) = {d \in open : d <= today /\ Max(cached) + 1 <= d}
    BY <1>3, <2>1
  <2>4. Unbroken(open, cached) => Unbroken(open, cached \cup Answer(i))
    BY <1>1, <2>2, <2>3, FillsUp
  <2>5. ~Asks(i) => Answer(i) = {}
    BY <1>9, <2>1, <2>2, <2>3 DEF Asks
  <2>. QED
    BY <1>3, <1>6, <2>4, <2>5 DEF open, cached, needed
<1>7. CASE ~(Phase = "FUND" /\ cached # {}) /\ needed # {}
  <2>. DEFINE start == SyncStart(Min(needed), cached)
  <2>1. StartOf(i) = {start}
    BY <1>4, <1>5, <1>7
  <2>2. Answer(i) = {d \in open : d <= today /\ start <= d}
    BY <1>3, <2>1
  <2>8. start = SyncStart(Min(needed), cached)
    OBVIOUS
  <2>. HIDE DEF start
  <2>3. /\ start \in Int
        /\ cached # {} => start < Min(cached) \/ start = Max(cached) + 1
        /\ Unbroken(open, cached) => Complete(open, cached \cup Answer(i), needed)
    <3>1. ASSUME NEW st, st = SyncStart(Min(needed), cached), NEW ans,
                 ans = {d \in open : d <= today /\ st <= d}
          PROVE  /\ st \in Int
                 /\ cached # {} => st < Min(cached) \/ st = Max(cached) + 1
                 /\ Unbroken(open, cached) => Complete(open, cached \cup ans, needed)
      <4>1. open \in SUBSET Days /\ cached \in SUBSET open /\ today \in Days
        BY <1>1
      <4>2. \A d \in cached : d <= today
        BY <1>1
      <4>3. needed \in SUBSET Days /\ needed # {}
        BY <1>1, <1>7
      <4>. QED
        BY ONLY <3>1, <4>1, <4>2, <4>3, FillsFromFirst, ZenonT(60)
    <3>. QED
      BY <2>2, <2>8, <3>1
  <2>4. Unbroken(open, cached) => Unbroken(open, cached \cup Answer(i))
    BY <1>1, <2>2, <2>3, FillsUp
  <2>5. ~Asks(i) => Answer(i) = {}
    BY <1>9, <2>1, <2>2, <2>3 DEF Asks
  <2>. QED
    BY <1>3, <2>2, <2>3, <2>4, <2>5 DEF open, cached, needed
<1>8. CASE ~(Phase = "FUND" /\ cached # {}) /\ needed = {}
  <2>1. Answer(i) = {}
    BY <1>3, <1>4, <1>5, <1>8
  <2>2. Complete(open, cached \cup Answer(i), needed)
    BY <1>8 DEF Complete
  <2>3. cached \cup Answer(i) = cached
    BY <2>1
  <2>. QED
    BY <2>1, <2>2, <2>3 DEF open, cached, needed
<1>. QED
  BY <1>6, <1>7, <1>8

-----------------------------------------------------------------------------
(* Steps of a run.                                                         *)

\* The caches have their types.
LEMMA CacheOfTypes ==
  ASSUME MarketTypeOK, MarketShape
  PROVE  CacheTypes
BY DEF MarketTypeOK, MarketShape, CacheTypes

\* An item taken adds what was answered to its own days and to no others.
LEMMA ItemSynced ==
  ASSUME MarketTypeOK, MarketShape, JobOK, SyncItem, NEW i, i = Due,
         NEW answer, answer = Answer(i)
  PROVE  /\ i \in ItemsIn(Phase) /\ Phase \in PhaseNames
         /\ CacheTypes'
         /\ IF Phase = "FX"
            THEN /\ prices' = prices /\ i \in Pairs
                 /\ PairDays(i)' = PairDays(i) \cup answer
                 /\ \A pair \in Pairs : pair # i => PairDays(pair)' = PairDays(pair)
            ELSE /\ rates' = rates /\ i \in Symbols
                 /\ DOMAIN prices'[i] = DOMAIN prices[i] \cup answer
                 /\ \A s \in Symbols : s # i => prices'[s] = prices[s]
<1>1. job.todo # {} /\ today' = today
  BY DEF SyncItem
<1>2. i \in ItemsIn(Phase) /\ Phase \in PhaseNames
  BY <1>1, DueIsThere
<1>3. /\ answer \in SUBSET OpenDays(i) /\ \A d \in answer : d <= today
      /\ ~Asks(i) => answer = {}
  BY <1>2, Answered
<1>4. IF Phase = "FX" THEN i \in Pairs ELSE i \in Symbols
  BY <1>2, ItemDays
<1>5. IF Asks(i) THEN Upserted(i, answer) ELSE UNCHANGED <<prices, rates>>
  BY DEF SyncItem
<1>6. CacheTypes /\ today \in Days
  BY CacheOfTypes DEF MarketTypeOK
<1>7. CASE ~Asks(i)
  <2>1. prices' = prices /\ rates' = rates /\ answer = {}
    BY <1>3, <1>5, <1>7
  <2>2. CacheTypes'
    BY <1>1, <1>6, <2>1 DEF CacheTypes
  <2>3. \A pair : PairDays(pair)' = PairDays(pair)
    BY <2>1 DEF PairDays
  <2>. QED
    BY <1>2, <1>4, <2>1, <2>2, <2>3
<1>8. CASE Asks(i) /\ Phase = "FX"
  <2>1. answer \in SUBSET FxOpen
    BY <1>3, <1>8 DEF OpenDays
  <2>2. /\ CacheTypes' /\ prices' = prices
        /\ PairDays(i)' = PairDays(i) \cup answer
        /\ \A pair \in Pairs : pair # i => PairDays(pair)' = PairDays(pair)
    BY <1>1, <1>3, <1>4, <1>5, <1>6, <1>8, <2>1, UpsertedRates
  <2>. QED
    BY <1>2, <1>4, <1>8, <2>2
<1>9. CASE Asks(i) /\ Phase # "FX"
  <2>1. answer \in SUBSET DOMAIN Quotes[i]
    BY <1>3, <1>9 DEF OpenDays
  <2>2. /\ CacheTypes' /\ rates' = rates
        /\ DOMAIN prices'[i] = DOMAIN prices[i] \cup answer
        /\ \A s \in Symbols : s # i => prices'[s] = prices[s]
    BY <1>1, <1>3, <1>4, <1>5, <1>6, <1>9, <2>1, UpsertedPrices
  <2>. QED
    BY <1>2, <1>4, <1>9, <2>2
<1>. QED
  BY <1>7, <1>8, <1>9

\* The pairs that are needed, and from when, depend on the trades and on the prices of
\* stocks only.
LEMMA RatesNeededSame ==
  ASSUME txns' = txns, \A s \in Range(Stocks) : prices'[s] = prices[s]
  PROVE  CollectedPairs' = CollectedPairs /\ \A pair : FxRequired(pair)' = FxRequired(pair)
<1>1. \A s : TradesOf(s)' = TradesOf(s)
  BY DEF TradesOf
<1>2. \A s : BaseOf(s)' = BaseOf(s) /\ FirstTrade(s)' = FirstTrade(s)
  BY <1>1 DEF BaseOf, FirstTrade, TradeDays
<1>3. \A s : IsPriced(s)' = IsPriced(s)
  BY DEF IsPriced
<1>4. \A s : NeededFrom(s)' = NeededFrom(s)
  BY <1>2, <1>3 DEF NeededFrom, IsPriced
<1>5. Traded' = Traded
  BY <1>1 DEF Traded
<1>6. ASSUME NEW pair
      PROVE  FxRequired(pair)' = FxRequired(pair)
  <2>1. PaidDays(pair)' = PaidDays(pair)
    BY DEF PaidDays, TradeDays
  <2>2. ValuedDays(pair)' = ValuedDays(pair)
    BY <1>2, <1>3, <1>4, <1>5 DEF ValuedDays
  <2>3. KeptDays(pair)' = KeptDays(pair)
    BY <1>2, <1>5 DEF KeptDays
  <2>. QED
    BY <2>1, <2>2, <2>3 DEF FxRequired
<1>7. CollectedPairs' = CollectedPairs
  BY <1>1, <1>2 DEF CollectedPairs
<1>. QED
  BY <1>6, <1>7

\* A trade written or deleted leaves no trade twice in the list.
LEMMA TradesStayDistinct ==
  ASSUME txns \in Seq(Trades), IsInjective(txns)
  PROVE  /\ \A t \in Trades \ Range(txns) :
              /\ Append(txns, t) \in Seq(Trades) /\ IsInjective(Append(txns, t))
              /\ Range(Append(txns, t)) \subseteq Trades
         /\ \A k \in DOMAIN txns :
              /\ RemoveAt(txns, k) \in Seq(Trades) /\ IsInjective(RemoveAt(txns, k))
              /\ Range(RemoveAt(txns, k)) \subseteq Trades
<1>1. \A seq \in Seq(Trades) : Range(seq) \subseteq Trades
  BY DEF Range
<1>2. ASSUME NEW t \in Trades \ Range(txns)
      PROVE  Append(txns, t) \in Seq(Trades) /\ IsInjective(Append(txns, t))
  <2>1. \A k \in 1..Len(txns) : txns[k] # t
    BY DEF Range
  <2>. QED
    BY <2>1 DEF IsInjective
<1>3. ASSUME NEW k \in DOMAIN txns
      PROVE  RemoveAt(txns, k) \in Seq(Trades) /\ IsInjective(RemoveAt(txns, k))
  <2>. DEFINE rest == RemoveAt(txns, k)
  <2>1. /\ rest \in Seq(Trades) /\ Len(rest) = Len(txns) - 1
        /\ \A j \in 1..Len(rest) : rest[j] = IF j < k THEN txns[j] ELSE txns[j + 1]
    <3>. DEFINE before == SubSeq(txns, 1, k - 1)
                after == SubSeq(txns, k + 1, Len(txns))
    <3>1. k \in 1..Len(txns) /\ Len(txns) \in Nat
      OBVIOUS
    <3>2. /\ before \in Seq(Trades) /\ Len(before) = k - 1
          /\ \A j \in 1..(k - 1) : before[j] = txns[j]
      BY <3>1
    <3>3. /\ after \in Seq(Trades) /\ Len(after) = Len(txns) - k
          /\ \A j \in 1..(Len(txns) - k) : after[j] = txns[k + j]
      BY <3>1
    <3>4. rest = before \o after
      BY DEF RemoveAt
    <3>. HIDE DEF before, after, rest
    <3>5. rest \in Seq(Trades) /\ Len(rest) = Len(txns) - 1
      BY <3>1, <3>2, <3>3, <3>4
    <3>6. ASSUME NEW j \in 1..Len(rest)
          PROVE  rest[j] = IF j < k THEN txns[j] ELSE txns[j + 1]
      <4>1. rest[j] = IF j <= k - 1 THEN before[j] ELSE after[j - (k - 1)]
        BY <3>1, <3>2, <3>3, <3>4, <3>5, SMTT(30)
      <4>2. CASE j < k
        BY <3>1, <3>2, <4>1, <4>2
      <4>3. CASE ~(j < k)
        <5>1. j - (k - 1) \in 1..(Len(txns) - k) /\ k + (j - (k - 1)) = j + 1
          BY <3>1, <3>5, <4>3
        <5>. QED
          BY <3>1, <3>3, <4>1, <4>3, <5>1, SMTT(30)
      <4>. QED
        BY <4>2, <4>3
    <3>. QED
      BY <3>5, <3>6
  <2>. HIDE DEF rest
  <2>2. IsInjective(rest)
    <3>1. /\ DOMAIN rest = 1..Len(rest) /\ DOMAIN txns = 1..Len(txns) /\ Len(txns) \in Nat
          /\ k \in 1..Len(txns)
      BY <2>1
    <3>2. \A j \in 1..Len(rest) : j \in 1..Len(txns) /\ j + 1 \in 1..Len(txns)
      BY <2>1, <3>1
    <3>. SUFFICES ASSUME NEW a \in 1..Len(rest), NEW b \in 1..Len(rest), rest[a] = rest[b]
                  PROVE  a = b
      BY <3>1 DEF IsInjective
    <3>. DEFINE at(j) == IF j < k THEN j ELSE j + 1
    <3>3. at(a) \in DOMAIN txns /\ at(b) \in DOMAIN txns
      BY <3>1, <3>2
    <3>4. rest[a] = txns[at(a)] /\ rest[b] = txns[at(b)]
      BY <2>1
    <3>5. at(a) = at(b)
      BY <3>3, <3>4 DEF IsInjective
    <3>. QED
      BY <3>1, <3>5
  <2>. QED
    BY <2>1, <2>2 DEF rest
<1>. QED
  BY <1>1, <1>2, <1>3

\* Between runs the day passes; nothing is said of a full run any more.
LEMMA NextDayKeeps ==
  ASSUME MInv, NextDay
  PROVE  MInv'
<1>1. /\ job = NoJob /\ job' = NoJob /\ current' = FALSE
      /\ today \in Days /\ today' = today + 1 /\ today' \in Days /\ LastDay \in Nat
      /\ UNCHANGED <<txns, prices, rates, stamp, torn, edits, runs, faults>>
  BY FxAssumption DEF MInv, MarketTypeOK, NextDay, FxAssumption, Days
<1>2. MarketTypeOK'
  <2>1. stamp \in 0..today => stamp \in 0..today'
    BY <1>1 DEF Days
  <2>2. \A s \in Symbols : \A d \in DOMAIN prices[s] : d <= today'
    BY <1>1, Lists DEF MInv, MarketTypeOK, Days
  <2>3. \A r \in rates : r[3] \in FxOpen \cap 1..today'
    <3>1. \A r \in rates : r[3] \in FxOpen \cap 1..today
      BY DEF MInv, MarketTypeOK
    <3>2. 1..today \subseteq 1..today'
      BY <1>1 DEF Days
    <3>. QED
      BY <3>1, <3>2
  <2>. QED
    BY <1>1, <2>1, <2>2, <2>3 DEF MInv, MarketTypeOK, Idle, NoJob
<1>3. MarketShape' /\ JobOK'
  BY <1>1 DEF MInv, MarketShape, JobOK
<1>4. CachesUnbroken'
  BY <1>1 DEF MInv, CachesUnbroken, Whole, PairDays
<1>5. RunSoFar' /\ CurrentCachesComplete'
  BY <1>1 DEF RunSoFar, CurrentCachesComplete, Idle, NoJob
<1>. QED
  BY <1>2, <1>3, <1>4, <1>5 DEF MInv

\* A trade written or deleted ends the claim of a full run, in progress or over.
LEMMA EditKeeps ==
  ASSUME MInv,
         \/ \E t \in Inputs : WriteTrade(t)
         \/ \E k \in DOMAIN txns : DeleteTrade(k)
  PROVE  MInv'
<1>1. /\ edits < MaxEdits /\ edits' = edits + 1
      /\ job' = [job EXCEPT !.full = FALSE] /\ current' = FALSE
      /\ UNCHANGED <<today, prices, rates, stamp, torn, runs, faults>>
  BY DEF WriteTrade, DeleteTrade
<1>2. txns' \in Seq(Trades) /\ IsInjective(txns') /\ Range(txns') \subseteq Trades
  <2>1. txns \in Seq(Trades) /\ IsInjective(txns)
    BY DEF MInv, MarketShape, MarketTypeOK
  <2>2. CASE \E t \in Inputs : WriteTrade(t)
    <3>1. PICK t \in Inputs : WriteTrade(t)
      BY <2>2
    <3>2. t \in Trades \ Range(txns) /\ txns' = Append(txns, t)
      BY <3>1, MarketAssumption DEF MarketAssumption, WriteTrade
    <3>. QED
      BY <2>1, <3>2, TradesStayDistinct
  <2>3. CASE \E k \in DOMAIN txns : DeleteTrade(k)
    <3>1. PICK k \in DOMAIN txns : txns' = RemoveAt(txns, k)
      BY <2>3 DEF DeleteTrade
    <3>. QED
      BY <2>1, <3>1, TradesStayDistinct
  <2>. QED
    BY <2>2, <2>3
<1>3. job = NoJob => job' = NoJob
  <2>. SUFFICES ASSUME job = NoJob PROVE job' = NoJob
    OBVIOUS
  <2>1. job' = [NoJob EXCEPT !.full = FALSE]
    BY <1>1
  <2>. QED
    BY <2>1 DEF NoJob
<1>4. JobOK'
  <2>1. CASE job = NoJob
    BY <1>3, <2>1 DEF JobOK
  <2>2. CASE job # NoJob
    <3>1. /\ job \in [phases : JobPhases, todo : SUBSET (Symbols \cup Pairs), ok : BOOLEAN,
                      full : BOOLEAN, stamps : BOOLEAN, anchor : SUBSET Days]
          /\ job.todo \subseteq ItemsIn(Phase)
      BY <2>2 DEF MInv, JobOK
    <3>2. /\ job' \in [phases : JobPhases, todo : SUBSET (Symbols \cup Pairs), ok : BOOLEAN,
                       full : BOOLEAN, stamps : BOOLEAN, anchor : SUBSET Days]
          /\ job'.phases = job.phases /\ job'.todo = job.todo
      BY <1>1, <3>1
    <3>3. ItemsIn(Phase)' = ItemsIn(Phase)
      BY <3>2 DEF ItemsIn, Phase
    <3>. QED
      BY <1>1, <3>1, <3>2, <3>3 DEF JobOK
  <2>. QED
    BY <2>1, <2>2
<1>5. job'.phases = job.phases
  BY <1>1 DEF MInv, JobOK, NoJob
<1>6. MarketTypeOK'
  <2>1. edits' \in 0..MaxEdits
    BY <1>1, MarketAssumption DEF MInv, MarketTypeOK, MarketAssumption
  <2>2. Range(job'.phases) \subseteq PhaseNames /\ (Idle' => job' = NoJob)
    BY <1>3, <1>5 DEF MInv, MarketTypeOK, Idle
  <2>. QED
    BY <1>1, <1>2, <2>1, <2>2 DEF MInv, MarketTypeOK
<1>7. MarketShape'
  BY <1>1, <1>2 DEF MInv, MarketShape
<1>8. CachesUnbroken'
  BY <1>1 DEF MInv, CachesUnbroken, Whole, PairDays
<1>9. RunSoFar' /\ CurrentCachesComplete'
  BY <1>1 DEF MInv, JobOK, NoJob, RunSoFar, CurrentCachesComplete
<1>. QED
  BY <1>4, <1>6, <1>7, <1>8, <1>9 DEF MInv

\* The items of a phase are of its kind, whatever the request is cut down to.
LEMMA ItemsOfKind ==
  ASSUME NEW phase \in PhaseNames, NEW only
  PROVE  ItemsOf(phase, only) \subseteq ItemsIn(phase) \cap (Symbols \cup Pairs)
BY Lists DEF ItemsOf, ItemsIn, PhaseNames, CollectedPairs

\* A run begins with the items of its first phase, and says nothing of a full run yet.
LEMMA StartKeeps ==
  ASSUME MInv, NEW plan \in Plans, StartSync(plan)
  PROVE  MInv'
<1>1. /\ runs < MaxRuns /\ runs' = runs + 1 /\ current' = FALSE
      /\ UNCHANGED <<today, txns, prices, rates, stamp, torn, edits, faults>>
      /\ job' = [phases |-> plan.phases, todo |-> ItemsOf(Head(plan.phases), plan.only),
                 anchor |-> AnchorOf(Head(plan.phases)), ok |-> TRUE,
                 stamps |-> Head(plan.phases) = "STOCK",
                 full |-> plan.phases = FullRun /\ plan.only = Symbols]
  BY DEF StartSync
<1>2. plan.phases \in SyncRuns /\ plan.phases \in JobPhases
  BY MarketAssumption DEF MarketAssumption, JobPhases
<1>3. Head(plan.phases) \in PhaseNames /\ plan.phases # <<>> /\ Range(plan.phases) \subseteq PhaseNames
  BY <1>2 DEF SyncRuns, FullRun, PhaseNames, Range
<1>4. /\ job'.phases = plan.phases /\ job'.todo = ItemsOf(Head(plan.phases), plan.only)
      /\ job'.full = (plan.phases = FullRun /\ plan.only = Symbols)
      /\ Phase' = Head(plan.phases)
  BY <1>1 DEF Phase
<1>5. MarketTypeOK'
  <2>1. runs' \in 0..MaxRuns
    BY <1>1, MarketAssumption DEF MInv, MarketTypeOK, MarketAssumption
  <2>2. Range(job'.phases) \subseteq PhaseNames /\ (Idle' => job' = NoJob)
    BY <1>3, <1>4 DEF Idle
  <2>. QED
    BY <1>1, <2>1, <2>2 DEF MInv, MarketTypeOK
<1>6. MarketShape' /\ CachesUnbroken'
  BY <1>1 DEF MInv, MarketShape, CachesUnbroken, Whole, PairDays
<1>7. JobOK'
  <2>1. job'.todo \subseteq ItemsIn(Head(plan.phases)) /\ job'.todo \subseteq Symbols \cup Pairs
    BY <1>3, <1>4, ItemsOfKind
  <2>2. job'.todo \subseteq ItemsIn(Phase)'
    BY <1>4, <2>1 DEF ItemsIn
  <2>3. job' \in [phases : JobPhases, todo : SUBSET (Symbols \cup Pairs), ok : BOOLEAN,
                  full : BOOLEAN, stamps : BOOLEAN, anchor : SUBSET Days]
    <3>1. AnchorOf(Head(plan.phases)) \in SUBSET Days
      BY NeededDays DEF AnchorOf, MInv
    <3>. QED
      BY <1>1, <1>2, <1>4, <2>1, <3>1
  <2>. QED
    BY <1>1, <2>2, <2>3 DEF JobOK
<1>8. RunSoFar'
  <2>. SUFFICES ASSUME plan.phases = FullRun, plan.only = Symbols
                PROVE  RunSoFar'
    BY <1>4 DEF RunSoFar
  <2>1. Phase' = "STOCK" /\ job'.phases = FullRun
    BY <1>4 DEF FullRun
  <2>2. job'.todo = {s \in Range(Stocks) : TradesOf(s) # {} /\ s \in Symbols}
    BY <1>4 DEF ItemsOf, FullRun
  <2>3. ASSUME NEW s \in Range(Stocks)
        PROVE  (TradesOf(s)' # {} /\ s \in job'.todo) \/ StockDone(s)'
    <3>1. TradesOf(s)' = TradesOf(s) /\ s \in Symbols
      BY <1>1, Lists DEF TradesOf
    <3>2. CASE TradesOf(s) # {}
      BY <2>2, <3>1, <3>2
    <3>3. CASE TradesOf(s) = {}
      BY <3>1, <3>3 DEF StockDone, Complete, TradeDays
    <3>. QED
      BY <3>2, <3>3
  <2>4. \A s \in Whole(Range(Stocks))' : s \in Range(Stocks)
    BY DEF Whole
  <2>. QED
    BY <2>1, <2>3, <2>4 DEF RunSoFar
<1>9. CurrentCachesComplete'
  BY <1>1 DEF CurrentCachesComplete
<1>. QED
  BY <1>5, <1>6, <1>7, <1>8, <1>9 DEF MInv

\* A failure ends the claim of a full run, but for a fund, of which nothing is claimed.
LEMMA OutageKeeps ==
  ASSUME MInv, Outage
  PROVE  MInv'
<1>1. /\ job.todo # {} /\ faults < MaxFaults /\ faults' = faults + 1
      /\ job' = [job EXCEPT !.todo = @ \ {Due}, !.ok = @ /\ Phase = "FUND"]
      /\ UNCHANGED <<today, txns, prices, rates, stamp, torn, current, edits, runs>>
  BY DEF Outage
<1>2. /\ job \in [phases : JobPhases, todo : SUBSET (Symbols \cup Pairs), ok : BOOLEAN,
                  full : BOOLEAN, stamps : BOOLEAN, anchor : SUBSET Days]
      /\ job.todo \subseteq ItemsIn(Phase) /\ ~current /\ ~Idle
  BY <1>1, DueIsThere DEF MInv, JobOK, NoJob
<1>3. /\ job'.phases = job.phases /\ job'.todo = job.todo \ {Due} /\ job'.full = job.full
      /\ job'.anchor = job.anchor
      /\ job'.ok = (job.ok /\ Phase = "FUND")
      /\ job' \in [phases : JobPhases, todo : SUBSET (Symbols \cup Pairs), ok : BOOLEAN,
                   full : BOOLEAN, stamps : BOOLEAN, anchor : SUBSET Days]
  BY <1>1, <1>2
<1>4. Phase' = Phase /\ Idle' = Idle /\ ItemsIn(Phase)' = ItemsIn(Phase)
  BY <1>3 DEF Phase, Idle, ItemsIn
<1>5. MarketTypeOK'
  <2>1. faults' \in 0..MaxFaults
    BY <1>1, MarketAssumption DEF MInv, MarketTypeOK, MarketAssumption
  <2>. QED
    BY <1>1, <1>2, <1>3, <1>4, <2>1 DEF MInv, MarketTypeOK
<1>6. MarketShape' /\ CachesUnbroken'
  BY <1>1 DEF MInv, MarketShape, CachesUnbroken, Whole, PairDays
<1>7. JobOK'
  BY <1>1, <1>2, <1>3, <1>4 DEF JobOK
<1>8. RunSoFar'
  <2>. SUFFICES ASSUME job.full, job.ok, Phase = "FUND"
                PROVE  RunSoFar'
    BY <1>3 DEF RunSoFar
  <2>1. RunSoFar
    BY DEF MInv
  <2>2. CollectedPairs' = CollectedPairs /\ \A pair : FxRequired(pair)' = FxRequired(pair)
    BY <1>1, RatesNeededSame
  <2>3. \A s : StockDone(s)' = StockDone(s) /\ IndexDone(s)' = IndexDone(s)
    BY <1>1 DEF StockDone, IndexDone, TradesOf, TradeDays, Complete
  <2>4. \A pair : PairDone(pair)' = PairDone(pair)
    BY <1>1, <2>2 DEF PairDone, PairDays, Complete
  <2>5. /\ \A s \in Whole(Range(Stocks)) : StockDone(s)
        /\ \A s \in Whole(Range(Indices)) : IndexDone(s)
        /\ \A pair \in CollectedPairs \ torn : PairDone(pair)
    BY <1>2, <2>1 DEF RunSoFar
  <2>6. Whole(Range(Stocks))' = Whole(Range(Stocks)) /\ Whole(Range(Indices))' = Whole(Range(Indices))
    BY <1>1 DEF Whole
  <2>7. job'.phases \in {FullRun, <<"INDEX", "FX", "FUND">>, <<"FX", "FUND">>, <<"FUND">>}
    BY <1>2, <1>3, <2>1 DEF RunSoFar
  <2>8. Phase' # "INDEX"
    BY <1>4
  <2>. QED
    BY <1>1, <2>2, <2>3, <2>4, <2>5, <2>6, <2>7, <2>8 DEF RunSoFar
<1>9. CurrentCachesComplete'
  BY <1>1, <1>2 DEF CurrentCachesComplete
<1>. QED
  BY <1>5, <1>6, <1>7, <1>8, <1>9 DEF MInv

\* A crash leaves the other items as they were; the one it cut short is torn.
LEMMA CrashKeeps ==
  ASSUME MInv, Crash
  PROVE  MInv'
<1>1. /\ job.todo # {} /\ faults < MaxFaults /\ faults' = faults + 1
      /\ \E last \in Answer(Due) : Upserted(Due, {d \in Answer(Due) : d <= last})
      /\ torn' = torn \cup {IF Phase = "FX" THEN Due ELSE <<Due>>}
      /\ job' = NoJob
      /\ UNCHANGED <<today, txns, stamp, current, edits, runs>>
  BY DEF Crash
<1>. DEFINE due == Due
<1>2. PICK i, days : i = due /\ days \in SUBSET Answer(i) /\ Upserted(i, days)
  BY <1>1
<1>. HIDE DEF due
<1>3. i \in ItemsIn(Phase) /\ Phase \in PhaseNames /\ ~current
  BY <1>1, <1>2, DueIsThere DEF MInv, JobOK, NoJob, due
<1>4. /\ Answer(i) \in SUBSET OpenDays(i) /\ \A d \in Answer(i) : d <= today
      /\ IF Phase = "FX" THEN i \in Pairs ELSE i \in Symbols
  BY <1>3, Answered, ItemDays DEF MInv
<1>5. torn' = torn \cup {IF Phase = "FX" THEN i ELSE <<i>>}
  BY <1>1, <1>2 DEF due
<1>6. CacheTypes /\ today \in Days
  BY CacheOfTypes DEF MInv, MarketTypeOK
<1>7. ASSUME Phase = "FX"
      PROVE  CacheTypes' /\ CachesUnbroken' /\ torn' \subseteq {<<s>> : s \in Symbols} \cup Pairs
  <2>1. days \in SUBSET FxOpen /\ \A d \in days : d <= today
    BY <1>2, <1>4, <1>7 DEF OpenDays
  <2>2. /\ CacheTypes' /\ prices' = prices
        /\ \A pair \in Pairs : pair # i => PairDays(pair)' = PairDays(pair)
    BY <1>1, <1>2, <1>4, <1>6, <1>7, <2>1, UpsertedRates
  <2>3. torn' = torn \cup {i} /\ i \in Pairs
    BY <1>4, <1>5, <1>7
  <2>4. CachesUnbroken'
    <3>1. \A s \in Whole(Symbols)' : s \in Whole(Symbols)
      BY <2>3 DEF Whole
    <3>2. \A pair \in Pairs \ torn' : pair \in Pairs \ torn /\ pair # i
      BY <2>3
    <3>. QED
      BY <2>2, <3>1, <3>2 DEF MInv, CachesUnbroken
  <2>5. torn' \subseteq {<<s>> : s \in Symbols} \cup Pairs
    BY <2>3 DEF MInv, MarketTypeOK
  <2>. QED
    BY <2>2, <2>4, <2>5
<1>8. ASSUME Phase # "FX"
      PROVE  CacheTypes' /\ CachesUnbroken' /\ torn' \subseteq {<<s>> : s \in Symbols} \cup Pairs
  <2>1. days \in SUBSET DOMAIN Quotes[i] /\ \A d \in days : d <= today
    BY <1>2, <1>4, <1>8 DEF OpenDays
  <2>2. /\ CacheTypes' /\ rates' = rates
        /\ \A s \in Symbols : s # i => prices'[s] = prices[s]
    BY <1>1, <1>2, <1>4, <1>6, <1>8, <2>1, UpsertedPrices
  <2>3. torn' = torn \cup {<<i>>} /\ i \in Symbols
    BY <1>4, <1>5, <1>8
  <2>4. CachesUnbroken'
    <3>1. \A s \in Whole(Symbols)' : s \in Whole(Symbols) /\ s # i
      BY <2>3 DEF Whole
    <3>2. \A s \in Whole(Symbols)' : DOMAIN prices'[s] = DOMAIN prices[s]
      BY <2>2, <3>1 DEF Whole
    <3>3. \A pair : PairDays(pair)' = PairDays(pair)
      BY <2>2 DEF PairDays
    <3>4. \A pair \in Pairs \ torn' : pair \in Pairs \ torn
      BY <2>3
    <3>. QED
      BY <3>1, <3>2, <3>3, <3>4 DEF MInv, CachesUnbroken
  <2>5. torn' \subseteq {<<s>> : s \in Symbols} \cup Pairs
    BY <2>3 DEF MInv, MarketTypeOK
  <2>. QED
    BY <2>2, <2>4, <2>5
<1>9. CacheTypes' /\ CachesUnbroken' /\ torn' \subseteq {<<s>> : s \in Symbols} \cup Pairs
  BY <1>7, <1>8
<1>10. MarketTypeOK'
  <2>1. faults' \in 0..MaxFaults
    BY <1>1, MarketAssumption DEF MInv, MarketTypeOK, MarketAssumption
  <2>2. Range(NoJob.phases) \subseteq PhaseNames
    BY DEF NoJob, Range
  <2>. QED
    BY <1>1, <1>9, <2>1, <2>2 DEF MInv, MarketTypeOK, CacheTypes
<1>11. MarketShape'
  BY <1>1, <1>9 DEF MInv, MarketShape, CacheTypes
<1>12. JobOK' /\ RunSoFar' /\ CurrentCachesComplete'
  BY <1>1, <1>3 DEF JobOK, RunSoFar, CurrentCachesComplete, Idle, NoJob
<1>. QED
  BY <1>9, <1>10, <1>11, <1>12 DEF MInv

\* What is complete does not depend on the run.
LEMMA DoneSame ==
  ASSUME UNCHANGED <<today, txns, prices, rates, torn>>
  PROVE  /\ CollectedPairs' = CollectedPairs
         /\ \A s : StockDone(s)' = StockDone(s) /\ IndexDone(s)' = IndexDone(s)
         /\ \A pair : PairDone(pair)' = PairDone(pair)
         /\ \A S : Whole(S)' = Whole(S)
<1>1. CollectedPairs' = CollectedPairs /\ \A pair : FxRequired(pair)' = FxRequired(pair)
  BY RatesNeededSame
<1>2. \A s : StockDone(s)' = StockDone(s) /\ IndexDone(s)' = IndexDone(s)
  BY DEF StockDone, IndexDone, TradesOf, TradeDays, Complete
<1>3. \A pair : PairDone(pair)' = PairDone(pair)
  BY <1>1 DEF PairDone, PairDays, Complete
<1>4. \A S : Whole(S)' = Whole(S)
  BY DEF Whole
<1>. QED
  BY <1>1, <1>2, <1>3, <1>4

\* The last phase over, a full run that had all its answers has completed every cache.
LEMMA FinishKeeps ==
  ASSUME MInv, FinishSync
  PROVE  MInv'
<1>1. /\ ~Idle /\ job.todo = {} /\ Len(job.phases) = 1
      /\ stamp' = IF job.ok /\ job.stamps THEN today ELSE stamp
      /\ current' = (job.ok /\ job.full) /\ job' = NoJob
      /\ UNCHANGED <<today, txns, prices, rates, torn, edits, runs, faults>>
  BY DEF FinishSync
<1>2. /\ CollectedPairs' = CollectedPairs
      /\ \A s : StockDone(s)' = StockDone(s) /\ IndexDone(s)' = IndexDone(s)
      /\ \A pair : PairDone(pair)' = PairDone(pair)
      /\ \A S : Whole(S)' = Whole(S)
  BY <1>1, DoneSame
<1>3. MarketTypeOK'
  <2>1. stamp' \in 0..today
    BY <1>1, FxAssumption DEF MInv, MarketTypeOK, Days, FxAssumption
  <2>2. Range(NoJob.phases) \subseteq PhaseNames
    BY DEF NoJob, Range
  <2>. QED
    BY <1>1, <2>1, <2>2 DEF MInv, MarketTypeOK
<1>4. MarketShape' /\ CachesUnbroken' /\ JobOK'
  <2>1. job.ok \in BOOLEAN /\ job.full \in BOOLEAN
    BY <1>1 DEF MInv, JobOK, Idle, NoJob
  <2>. QED
    BY <1>1, <1>2, <2>1 DEF MInv, MarketShape, CachesUnbroken, PairDays, JobOK
<1>5. RunSoFar'
  BY <1>1 DEF RunSoFar, Idle, NoJob
<1>6. CurrentCachesComplete'
  <2>. SUFFICES ASSUME job.ok, job.full
                PROVE  /\ \A s \in Whole(Range(Stocks))' : StockDone(s)'
                       /\ \A s \in Whole(Range(Indices))' : IndexDone(s)'
                       /\ \A pair \in CollectedPairs' \ torn' : PairDone(pair)'
    BY <1>1 DEF CurrentCachesComplete, StockDone, IndexDone, PairDone
  <2>1. job.phases = <<"FUND">> /\ RunSoFar
    BY <1>1 DEF MInv, RunSoFar, FullRun
  <2>2. Phase = "FUND"
    BY <2>1 DEF Phase
  <2>3. /\ \A s \in Whole(Range(Stocks)) : StockDone(s)
        /\ \A s \in Whole(Range(Indices)) : IndexDone(s)
        /\ \A pair \in CollectedPairs \ torn : PairDone(pair)
    BY <1>1, <2>1, <2>2 DEF RunSoFar
  <2>. QED
    BY <1>1, <1>2, <2>3
<1>. QED
  BY <1>3, <1>4, <1>5, <1>6 DEF MInv

\* The phase over has completed its caches; the next one begins with all of its items.
LEMMA PhaseKeeps ==
  ASSUME MInv, NextPhase
  PROVE  MInv'
<1>1. /\ ~Idle /\ job.todo = {} /\ Len(job.phases) > 1
      /\ job' = [job EXCEPT !.phases = Tail(@), !.todo = ItemsOf(job.phases[2], Symbols),
                            !.anchor = AnchorOf(job.phases[2])]
      /\ UNCHANGED <<today, txns, prices, rates, stamp, torn, current, edits, runs, faults>>
  BY DEF NextPhase
<1>2. /\ job \in [phases : JobPhases, todo : SUBSET (Symbols \cup Pairs), ok : BOOLEAN,
                  full : BOOLEAN, stamps : BOOLEAN, anchor : SUBSET Days]
      /\ ~current
  BY <1>1 DEF MInv, JobOK, NoJob, Idle
<1>3. /\ job'.phases = Tail(job.phases) /\ job'.todo = ItemsOf(job.phases[2], Symbols)
      /\ job'.full = job.full /\ job'.ok = job.ok /\ job'.stamps = job.stamps
      /\ job'.anchor = AnchorOf(job.phases[2])
      /\ job' = [job EXCEPT !.phases = job'.phases, !.todo = job'.todo, !.anchor = job'.anchor]
  BY <1>1, <1>2
<1>4. /\ Tail(job.phases) \in JobPhases /\ Tail(job.phases) # <<>>
      /\ Head(Tail(job.phases)) = job.phases[2] /\ job.phases[2] \in PhaseNames
      /\ Range(Tail(job.phases)) \subseteq PhaseNames
  <2>1. job.phases \in {FullRun, <<"STOCK", "INDEX">>, <<"STOCK", "INDEX", "FX">>,
                        <<"STOCK", "INDEX", "FUND">>, <<"INDEX", "FX", "FUND">>,
                        <<"INDEX", "FX">>, <<"INDEX", "FUND">>, <<"FX", "FUND">>}
    <3>1. \A phase : Len(<<phase>>) = 1
      OBVIOUS
    <3>2. ASSUME NEW phase, job.phases = <<phase>>
          PROVE  FALSE
      <4>1. Len(job.phases) = 1
        BY <3>1, <3>2
      <4>. QED
        BY <1>1, <4>1
    <3>. QED
      BY <1>2, <3>2 DEF JobPhases, SyncRuns
  <2>2. \A a, b \in PhaseNames :
          /\ Tail(<<a, b>>) = <<b>> /\ Head(<<b>>) = b /\ <<a, b>>[2] = b /\ <<b>> # <<>>
          /\ Range(<<b>>) \subseteq PhaseNames /\ <<b>> \in JobPhases
    BY DEF Range, JobPhases, SyncRuns
  <2>3. \A a, b, c \in PhaseNames :
          /\ Tail(<<a, b, c>>) = <<b, c>> /\ Head(<<b, c>>) = b /\ <<a, b, c>>[2] = b
          /\ <<b, c>> # <<>> /\ Range(<<b, c>>) \subseteq PhaseNames
    BY DEF Range
  <2>4. \A a, b, c, d \in PhaseNames :
          /\ Tail(<<a, b, c, d>>) = <<b, c, d>> /\ Head(<<b, c, d>>) = b
          /\ <<a, b, c, d>>[2] = b
          /\ <<b, c, d>> # <<>> /\ Range(<<b, c, d>>) \subseteq PhaseNames
    BY DEF Range
  <2>5. {"STOCK", "INDEX", "FX", "FUND"} \subseteq PhaseNames
    BY DEF PhaseNames
  <2>6. CASE job.phases \in {<<"STOCK", "INDEX">>, <<"INDEX", "FX">>, <<"INDEX", "FUND">>,
                             <<"FX", "FUND">>}
    <3>1. PICK a \in PhaseNames, b \in PhaseNames : job.phases = <<a, b>>
      BY <2>5, <2>6
    <3>. QED
      BY <2>2, <3>1
  <2>7. CASE job.phases \in {<<"STOCK", "INDEX", "FX">>, <<"STOCK", "INDEX", "FUND">>,
                             <<"INDEX", "FX", "FUND">>}
    <3>1. {<<"INDEX", "FX">>, <<"INDEX", "FUND">>, <<"FX", "FUND">>} \subseteq JobPhases
      BY DEF JobPhases, SyncRuns
    <3>2. PICK a \in PhaseNames, b \in PhaseNames, c \in PhaseNames :
            job.phases = <<a, b, c>> /\ <<b, c>> \in JobPhases
      BY <2>5, <2>7, <3>1
    <3>. QED
      BY <2>3, <3>2
  <2>8. CASE job.phases = FullRun
    <3>1. <<"INDEX", "FX", "FUND">> \in JobPhases
      BY DEF JobPhases
    <3>. QED
      BY <2>4, <2>5, <2>8, <3>1 DEF FullRun
  <2>. QED
    BY <2>1, <2>6, <2>7, <2>8
<1>5. Phase' = job.phases[2] /\ ~Idle'
  BY <1>3, <1>4 DEF Phase, Idle
<1>6. /\ CollectedPairs' = CollectedPairs
      /\ \A s : StockDone(s)' = StockDone(s) /\ IndexDone(s)' = IndexDone(s)
      /\ \A pair : PairDone(pair)' = PairDone(pair)
      /\ \A S : Whole(S)' = Whole(S)
  BY <1>1, DoneSame
<1>7. MarketTypeOK'
  BY <1>1, <1>3, <1>4, <1>5 DEF MInv, MarketTypeOK
<1>8. MarketShape' /\ CachesUnbroken'
  BY <1>1 DEF MInv, MarketShape, CachesUnbroken, Whole, PairDays
<1>9. JobOK'
  <2>1. job'.todo \subseteq ItemsIn(job.phases[2]) /\ job'.todo \subseteq Symbols \cup Pairs
    BY <1>3, <1>4, ItemsOfKind
  <2>2. ItemsIn(Phase)' = ItemsIn(job.phases[2])
    BY <1>5 DEF ItemsIn
  <2>3. job' \in [phases : JobPhases, todo : SUBSET (Symbols \cup Pairs), ok : BOOLEAN,
                  full : BOOLEAN, stamps : BOOLEAN, anchor : SUBSET Days]
    <3>1. AnchorOf(job.phases[2]) \in SUBSET Days
      BY NeededDays DEF AnchorOf, MInv
    <3>. QED
      BY <1>2, <1>3, <1>4, <2>1, <3>1
  <2>. QED
    BY <1>1, <1>2, <2>1, <2>2, <2>3 DEF JobOK
<1>10. RunSoFar'
  <2>. SUFFICES ASSUME job.full, job.ok
                PROVE  RunSoFar'
    BY <1>3 DEF RunSoFar
  <2>1. /\ job.phases \in {FullRun, <<"INDEX", "FX", "FUND">>, <<"FX", "FUND">>}
        /\ \A s \in Whole(Range(Stocks)) : StockDone(s)
        /\ Phase # "STOCK" => \A s \in Whole(Range(Indices)) : IndexDone(s)
        /\ Phase \notin {"STOCK", "INDEX"} =>
             \A pair \in CollectedPairs \ torn : PairDone(pair)
    <3>1. RunSoFar /\ ~Idle
      BY <1>1 DEF MInv
    <3>2. job.phases # <<"FUND">>
      <4>. SUFFICES ASSUME job.phases = <<"FUND">> PROVE FALSE
        OBVIOUS
      <4>1. Len(<<"FUND">>) = 1
        OBVIOUS
      <4>2. Len(job.phases) = 1
        BY <4>1
      <4>. QED
        BY <1>1, <4>2
    <3>3. job.phases \in {FullRun, <<"INDEX", "FX", "FUND">>, <<"FX", "FUND">>}
      BY <3>1, <3>2 DEF RunSoFar
    <3>4. /\ \A s \in Whole(Range(Stocks)) :
               (Phase = "STOCK" /\ TradesOf(s) # {} /\ s \in job.todo) \/ StockDone(s)
          /\ \A s \in Whole(Range(Indices)) :
               Phase = "STOCK" \/ (Phase = "INDEX" /\ s \in job.todo) \/ IndexDone(s)
          /\ \A pair \in CollectedPairs \ torn :
               Phase \in {"STOCK", "INDEX"} \/ (Phase = "FX" /\ pair \in job.todo) \/ PairDone(pair)
      BY <3>1 DEF RunSoFar
    <3>. QED
      BY <1>1, <3>3, <3>4
  <2>2. CASE job.phases = FullRun
    <3>1. Phase' = "INDEX" /\ job'.phases = <<"INDEX", "FX", "FUND">>
      BY <1>3, <1>5, <2>2 DEF FullRun
    <3>2. job'.todo = IF txns = <<>> THEN {} ELSE Range(Indices)
      BY <1>3, <2>2 DEF FullRun, ItemsOf
    <3>3. \A s \in Whole(Range(Indices)) : s \in job'.todo \/ IndexDone(s)
      <4>1. CASE txns = <<>>
        BY <4>1 DEF IndexDone, Complete, TradeDays, Range
      <4>2. CASE txns # <<>>
        BY <3>2, <4>2 DEF Whole
      <4>. QED
        BY <4>1, <4>2
    <3>4. job'.anchor = TradeDays(Range(txns'))
      BY <1>1, <1>3, <2>2 DEF AnchorOf, FullRun
    <3>. QED
      BY <1>6, <2>1, <3>1, <3>3, <3>4 DEF RunSoFar
  <2>3. CASE job.phases = <<"INDEX", "FX", "FUND">>
    <3>1. Phase = "INDEX" /\ Phase' = "FX" /\ job'.phases = <<"FX", "FUND">>
      BY <1>3, <1>5, <2>3 DEF Phase
    <3>2. job'.todo = CollectedPairs
      BY <1>3, <2>3 DEF ItemsOf
    <3>. QED
      BY <1>6, <2>1, <3>1, <3>2 DEF RunSoFar
  <2>4. CASE job.phases = <<"FX", "FUND">>
    <3>1. Phase = "FX" /\ Phase' = "FUND" /\ job'.phases = <<"FUND">>
      BY <1>3, <1>5, <2>4 DEF Phase
    <3>. QED
      BY <1>1, <1>6, <2>1, <3>1 DEF RunSoFar
  <2>. QED
    BY <2>1, <2>2, <2>3, <2>4
<1>11. CurrentCachesComplete'
  BY <1>1, <1>2 DEF CurrentCachesComplete
<1>. QED
  BY <1>7, <1>8, <1>9, <1>10, <1>11 DEF MInv

\* An item taken completes its own cache and leaves the others as they were; a fund is
\* no stock and no index, so the rates that are needed stay the same.
LEMMA ItemKeeps ==
  ASSUME MInv, SyncItem
  PROVE  MInv'
<1>1. /\ job.todo # {} /\ job' = [job EXCEPT !.todo = @ \ {Due}]
      /\ UNCHANGED <<today, txns, stamp, torn, current, edits, runs, faults>>
  BY DEF SyncItem
<1>2. PICK i, answer : i = Due /\ answer = Answer(i)
  OBVIOUS
<1>3. /\ i \in ItemsIn(Phase) /\ Phase \in PhaseNames
      /\ CacheTypes'
      /\ IF Phase = "FX"
         THEN /\ prices' = prices /\ i \in Pairs
              /\ PairDays(i)' = PairDays(i) \cup answer
              /\ \A pair \in Pairs : pair # i => PairDays(pair)' = PairDays(pair)
         ELSE /\ rates' = rates /\ i \in Symbols
              /\ DOMAIN prices'[i] = DOMAIN prices[i] \cup answer
              /\ \A s \in Symbols : s # i => prices'[s] = prices[s]
  BY <1>2, ItemSynced DEF MInv
<1>4. /\ job \in [phases : JobPhases, todo : SUBSET (Symbols \cup Pairs), ok : BOOLEAN,
                  full : BOOLEAN, stamps : BOOLEAN, anchor : SUBSET Days]
      /\ job.todo \subseteq ItemsIn(Phase) /\ ~current /\ ~Idle
  BY <1>1, DueIsThere DEF MInv, JobOK, NoJob
<1>5. /\ job'.phases = job.phases /\ job'.todo = job.todo \ {i} /\ job'.full = job.full
      /\ job'.ok = job.ok /\ job'.anchor = job.anchor
      /\ job' \in [phases : JobPhases, todo : SUBSET (Symbols \cup Pairs), ok : BOOLEAN,
                   full : BOOLEAN, stamps : BOOLEAN, anchor : SUBSET Days]
  BY <1>1, <1>2, <1>4
<1>6. Phase' = Phase /\ Idle' = Idle /\ ItemsIn(Phase)' = ItemsIn(Phase)
  BY <1>5 DEF Phase, Idle, ItemsIn
<1>7. /\ Unbroken(OpenDays(i), CachedDays(i)) =>
           /\ Unbroken(OpenDays(i), CachedDays(i) \cup answer)
           /\ Phase # "FUND" => Complete(OpenDays(i), CachedDays(i) \cup answer, DaysOf(i))
  BY <1>2, <1>3, Answered DEF MInv
<1>8. MarketTypeOK' /\ MarketShape' /\ JobOK'
  BY <1>1, <1>3, <1>4, <1>5, <1>6 DEF MInv, MarketTypeOK, MarketShape, JobOK, CacheTypes
<1>9. /\ \A S : Whole(S)' = Whole(S)
      /\ \A s : TradesOf(s)' = TradesOf(s)
      /\ TradeDays(Range(txns))' = TradeDays(Range(txns))
  BY <1>1 DEF Whole, TradesOf, TradeDays
<1>10. ASSUME NEW s \in Symbols, prices'[s] = prices[s]
       PROVE  StockDone(s)' = StockDone(s) /\ IndexDone(s)' = IndexDone(s)
  BY <1>1, <1>9, <1>10 DEF StockDone, IndexDone, TradeDays, Complete
<1>11. CachesUnbroken
  BY DEF MInv
<1>12. ASSUME Phase = "FX"
       PROVE  CachesUnbroken' /\ RunSoFar'
  <2>1. /\ prices' = prices /\ i \in Pairs /\ PairDays(i)' = PairDays(i) \cup answer
        /\ \A pair \in Pairs : pair # i => PairDays(pair)' = PairDays(pair)
    BY <1>3, <1>12
  <2>2. OpenDays(i) = FxOpen /\ CachedDays(i) = PairDays(i) /\ DaysOf(i) = FxRequired(i)
    BY <1>12 DEF OpenDays, CachedDays, DaysOf
  <2>3. CachesUnbroken'
    <3>1. ASSUME NEW pair \in Pairs \ torn
          PROVE  Unbroken(FxOpen, PairDays(pair)')
      <4>1. Unbroken(FxOpen, PairDays(pair))
        BY <1>11 DEF CachesUnbroken
      <4>2. CASE pair = i
        BY <1>7, <2>1, <2>2, <4>1, <4>2
      <4>3. CASE pair # i
        BY <2>1, <4>1, <4>3
      <4>. QED
        BY <4>2, <4>3
    <3>. QED
      BY <1>1, <1>9, <1>11, <2>1, <3>1 DEF CachesUnbroken
  <2>4. CollectedPairs' = CollectedPairs /\ \A pair : FxRequired(pair)' = FxRequired(pair)
    BY <1>1, <2>1, RatesNeededSame
  <2>5. ASSUME NEW pair \in CollectedPairs \ torn,
               pair \in job.todo \/ PairDone(pair)
        PROVE  pair \in job'.todo \/ PairDone(pair)'
    <3>0. pair \in Pairs
      BY DEF CollectedPairs
    <3>1. CASE pair = i
      <4>1. Unbroken(FxOpen, PairDays(i))
        BY <1>11, <3>0, <3>1 DEF CachesUnbroken
      <4>2. Complete(FxOpen, PairDays(i) \cup answer, FxRequired(i))
        BY <1>7, <1>12, <2>2, <4>1
      <4>. QED
        BY <1>1, <2>1, <2>4, <3>1, <4>2 DEF PairDone, Complete
    <3>2. CASE pair # i
      <4>1. PairDone(pair)' = PairDone(pair)
        BY <1>1, <2>1, <2>4, <3>0, <3>2 DEF PairDone, Complete
      <4>. QED
        BY <1>5, <2>5, <3>2, <4>1
    <3>. QED
      BY <3>1, <3>2
  <2>6. RunSoFar'
    <3>. SUFFICES ASSUME job.full, job.ok PROVE RunSoFar'
      BY <1>5 DEF RunSoFar
    <3>1. RunSoFar
      BY DEF MInv
    <3>2. \A s \in Whole(Range(Stocks)) \cup Whole(Range(Indices)) :
            s \in Symbols /\ prices'[s] = prices[s]
      BY <2>1, Lists DEF Whole
    <3>3. /\ job.phases \in {FullRun, <<"INDEX", "FX", "FUND">>, <<"FX", "FUND">>, <<"FUND">>}
          /\ \A s \in Whole(Range(Stocks)) : StockDone(s)
          /\ \A s \in Whole(Range(Indices)) : IndexDone(s)
          /\ \A pair \in CollectedPairs \ torn : pair \in job.todo \/ PairDone(pair)
      BY <1>4, <1>12, <3>1 DEF RunSoFar
    <3>4. /\ \A s \in Whole(Range(Stocks)) : StockDone(s)'
          /\ \A s \in Whole(Range(Indices)) : IndexDone(s)'
      BY <1>10, <3>2, <3>3
    <3>5. \A pair \in CollectedPairs \ torn : pair \in job'.todo \/ PairDone(pair)'
      BY <2>5, <3>3
    <3>. QED
      BY <1>1, <1>5, <1>6, <1>9, <1>12, <2>4, <3>3, <3>4, <3>5 DEF RunSoFar
  <2>. QED
    BY <2>3, <2>6
<1>13. ASSUME Phase # "FX"
       PROVE  CachesUnbroken' /\ RunSoFar'
  <2>1. /\ rates' = rates /\ i \in Symbols
        /\ DOMAIN prices'[i] = DOMAIN prices[i] \cup answer
        /\ \A s \in Symbols : s # i => prices'[s] = prices[s]
    BY <1>3, <1>13
  <2>2. OpenDays(i) = DOMAIN Quotes[i] /\ CachedDays(i) = DOMAIN prices[i]
    BY <1>13 DEF OpenDays, CachedDays
  <2>3. \A pair : PairDays(pair)' = PairDays(pair)
    BY <2>1 DEF PairDays
  <2>4. CachesUnbroken'
    <3>1. ASSUME NEW s \in Whole(Symbols)
          PROVE  Unbroken(DOMAIN Quotes[s], DOMAIN prices'[s])
      <4>1. Unbroken(DOMAIN Quotes[s], DOMAIN prices[s]) /\ s \in Symbols
        BY <1>11 DEF CachesUnbroken, Whole
      <4>2. CASE s = i
        BY <1>7, <2>1, <2>2, <4>1, <4>2
      <4>3. CASE s # i
        BY <2>1, <4>1, <4>3
      <4>. QED
        BY <4>2, <4>3
    <3>. QED
      BY <1>1, <1>9, <1>11, <2>3, <3>1 DEF CachesUnbroken
  <2>5. ASSUME job.full, job.ok
        PROVE  RunSoFar'
    <3>1. RunSoFar
      BY DEF MInv
    <3>2. ASSUME NEW s \in Whole(Range(Stocks))
          PROVE  (Phase = "STOCK" /\ TradesOf(s) # {} /\ s \in job'.todo) \/ StockDone(s)'
      <4>1. s \in Range(Stocks) /\ s \in Whole(Symbols) /\ s \in Symbols
        BY Lists DEF Whole
      <4>2. (Phase = "STOCK" /\ TradesOf(s) # {} /\ s \in job.todo) \/ StockDone(s)
        BY <1>4, <2>5, <3>1 DEF RunSoFar
      <4>3. CASE s = i
        <5>1. Phase = "STOCK"
          BY <1>3, <1>13, <4>1, <4>3, Lists DEF ItemsIn, PhaseNames
        <5>2. DaysOf(i) = TradeDays(TradesOf(i))
          BY <5>1 DEF DaysOf
        <5>3. Unbroken(DOMAIN Quotes[i], DOMAIN prices[i])
          BY <1>11, <4>1, <4>3 DEF CachesUnbroken
        <5>4. Complete(DOMAIN Quotes[i], DOMAIN prices[i] \cup answer, TradeDays(TradesOf(i)))
          BY <1>7, <2>2, <5>1, <5>2, <5>3
        <5>. QED
          BY <1>1, <1>9, <2>1, <4>3, <5>4 DEF StockDone, Complete, TradeDays
      <4>4. CASE s # i
        BY <1>5, <1>10, <2>1, <4>1, <4>2, <4>4
      <4>. QED
        BY <4>3, <4>4
    <3>3. ASSUME NEW s \in Whole(Range(Indices))
          PROVE  Phase = "STOCK" \/ (Phase = "INDEX" /\ s \in job'.todo) \/ IndexDone(s)'
      <4>1. s \in Range(Indices) /\ s \in Whole(Symbols) /\ s \in Symbols
        BY Lists DEF Whole
      <4>2. Phase = "STOCK" \/ (Phase = "INDEX" /\ s \in job.todo) \/ IndexDone(s)
        BY <1>4, <2>5, <3>1 DEF RunSoFar
      <4>3. CASE s = i
        <5>1. Phase = "INDEX"
          BY <1>3, <1>13, <4>1, <4>3, Lists DEF ItemsIn, PhaseNames
        <5>2. DaysOf(i) = TradeDays(Range(txns))
          BY <1>4, <2>5, <3>1, <5>1 DEF DaysOf, RunSoFar
        <5>3. Unbroken(DOMAIN Quotes[i], DOMAIN prices[i])
          BY <1>11, <4>1, <4>3 DEF CachesUnbroken
        <5>4. Complete(DOMAIN Quotes[i], DOMAIN prices[i] \cup answer, TradeDays(Range(txns)))
          BY <1>7, <2>2, <5>1, <5>2, <5>3
        <5>. QED
          BY <1>1, <1>9, <2>1, <4>3, <5>4 DEF IndexDone, Complete, TradeDays
      <4>4. CASE s # i
        BY <1>5, <1>10, <2>1, <4>1, <4>2, <4>4
      <4>. QED
        BY <4>3, <4>4
    <3>4. ASSUME NEW pair \in CollectedPairs' \ torn
          PROVE  Phase \in {"STOCK", "INDEX"} \/ PairDone(pair)'
      <4>. SUFFICES ASSUME Phase = "FUND" PROVE PairDone(pair)'
        BY <1>3, <1>13 DEF PhaseNames
      <4>1. \A s \in Range(Stocks) : prices'[s] = prices[s]
        BY <1>3, <2>1, Lists DEF ItemsIn
      <4>2. CollectedPairs' = CollectedPairs /\ FxRequired(pair)' = FxRequired(pair)
        BY <1>1, <4>1, RatesNeededSame
      <4>3. PairDone(pair)
        BY <1>4, <2>5, <3>1, <4>2 DEF RunSoFar
      <4>. QED
        BY <1>1, <2>3, <4>2, <4>3 DEF PairDone, Complete
    <3>5. /\ job.phases \in {FullRun, <<"INDEX", "FX", "FUND">>, <<"FX", "FUND">>, <<"FUND">>}
          /\ Phase = "INDEX" => job.anchor = TradeDays(Range(txns))
      BY <1>4, <2>5, <3>1 DEF RunSoFar
    <3>. QED
      BY <1>1, <1>5, <1>6, <1>9, <3>2, <3>3, <3>4, <3>5 DEF RunSoFar
  <2>6. RunSoFar'
    BY <1>5, <2>5 DEF RunSoFar
  <2>. QED
    BY <2>4, <2>6
<1>14. CurrentCachesComplete'
  BY <1>1, <1>4 DEF CurrentCachesComplete
<1>. QED
  BY <1>8, <1>12, <1>13, <1>14 DEF MInv

-----------------------------------------------------------------------------
(* The theorems.                                                           *)

\* The invariant at the start, when nothing is cached.
LEMMA MarketInitInv ==
  MarketInit => MInv
<1>. SUFFICES ASSUME MarketInit PROVE MInv
  OBVIOUS
<1>1. PICK h \in Histories : today = h.day /\ txns = h.trades
  BY DEF MarketInit
<1>2. /\ h.day \in Days /\ h.trades \in Seq(Trades) /\ IsInjective(h.trades)
  BY MarketAssumption DEF MarketAssumption
<1>3. \A seq \in Seq(Trades) : Range(seq) \subseteq Trades
  BY DEF Range
<1>4. /\ stamp = 0 /\ prices = [s \in Symbols |-> <<>>] /\ rates = {} /\ job = NoJob
      /\ torn = {} /\ current = FALSE /\ edits = 0 /\ runs = 0 /\ faults = 0
  BY DEF MarketInit
<1>5. {MaxEdits, MaxRuns, MaxFaults} \subseteq Nat
  BY MarketAssumption DEF MarketAssumption
<1>6. DOMAIN << >> = {} /\ << >> = [d \in DOMAIN << >> |-> << >>[d]]
  OBVIOUS
<1>7. MarketTypeOK
  <2>1. today \in Days /\ stamp \in 0..today
    BY <1>1, <1>2, <1>4, FxAssumption DEF Days, FxAssumption
  <2>2. Range(NoJob.phases) \subseteq PhaseNames
    BY DEF NoJob, Range
  <2>. QED
    BY <1>1, <1>2, <1>3, <1>4, <1>5, <1>6, <2>1, <2>2 DEF MarketTypeOK
<1>8. MarketShape
  BY <1>1, <1>2, <1>4, <1>6 DEF MarketShape
<1>9. CachesUnbroken
  BY <1>4, <1>6 DEF CachesUnbroken, Whole, Unbroken, PairDays
<1>10. JobOK /\ RunSoFar /\ CurrentCachesComplete
  BY <1>4 DEF JobOK, RunSoFar, CurrentCachesComplete, Idle, NoJob
<1>. QED
  BY <1>7, <1>8, <1>9, <1>10 DEF MInv

\* Every step keeps the invariant.
LEMMA MarketStepInv ==
  MInv /\ [MarketNext]_market => MInv'
<1>. SUFFICES ASSUME MInv, [MarketNext]_market PROVE MInv'
  OBVIOUS
<1>1. CASE NextDay
  BY <1>1, NextDayKeeps
<1>2. CASE \/ \E t \in Inputs : WriteTrade(t)
           \/ \E k \in DOMAIN txns : DeleteTrade(k)
  BY <1>2, EditKeeps
<1>3. CASE \E plan \in Plans : StartSync(plan)
  BY <1>3, StartKeeps
<1>4. CASE SyncItem
  BY <1>4, ItemKeeps
<1>5. CASE Outage
  BY <1>5, OutageKeeps
<1>6. CASE Crash
  BY <1>6, CrashKeeps
<1>7. CASE NextPhase
  BY <1>7, PhaseKeeps
<1>8. CASE FinishSync
  BY <1>8, FinishKeeps
<1>9. CASE UNCHANGED market
  <2>1. /\ UNCHANGED <<today, txns, prices, rates, stamp, job, torn, current>>
        /\ UNCHANGED <<edits, runs, faults>>
    BY <1>9 DEF market
  <2>2. /\ CollectedPairs' = CollectedPairs
        /\ \A s : StockDone(s)' = StockDone(s) /\ IndexDone(s)' = IndexDone(s)
        /\ \A pair : PairDone(pair)' = PairDone(pair)
        /\ \A S : Whole(S)' = Whole(S)
    BY <2>1, DoneSame
  <2>3. MarketTypeOK' /\ MarketShape' /\ JobOK' /\ CachesUnbroken'
    BY <2>1, <2>2 DEF MInv, MarketTypeOK, MarketShape, JobOK, CachesUnbroken, PairDays,
                      ItemsIn, Phase, Idle, NoJob
  <2>4. RunSoFar'
    <3>1. \A s : TradesOf(s)' = TradesOf(s)
      BY <2>1 DEF TradesOf
    <3>. QED
      BY <2>1, <2>2, <3>1 DEF MInv, RunSoFar, Phase, Idle
  <2>5. CurrentCachesComplete'
    <3>1. CurrentCachesComplete <=>
            (current => /\ \A s \in Whole(Range(Stocks)) : StockDone(s)
                        /\ \A s \in Whole(Range(Indices)) : IndexDone(s)
                        /\ \A pair \in CollectedPairs \ torn : PairDone(pair))
      BY DEF CurrentCachesComplete, StockDone, IndexDone, PairDone
    <3>2. CurrentCachesComplete' <=>
            (current' => /\ \A s \in Whole(Range(Stocks))' : StockDone(s)'
                         /\ \A s \in Whole(Range(Indices))' : IndexDone(s)'
                         /\ \A pair \in CollectedPairs' \ torn' : PairDone(pair)')
      BY DEF CurrentCachesComplete, StockDone, IndexDone, PairDone
    <3>. QED
      BY <2>1, <2>2, <3>1, <3>2 DEF MInv
  <2>. QED
    BY <2>3, <2>4, <2>5 DEF MInv
<1>. QED
  BY <1>1, <1>2, <1>3, <1>4, <1>5, <1>6, <1>7, <1>8, <1>9 DEF MarketNext

\* The invariant of the cache holds in every state, runs, outages and crashes included.
THEOREM MarketInvariant ==
  Spec => []MInv
BY MarketInitInv, MarketStepInv, PTL DEF Spec

\* The cache has closes of open days up to today and rates of pairs of currencies only,
\* whatever is synced, and a run is over once it has no phase left.
THEOREM MarketTypesHold ==
  Spec => []MarketTypeOK
<1>1. MInv => MarketTypeOK
  BY DEF MInv
<1>. QED
  BY <1>1, MarketInvariant, PTL

\* resolve_stock_sync_start_date and resolve_fx_sync_start_date look at the first and the
\* last cached day only, and still no open day is missing between two cached ones, for
\* any order of runs, failures and backfills, unless a crash cut the item short.
THEOREM CachesStayUnbroken ==
  Spec => []CachesUnbroken
<1>1. MInv => CachesUnbroken
  BY DEF MInv
<1>. QED
  BY <1>1, MarketInvariant, PTL

\* When sync_all_market_data reports success over unchanged trades, nothing is missing of
\* a stock, an index or a rate from the day it is needed, although the rates that are
\* needed are found out from prices the same run has just cached.
THEOREM FullRunCompletes ==
  Spec => []CurrentCachesComplete
<1>1. MInv => CurrentCachesComplete
  BY DEF MInv
<1>. QED
  BY <1>1, MarketInvariant, PTL
=============================================================================
