-------------------------- MODULE MarketValue_proofs --------------------------
(***************************************************************************)
(* The figures of a portfolio, for any prices, rates, trades and days: the *)
(* lots of a holding are the newest purchases, an oversell is noticed, the *)
(* holdings add up to the summary, a range of the series is a slice of the *)
(* whole history, a day that is not known is never shown as known, and a   *)
(* full run of the sync leaves nothing without a value.                    *)
(***************************************************************************)
EXTENDS MarketValue, MarketSync_proofs

-----------------------------------------------------------------------------
(* Loops over a sequence.                                                  *)

\* What the loops of Lots do with one element, by the name of the loop.
Loop(name, state, x) ==
  CASE name = "split"    -> SplitBy(state, x)
    [] name = "sell"     -> Taken(state, x)
    [] name = "metrics"  -> Booked(state, x)
    [] name = "timeline" -> Entered(state, x)
    [] name = "oversold" -> Checked(state, x)

\* The recursion over positions that FoldLeft is defined by.
IsLoop(iter, name, first, D, s) ==
  iter = [t \in SUBSET D |->
            IF t = {} THEN first ELSE Loop(name, iter[t \ {Max(t)}], s[Max(t)])]

\* The states of a loop, from the first to the last.
Runs(run, name, first, s, n) ==
  /\ run[0] = first
  /\ \A k \in 1..n : run[k] = Loop(name, run[k - 1], s[k])

\* The last of the first numbers.
LEMMA LastOfFirst ==
  ASSUME NEW n \in Nat
  PROVE  /\ \A t \in SUBSET (1..n + 1) : n + 1 \in t => Max(t) = n + 1
         /\ \A t \in SUBSET (1..n + 1) : n + 1 \notin t => t \in SUBSET (1..n)
         /\ \A t \in SUBSET (1..n) : n + 1 \notin t /\ t \in SUBSET (1..n + 1)
         /\ \A t \in SUBSET (1..n) : t # {} => Max(t) \in t
         /\ \A t \in SUBSET (1..n + 1) : t \ {n + 1} \in SUBSET (1..n)
<1>1. \A m \in Nat : \A t \in SUBSET (1..m) : t # {} =>
        Max(t) \in t /\ \A x \in t : x <= Max(t)
  <2>1. SUFFICES ASSUME NEW m \in Nat, NEW t \in SUBSET (1..m), t # {}
                 PROVE  Max(t) \in t /\ \A x \in t : x <= Max(t)
    OBVIOUS
  <2>2. t \in SUBSET Int /\ IsFiniteSet(t)
    <3>1. IsFiniteSet(1..m)
      BY FS_Interval
    <3>2. IsFiniteSet(t)
      BY <2>1, <3>1, FS_Subset
    <3>. QED
      BY <3>2
  <2>. QED
    BY <2>1, <2>2, MaxMin
<1>2. \A t \in SUBSET (1..n + 1) : n + 1 \in t => Max(t) = n + 1
  <2>1. SUFFICES ASSUME NEW t \in SUBSET (1..n + 1), n + 1 \in t PROVE Max(t) = n + 1
    OBVIOUS
  <2>2. Max(t) \in t /\ n + 1 <= Max(t)
    <3>1. n + 1 \in Nat /\ t # {}
      BY <2>1
    <3>. QED
      BY <1>1, <2>1, <3>1
  <2>3. Max(t) \in 1..n + 1
    BY <2>2
  <2>. QED
    BY <2>2, <2>3
<1>3. \A t \in SUBSET (1..n) : t # {} => Max(t) \in t
  BY <1>1
<1>. QED
  BY <1>2, <1>3

\* The recursion has a solution.
LEMMA LoopExists ==
  ASSUME NEW name, NEW first, NEW s, NEW n \in Nat
  PROVE  \E iter : IsLoop(iter, name, first, 1..n, s)
<1>. DEFINE T == {m \in Nat : \E iter : IsLoop(iter, name, first, 1..m, s)}
            Next1(state, x) == Loop(name, state, x)
<1>. HIDE DEF Next1
<1>0. \A state, x : Next1(state, x) = Loop(name, state, x)
  BY DEF Next1
<1>1. 0 \in T
  <2>1. PICK f : f = [t \in SUBSET (1..0) |-> first]
    OBVIOUS
  <2>2. \A t \in SUBSET (1..0) : t = {}
    OBVIOUS
  <2>3. f = [t \in SUBSET (1..0) |->
               IF t = {} THEN first ELSE Loop(name, f[t \ {Max(t)}], s[Max(t)])]
    BY <2>1, <2>2
  <2>. QED
    BY <2>3 DEF IsLoop
<1>2. ASSUME NEW m \in Nat, m \in T
      PROVE  m + 1 \in T
  <2>1. PICK f : f = [t \in SUBSET (1..m) |->
                        IF t = {} THEN first ELSE Next1(f[t \ {Max(t)}], s[Max(t)])]
    BY <1>0, <1>2 DEF IsLoop
  <2>2. PICK g : g = [t \in SUBSET (1..m + 1) |->
                        IF m + 1 \in t THEN Next1(f[t \ {m + 1}], s[m + 1]) ELSE f[t]]
    OBVIOUS
  <2>3. ASSUME NEW t \in SUBSET (1..m + 1)
        PROVE  g[t] = IF t = {} THEN first ELSE Next1(g[t \ {Max(t)}], s[Max(t)])
    <3>1. CASE m + 1 \in t
      <4>1. Max(t) = m + 1 /\ t \ {m + 1} \in SUBSET (1..m)
        BY <3>1, LastOfFirst
      <4>2. t \ {m + 1} \in SUBSET (1..m + 1) /\ m + 1 \notin t \ {m + 1}
        OBVIOUS
      <4>3. g[t \ {m + 1}] = f[t \ {m + 1}]
        BY <2>2, <4>2
      <4>4. g[t] = Next1(f[t \ {m + 1}], s[m + 1])
        BY <2>2, <3>1
      <4>. QED
        BY <3>1, <4>1, <4>3, <4>4
    <3>2. CASE m + 1 \notin t
      <4>1. t \in SUBSET (1..m)
        BY <3>2, LastOfFirst
      <4>2. g[t] = f[t]
        BY <2>2, <3>2
      <4>3. f[t] = IF t = {} THEN first ELSE Next1(f[t \ {Max(t)}], s[Max(t)])
        BY <2>1, <4>1
      <4>4. CASE t # {}
        <5>1. t \ {Max(t)} \in SUBSET (1..m + 1) /\ m + 1 \notin t \ {Max(t)}
          BY <3>2
        <5>2. g[t \ {Max(t)}] = f[t \ {Max(t)}]
          BY <2>2, <5>1
        <5>. QED
          BY <4>2, <4>3, <4>4, <5>2
      <4>. QED
        BY <4>2, <4>3, <4>4
    <3>. QED
      BY <3>1, <3>2
  <2>4. g = [t \in SUBSET (1..m + 1) |->
               IF t = {} THEN first ELSE Next1(g[t \ {Max(t)}], s[Max(t)])]
    BY <2>2, <2>3
  <2>5. IsLoop(g, name, first, 1..m + 1, s)
    BY <1>0, <2>4 DEF IsLoop
  <2>. QED
    BY <2>5
<1>3. n \in T
  <2>. HIDE DEF T
  <2>. QED
    BY <1>1, <1>2, NumberInduction
<1>. QED
  BY <1>3

\* A loop that follows the recursion runs through its states.
LEMMA LoopRuns ==
  ASSUME NEW name, NEW first, NEW s, NEW n \in Nat,
         NEW iter, IsLoop(iter, name, first, 1..n, s)
  PROVE  \E run : Runs(run, name, first, s, n) /\ iter[1..n] = run[n]
<1>. DEFINE Next1(state, x) == Loop(name, state, x)
<1>. HIDE DEF Next1
<1>0. \A state, x : Next1(state, x) = Loop(name, state, x)
  BY DEF Next1
<1>5. PICK run : run = [k \in 0..n |-> iter[1..k]]
  OBVIOUS
<1>6. iter = [t \in SUBSET (1..n) |->
                IF t = {} THEN first ELSE Next1(iter[t \ {Max(t)}], s[Max(t)])]
  BY <1>0 DEF IsLoop
<1>7. run[0] = first
  <2>1. 1..0 = {} /\ {} \in SUBSET (1..n) /\ 0 \in 0..n
    OBVIOUS
  <2>2. run[0] = iter[1..0]
    BY <1>5, <2>1
  <2>3. iter[{}] = first
    BY <1>6, <2>1
  <2>. QED
    BY <2>1, <2>2, <2>3
<1>8. ASSUME NEW k \in 1..n
      PROVE  run[k] = Next1(run[k - 1], s[k])
  <2>1. k - 1 \in Nat /\ k \in 0..n /\ k - 1 \in 0..n /\ 1..k \in SUBSET (1..n) /\ k \in 1..k
        /\ (1..k) \ {k} = 1..k - 1 /\ (k - 1) + 1 = k
    OBVIOUS
  <2>2. Max(1..k) = k
    <3>1. PICK m \in Nat : m = k - 1
      BY <2>1
    <3>2. 1..k \in SUBSET (1..m + 1) /\ m + 1 \in 1..k /\ m + 1 = k
      BY <3>1
    <3>3. \A t \in SUBSET (1..m + 1) : m + 1 \in t => Max(t) = m + 1
      BY LastOfFirst
    <3>. QED
      BY <3>2, <3>3
  <2>3. run[k] = iter[1..k] /\ run[k - 1] = iter[1..k - 1]
    BY <1>5, <2>1
  <2>4. 1..k # {}
    BY <2>1
  <2>5. iter[1..k] = Next1(iter[(1..k) \ {Max(1..k)}], s[Max(1..k)])
    BY <1>6, <2>1, <2>4
  <2>. QED
    BY <2>1, <2>2, <2>3, <2>5
<1>9. iter[1..n] = run[n]
  BY <1>5
<1>10. Runs(run, name, first, s, n)
  BY <1>0, <1>7, <1>8 DEF Runs
<1>. QED
  BY <1>9, <1>10

\* The folds of Lots are these loops.
LEMMA FoldsRun ==
  ASSUME NEW first, NEW s, NEW n \in Nat, DOMAIN s = 1..n
  PROVE  /\ \E run : Runs(run, "split", first, s, n) /\ FoldLeft(SplitBy, first, s) = run[n]
         /\ \E run : Runs(run, "sell", first, s, n) /\ FoldLeft(Taken, first, s) = run[n]
         /\ \E run : Runs(run, "metrics", first, s, n) /\ FoldLeft(Booked, first, s) = run[n]
         /\ \E run : Runs(run, "timeline", first, s, n) /\ FoldLeft(Entered, first, s) = run[n]
         /\ \E run : Runs(run, "oversold", first, s, n) /\ FoldLeft(Checked, first, s) = run[n]
<1>1. \E run : Runs(run, "split", first, s, n) /\ FoldLeft(SplitBy, first, s) = run[n]
  <2>. DEFINE Is(iter) == iter = [t \in SUBSET (DOMAIN s) |->
                            IF t = {} THEN first ELSE SplitBy(iter[t \ {Max(t)}], s[Max(t)])]
  <2>1. FoldLeft(SplitBy, first, s) = (CHOOSE iter : Is(iter))[DOMAIN s]
    BY DEF FoldLeft, MapThenFoldSet
  <2>2. \A iter : Is(iter) <=> IsLoop(iter, "split", first, 1..n, s)
    BY DEF IsLoop, Loop
  <2>. HIDE DEF Is
  <2>3. \E iter : Is(iter)
    BY <2>2, LoopExists
  <2>4. PICK iter : Is(iter) /\ iter = CHOOSE f : Is(f)
    BY <2>3
  <2>5. FoldLeft(SplitBy, first, s) = iter[1..n]
    BY <2>1, <2>4
  <2>6. IsLoop(iter, "split", first, 1..n, s)
    BY <2>2, <2>4
  <2>7. \E run : Runs(run, "split", first, s, n) /\ iter[1..n] = run[n]
    BY ONLY <2>6, n \in Nat, LoopRuns
  <2>. QED
    BY <2>5, <2>7
<1>2. \E run : Runs(run, "sell", first, s, n) /\ FoldLeft(Taken, first, s) = run[n]
  <2>. DEFINE Is(iter) == iter = [t \in SUBSET (DOMAIN s) |->
                            IF t = {} THEN first ELSE Taken(iter[t \ {Max(t)}], s[Max(t)])]
  <2>1. FoldLeft(Taken, first, s) = (CHOOSE iter : Is(iter))[DOMAIN s]
    BY DEF FoldLeft, MapThenFoldSet
  <2>2. \A iter : Is(iter) <=> IsLoop(iter, "sell", first, 1..n, s)
    BY DEF IsLoop, Loop
  <2>. HIDE DEF Is
  <2>3. \E iter : Is(iter)
    BY <2>2, LoopExists
  <2>4. PICK iter : Is(iter) /\ iter = CHOOSE f : Is(f)
    BY <2>3
  <2>5. FoldLeft(Taken, first, s) = iter[1..n]
    BY <2>1, <2>4
  <2>6. IsLoop(iter, "sell", first, 1..n, s)
    BY <2>2, <2>4
  <2>7. \E run : Runs(run, "sell", first, s, n) /\ iter[1..n] = run[n]
    BY ONLY <2>6, n \in Nat, LoopRuns
  <2>. QED
    BY <2>5, <2>7
<1>3. \E run : Runs(run, "metrics", first, s, n) /\ FoldLeft(Booked, first, s) = run[n]
  <2>. DEFINE Is(iter) == iter = [t \in SUBSET (DOMAIN s) |->
                            IF t = {} THEN first ELSE Booked(iter[t \ {Max(t)}], s[Max(t)])]
  <2>1. FoldLeft(Booked, first, s) = (CHOOSE iter : Is(iter))[DOMAIN s]
    BY DEF FoldLeft, MapThenFoldSet
  <2>2. \A iter : Is(iter) <=> IsLoop(iter, "metrics", first, 1..n, s)
    BY DEF IsLoop, Loop
  <2>. HIDE DEF Is
  <2>3. \E iter : Is(iter)
    BY <2>2, LoopExists
  <2>4. PICK iter : Is(iter) /\ iter = CHOOSE f : Is(f)
    BY <2>3
  <2>5. FoldLeft(Booked, first, s) = iter[1..n]
    BY <2>1, <2>4
  <2>6. IsLoop(iter, "metrics", first, 1..n, s)
    BY <2>2, <2>4
  <2>7. \E run : Runs(run, "metrics", first, s, n) /\ iter[1..n] = run[n]
    BY ONLY <2>6, n \in Nat, LoopRuns
  <2>. QED
    BY <2>5, <2>7
<1>4. \E run : Runs(run, "timeline", first, s, n) /\ FoldLeft(Entered, first, s) = run[n]
  <2>. DEFINE Is(iter) == iter = [t \in SUBSET (DOMAIN s) |->
                            IF t = {} THEN first ELSE Entered(iter[t \ {Max(t)}], s[Max(t)])]
  <2>1. FoldLeft(Entered, first, s) = (CHOOSE iter : Is(iter))[DOMAIN s]
    BY DEF FoldLeft, MapThenFoldSet
  <2>2. \A iter : Is(iter) <=> IsLoop(iter, "timeline", first, 1..n, s)
    BY DEF IsLoop, Loop
  <2>. HIDE DEF Is
  <2>3. \E iter : Is(iter)
    BY <2>2, LoopExists
  <2>4. PICK iter : Is(iter) /\ iter = CHOOSE f : Is(f)
    BY <2>3
  <2>5. FoldLeft(Entered, first, s) = iter[1..n]
    BY <2>1, <2>4
  <2>6. IsLoop(iter, "timeline", first, 1..n, s)
    BY <2>2, <2>4
  <2>7. \E run : Runs(run, "timeline", first, s, n) /\ iter[1..n] = run[n]
    BY ONLY <2>6, n \in Nat, LoopRuns
  <2>. QED
    BY <2>5, <2>7
<1>5. \E run : Runs(run, "oversold", first, s, n) /\ FoldLeft(Checked, first, s) = run[n]
  <2>. DEFINE Is(iter) == iter = [t \in SUBSET (DOMAIN s) |->
                            IF t = {} THEN first ELSE Checked(iter[t \ {Max(t)}], s[Max(t)])]
  <2>1. FoldLeft(Checked, first, s) = (CHOOSE iter : Is(iter))[DOMAIN s]
    BY DEF FoldLeft, MapThenFoldSet
  <2>2. \A iter : Is(iter) <=> IsLoop(iter, "oversold", first, 1..n, s)
    BY DEF IsLoop, Loop
  <2>. HIDE DEF Is
  <2>3. \E iter : Is(iter)
    BY <2>2, LoopExists
  <2>4. PICK iter : Is(iter) /\ iter = CHOOSE f : Is(f)
    BY <2>3
  <2>5. FoldLeft(Checked, first, s) = iter[1..n]
    BY <2>1, <2>4
  <2>6. IsLoop(iter, "oversold", first, 1..n, s)
    BY <2>2, <2>4
  <2>7. \E run : Runs(run, "oversold", first, s, n) /\ iter[1..n] = run[n]
    BY ONLY <2>6, n \in Nat, LoopRuns
  <2>. QED
    BY <2>5, <2>7
<1>. QED
  BY <1>1, <1>2, <1>3, <1>4, <1>5

-----------------------------------------------------------------------------
(* Sorting.                                                                *)

Precedes(key, a, b) == key[a] < key[b] \/ (key[a] = key[b] /\ a < b)

\* The positions a sorted sequence takes its elements from.
SortedBy(f, K, key) ==
  /\ f \in [1..Cardinality(K) -> K]
  /\ \A k \in K : \E i \in 1..Cardinality(K) : f[i] = k
  /\ \A i, j \in 1..Cardinality(K) : i < j <=> Precedes(key, f[i], f[j])

\* The order is a strict total one.
LEMMA PrecedesOrders ==
  ASSUME NEW K \in SUBSET Int, NEW key, \A k \in K : key[k] \in Int
  PROVE  /\ \A a \in K : ~Precedes(key, a, a)
         /\ \A a, b \in K : a # b => Precedes(key, a, b) \/ Precedes(key, b, a)
         /\ \A a, b, c \in K : Precedes(key, a, b) /\ Precedes(key, b, c) => Precedes(key, a, c)
BY DEF Precedes

\* Sorting takes each element once, those with smaller keys first, and equal ones in the
\* order they had.
LEMMA SortedIs ==
  ASSUME NEW s, NEW K \in SUBSET Int, IsFiniteSet(K), NEW key, \A k \in K : key[k] \in Int
  PROVE  \E f : /\ SortedBy(f, K, key)
                /\ Sorted(s, K, key) = [i \in 1..Cardinality(K) |-> s[f[i]]]
<1>. DEFINE n == Cardinality(K)
            R == {d \in K \X K : Precedes(key, d[1], d[2])}
            Before(k) == {j \in K : Precedes(key, j, k)}
<1>1. n \in Nat
  BY FS_CardinalityType
<1>2. /\ \A a \in K : ~Precedes(key, a, a)
      /\ \A a, b \in K : a # b => Precedes(key, a, b) \/ Precedes(key, b, a)
      /\ \A a, b, c \in K : Precedes(key, a, b) /\ Precedes(key, b, c) => Precedes(key, a, c)
  BY PrecedesOrders
<1>3. \A a, b \in K : <<a, b>> \in R <=> Precedes(key, a, b)
  OBVIOUS
<1>4. PICK f \in [1..n -> K] : /\ IsInjective(f)
                               /\ \A i, j \in 1..n : <<f[i], f[j]>> \in R => i < j
  <2>. HIDE DEF R
  <2>1. /\ \A x \in K : <<x, x>> \notin R
        /\ \A x, y, z \in K : <<x, y>> \in R /\ <<y, z>> \in R => <<x, z>> \in R
    BY <1>2, <1>3
  <2>. QED
    BY <2>1, OrderExists
<1>5. \A i, j \in 1..n : f[i] = f[j] => i = j
  BY <1>4 DEF IsInjective
<1>6. \A k \in K : \E i \in 1..n : f[i] = k
  <2>1. f \in Injection(1..n, K)
    BY <1>4, <1>5 DEF Injection, IsInjective
  <2>2. Cardinality(1..n) = n
    BY <1>1, FS_Interval
  <2>3. f \in Surjection(1..n, K)
    BY <2>1, <2>2, FS_Injection
  <2>. QED
    BY <2>3 DEF Surjection
<1>7. \A i, j \in 1..n : i < j <=> Precedes(key, f[i], f[j])
  <2>1. SUFFICES ASSUME NEW i \in 1..n, NEW j \in 1..n
                 PROVE  i < j <=> Precedes(key, f[i], f[j])
    OBVIOUS
  <2>2. f[i] \in K /\ f[j] \in K
    BY <1>4
  <2>3. Precedes(key, f[i], f[j]) => i < j
    BY <1>3, <1>4, <2>2
  <2>4. Precedes(key, f[j], f[i]) => j < i
    BY <1>3, <1>4, <2>2
  <2>5. i < j => f[i] # f[j] /\ ~(j < i)
    BY <1>1, <1>5
  <2>. QED
    BY <1>2, <2>2, <2>3, <2>4, <2>5
<1>8. SortedBy(f, K, key)
  BY <1>4, <1>6, <1>7 DEF SortedBy
<1>9. ASSUME NEW i \in 1..n
      PROVE  IsFiniteSet(Before(f[i])) /\ Cardinality(Before(f[i])) = i - 1
  <2>1. f[i] \in K /\ i - 1 \in Nat /\ 1..i - 1 \subseteq 1..n
    BY <1>1, <1>4
  <2>2. PICK h : h = [j \in 1..i - 1 |-> f[j]]
    OBVIOUS
  <2>3. \A j \in 1..i - 1 : j \in 1..n /\ j < i /\ h[j] = f[j] /\ h[j] \in Before(f[i])
    <3>1. SUFFICES ASSUME NEW j \in 1..i - 1
                   PROVE  j \in 1..n /\ j < i /\ h[j] = f[j] /\ h[j] \in Before(f[i])
      OBVIOUS
    <3>2. j \in 1..n /\ j < i /\ h[j] = f[j]
      BY <1>1, <2>2
    <3>. QED
      BY <1>4, <1>7, <3>2
  <2>4. \A k \in Before(f[i]) : \E j \in 1..i - 1 : h[j] = k
    <3>1. SUFFICES ASSUME NEW k \in Before(f[i]) PROVE \E j \in 1..i - 1 : h[j] = k
      OBVIOUS
    <3>2. PICK j \in 1..n : f[j] = k
      BY <1>6
    <3>3. j < i
      BY <1>7, <3>1, <3>2
    <3>4. j \in 1..i - 1
      BY <1>1, <3>2, <3>3
    <3>. QED
      BY <2>2, <3>2, <3>4
  <2>5. h \in [1..i - 1 -> Before(f[i])]
    BY <2>2, <2>3
  <2>6. \A a, b \in 1..i - 1 : h[a] = h[b] => a = b
    BY <1>5, <2>3
  <2>. HIDE DEF Before
  <2>7. h \in Bijection(1..i - 1, Before(f[i]))
    BY <2>4, <2>5, <2>6 DEF Bijection, Injection, Surjection, IsInjective
  <2>8. IsFiniteSet(1..i - 1) /\ Cardinality(1..i - 1) = i - 1
    BY <2>1, FS_Interval
  <2>9. ExistsBijection(1..i - 1, Before(f[i]))
    BY <2>7 DEF ExistsBijection
  <2>. QED
    BY <2>8, <2>9, FS_Bijection
<1>10. ASSUME NEW i \in 1..n
       PROVE  f[i] = CHOOSE k \in K : Cardinality(Before(k)) = i - 1
  <2>1. f[i] \in K /\ Cardinality(Before(f[i])) = i - 1
    BY <1>4, <1>9
  <2>2. ASSUME NEW k \in K, Cardinality(Before(k)) = i - 1
        PROVE  k = f[i]
    <3>1. PICK j \in 1..n : f[j] = k
      BY <1>6
    <3>2. j - 1 = i - 1
      BY <1>9, <2>2, <3>1
    <3>. QED
      BY <1>1, <3>1, <3>2
  <2>. HIDE DEF Before
  <2>. QED
    BY <2>1, <2>2
<1>11. Sorted(s, K, key) = [i \in 1..n |-> s[CHOOSE k \in K : Cardinality(Before(k)) = i - 1]]
  BY DEF Sorted, Precedes
<1>12. Sorted(s, K, key) = [i \in 1..n |-> s[f[i]]]
  <2>. HIDE DEF Before, n
  <2>. QED
    BY <1>10, <1>11
<1>. QED
  BY <1>8, <1>12

-----------------------------------------------------------------------------
(* Sums.                                                                   *)

\* A total, with its amounts as a function.
LEMMA TotalIs ==
  ASSUME NEW S, IsFiniteSet(S), NEW c, \A x \in S : c[x] \in Int,
         NEW h, h = [x \in S |-> c[x]]
  PROVE  SumFunction(h) = SumFunctionOnSet(c, S)
<1>1. \A x \in S : h[x] = c[x]
  OBVIOUS
<1>2. SumFunction(h) = SumFunctionOnSet(h, S)
  BY SumOfFunction
<1>. QED
  BY <1>1, <1>2, SumSame

\* The cost of the newest x of the shares bought at the positions K, q[k] of them at the
\* price c[k].
LaterQty(K, q, k) == SumFunctionOnSet(q, {j \in K : k < j})
NewestOf(K, q, c, x, k) == Larger(0, Lesser(q[k], x - LaterQty(K, q, k))) * c[k]
Newest(K, q, c, x) == SumFunctionOnSet([k \in K |-> NewestOf(K, q, c, x, k)], K)

Bought(K, q, c) == /\ K \in SUBSET Int /\ IsFiniteSet(K)
                   /\ \A k \in K : q[k] \in Nat /\ c[k] \in Nat

\* What the terms of the sum are.
LEMMA NewestTerms ==
  ASSUME NEW K, NEW q, NEW c, Bought(K, q, c)
  PROVE  /\ \A k : LaterQty(K, q, k) \in Nat
         /\ \A x \in Int, k \in K : NewestOf(K, q, c, x, k) \in Nat
         /\ \A x \in Int : Newest(K, q, c, x) \in Nat
<1>1. ASSUME NEW k PROVE LaterQty(K, q, k) \in Nat
  <2>1. PICK J : J = {j \in K : k < j}
    OBVIOUS
  <2>2. IsFiniteSet(J) /\ \A j \in J : q[j] \in Nat
    <3>1. IsFiniteSet(K) /\ J \in SUBSET K
      BY <2>1 DEF Bought
    <3>2. IsFiniteSet(J)
      BY <3>1, FS_Subset
    <3>. QED
      BY <2>1, <3>2 DEF Bought
  <2>3. SumFunctionOnSet(q, J) \in Nat
    BY <2>2, SumNatural
  <2>. QED
    BY <2>1, <2>3 DEF LaterQty
<1>2. ASSUME NEW x \in Int, NEW k \in K PROVE NewestOf(K, q, c, x, k) \in Nat
  <2>1. PICK l \in Nat : l = LaterQty(K, q, k)
    BY <1>1
  <2>2. PICK m : m = Larger(0, Lesser(q[k], x - l))
    OBVIOUS
  <2>3. m \in Nat /\ c[k] \in Nat
    BY <2>1, <2>2 DEF Larger, Lesser, Bought
  <2>4. \A a, b \in Nat : a * b \in Nat
    OBVIOUS
  <2>. QED
    BY <2>1, <2>2, <2>3, <2>4 DEF NewestOf
<1>3. ASSUME NEW x \in Int PROVE Newest(K, q, c, x) \in Nat
  <2>1. PICK h : h = [k \in K |-> NewestOf(K, q, c, x, k)]
    OBVIOUS
  <2>2. IsFiniteSet(K) /\ \A k \in K : h[k] \in Nat
    BY <1>2, <2>1 DEF Bought
  <2>3. SumFunctionOnSet(h, K) \in Nat
    BY <2>2, SumNatural
  <2>. QED
    BY <2>1, <2>3 DEF Newest
<1>. QED
  BY <1>1, <1>2, <1>3

\* One purchase more: the newest shares come from it first.
IsNext(K, q, c, m) == m \in Int /\ Bought(K \cup {m}, q, c) /\ \A k \in K : k < m
NewestPlus(K, q, c, m, x) == Newest(K, q, c, x - q[m]) + Larger(0, Lesser(q[m], x)) * c[m]

\* The newest x shares after one more purchase: its own shares first, then older ones.
LEMMA NewestAdd ==
  ASSUME NEW K, NEW q, NEW c, NEW m, IsNext(K, q, c, m)
  PROVE  \A x \in Int : Newest(K \cup {m}, q, c, x) = NewestPlus(K, q, c, m, x)
<1>. SUFFICES ASSUME NEW x \in Int
              PROVE  Newest(K \cup {m}, q, c, x)
                       = Newest(K, q, c, x - q[m]) + Larger(0, Lesser(q[m], x)) * c[m]
  BY DEF NewestPlus
<1>. m \in Int /\ Bought(K \cup {m}, q, c) /\ \A k \in K : k < m
  BY DEF IsNext
<1>. DEFINE M == K \cup {m}
            F == [k \in M |-> NewestOf(M, q, c, x, k)]
            G == [k \in K |-> NewestOf(K, q, c, x - q[m], k)]
<1>0. K \in SUBSET M /\ m \in M /\ m \notin K /\ q[m] \in Nat /\ c[m] \in Nat
  BY DEF Bought
<1>1. Bought(K, q, c)
  <2>1. IsFiniteSet(K)
    BY <1>0, FS_Subset DEF Bought
  <2>. QED
    BY <1>0, <2>1 DEF Bought
<1>2. \A k \in K : LaterQty(M, q, k) = LaterQty(K, q, k) + q[m]
  <2>1. SUFFICES ASSUME NEW k \in K PROVE LaterQty(M, q, k) = LaterQty(K, q, k) + q[m]
    OBVIOUS
  <2>2. PICK J : J = {j \in K : k < j}
    OBVIOUS
  <2>3. {j \in M : k < j} = J \cup {m} /\ m \notin J
    BY <1>0, <2>2
  <2>4. IsFiniteSet(J) /\ \A j \in J \cup {m} : q[j] \in Int
    <3>1. IsFiniteSet(J)
      BY <1>1, <2>2, FS_Subset DEF Bought
    <3>. QED
      BY <1>0, <1>1, <2>2, <3>1 DEF Bought
  <2>5. SumFunctionOnSet(q, J \cup {m}) = SumFunctionOnSet(q, J) + q[m]
    BY <2>3, <2>4, SumAddOne
  <2>. QED
    BY <2>2, <2>3, <2>5 DEF LaterQty
<1>3. LaterQty(M, q, m) = 0
  <2>1. {j \in M : m < j} = {}
    BY DEF Bought
  <2>2. SumFunctionOnSet(q, {}) = 0
    BY FS_EmptySet, SumStep
  <2>. QED
    BY <2>1, <2>2 DEF LaterQty
<1>4. \A k \in K : F[k] = G[k]
  <2>1. SUFFICES ASSUME NEW k \in K PROVE F[k] = G[k]
    OBVIOUS
  <2>2. PICK l \in Nat : l = LaterQty(K, q, k)
    BY <1>1, NewestTerms
  <2>3. x - (l + q[m]) = (x - q[m]) - l
    BY <1>0
  <2>4. LaterQty(M, q, k) = l + q[m]
    BY <1>2, <2>2
  <2>. QED
    BY <1>0, <2>2, <2>3, <2>4 DEF NewestOf
<1>5. F[m] = Larger(0, Lesser(q[m], x)) * c[m]
  <2>1. x - 0 = x
    OBVIOUS
  <2>. QED
    BY <1>0, <1>3, <2>1 DEF NewestOf
<1>6. \A k \in M : F[k] \in Int
  BY NewestTerms
<1>7. \A k \in K : G[k] \in Int
  <2>1. x - q[m] \in Int
    BY <1>0
  <2>. QED
    BY <1>1, <2>1, NewestTerms
<1>8. Newest(M, q, c, x) = SumFunctionOnSet(F, M) /\ Newest(K, q, c, x - q[m]) = SumFunctionOnSet(G, K)
  BY DEF Newest
<1>9. IsFiniteSet(K)
  BY <1>1 DEF Bought
<1>. HIDE DEF F, G
<1>10. SumFunctionOnSet(F, K \cup {m}) = SumFunctionOnSet(F, K) + F[m]
  BY <1>0, <1>6, <1>9, SumAddOne
<1>11. SumFunctionOnSet(F, K) = SumFunctionOnSet(G, K)
  BY <1>4, <1>7, <1>9, SumSame
<1>. QED
  BY <1>5, <1>8, <1>10, <1>11

\* No shares cost nothing.
LEMMA NewestNone ==
  ASSUME NEW K, NEW q, NEW c, Bought(K, q, c), NEW x \in Int, x <= 0
  PROVE  Newest(K, q, c, x) = 0
<1>1. PICK h : h = [k \in K |-> NewestOf(K, q, c, x, k)]
  OBVIOUS
<1>2. ASSUME NEW k \in K PROVE h[k] = 0
  <2>1. PICK l \in Nat : l = LaterQty(K, q, k)
    BY NewestTerms
  <2>2. Larger(0, Lesser(q[k], x - l)) = 0
    BY <2>1 DEF Bought, Larger, Lesser
  <2>3. c[k] \in Nat
    BY DEF Bought
  <2>4. 0 * c[k] = 0
    BY <2>3
  <2>. QED
    BY <1>1, <2>1, <2>2, <2>4 DEF NewestOf
<1>3. IsFiniteSet(K)
  BY DEF Bought
<1>4. SumFunctionOnSet(h, K) = 0 * Cardinality(K)
  BY <1>2, <1>3, SumConstant
<1>5. 0 * Cardinality(K) = 0
  BY <1>3, FS_CardinalityType
<1>. QED
  BY <1>1, <1>4, <1>5 DEF Newest

\* All of the shares cost what was paid for them.
LEMMA NewestAll ==
  ASSUME NEW K, NEW q, NEW c, Bought(K, q, c), NEW x, x = SumFunctionOnSet(q, K),
         NEW paid, \A k \in K : paid[k] = q[k] * c[k]
  PROVE  Newest(K, q, c, x) = SumFunctionOnSet(paid, K)
<1>0. IsFiniteSet(K) /\ K \in SUBSET Int /\ \A k \in K : q[k] \in Nat /\ c[k] \in Nat
  BY DEF Bought
<1>1. PICK h : h = [k \in K |-> NewestOf(K, q, c, x, k)]
  OBVIOUS
<1>2. ASSUME NEW k \in K PROVE h[k] = paid[k]
  <2>1. PICK J, I : J = {j \in K : k < j} /\ I = {j \in K : j <= k}
    OBVIOUS
  <2>2. J \cup I = K /\ J \cap I = {} /\ k \in I /\ J \in SUBSET K /\ I \in SUBSET K
    <3>1. \A j \in K : k < j <=> ~(j <= k)
      BY <1>0
    <3>2. k <= k
      BY <1>0
    <3>. QED
      BY <2>1, <3>1, <3>2
  <2>3. IsFiniteSet(J) /\ IsFiniteSet(I)
    BY <1>0, <2>2, FS_Subset
  <2>4. \A j \in J \cup I : q[j] \in Int
    BY <1>0, <2>2
  <2>5. SumFunctionOnSet(q, J \cup I) = SumFunctionOnSet(q, J) + SumFunctionOnSet(q, I)
    BY <2>2, <2>3, <2>4, SumUnion
  <2>6. \A j \in I : q[j] \in Nat
    BY <1>0, <2>2
  <2>7. SumFunctionOnSet(q, I) \in Nat /\ q[k] <= SumFunctionOnSet(q, I)
    BY <2>2, <2>3, <2>6, SumNatural
  <2>8. PICK l \in Nat : l = LaterQty(K, q, k)
    BY NewestTerms
  <2>9. x - l = SumFunctionOnSet(q, I)
    <3>1. l = SumFunctionOnSet(q, J) /\ x = l + SumFunctionOnSet(q, I)
      BY <2>1, <2>2, <2>5, <2>8 DEF LaterQty
    <3>. QED
      BY <2>7, <2>8, <3>1
  <2>10. Larger(0, Lesser(q[k], x - l)) = q[k]
    BY <1>0, <2>7, <2>9 DEF Larger, Lesser
  <2>. QED
    BY <1>1, <2>8, <2>10 DEF NewestOf
<1>3. \A k \in K : paid[k] \in Int
  BY <1>0
<1>4. SumFunctionOnSet(h, K) = SumFunctionOnSet(paid, K)
  BY <1>0, <1>2, <1>3, SumSame
<1>. QED
  BY <1>1, <1>4 DEF Newest

\* Only the purchases count.
LEMMA NewestSame ==
  ASSUME NEW K, NEW q, NEW c, Bought(K, q, c), NEW r, NEW d,
         \A k \in K : r[k] = q[k] /\ d[k] = c[k], NEW x
  PROVE  Newest(K, r, d, x) = Newest(K, q, c, x)
<1>1. \A k \in K : LaterQty(K, r, k) = LaterQty(K, q, k)
  <2>1. SUFFICES ASSUME NEW k \in K PROVE LaterQty(K, r, k) = LaterQty(K, q, k)
    OBVIOUS
  <2>2. PICK J : J = {j \in K : k < j}
    OBVIOUS
  <2>3. IsFiniteSet(J)
    BY <2>2, FS_Subset DEF Bought
  <2>4. \A j \in J : q[j] \in Int /\ r[j] = q[j]
    BY <2>2 DEF Bought
  <2>5. SumFunctionOnSet(r, J) = SumFunctionOnSet(q, J)
    BY <2>3, <2>4, SumSame
  <2>. QED
    BY <2>2, <2>5 DEF LaterQty
<1>2. \A k \in K : NewestOf(K, r, d, x, k) = NewestOf(K, q, c, x, k)
  BY <1>1 DEF NewestOf
<1>3. [k \in K |-> NewestOf(K, r, d, x, k)] = [k \in K |-> NewestOf(K, q, c, x, k)]
  BY <1>2
<1>. QED
  BY <1>3 DEF Newest

-----------------------------------------------------------------------------
(* Lots.                                                                   *)

Lot == [qty : Nat \ {0}, cost : Nat]
IsLots(lots) == lots \in Seq(Lot)

QtyIn(lots) == [k \in DOMAIN lots |-> lots[k].qty]
CostIn(lots) == [k \in DOMAIN lots |-> lots[k].cost]
PaidIn(lots) == [k \in DOMAIN lots |-> lots[k].qty * lots[k].cost]
NewestLots(lots, x) == Newest(DOMAIN lots, QtyIn(lots), CostIn(lots), x)

\* What the shares of some lots are and cost.
LEMMA LotsAre ==
  ASSUME NEW lots, IsLots(lots)
  PROVE  /\ Len(lots) \in Nat /\ DOMAIN lots = 1..Len(lots) /\ IsFiniteSet(DOMAIN lots)
         /\ \A k \in DOMAIN lots : /\ QtyIn(lots)[k] \in Nat /\ CostIn(lots)[k] \in Nat
                                   /\ PaidIn(lots)[k] \in Nat
                                   /\ PaidIn(lots)[k] = QtyIn(lots)[k] * CostIn(lots)[k]
                                   /\ QtyIn(lots)[k] = lots[k].qty /\ QtyIn(lots)[k] > 0
                                   /\ CostIn(lots)[k] = lots[k].cost
         /\ Bought(DOMAIN lots, QtyIn(lots), CostIn(lots))
         /\ LotQty(lots) = SumFunctionOnSet(QtyIn(lots), DOMAIN lots) /\ LotQty(lots) \in Nat
         /\ LotCost(lots) = SumFunctionOnSet(PaidIn(lots), DOMAIN lots) /\ LotCost(lots) \in Nat
         /\ NewestLots(lots, LotQty(lots)) = LotCost(lots)
<1>1. Len(lots) \in Nat /\ DOMAIN lots = 1..Len(lots)
  BY DEF IsLots
<1>2. IsFiniteSet(DOMAIN lots)
  BY <1>1, FS_Interval
<1>3. \A k \in DOMAIN lots : lots[k] \in Lot
  BY <1>1 DEF IsLots
<1>4. \A k \in DOMAIN lots : /\ QtyIn(lots)[k] \in Nat /\ CostIn(lots)[k] \in Nat
                             /\ PaidIn(lots)[k] \in Nat
                             /\ PaidIn(lots)[k] = QtyIn(lots)[k] * CostIn(lots)[k]
                             /\ QtyIn(lots)[k] = lots[k].qty /\ QtyIn(lots)[k] > 0
                             /\ CostIn(lots)[k] = lots[k].cost
  <2>1. SUFFICES ASSUME NEW k \in DOMAIN lots
                 PROVE  /\ QtyIn(lots)[k] \in Nat /\ CostIn(lots)[k] \in Nat
                        /\ PaidIn(lots)[k] \in Nat
                        /\ PaidIn(lots)[k] = QtyIn(lots)[k] * CostIn(lots)[k]
                        /\ QtyIn(lots)[k] = lots[k].qty /\ QtyIn(lots)[k] > 0
                        /\ CostIn(lots)[k] = lots[k].cost
    OBVIOUS
  <2>2. lots[k].qty \in Nat /\ lots[k].qty > 0 /\ lots[k].cost \in Nat
    BY <1>3 DEF Lot
  <2>3. \A a, b \in Nat : a * b \in Nat
    OBVIOUS
  <2>. QED
    BY <2>2, <2>3 DEF QtyIn, CostIn, PaidIn
<1>5. Bought(DOMAIN lots, QtyIn(lots), CostIn(lots))
  BY <1>1, <1>2, <1>4 DEF Bought
<1>6. LotQty(lots) = SumFunctionOnSet(QtyIn(lots), DOMAIN lots)
  <2>1. LotQty(lots) = SumFunction(QtyIn(lots))
    BY DEF LotQty, Total, QtyIn
  <2>2. DOMAIN QtyIn(lots) = DOMAIN lots
    BY DEF QtyIn
  <2>. QED
    BY <2>1, <2>2, SumOfFunction
<1>7. LotCost(lots) = SumFunctionOnSet(PaidIn(lots), DOMAIN lots)
  <2>1. LotCost(lots) = SumFunction(PaidIn(lots))
    BY DEF LotCost, Total, PaidIn
  <2>2. DOMAIN PaidIn(lots) = DOMAIN lots
    BY DEF PaidIn
  <2>. QED
    BY <2>1, <2>2, SumOfFunction
<1>8. LotQty(lots) \in Nat
  BY <1>2, <1>4, <1>6, SumNatural
<1>9. LotCost(lots) \in Nat
  BY <1>2, <1>4, <1>7, SumNatural
<1>10. NewestLots(lots, LotQty(lots)) = LotCost(lots)
  <2>1. PICK D, q, c, p, x : D = DOMAIN lots /\ q = QtyIn(lots) /\ c = CostIn(lots)
                             /\ p = PaidIn(lots) /\ x = LotQty(lots)
    OBVIOUS
  <2>2. Bought(D, q, c) /\ x = SumFunctionOnSet(q, D) /\ \A k \in D : p[k] = q[k] * c[k]
    BY <1>4, <1>5, <1>6, <2>1
  <2>3. Newest(D, q, c, x) = SumFunctionOnSet(p, D)
    BY ONLY <2>2, NewestAll
  <2>. QED
    BY <1>7, <2>1, <2>3 DEF NewestLots
<1>. QED
  BY <1>1, <1>2, <1>4, <1>5, <1>6, <1>7, <1>8, <1>9, <1>10

\* No lots.
LEMMA LotsNone ==
  /\ IsLots(<<>>) /\ LotQty(<<>>) = 0 /\ LotCost(<<>>) = 0
  /\ \A x \in Int : NewestLots(<<>>, x) = 0
<1>1. IsLots(<<>>) /\ DOMAIN <<>> = {}
  BY DEF IsLots
<1>2. \A f : SumFunctionOnSet(f, {}) = 0
  BY FS_EmptySet, SumStep
<1>3. LotQty(<<>>) = 0 /\ LotCost(<<>>) = 0
  BY <1>1, <1>2, LotsAre
<1>4. \A x \in Int : NewestLots(<<>>, x) = 0
  BY <1>1, <1>2 DEF NewestLots, Newest
<1>. QED
  BY <1>1, <1>3, <1>4

\* One lot more, the newest.
LEMMA LotsAppend ==
  ASSUME NEW lots, IsLots(lots), NEW e \in Lot
  PROVE  /\ IsLots(Append(lots, e))
         /\ LotQty(Append(lots, e)) = LotQty(lots) + e.qty
         /\ LotCost(Append(lots, e)) = LotCost(lots) + e.qty * e.cost
         /\ \A x \in Int : NewestLots(Append(lots, e), x)
              = NewestLots(lots, x - e.qty) + Larger(0, Lesser(e.qty, x)) * e.cost
<1>1. PICK more : more = Append(lots, e)
  OBVIOUS
<1>2. PICK n \in Nat : n = Len(lots) /\ DOMAIN lots = 1..n
  BY LotsAre
<1>3. IsLots(more) /\ DOMAIN more = 1..n + 1
  BY <1>1, <1>2 DEF IsLots
<1>4. \A k \in 1..n : more[k] = lots[k]
  BY <1>1, <1>2 DEF IsLots
<1>5. more[n + 1] = e
  BY <1>1, <1>2 DEF IsLots
<1>6. 1..n + 1 = (1..n) \cup {n + 1} /\ n + 1 \notin 1..n /\ n + 1 \in 1..n + 1
  OBVIOUS
<1>7. PICK q, c, p, r, d, u : q = QtyIn(more) /\ c = CostIn(more) /\ p = PaidIn(more)
                              /\ r = QtyIn(lots) /\ d = CostIn(lots) /\ u = PaidIn(lots)
  OBVIOUS
<1>8. /\ \A k \in 1..n : q[k] = r[k] /\ c[k] = d[k] /\ p[k] = u[k]
      /\ q[n + 1] = e.qty /\ c[n + 1] = e.cost /\ p[n + 1] = e.qty * e.cost
  BY <1>2, <1>3, <1>4, <1>5, <1>6, <1>7 DEF QtyIn, CostIn, PaidIn
<1>9. /\ Bought(1..n, r, d) /\ IsFiniteSet(1..n)
      /\ \A k \in 1..n : r[k] \in Int /\ d[k] \in Int /\ u[k] \in Int
      /\ LotQty(lots) = SumFunctionOnSet(r, 1..n) /\ LotCost(lots) = SumFunctionOnSet(u, 1..n)
  BY <1>2, <1>7, LotsAre
<1>10. /\ Bought(1..n + 1, q, c)
       /\ \A k \in 1..n + 1 : q[k] \in Int /\ c[k] \in Int /\ p[k] \in Int
       /\ LotQty(more) = SumFunctionOnSet(q, 1..n + 1)
       /\ LotCost(more) = SumFunctionOnSet(p, 1..n + 1)
  BY <1>3, <1>7, LotsAre
<1>11. LotQty(more) = LotQty(lots) + e.qty
  <2>1. SumFunctionOnSet(q, (1..n) \cup {n + 1}) = SumFunctionOnSet(q, 1..n) + q[n + 1]
    <3>1. PICK M, x : M = 1..n /\ x = n + 1
      OBVIOUS
    <3>2. IsFiniteSet(M) /\ x \notin M
      BY <1>6, <1>9, <3>1
    <3>3. \A k \in M \cup {x} : q[k] \in Int
      BY <1>6, <1>10, <3>1
    <3>4. SumFunctionOnSet(q, M \cup {x}) = SumFunctionOnSet(q, M) + q[x]
      BY ONLY <3>2, <3>3, SumAddOne
    <3>. QED
      BY <3>1, <3>4
  <2>2. SumFunctionOnSet(q, 1..n) = SumFunctionOnSet(r, 1..n)
    BY <1>8, <1>9, SumSame
  <2>. QED
    BY <1>6, <1>8, <1>9, <1>10, <2>1, <2>2
<1>12. LotCost(more) = LotCost(lots) + e.qty * e.cost
  <2>1. SumFunctionOnSet(p, (1..n) \cup {n + 1}) = SumFunctionOnSet(p, 1..n) + p[n + 1]
    <3>1. PICK M, x : M = 1..n /\ x = n + 1
      OBVIOUS
    <3>2. IsFiniteSet(M) /\ x \notin M
      BY <1>6, <1>9, <3>1
    <3>3. \A k \in M \cup {x} : p[k] \in Int
      BY <1>6, <1>10, <3>1
    <3>4. SumFunctionOnSet(p, M \cup {x}) = SumFunctionOnSet(p, M) + p[x]
      BY ONLY <3>2, <3>3, SumAddOne
    <3>. QED
      BY <3>1, <3>4
  <2>2. SumFunctionOnSet(p, 1..n) = SumFunctionOnSet(u, 1..n)
    BY <1>8, <1>9, SumSame
  <2>. QED
    BY <1>6, <1>8, <1>9, <1>10, <2>1, <2>2
<1>13. ASSUME NEW x \in Int
       PROVE  NewestLots(more, x)
                = NewestLots(lots, x - e.qty) + Larger(0, Lesser(e.qty, x)) * e.cost
  <2>1. PICK K, m : K = 1..n /\ m = n + 1
    OBVIOUS
  <2>2. m \in Int /\ x \in Int /\ Bought(K \cup {m}, q, c) /\ (\A k \in K : k < m)
    <3>1. \A k \in 1..n : k < n + 1
      OBVIOUS
    <3>2. K \cup {m} = 1..n + 1
      BY <1>6, <2>1
    <3>3. Bought(K \cup {m}, q, c)
      BY <1>10, <3>2
    <3>. QED
      BY <2>1, <3>1, <3>3
  <2>3. Newest(K \cup {m}, q, c, x) = Newest(K, q, c, x - q[m]) + Larger(0, Lesser(q[m], x)) * c[m]
    <3>1. IsNext(K, q, c, m)
      BY <2>2 DEF IsNext
    <3>2. \A y \in Int : Newest(K \cup {m}, q, c, y) = NewestPlus(K, q, c, m, y)
      BY ONLY <3>1, NewestAdd
    <3>. QED
      BY <3>2 DEF NewestPlus
  <2>4. Newest(K, q, c, x - e.qty) = Newest(K, r, d, x - e.qty)
    <3>1. Bought(K, r, d) /\ \A k \in K : q[k] = r[k] /\ c[k] = d[k]
      BY <1>8, <1>9, <2>1
    <3>. QED
      BY ONLY <3>1, NewestSame
  <2>5. NewestLots(more, x) = Newest(K \cup {m}, q, c, x)
    BY <1>3, <1>6, <1>7, <2>1 DEF NewestLots
  <2>6. NewestLots(lots, x - e.qty) = Newest(K, r, d, x - e.qty)
    BY <1>2, <1>7, <2>1 DEF NewestLots
  <2>. QED
    BY <1>8, <2>1, <2>3, <2>4, <2>5, <2>6
<1>. QED
  BY <1>1, <1>3, <1>11, <1>12, <1>13

\* The state of a sale once it has come to the first k lots: it has taken the oldest.
Walked(w, lots, qty, k) ==
  /\ IsLots(w.lots) /\ w.left \in 0..qty /\ w.cost \in Int
  /\ w.left > 0 => LotQty(w.lots) = 0
  /\ LotQty(w.lots) = SumFunctionOnSet(QtyIn(lots), 1..k) - (qty - w.left)
  /\ w.cost = SumFunctionOnSet(PaidIn(lots), 1..k) - LotCost(w.lots)
  /\ \A x \in Int : x <= LotQty(w.lots) =>
       NewestLots(w.lots, x) = Newest(1..k, QtyIn(lots), CostIn(lots), x)

\* One lot of a sale.
LEMMA SellStep ==
  ASSUME NEW lots, IsLots(lots), NEW qty \in Nat, NEW k \in Nat, k + 1 \in DOMAIN lots,
         NEW w, Walked(w, lots, qty, k)
  PROVE  Walked(Taken(w, lots[k + 1]), lots, qty, k + 1)
<1>1. PICK n \in Nat : DOMAIN lots = 1..n
  BY LotsAre
<1>2. PICK q, c, p : q = QtyIn(lots) /\ c = CostIn(lots) /\ p = PaidIn(lots)
  OBVIOUS
<1>3. PICK m : m = k + 1
  OBVIOUS
<1>4. m \in 1..n /\ 1..k \in SUBSET (1..n) /\ 1..m = (1..k) \cup {m} /\ m \notin 1..k /\ m \in Int
      /\ 1..m \in SUBSET (1..n)
  BY <1>1, <1>3
<1>5. /\ \A j \in 1..n : q[j] \in Nat /\ c[j] \in Nat /\ p[j] \in Nat
      /\ q[m] > 0 /\ p[m] = q[m] * c[m] /\ lots[m].qty = q[m] /\ lots[m].cost = c[m]
  BY <1>1, <1>2, <1>4, LotsAre
<1>6. lots[m] \in Lot
  BY <1>1, <1>4 DEF IsLots
<1>7. IsFiniteSet(1..k) /\ IsFiniteSet(1..m)
  BY <1>4, FS_Interval
<1>8. SumFunctionOnSet(q, 1..m) = SumFunctionOnSet(q, 1..k) + q[m]
      /\ SumFunctionOnSet(p, 1..m) = SumFunctionOnSet(p, 1..k) + p[m]
  <2>1. \A j \in (1..k) \cup {m} : q[j] \in Int /\ p[j] \in Int
    BY <1>4, <1>5
  <2>2. SumFunctionOnSet(q, (1..k) \cup {m}) = SumFunctionOnSet(q, 1..k) + q[m]
    BY <1>4, <1>7, <2>1, SumAddOne
  <2>3. SumFunctionOnSet(p, (1..k) \cup {m}) = SumFunctionOnSet(p, 1..k) + p[m]
    BY <1>4, <1>7, <2>1, SumAddOne
  <2>. QED
    BY <1>4, <2>2, <2>3
<1>9. SumFunctionOnSet(q, 1..k) \in Int /\ SumFunctionOnSet(p, 1..k) \in Int
  <2>1. \A j \in 1..k : q[j] \in Int /\ p[j] \in Int
    BY <1>4, <1>5
  <2>. QED
    BY <1>7, <2>1, SumStep
<1>10. Bought(1..m, q, c) /\ Bought(1..k, q, c)
  BY <1>4, <1>5, <1>7 DEF Bought
<1>11. \A x \in Int : Newest(1..m, q, c, x)
                        = Newest(1..k, q, c, x - q[m]) + Larger(0, Lesser(q[m], x)) * c[m]
  <2>1. SUFFICES ASSUME NEW x \in Int
                 PROVE  Newest(1..m, q, c, x)
                          = Newest(1..k, q, c, x - q[m]) + Larger(0, Lesser(q[m], x)) * c[m]
    OBVIOUS
  <2>2. PICK K : K = 1..k
    OBVIOUS
  <2>3. m \in Int /\ x \in Int /\ Bought(K \cup {m}, q, c) /\ (\A j \in K : j < m)
    <3>1. \A j \in 1..k : j < k + 1
      OBVIOUS
    <3>2. K \cup {m} = 1..m
      BY <1>4, <2>2
    <3>. QED
      BY <1>3, <1>4, <1>10, <2>2, <3>1, <3>2
  <2>4. Newest(K \cup {m}, q, c, x) = Newest(K, q, c, x - q[m]) + Larger(0, Lesser(q[m], x)) * c[m]
    <3>1. IsNext(K, q, c, m)
      BY <2>3 DEF IsNext
    <3>2. \A y \in Int : Newest(K \cup {m}, q, c, y) = NewestPlus(K, q, c, m, y)
      BY ONLY <3>1, NewestAdd
    <3>. QED
      BY <3>2 DEF NewestPlus
  <2>. QED
    BY <1>4, <2>2, <2>4
<1>12. \A x \in Int : x <= 0 => Newest(1..k, q, c, x) = 0
  BY <1>10, NewestNone
<1>13. PICK left, had, sumq, sump : left = w.left /\ had = w.lots /\ sumq = SumFunctionOnSet(q, 1..k)
                                    /\ sump = SumFunctionOnSet(p, 1..k)
  OBVIOUS
<1>14. /\ IsLots(had) /\ left \in 0..qty /\ w.cost \in Int
       /\ left > 0 => LotQty(had) = 0
       /\ LotQty(had) = sumq - (qty - left)
       /\ w.cost = sump - LotCost(had)
       /\ \A x \in Int : x <= LotQty(had) => NewestLots(had, x) = Newest(1..k, q, c, x)
  BY <1>2, <1>13 DEF Walked
<1>15. LotQty(had) \in Nat /\ LotCost(had) \in Nat
  BY <1>14, LotsAre
<1>16. PICK sold, v : sold = Lesser(q[m], left) /\ v = Taken(w, lots[m])
  OBVIOUS
<1>17. sold \in Nat /\ sold <= q[m] /\ sold <= left
       /\ (sold = q[m] \/ sold = left)
  BY <1>4, <1>5, <1>14, <1>16 DEF Lesser
<1>18. PICK rest : rest = [lots[m] EXCEPT !.qty = @ - sold]
  OBVIOUS
<1>19. rest.qty = q[m] - sold /\ rest.cost = c[m]
  BY <1>5, <1>6, <1>18 DEF Lot
<1>20. v = [left |-> left - sold, cost |-> w.cost + sold * c[m],
            lots |-> IF rest.qty = 0 THEN had ELSE Append(had, rest)]
  BY <1>5, <1>13, <1>16, <1>18 DEF Taken
<1>21. sold * c[m] \in Int /\ q[m] * c[m] \in Int /\ (q[m] - sold) * c[m] \in Int
       /\ (q[m] - sold) * c[m] = q[m] * c[m] - sold * c[m]
  <2>1. \A a, b, e \in Nat : a * b \in Int /\ (a - e) * b \in Int /\ (a - e) * b = a * b - e * b
    OBVIOUS
  <2>. QED
    BY <1>4, <1>5, <1>17, <2>1
<1>22. CASE rest.qty = 0
  <2>1. sold = q[m] /\ left > 0 /\ LotQty(had) = 0
    BY <1>4, <1>5, <1>14, <1>17, <1>19, <1>22
  <2>2. v.left = left - q[m] /\ v.lots = had /\ v.cost = w.cost + q[m] * c[m]
    BY <1>20, <1>22, <2>1
  <2>3. \A x \in Int : x <= LotQty(had) => NewestLots(had, x) = Newest(1..m, q, c, x)
    <3>1. SUFFICES ASSUME NEW x \in Int, x <= LotQty(had)
                   PROVE  NewestLots(had, x) = Newest(1..m, q, c, x)
      OBVIOUS
    <3>2. x <= 0 /\ NewestLots(had, x) = Newest(1..k, q, c, x)
      BY <1>14, <2>1, <3>1
    <3>3. Newest(1..k, q, c, x) = 0
      BY <1>12, <3>2
    <3>4. Newest(1..m, q, c, x) = 0
      BY <1>10, <3>2, NewestNone
    <3>. QED
      BY <3>2, <3>3, <3>4
  <2>4. v.left \in 0..qty /\ v.cost \in Int
    <3>1. q[m] \in Nat /\ q[m] <= left /\ left \in Nat /\ left <= qty
      BY <1>4, <1>5, <1>14, <1>17, <2>1
    <3>2. w.cost \in Int /\ q[m] * c[m] \in Int
      BY <1>14, <1>21
    <3>. QED
      BY <2>2, <3>1, <3>2
  <2>5. LotQty(v.lots) = SumFunctionOnSet(q, 1..m) - (qty - v.left)
    BY <1>4, <1>5, <1>8, <1>9, <1>13, <1>14, <2>2, SMTT(30)
  <2>6. v.cost = SumFunctionOnSet(p, 1..m) - LotCost(v.lots)
    BY <1>5, <1>8, <1>9, <1>13, <1>14, <1>15, <1>21, <2>2
  <2>. QED
    BY <1>2, <1>3, <1>14, <1>16, <2>1, <2>2, <2>3, <2>4, <2>5, <2>6 DEF Walked
<1>23. CASE rest.qty # 0
  <2>1. sold = left /\ left < q[m]
    BY <1>4, <1>5, <1>14, <1>17, <1>19, <1>23
  <2>2. rest \in Lot
    <3>1. rest.qty \in Nat \ {0}
      BY <1>4, <1>5, <1>14, <1>19, <1>23, <2>1
    <3>. QED
      BY <1>6, <1>18, <1>19, <3>1 DEF Lot
  <2>3. v.left = 0 /\ v.lots = Append(had, rest) /\ v.cost = w.cost + left * c[m]
    BY <1>14, <1>20, <1>23, <2>1
  <2>4. /\ IsLots(v.lots)
        /\ LotQty(v.lots) = LotQty(had) + (q[m] - left)
        /\ LotCost(v.lots) = LotCost(had) + (q[m] - left) * c[m]
        /\ \A x \in Int : NewestLots(v.lots, x)
             = NewestLots(had, x - (q[m] - left)) + Larger(0, Lesser(q[m] - left, x)) * c[m]
    BY <1>14, <1>19, <2>1, <2>2, <2>3, LotsAppend
  <2>5. v.left \in 0..qty /\ v.cost \in Int
    BY <1>14, <1>21, <2>1, <2>3
  <2>6. LotQty(v.lots) = SumFunctionOnSet(q, 1..m) - (qty - v.left)
    BY <1>4, <1>5, <1>8, <1>9, <1>13, <1>14, <2>3, <2>4, SMTT(30)
  <2>7. v.cost = SumFunctionOnSet(p, 1..m) - LotCost(v.lots)
    BY <1>5, <1>8, <1>9, <1>13, <1>14, <1>15, <1>21, <2>1, <2>3, <2>4, SMTT(30)
  <2>8. ASSUME NEW x \in Int, x <= LotQty(v.lots)
        PROVE  NewestLots(v.lots, x) = Newest(1..m, q, c, x)
    <3>1. q[m] \in Nat /\ left \in Nat /\ x - q[m] \in Int /\ x - (q[m] - left) \in Int
          /\ x - (q[m] - left) <= LotQty(had)
      <4>1. q[m] \in Nat /\ left \in Nat /\ LotQty(had) \in Nat
        BY <1>4, <1>5, <1>14, <1>15
      <4>2. x <= LotQty(had) + (q[m] - left)
        BY <2>4, <2>8
      <4>. QED
        BY <4>1, <4>2
    <3>2. CASE left = 0
      <4>1. x - (q[m] - left) = x - q[m] /\ q[m] - left = q[m]
        BY <3>1, <3>2
      <4>2. NewestLots(had, x - q[m]) = Newest(1..k, q, c, x - q[m])
        BY <1>14, <3>1, <4>1
      <4>. QED
        BY <1>11, <2>4, <4>1, <4>2
    <3>3. CASE left > 0
      <4>1. LotQty(had) = 0 /\ x - (q[m] - left) <= 0 /\ x - q[m] <= 0
        BY <1>14, <3>1, <3>3
      <4>2. NewestLots(had, x - (q[m] - left)) = 0 /\ Newest(1..k, q, c, x - q[m]) = 0
        BY <1>12, <1>14, <3>1, <4>1
      <4>3. Larger(0, Lesser(q[m] - left, x)) = Larger(0, Lesser(q[m], x))
        BY <3>1, <3>3, <4>1 DEF Larger, Lesser
      <4>. QED
        BY <1>11, <2>4, <4>2, <4>3
    <3>. QED
      BY <1>14, <3>2, <3>3
  <2>. QED
    BY <1>2, <1>3, <1>16, <2>3, <2>4, <2>5, <2>6, <2>7, <2>8 DEF Walked
<1>. QED
  BY <1>22, <1>23

\* A sale takes the oldest shares: those left are the newest ones, and what it takes from
\* the cost of the lots is the cost of what it sold.
LEMMA SellIs ==
  ASSUME NEW lots, IsLots(lots), NEW qty \in Nat, NEW w, w = Sell(lots, qty)
  PROVE  /\ IsLots(w.lots) /\ w.cost \in Int
         /\ qty <= LotQty(lots) => LotQty(w.lots) = LotQty(lots) - qty
         /\ w.cost = LotCost(lots) - LotCost(w.lots)
         /\ \A x \in Int : x <= LotQty(w.lots) => NewestLots(w.lots, x) = NewestLots(lots, x)
<1>1. PICK n \in Nat : DOMAIN lots = 1..n
  BY LotsAre
<1>2. PICK first : first = [left |-> qty, cost |-> 0, lots |-> <<>>]
  OBVIOUS
<1>3. PICK run : Runs(run, "sell", first, lots, n) /\ w = run[n]
  <2>1. \E run : Runs(run, "sell", first, lots, n) /\ FoldLeft(Taken, first, lots) = run[n]
    BY <1>1, FoldsRun
  <2>2. Sell(lots, qty) = FoldLeft(Taken, first, lots)
    BY <1>2 DEF Sell
  <2>. QED
    BY <2>1, <2>2
<1>4. Walked(run[0], lots, qty, 0)
  <2>1. run[0] = first
    BY <1>3 DEF Runs
  <2>2. 1..0 = {} /\ qty - qty = 0 /\ qty \in 0..qty
    OBVIOUS
  <2>3. \A f : SumFunctionOnSet(f, {}) = 0
    BY FS_EmptySet, SumStep
  <2>4. \A x \in Int : Newest({}, QtyIn(lots), CostIn(lots), x) = 0
    BY <2>3 DEF Newest
  <2>. QED
    BY <1>2, <2>1, <2>2, <2>3, <2>4, LotsNone DEF Walked
<1>. DEFINE T == {k \in Nat : k <= n => Walked(run[k], lots, qty, k)}
<1>5. 0 \in T
  BY <1>4
<1>6. ASSUME NEW k \in Nat, k \in T
      PROVE  k + 1 \in T
  <2>1. SUFFICES ASSUME k + 1 <= n PROVE Walked(run[k + 1], lots, qty, k + 1)
    OBVIOUS
  <2>2. k + 1 \in 1..n /\ (k + 1) - 1 = k /\ k <= n
    BY <2>1
  <2>3. Walked(run[k], lots, qty, k)
    BY <1>6, <2>2
  <2>4. run[k + 1] = Taken(run[k], lots[k + 1])
    BY <1>3, <2>2 DEF Runs, Loop
  <2>. QED
    BY <1>1, <2>2, <2>3, <2>4, SellStep
<1>7. Walked(run[n], lots, qty, n)
  <2>1. n \in T
    <3>. HIDE DEF T
    <3>. QED
      BY <1>5, <1>6, NumberInduction
  <2>. QED
    BY <2>1
<1>8. /\ LotQty(lots) = SumFunctionOnSet(QtyIn(lots), 1..n) /\ LotQty(lots) \in Nat
      /\ LotCost(lots) = SumFunctionOnSet(PaidIn(lots), 1..n)
      /\ \A x : NewestLots(lots, x) = Newest(1..n, QtyIn(lots), CostIn(lots), x)
  BY <1>1, LotsAre DEF NewestLots
<1>9. /\ IsLots(w.lots) /\ w.left \in 0..qty /\ w.cost \in Int
      /\ w.left > 0 => LotQty(w.lots) = 0
      /\ LotQty(w.lots) = LotQty(lots) - (qty - w.left)
      /\ w.cost = LotCost(lots) - LotCost(w.lots)
      /\ \A x \in Int : x <= LotQty(w.lots) => NewestLots(w.lots, x) = NewestLots(lots, x)
  BY <1>3, <1>7, <1>8 DEF Walked
<1>10. qty <= LotQty(lots) => LotQty(w.lots) = LotQty(lots) - qty
  BY <1>8, <1>9
<1>. QED
  BY <1>9, <1>10

-----------------------------------------------------------------------------
(* The walk over the trades of a holding.                                  *)

IsDeal(t) == t.type \in {"BUY", "SELL"} /\ t.qty \in Nat /\ t.price \in Nat /\ t.day \in Nat
AreDeals(a) == Len(a) \in Nat /\ DOMAIN a = 1..Len(a) /\ \A k \in DOMAIN a : IsDeal(a[k])

ChangeIn(a) == [k \in DOMAIN a |-> Change(a[k])]
QtyOf(a) == [k \in DOMAIN a |-> a[k].qty]
PriceOf(a) == [k \in DOMAIN a |-> a[k].price]
PaidOf(a) == [k \in DOMAIN a |-> a[k].qty * a[k].price]
BuysTo(a, k) == {j \in 1..k : a[j].type = "BUY"}
SalesTo(a, k) == {j \in 1..k : a[j].type = "SELL"}

\* What the trades of a holding are.
LEMMA DealsAre ==
  ASSUME NEW a, AreDeals(a)
  PROVE  /\ \A k \in DOMAIN a : /\ ChangeIn(a)[k] \in Int /\ QtyOf(a)[k] \in Nat
                                /\ PriceOf(a)[k] \in Nat /\ PaidOf(a)[k] \in Nat
                                /\ QtyOf(a)[k] = a[k].qty /\ PriceOf(a)[k] = a[k].price
                                /\ PaidOf(a)[k] = a[k].qty * a[k].price
                                /\ a[k].type = "BUY" => ChangeIn(a)[k] = a[k].qty
                                /\ a[k].type = "SELL" => ChangeIn(a)[k] = -a[k].qty
         /\ \A k \in Nat : k <= Len(a) =>
              /\ IsFiniteSet(1..k) /\ 1..k \in SUBSET DOMAIN a
              /\ BuysTo(a, k) \in SUBSET (1..k) /\ IsFiniteSet(BuysTo(a, k))
              /\ SalesTo(a, k) \in SUBSET (1..k) /\ IsFiniteSet(SalesTo(a, k))
              /\ Bought(BuysTo(a, k), QtyOf(a), PriceOf(a))
<1>1. \A k \in DOMAIN a : IsDeal(a[k])
  BY DEF AreDeals
<1>2. ASSUME NEW k \in DOMAIN a
      PROVE  /\ ChangeIn(a)[k] \in Int /\ QtyOf(a)[k] \in Nat
             /\ PriceOf(a)[k] \in Nat /\ PaidOf(a)[k] \in Nat
             /\ QtyOf(a)[k] = a[k].qty /\ PriceOf(a)[k] = a[k].price
             /\ PaidOf(a)[k] = a[k].qty * a[k].price
             /\ a[k].type = "BUY" => ChangeIn(a)[k] = a[k].qty
             /\ a[k].type = "SELL" => ChangeIn(a)[k] = -a[k].qty
  <2>1. a[k].type \in {"BUY", "SELL"} /\ a[k].qty \in Nat /\ a[k].price \in Nat
    BY <1>1 DEF IsDeal
  <2>2. \A x, y \in Nat : x * y \in Nat
    OBVIOUS
  <2>3. ChangeIn(a)[k] = Change(a[k]) /\ Change(a[k]) = IF a[k].type = "BUY" THEN a[k].qty ELSE -a[k].qty
    BY <2>1 DEF ChangeIn, Change
  <2>. QED
    BY <2>1, <2>2, <2>3 DEF QtyOf, PriceOf, PaidOf
<1>3. ASSUME NEW k \in Nat, k <= Len(a)
      PROVE  /\ IsFiniteSet(1..k) /\ 1..k \in SUBSET DOMAIN a
             /\ BuysTo(a, k) \in SUBSET (1..k) /\ IsFiniteSet(BuysTo(a, k))
             /\ SalesTo(a, k) \in SUBSET (1..k) /\ IsFiniteSet(SalesTo(a, k))
             /\ Bought(BuysTo(a, k), QtyOf(a), PriceOf(a))
  <2>1. IsFiniteSet(1..k)
    BY FS_Interval
  <2>2. 1..k \in SUBSET DOMAIN a
    BY <1>3 DEF AreDeals
  <2>3. BuysTo(a, k) \in SUBSET (1..k) /\ SalesTo(a, k) \in SUBSET (1..k)
    BY DEF BuysTo, SalesTo
  <2>4. IsFiniteSet(BuysTo(a, k)) /\ IsFiniteSet(SalesTo(a, k))
    BY <2>1, <2>3, FS_Subset
  <2>5. BuysTo(a, k) \in SUBSET Int /\ \A j \in BuysTo(a, k) : QtyOf(a)[j] \in Nat /\ PriceOf(a)[j] \in Nat
    BY <1>2, <2>2, <2>3
  <2>. QED
    BY <2>1, <2>2, <2>3, <2>4, <2>5 DEF Bought
<1>. QED
  BY <1>2, <1>3

\* One trade more.
LEMMA DealMore ==
  ASSUME NEW a, AreDeals(a), NEW k \in Nat, k + 1 \in DOMAIN a
  PROVE  /\ SumFunctionOnSet(ChangeIn(a), 1..k + 1)
              = SumFunctionOnSet(ChangeIn(a), 1..k) + ChangeIn(a)[k + 1]
         /\ SumFunctionOnSet(ChangeIn(a), 1..k) \in Int
         /\ SumFunctionOnSet(PaidOf(a), BuysTo(a, k)) \in Int
         /\ SumFunctionOnSet(PaidOf(a), SalesTo(a, k)) \in Int
         /\ a[k + 1].type = "BUY" =>
              /\ SalesTo(a, k + 1) = SalesTo(a, k) /\ BuysTo(a, k + 1) = BuysTo(a, k) \cup {k + 1}
              /\ SumFunctionOnSet(PaidOf(a), BuysTo(a, k + 1))
                   = SumFunctionOnSet(PaidOf(a), BuysTo(a, k)) + PaidOf(a)[k + 1]
              /\ IsNext(BuysTo(a, k), QtyOf(a), PriceOf(a), k + 1)
         /\ a[k + 1].type = "SELL" =>
              /\ BuysTo(a, k + 1) = BuysTo(a, k) /\ SalesTo(a, k + 1) = SalesTo(a, k) \cup {k + 1}
              /\ SumFunctionOnSet(PaidOf(a), SalesTo(a, k + 1))
                   = SumFunctionOnSet(PaidOf(a), SalesTo(a, k)) + PaidOf(a)[k + 1]
<1>1. PICK n \in Nat : n = Len(a) /\ DOMAIN a = 1..n
  BY DEF AreDeals
<1>2. PICK m : m = k + 1
  OBVIOUS
<1>3. m \in 1..n /\ m \in Nat /\ 1..m = (1..k) \cup {m} /\ m \notin 1..k /\ k <= n /\ m <= n
      /\ 1..k \in SUBSET (1..n) /\ \A j \in 1..k : j < m
  BY <1>1, <1>2
<1>4. \A j \in 1..n : ChangeIn(a)[j] \in Int /\ PaidOf(a)[j] \in Int
  BY <1>1, DealsAre
<1>5. IsFiniteSet(1..k) /\ IsFiniteSet(BuysTo(a, k)) /\ IsFiniteSet(SalesTo(a, k))
      /\ BuysTo(a, k) \in SUBSET (1..k) /\ SalesTo(a, k) \in SUBSET (1..k)
      /\ Bought(BuysTo(a, m), QtyOf(a), PriceOf(a))
  BY <1>1, <1>3, DealsAre
<1>6. SumFunctionOnSet(ChangeIn(a), (1..k) \cup {m})
        = SumFunctionOnSet(ChangeIn(a), 1..k) + ChangeIn(a)[m]
  <2>1. \A j \in (1..k) \cup {m} : ChangeIn(a)[j] \in Int
    BY <1>3, <1>4
  <2>. QED
    BY <1>3, <1>5, <2>1, SumAddOne
<1>7. SumFunctionOnSet(ChangeIn(a), 1..k) \in Int
  <2>1. \A j \in 1..k : ChangeIn(a)[j] \in Int
    BY <1>3, <1>4
  <2>. QED
    BY <1>5, <2>1, SumStep
<1>8. SumFunctionOnSet(PaidOf(a), BuysTo(a, k)) \in Int
  <2>1. \A j \in BuysTo(a, k) : PaidOf(a)[j] \in Int
    BY <1>3, <1>4, <1>5
  <2>. QED
    BY <1>5, <2>1, SumStep
<1>9. SumFunctionOnSet(PaidOf(a), SalesTo(a, k)) \in Int
  <2>1. \A j \in SalesTo(a, k) : PaidOf(a)[j] \in Int
    BY <1>3, <1>4, <1>5
  <2>. QED
    BY <1>5, <2>1, SumStep
<1>10. CASE a[m].type = "BUY"
  <2>1. SalesTo(a, m) = SalesTo(a, k) /\ BuysTo(a, m) = BuysTo(a, k) \cup {m} /\ m \notin BuysTo(a, k)
    BY <1>3, <1>10 DEF BuysTo, SalesTo
  <2>2. \A j \in BuysTo(a, k) \cup {m} : PaidOf(a)[j] \in Int
    BY <1>3, <1>4, <1>5
  <2>3. SumFunctionOnSet(PaidOf(a), BuysTo(a, k) \cup {m})
          = SumFunctionOnSet(PaidOf(a), BuysTo(a, k)) + PaidOf(a)[m]
    BY <1>5, <2>1, <2>2, SumAddOne
  <2>4. IsNext(BuysTo(a, k), QtyOf(a), PriceOf(a), m)
    BY <1>3, <1>5, <2>1 DEF IsNext
  <2>. QED
    BY <1>2, <1>3, <1>6, <1>7, <1>8, <1>9, <1>10, <2>1, <2>3, <2>4
<1>11. CASE a[m].type # "BUY"
  <2>1. a[m].type = "SELL"
    BY <1>1, <1>3, <1>11 DEF AreDeals, IsDeal
  <2>2. BuysTo(a, m) = BuysTo(a, k) /\ SalesTo(a, m) = SalesTo(a, k) \cup {m} /\ m \notin SalesTo(a, k)
    BY <1>3, <1>11, <2>1 DEF BuysTo, SalesTo
  <2>3. \A j \in SalesTo(a, k) \cup {m} : PaidOf(a)[j] \in Int
    BY <1>3, <1>4, <1>5
  <2>4. SumFunctionOnSet(PaidOf(a), SalesTo(a, k) \cup {m})
          = SumFunctionOnSet(PaidOf(a), SalesTo(a, k)) + PaidOf(a)[m]
    BY <1>5, <2>2, <2>3, SumAddOne
  <2>. QED
    BY <1>2, <1>3, <1>6, <1>7, <1>8, <1>9, <2>1, <2>2, <2>4
<1>. QED
  BY <1>10, <1>11

\* A trade leaves lots, and a sale costs something.
LEMMA LotsAfter ==
  ASSUME NEW lots, IsLots(lots), NEW t, IsDeal(t)
  PROVE  /\ IsLots(AfterTrade(lots, t))
         /\ t.type = "SELL" => AfterTrade(lots, t) = Sell(lots, t.qty).lots
                               /\ Sell(lots, t.qty).cost \in Int
         /\ t.type = "BUY" /\ t.qty = 0 => AfterTrade(lots, t) = lots
         /\ t.type = "BUY" /\ t.qty > 0 =>
              /\ [qty |-> t.qty, cost |-> t.price] \in Lot
              /\ AfterTrade(lots, t) = Append(lots, [qty |-> t.qty, cost |-> t.price])
<1>0. t.qty \in Nat /\ t.price \in Nat /\ t.type \in {"BUY", "SELL"}
  BY DEF IsDeal
<1>1. CASE t.type = "SELL"
  <2>1. AfterTrade(lots, t) = Sell(lots, t.qty).lots
    BY <1>1 DEF AfterTrade
  <2>. QED
    BY <1>0, <1>1, <2>1, SellIs
<1>2. CASE t.type = "BUY" /\ t.qty = 0
  BY <1>2 DEF AfterTrade
<1>3. CASE t.type = "BUY" /\ t.qty > 0
  <2>1. [qty |-> t.qty, cost |-> t.price] \in Lot
    BY <1>0, <1>3 DEF Lot
  <2>2. AfterTrade(lots, t) = Append(lots, [qty |-> t.qty, cost |-> t.price])
    BY <1>3 DEF AfterTrade
  <2>. QED
    BY <1>3, <2>1, <2>2, LotsAppend
<1>. QED
  BY <1>0, <1>1, <1>2, <1>3

\* The state of the walk after the first k trades, none of which sold more than was held.
Kept(m, a, k) ==
  /\ LotQty(m.lots) = SumFunctionOnSet(ChangeIn(a), 1..k)
  /\ \A x \in Int : x <= LotQty(m.lots) =>
       NewestLots(m.lots, x) = Newest(BuysTo(a, k), QtyOf(a), PriceOf(a), x)
  /\ m.realized = SumFunctionOnSet(PaidOf(a), SalesTo(a, k))
                  - (SumFunctionOnSet(PaidOf(a), BuysTo(a, k)) - LotCost(m.lots))

\* One trade of the walk: a purchase is the newest, a sale takes the oldest.
LEMMA WalkStep ==
  ASSUME NEW a, AreDeals(a), NEW k \in Nat, k + 1 \in DOMAIN a,
         NEW m, IsLots(m.lots), m.realized \in Int, NEW v, v = Booked(m, a[k + 1])
  PROVE  /\ IsLots(v.lots) /\ v.realized \in Int /\ v.lots = AfterTrade(m.lots, a[k + 1])
         /\ Kept(m, a, k) /\ SumFunctionOnSet(ChangeIn(a), 1..k + 1) >= 0 => Kept(v, a, k + 1)
<1>1. PICK t : t = a[k + 1]
  OBVIOUS
<1>2. IsDeal(t) /\ t.qty \in Nat /\ t.price \in Nat /\ t.type \in {"BUY", "SELL"}
  BY <1>1 DEF AreDeals, IsDeal
<1>3. v.lots = AfterTrade(m.lots, t) /\ IsLots(v.lots)
      /\ v.realized = IF t.type = "SELL" THEN m.realized + t.qty * t.price - Sell(m.lots, t.qty).cost
                      ELSE m.realized
  BY <1>1, <1>2, LotsAfter DEF Booked
<1>4. t.qty * t.price \in Int
  <2>1. \A x, y \in Nat : x * y \in Int
    OBVIOUS
  <2>. QED
    BY <1>2, <2>1
<1>5. v.realized \in Int
  <2>1. CASE t.type = "SELL"
    <3>1. PICK cost : cost = Sell(m.lots, t.qty).cost
      OBVIOUS
    <3>2. cost \in Int
      BY <1>2, <2>1, <3>1, LotsAfter
    <3>3. v.realized = m.realized + t.qty * t.price - cost
      BY <1>3, <2>1, <3>1
    <3>. QED
      BY <1>4, <3>2, <3>3
  <2>. QED
    BY <1>3, <2>1
<1>6. PICK chg, chg1, buys, sales, c, paid, q, p, B :
        /\ chg = SumFunctionOnSet(ChangeIn(a), 1..k) /\ chg1 = SumFunctionOnSet(ChangeIn(a), 1..k + 1)
        /\ buys = SumFunctionOnSet(PaidOf(a), BuysTo(a, k))
        /\ sales = SumFunctionOnSet(PaidOf(a), SalesTo(a, k))
        /\ c = ChangeIn(a)[k + 1] /\ paid = PaidOf(a)[k + 1] /\ q = QtyOf(a) /\ p = PriceOf(a)
        /\ B = BuysTo(a, k)
  OBVIOUS
<1>7. /\ chg1 = chg + c /\ chg \in Int /\ buys \in Int /\ sales \in Int
      /\ paid = t.qty * t.price /\ q[k + 1] = t.qty /\ p[k + 1] = t.price
      /\ t.type = "BUY" => c = t.qty
      /\ t.type = "SELL" => c = -t.qty
      /\ t.type = "BUY" =>
           /\ SalesTo(a, k + 1) = SalesTo(a, k) /\ BuysTo(a, k + 1) = B \cup {k + 1}
           /\ SumFunctionOnSet(PaidOf(a), BuysTo(a, k + 1)) = buys + paid
           /\ IsNext(B, q, p, k + 1)
      /\ t.type = "SELL" =>
           /\ BuysTo(a, k + 1) = B
           /\ SumFunctionOnSet(PaidOf(a), SalesTo(a, k + 1)) = sales + paid
  BY <1>1, <1>6, DealMore, DealsAre
<1>8. ASSUME Kept(m, a, k), chg1 >= 0
      PROVE  Kept(v, a, k + 1)
  <2>1. /\ LotQty(m.lots) = chg /\ m.realized = sales - (buys - LotCost(m.lots))
        /\ \A x \in Int : x <= LotQty(m.lots) => NewestLots(m.lots, x) = Newest(B, q, p, x)
    BY <1>6, <1>8 DEF Kept
  <2>2. LotCost(m.lots) \in Nat
    BY LotsAre
  <2>3. CASE t.type = "SELL"
    <3>1. PICK w : w = Sell(m.lots, t.qty)
      OBVIOUS
    <3>2. t.qty <= LotQty(m.lots)
      BY <1>2, <1>7, <1>8, <2>1, <2>3
    <3>3. /\ w.cost \in Int /\ LotQty(w.lots) = LotQty(m.lots) - t.qty
          /\ w.cost = LotCost(m.lots) - LotCost(w.lots)
          /\ \A x \in Int : x <= LotQty(w.lots) => NewestLots(w.lots, x) = NewestLots(m.lots, x)
      BY <1>2, <3>1, <3>2, SellIs
    <3>4. v.lots = w.lots
      BY <1>2, <1>3, <2>3, <3>1, LotsAfter
    <3>5. LotCost(w.lots) \in Nat
      BY <1>3, <3>4, LotsAre
    <3>6. LotQty(v.lots) = chg1
      BY <1>2, <1>7, <2>1, <2>3, <3>3, <3>4
    <3>7. \A x \in Int : x <= LotQty(v.lots) => NewestLots(v.lots, x) = Newest(B, q, p, x)
      BY <1>2, <1>7, <2>1, <3>3, <3>4
    <3>8. v.realized = (sales + paid) - (buys - LotCost(v.lots))
      BY <1>3, <1>4, <1>7, <2>1, <2>2, <2>3, <3>1, <3>3, <3>4, <3>5
    <3>. QED
      BY <1>6, <1>7, <2>3, <3>6, <3>7, <3>8 DEF Kept
  <2>4. CASE t.type = "BUY"
    <3>1. PICK e : e = [qty |-> t.qty, cost |-> t.price]
      OBVIOUS
    <3>2. \A x \in Int : Newest(BuysTo(a, k + 1), q, p, x)
                           = Newest(B, q, p, x - t.qty) + Larger(0, Lesser(t.qty, x)) * t.price
      <4>1. IsNext(B, q, p, k + 1)
        BY <1>7, <2>4
      <4>2. PICK n : n = k + 1
        OBVIOUS
      <4>3. IsNext(B, q, p, n)
        BY <4>1, <4>2
      <4>4. \A x \in Int : Newest(B \cup {n}, q, p, x) = NewestPlus(B, q, p, n, x)
        BY ONLY <4>3, NewestAdd
      <4>. QED
        BY <1>7, <2>4, <4>2, <4>4 DEF NewestPlus
    <3>3. v.realized = m.realized
      BY <1>3, <2>4
    <3>4. CASE t.qty > 0
      <4>1. v.lots = Append(m.lots, e) /\ e \in Lot /\ e.qty = t.qty /\ e.cost = t.price
        BY <1>2, <1>3, <2>4, <3>1, <3>4, LotsAfter
      <4>2. /\ LotQty(v.lots) = LotQty(m.lots) + t.qty
            /\ LotCost(v.lots) = LotCost(m.lots) + paid
            /\ \A x \in Int : NewestLots(v.lots, x)
                 = NewestLots(m.lots, x - t.qty) + Larger(0, Lesser(t.qty, x)) * t.price
        BY <1>7, <4>1, LotsAppend
      <4>3. LotQty(v.lots) = chg1
        BY <1>7, <2>1, <2>4, <4>2
      <4>4. ASSUME NEW x \in Int, x <= LotQty(v.lots)
            PROVE  NewestLots(v.lots, x) = Newest(BuysTo(a, k + 1), q, p, x)
        <5>1. x - t.qty \in Int /\ x - t.qty <= LotQty(m.lots)
          BY <1>2, <1>7, <2>1, <4>2, <4>4
        <5>. QED
          BY <2>1, <3>2, <4>2, <5>1
      <4>5. v.realized = sales - ((buys + paid) - LotCost(v.lots))
        BY <1>4, <1>7, <2>1, <2>2, <3>3, <4>2
      <4>. QED
        BY <1>6, <1>7, <2>4, <4>3, <4>4, <4>5 DEF Kept
    <3>5. CASE t.qty = 0
      <4>1. v.lots = m.lots
        BY <1>2, <1>3, <2>4, <3>5, LotsAfter
      <4>2. paid = 0 /\ c = 0
        <5>1. 0 * t.price = 0
          BY <1>2
        <5>. QED
          BY <1>7, <2>4, <3>5, <5>1
      <4>3. LotQty(v.lots) = chg1
        BY <1>7, <2>1, <4>1, <4>2
      <4>4. ASSUME NEW x \in Int, x <= LotQty(v.lots)
            PROVE  NewestLots(v.lots, x) = Newest(BuysTo(a, k + 1), q, p, x)
        <5>1. Larger(0, Lesser(t.qty, x)) = 0 /\ x - t.qty = x
          BY <3>5 DEF Larger, Lesser
        <5>2. 0 * t.price = 0
          BY <1>2
        <5>3. NewestLots(v.lots, x) = Newest(B, q, p, x)
          BY <2>1, <4>1, <4>4
        <5>4. Newest(B, q, p, x) \in Int
          <6>1. Bought(B, q, p)
            <7>1. k <= Len(a)
              BY DEF AreDeals
            <7>. QED
              BY <1>6, <7>1, DealsAre
          <6>. QED
            BY <6>1, NewestTerms
        <5>. QED
          BY <3>2, <5>1, <5>2, <5>3, <5>4
      <4>5. v.realized = sales - ((buys + paid) - LotCost(v.lots))
        BY <1>7, <2>1, <2>2, <3>3, <4>1, <4>2
      <4>. QED
        BY <1>6, <1>7, <2>4, <4>3, <4>4, <4>5 DEF Kept
    <3>. QED
      BY <1>2, <3>4, <3>5
  <2>. QED
    BY <1>2, <2>3, <2>4
<1>. QED
  BY <1>1, <1>3, <1>5, <1>6, <1>8

-----------------------------------------------------------------------------
\* The walk of the figures and that of the timeline after the first k trades.
Walks(m, s, a, k) ==
  /\ IsLots(m[k].lots) /\ m[k].realized \in Int /\ s[k].lots = m[k].lots
  /\ (\A j \in 1..k : SumFunctionOnSet(ChangeIn(a), 1..j) >= 0) => Kept(m[k], a, k)
  /\ DOMAIN s[k].days = {a[j].day : j \in 1..k}
  /\ \A d \in DOMAIN s[k].days : s[k].days[d].qty \in Nat /\ s[k].days[d].invested \in Nat
  /\ k > 0 => s[k].days[a[k].day] = [qty |-> LotQty(m[k].lots), invested |-> LotCost(m[k].lots)]

\* Before the first trade.
LEMMA WalksBegin ==
  ASSUME NEW a, AreDeals(a),
         NEW m, m[0] = [lots |-> <<>>, realized |-> 0],
         NEW s, s[0] = [lots |-> <<>>, days |-> <<>>]
  PROVE  Walks(m, s, a, 0)
<1>1. 1..0 = {} /\ BuysTo(a, 0) = {} /\ SalesTo(a, 0) = {}
  BY DEF BuysTo, SalesTo
<1>2. IsLots(<<>>) /\ LotQty(<<>>) = 0 /\ LotCost(<<>>) = 0 /\ \A x \in Int : NewestLots(<<>>, x) = 0
  BY LotsNone
<1>3. \A f : SumFunctionOnSet(f, {}) = 0
  <2>1. IsFiniteSet({})
    BY FS_EmptySet
  <2>. QED
    BY <2>1, SumStep
<1>4. \A x \in Int : x <= 0 => Newest({}, QtyOf(a), PriceOf(a), x) = 0
  <2>1. Bought({}, QtyOf(a), PriceOf(a))
    BY FS_EmptySet DEF Bought
  <2>. QED
    BY <2>1, NewestNone
<1>5. Kept(m[0], a, 0)
  <2>1. m[0].lots = <<>> /\ m[0].realized = 0
    OBVIOUS
  <2>2. PICK q, c, e : q = QtyOf(a) /\ c = PriceOf(a) /\ e = ChangeIn(a)
    OBVIOUS
  <2>3. /\ SumFunctionOnSet(ChangeIn(a), 1..0) = 0
        /\ SumFunctionOnSet(PaidOf(a), SalesTo(a, 0)) = 0
        /\ SumFunctionOnSet(PaidOf(a), BuysTo(a, 0)) = 0
    BY <1>1, <1>3
  <2>4. \A x \in Int : x <= 0 => NewestLots(<<>>, x) = Newest(BuysTo(a, 0), QtyOf(a), PriceOf(a), x)
    BY <1>1, <1>2, <1>4
  <2>5. 0 = 0 - (0 - 0)
    OBVIOUS
  <2>. QED
    BY <1>2, <2>1, <2>3, <2>4, <2>5 DEF Kept
<1>. QED
  BY <1>1, <1>2, <1>5 DEF Walks

\* One trade more.
LEMMA WalksStep ==
  ASSUME NEW a, AreDeals(a), NEW k \in Nat, k + 1 \in DOMAIN a, NEW m, NEW s,
         Walks(m, s, a, k), m[k + 1] = Booked(m[k], a[k + 1]),
         s[k + 1] = Entered(s[k], a[k + 1])
  PROVE  Walks(m, s, a, k + 1)
<1>1. PICK n : n = k + 1
  OBVIOUS
<1>2. n \in Nat /\ n > 0 /\ 1..k \subseteq 1..n /\ n \in 1..n /\ \A j \in 1..n : j \in 1..k \/ j = n
  BY <1>1
<1>3. PICK had, w, t : had = m[k] /\ w = m[n] /\ t = a[n]
  OBVIOUS
<1>4. IsLots(had.lots) /\ had.realized \in Int /\ w = Booked(had, a[k + 1])
  BY <1>1, <1>3 DEF Walks
<1>5. /\ IsLots(w.lots) /\ w.realized \in Int /\ w.lots = AfterTrade(had.lots, a[k + 1])
      /\ Kept(had, a, k) /\ SumFunctionOnSet(ChangeIn(a), 1..k + 1) >= 0 => Kept(w, a, k + 1)
  BY ONLY AreDeals(a), k \in Nat, k + 1 \in DOMAIN a, <1>4, WalkStep
<1>6. (\A j \in 1..n : SumFunctionOnSet(ChangeIn(a), 1..j) >= 0) => Kept(m[n], a, n)
  BY <1>1, <1>2, <1>3, <1>5 DEF Walks
<1>7. PICK f : f = [qty |-> LotQty(w.lots), invested |-> LotCost(w.lots)]
  OBVIOUS
<1>8. LotQty(w.lots) \in Nat /\ LotCost(w.lots) \in Nat
  BY <1>5, LotsAre
<1>9. s[n] = [lots |-> w.lots,
              days |-> [d \in DOMAIN s[k].days \cup {t.day} |-> IF d = t.day THEN f ELSE s[k].days[d]]]
  BY <1>1, <1>3, <1>5, <1>7 DEF Entered, Walks
<1>10. DOMAIN s[k].days = {a[j].day : j \in 1..k}
       /\ \A d \in DOMAIN s[k].days : s[k].days[d].qty \in Nat /\ s[k].days[d].invested \in Nat
  BY DEF Walks
<1>11. DOMAIN s[n].days = {a[j].day : j \in 1..n}
  BY <1>2, <1>3, <1>9, <1>10
<1>12. s[n].days[t.day] = f
  BY <1>9
<1>13. \A d \in DOMAIN s[n].days : s[n].days[d].qty \in Nat /\ s[n].days[d].invested \in Nat
  BY <1>7, <1>8, <1>9, <1>10
<1>14. IsLots(m[n].lots) /\ m[n].realized \in Int /\ s[n].lots = m[n].lots
  BY <1>3, <1>5, <1>9
<1>15. s[n].days[a[n].day] = [qty |-> LotQty(m[n].lots), invested |-> LotCost(m[n].lots)]
  BY <1>3, <1>7, <1>12
<1>16. Walks(m, s, a, n)
  BY ONLY <1>6, <1>11, <1>13, <1>14, <1>15 DEF Walks
<1>. QED
  BY <1>1, <1>16

NoneShort(a) == \A k \in DOMAIN a : SumFunctionOnSet(ChangeIn(a), 1..k) >= 0

\* Where the two walks end.
WalkedThrough(m, s, a) ==
  /\ m = FoldLeft(Booked, [lots |-> <<>>, realized |-> 0], a)
  /\ s = FoldLeft(Entered, [lots |-> <<>>, days |-> <<>>], a)
  /\ IsLots(m.lots) /\ m.realized \in Int /\ s.lots = m.lots
  /\ NoneShort(a) => Kept(m, a, Len(a))
  /\ DOMAIN s.days = {a[j].day : j \in DOMAIN a}
  /\ \A d \in DOMAIN s.days : s.days[d].qty \in Nat /\ s.days[d].invested \in Nat
  /\ IF Len(a) > 0
     THEN s.days[a[Len(a)].day] = [qty |-> LotQty(m.lots), invested |-> LotCost(m.lots)]
     ELSE m.lots = <<>>

\* The walk over a holding ends at the figures and the timeline the code returns.
LEMMA WalksEnd ==
  ASSUME NEW a, AreDeals(a)
  PROVE  \E m, s : WalkedThrough(m, s, a)
<1>1. PICK n \in Nat : n = Len(a) /\ DOMAIN a = 1..n
  BY DEF AreDeals
<1>2. PICK m0, s0 : m0 = [lots |-> <<>>, realized |-> 0] /\ s0 = [lots |-> <<>>, days |-> <<>>]
  OBVIOUS
<1>3. PICK m : Runs(m, "metrics", m0, a, n) /\ FoldLeft(Booked, m0, a) = m[n]
  BY <1>1, FoldsRun
<1>4. PICK s : Runs(s, "timeline", s0, a, n) /\ FoldLeft(Entered, s0, a) = s[n]
  BY <1>1, FoldsRun
<1>5. m[0] = m0 /\ s[0] = s0 /\ \A k \in 1..n : m[k] = Booked(m[k - 1], a[k])
                                            /\ s[k] = Entered(s[k - 1], a[k])
  BY <1>3, <1>4 DEF Runs, Loop
<1>. DEFINE T == {k \in Nat : k <= n => Walks(m, s, a, k)}
<1>6. 0 \in T
  BY <1>2, <1>5, WalksBegin
<1>7. ASSUME NEW k \in Nat, k \in T
      PROVE  k + 1 \in T
  <2>1. CASE k + 1 <= n
    <3>1. k + 1 \in DOMAIN a /\ Walks(m, s, a, k) /\ (k + 1) - 1 = k /\ k + 1 \in 1..n
      BY <1>1, <1>7, <2>1
    <3>2. m[k + 1] = Booked(m[k], a[k + 1]) /\ s[k + 1] = Entered(s[k], a[k + 1])
      BY <1>5, <3>1
    <3>3. Walks(m, s, a, k + 1)
      BY <3>1, <3>2, WalksStep
    <3>. QED
      BY <3>3
  <2>2. CASE ~(k + 1 <= n)
    BY <2>2
  <2>. QED
    BY <2>1, <2>2
<1>8. n \in T
  <2>. HIDE DEF T
  <2>. QED
    BY <1>6, <1>7, NumberInduction
<1>9. Walks(m, s, a, n)
  BY <1>8
<1>10. PICK mn, sn : mn = m[n] /\ sn = s[n]
  OBVIOUS
<1>11. IF n > 0 THEN sn.days[a[n].day] = [qty |-> LotQty(mn.lots), invested |-> LotCost(mn.lots)]
       ELSE mn.lots = <<>>
  BY <1>2, <1>5, <1>9, <1>10 DEF Walks
<1>12. NoneShort(a) => Kept(mn, a, n)
  BY <1>1, <1>9, <1>10 DEF Walks, NoneShort
<1>13. WalkedThrough(mn, sn, a)
  BY <1>1, <1>2, <1>3, <1>4, <1>9, <1>10, <1>11, <1>12 DEF Walks, WalkedThrough
<1>. QED
  BY <1>13

-----------------------------------------------------------------------------
(* Trades in order.                                                        *)

\* The positions of a sequence that is taken from another.
Picks(f, r, s, K, key) ==
  /\ SortedBy(f, K, key)
  /\ Len(r) = Cardinality(K) /\ Len(r) \in Nat /\ DOMAIN r = 1..Len(r) /\ r \in Seq(Range(s))
  /\ \A i \in DOMAIN r : f[i] \in K /\ r[i] = s[f[i]]
  /\ \A k \in K : \E i \in DOMAIN r : f[i] = k
  /\ \A i, j \in DOMAIN r : i < j <=> Precedes(key, f[i], f[j])
  /\ Range(r) = {s[k] : k \in K}
  /\ K = {} <=> r = <<>>

\* What is sorted consists of the elements at K, each once, in the order of the keys.
LEMMA SortedPicks ==
  ASSUME NEW s, NEW n \in Nat, DOMAIN s = 1..n, NEW K \in SUBSET (1..n),
         NEW key, \A k \in K : key[k] \in Int, NEW r, r = Sorted(s, K, key)
  PROVE  \E f : Picks(f, r, s, K, key)
<1>1. K \in SUBSET Int
  OBVIOUS
<1>2. IsFiniteSet(K)
  <2>1. IsFiniteSet(1..n)
    BY FS_Interval
  <2>. QED
    BY <2>1, FS_Subset
<1>3. PICK f : SortedBy(f, K, key) /\ r = [i \in 1..Cardinality(K) |-> s[f[i]]]
  BY <1>1, <1>2, SortedIs
<1>4. PICK c \in Nat : c = Cardinality(K)
  BY <1>2, FS_CardinalityType
<1>5. /\ f \in [1..c -> K] /\ \A k \in K : \E i \in 1..c : f[i] = k
      /\ \A i, j \in 1..c : i < j <=> Precedes(key, f[i], f[j])
  BY <1>3, <1>4 DEF SortedBy
<1>6. DOMAIN r = 1..c /\ \A i \in 1..c : f[i] \in K /\ r[i] = s[f[i]]
  BY <1>3, <1>4, <1>5
<1>7. \A i \in 1..c : r[i] \in Range(s)
  BY <1>6 DEF Range
<1>8. r \in Seq(Range(s)) /\ Len(r) = c
  BY <1>3, <1>4, <1>6, <1>7
<1>9. Range(r) = {s[k] : k \in K}
  <2>1. ASSUME NEW x
        PROVE  x \in Range(r) <=> \E i \in 1..c : x = s[f[i]]
    BY <1>6 DEF Range
  <2>2. ASSUME NEW x
        PROVE  x \in {s[k] : k \in K} <=> \E i \in 1..c : x = s[f[i]]
    <3>1. ASSUME NEW k \in K, x = s[k]
          PROVE  \E i \in 1..c : x = s[f[i]]
      <4>1. PICK i \in 1..c : f[i] = k
        BY <1>5
      <4>. QED
        BY <3>1, <4>1
    <3>2. \A i \in 1..c : f[i] \in K
      BY <1>5
    <3>. QED
      BY <3>1, <3>2
  <2>. QED
    BY <2>1, <2>2
<1>10. K = {} <=> r = <<>>
  <2>1. K = {} <=> c = 0
    BY <1>2, <1>4, FS_EmptySet
  <2>2. r = <<>> <=> c = 0
    BY <1>8
  <2>. QED
    BY <2>1, <2>2
<1>11. Picks(f, r, s, K, key)
  <2>1. Len(r) = Cardinality(K) /\ Len(r) \in Nat /\ DOMAIN r = 1..Len(r)
    BY <1>4, <1>6, <1>8
  <2>2. DOMAIN r = 1..c
    BY <1>6
  <2>. QED
    BY ONLY <1>3, <1>5, <1>6, <1>8, <1>9, <1>10, <2>1, <2>2 DEF Picks
<1>. QED
  BY <1>11

\* A selection keeps the order.
LEMMA OnlyPicks ==
  ASSUME NEW s, NEW n \in Nat, DOMAIN s = 1..n, NEW K \in SUBSET (1..n),
         NEW r, r = Only(s, K)
  PROVE  \E f, key : /\ Picks(f, r, s, K, key)
                     /\ \A i, j \in DOMAIN r : i < j <=> f[i] < f[j]
<1>1. PICK key : key = [k \in K |-> k]
  OBVIOUS
<1>2. \A k \in K : key[k] \in Int /\ key[k] = k
  BY <1>1
<1>3. r = Sorted(s, K, key)
  BY <1>1 DEF Only
<1>4. PICK f : Picks(f, r, s, K, key)
  BY <1>2, <1>3, SortedPicks
<1>5. \A i, j \in DOMAIN r : i < j <=> f[i] < f[j]
  <2>0. \A i \in DOMAIN r : f[i] \in K
    BY <1>4 DEF Picks
  <2>1. \A i \in DOMAIN r : f[i] \in K /\ f[i] \in Int
    BY <2>0
  <2>2. \A i, j \in DOMAIN r : i < j <=> Precedes(key, f[i], f[j])
    BY <1>4 DEF Picks
  <2>. QED
    BY <1>2, <2>1, <2>2 DEF Precedes
<1>. QED
  BY <1>4, <1>5

\* Selecting all of a sequence leaves it as it is.
LEMMA OnlyAll ==
  ASSUME NEW T, NEW s \in Seq(T), NEW n \in Nat, DOMAIN s = 1..n
  PROVE  Only(s, 1..n) = s
<1>1. PICK r : r = Only(s, 1..n)
  OBVIOUS
<1>2. 1..n \in SUBSET (1..n)
  OBVIOUS
<1>3. PICK f, key : Picks(f, r, s, 1..n, key) /\ \A i, j \in DOMAIN r : i < j <=> f[i] < f[j]
  BY <1>1, <1>2, OnlyPicks
<1>4. Cardinality(1..n) = n
  BY FS_Interval
<1>5. DOMAIN r = 1..n /\ r \in Seq(Range(s)) /\ \A i \in 1..n : f[i] \in 1..n /\ r[i] = s[f[i]]
  BY <1>3, <1>4 DEF Picks
<1>6. \A k \in 1..n : \E i \in 1..n : f[i] = k
  BY <1>3, <1>5 DEF Picks
<1>7. \A i, j \in 1..n : i < j <=> f[i] < f[j]
  BY <1>3, <1>5
<1>. DEFINE A == {i \in Nat : i \in 1..n => \A j \in 1..i : f[j] = j}
<1>8. 0 \in A
  OBVIOUS
<1>9. ASSUME NEW i \in Nat, i \in A
      PROVE  i + 1 \in A
  <2>1. SUFFICES ASSUME i + 1 \in 1..n PROVE f[i + 1] = i + 1 /\ \A j \in 1..i : f[j] = j
    OBVIOUS
  <2>2. \A j \in 1..i : f[j] = j
    BY <1>9, <2>1
  <2>3. PICK m \in 1..n : f[m] = i + 1
    BY <1>6, <2>1
  <2>4. m \notin 1..i
    BY <2>2, <2>3
  <2>5. f[i + 1] > i
    <3>1. CASE i = 0
      BY <1>5, <2>1, <3>1
    <3>2. CASE i # 0
      <4>1. i \in 1..n /\ i \in 1..i /\ i < i + 1
        BY <2>1, <3>2
      <4>. QED
        BY <1>5, <1>7, <2>1, <2>2, <4>1
    <3>. QED
      BY <3>1, <3>2
  <2>6. m = i + 1
    <3>1. CASE i + 1 < m
      <4>1. f[i + 1] < f[m]
        BY <1>7, <2>1, <3>1
      <4>. QED
        BY <1>5, <2>1, <2>3, <2>5, <4>1
    <3>. QED
      BY <2>1, <2>4, <3>1
  <2>. QED
    BY <2>2, <2>3, <2>6
<1>10. n \in A
  <2>. HIDE DEF A
  <2>. QED
    BY <1>8, <1>9, NumberInduction
<1>11. \A i \in 1..n : r[i] = s[i]
  BY <1>5, <1>10
<1>12. Len(s) = n /\ Len(r) = n /\ s = [i \in 1..n |-> s[i]] /\ r = [i \in 1..n |-> r[i]]
  BY <1>5
<1>. QED
  BY <1>1, <1>11, <1>12

\* Trades one after the other.
InOrder(ts) ==
  /\ ts \in Seq(Trades)
  /\ \A i, j \in DOMAIN ts : i < j => ts[i].day <= ts[j].day

\* The parts of a trade.
LEMMA TradeIs ==
  ASSUME NEW t \in Trades
  PROVE  /\ t.portfolio \in Portfolios /\ t.sym \in Symbols /\ t.day \in Days /\ t.day \in Nat
         /\ t.type \in {"BUY", "SELL", "STOCK_SPLIT"} /\ t.qty \in Nat /\ t.price \in Nat
         /\ t.ccy \in Currencies /\ t.from \in Nat /\ t.to \in Nat
         /\ t.sym \in Range(Funds) => t.type # "STOCK_SPLIT"
<1>1. Days \subseteq Nat
  BY FxAssumption DEF FxAssumption, Days
<1>. QED
  BY <1>1 DEF Trades

\* A sequence of trades in order, as a sequence.
LEMMA InOrderIs ==
  ASSUME NEW ts, InOrder(ts)
  PROVE  /\ Len(ts) \in Nat /\ DOMAIN ts = 1..Len(ts)
         /\ \A k \in DOMAIN ts : ts[k] \in Trades
         /\ Range(ts) \subseteq Trades /\ (Range(ts) = {} <=> ts = <<>>)
BY DEF InOrder, Range

\* The trades of some portfolios.
LEMMA TradesInAre ==
  ASSUME txns \in Seq(Trades), NEW ps
  PROVE  /\ InOrder(TradesIn(ps))
         /\ Range(TradesIn(ps)) = {t \in Range(txns) : t.portfolio \in ps}
<1>1. PICK n \in Nat : n = Len(txns) /\ DOMAIN txns = 1..n
  OBVIOUS
<1>2. PICK K, key, r : /\ K = {k \in DOMAIN txns : txns[k].portfolio \in ps}
                       /\ key = [k \in DOMAIN txns |-> txns[k].day]
                       /\ r = TradesIn(ps)
  OBVIOUS
<1>3. \A k \in 1..n : txns[k] \in Trades /\ txns[k].day \in Int
  BY <1>1, TradeIs
<1>4. K \in SUBSET (1..n) /\ \A k \in K : key[k] \in Int /\ key[k] = txns[k].day
  BY <1>1, <1>2, <1>3
<1>5. r = Sorted(txns, K, key)
  BY <1>2 DEF TradesIn
<1>6. PICK f : Picks(f, r, txns, K, key)
  BY <1>1, <1>4, <1>5, SortedPicks
<1>7. Range(txns) \subseteq Trades
  BY <1>1, <1>3 DEF Range
<1>8. r \in Seq(Trades)
  <2>1. r \in Seq(Range(txns))
    BY <1>6 DEF Picks
  <2>. QED
    BY <1>7, <2>1
<1>9. \A i \in DOMAIN r : f[i] \in K /\ r[i] = txns[f[i]]
  BY <1>6 DEF Picks
<1>10. ASSUME NEW i \in DOMAIN r, NEW j \in DOMAIN r, i < j
       PROVE  r[i].day <= r[j].day
  <2>1. Precedes(key, f[i], f[j])
    BY <1>6, <1>10 DEF Picks
  <2>2. key[f[i]] = r[i].day /\ key[f[j]] = r[j].day /\ key[f[i]] \in Int /\ key[f[j]] \in Int
    BY <1>4, <1>9, <1>10
  <2>. QED
    BY <2>1, <2>2 DEF Precedes
<1>11. Range(r) = {txns[k] : k \in K}
  BY <1>6 DEF Picks
<1>12. Range(r) = {t \in Range(txns) : t.portfolio \in ps}
  BY <1>2, <1>11 DEF Range
<1>. QED
  BY <1>2, <1>8, <1>10, <1>12 DEF InOrder

\* A selection of trades.
LEMMA OnlyTrades ==
  ASSUME NEW ts, InOrder(ts), NEW K \in SUBSET DOMAIN ts
  PROVE  /\ InOrder(Only(ts, K)) /\ Range(Only(ts, K)) = {ts[k] : k \in K}
         /\ \A i \in DOMAIN Only(ts, K) : \E k \in K : Only(ts, K)[i] = ts[k]
         /\ K = {} => Only(ts, K) = <<>>
         /\ K = DOMAIN ts => Only(ts, K) = ts
<1>1. PICK n \in Nat : n = Len(ts) /\ DOMAIN ts = 1..n
  BY InOrderIs
<1>2. PICK r : r = Only(ts, K)
  OBVIOUS
<1>3. PICK f, key : Picks(f, r, ts, K, key) /\ \A i, j \in DOMAIN r : i < j <=> f[i] < f[j]
  BY <1>1, <1>2, OnlyPicks
<1>4. \A i \in DOMAIN r : f[i] \in K /\ r[i] = ts[f[i]]
  BY <1>3 DEF Picks
<1>5. r \in Seq(Trades)
  <2>1. r \in Seq(Range(ts)) /\ Range(ts) \subseteq Trades
    BY <1>3, InOrderIs DEF Picks
  <2>. QED
    BY <2>1
<1>6. ASSUME NEW i \in DOMAIN r, NEW j \in DOMAIN r, i < j
      PROVE  r[i].day <= r[j].day
  BY <1>3, <1>4, <1>6 DEF InOrder
<1>7. K = DOMAIN ts => r = ts
  BY <1>1, <1>2, OnlyAll DEF InOrder
<1>. QED
  BY <1>2, <1>3, <1>4, <1>5, <1>6, <1>7 DEF InOrder, Picks

\* The trades of one symbol.
LEMMA OfSymbolIs ==
  ASSUME NEW ts, InOrder(ts), NEW s
  PROVE  /\ InOrder(OfSymbol(ts, s))
         /\ Range(OfSymbol(ts, s)) = {t \in Range(ts) : t.sym = s}
         /\ s \in SymbolsOf(ts) <=> OfSymbol(ts, s) # <<>>
<1>1. PICK K : K = {k \in DOMAIN ts : ts[k].sym = s}
  OBVIOUS
<1>2. PICK r : r = OfSymbol(ts, s) /\ r = Only(ts, K)
  BY <1>1 DEF OfSymbol
<1>3. InOrder(r) /\ Range(r) = {ts[k] : k \in K}
  BY <1>1, <1>2, OnlyTrades
<1>4. Range(r) = {t \in Range(ts) : t.sym = s}
  BY <1>1, <1>3 DEF Range
<1>5. r = <<>> <=> Range(r) = {}
  BY <1>3, InOrderIs
<1>. QED
  BY <1>2, <1>3, <1>4, <1>5 DEF SymbolsOf

-----------------------------------------------------------------------------
(* Trades in shares of today.                                              *)

\* A split changes the number and the price of a trade and nothing else.
SameTrade(u, t) == u \in Trades /\ u.day = t.day /\ u.type = t.type /\ u.sym = t.sym

\* A split leaves a purchase or a sale what it is.
LEMMA SplitByIs ==
  ASSUME NEW t \in Trades, ~IsSplit(t), NEW x \in Trades, ValidSplit(x)
  PROVE  SameTrade(SplitBy(t, x), t)
<1>1. x.from \in Nat \ {0} /\ x.to \in Nat \ {0} /\ t.qty \in Nat /\ t.price \in Nat
  BY TradeIs DEF ValidSplit
<1>2. \A i, j \in Nat : i * j \in Nat
  OBVIOUS
<1>3. \A i \in Nat, j \in Nat \ {0} : i \div j \in Nat
  OBVIOUS
<1>4. t.qty * x.to \in Nat /\ t.price * x.from \in Nat
  BY <1>1, <1>2
<1>5. PICK q, p : q = (t.qty * x.to) \div x.from /\ p = (t.price * x.from) \div x.to
  OBVIOUS
<1>6. q \in Nat /\ p \in Nat
  BY <1>1, <1>3, <1>4, <1>5
<1>7. SplitBy(t, x) = IF x.day <= t.day THEN t ELSE [t EXCEPT !.qty = q, !.price = p]
  BY <1>5 DEF SplitBy
<1>8. PICK u : u = [t EXCEPT !.qty = q, !.price = p]
  OBVIOUS
<1>9. u \in Trades /\ u.day = t.day /\ u.type = t.type /\ u.sym = t.sym
  BY <1>6, <1>8 DEF Trades
<1>. QED
  BY <1>7, <1>8, <1>9 DEF SameTrade

\* So do all the splits of a holding, and without splits a trade is unchanged.
LEMMA ScaledIs ==
  ASSUME NEW t \in Trades, ~IsSplit(t), NEW splits \in Seq(Trades),
         \A k \in DOMAIN splits : ValidSplit(splits[k])
  PROVE  /\ SameTrade(Scaled(t, splits), t)
         /\ splits = <<>> => Scaled(t, splits) = t
<1>1. PICK n \in Nat : n = Len(splits) /\ DOMAIN splits = 1..n
  OBVIOUS
<1>2. PICK run : Runs(run, "split", t, splits, n) /\ FoldLeft(SplitBy, t, splits) = run[n]
  <2>1. DOMAIN splits = 1..n
    BY <1>1
  <2>. QED
    BY ONLY n \in Nat, <2>1, FoldsRun
<1>3. run[0] = t /\ \A k \in 1..n : run[k] = SplitBy(run[k - 1], splits[k])
  BY <1>2 DEF Runs, Loop
<1>. DEFINE T == {k \in Nat : k <= n => SameTrade(run[k], t)}
<1>4. 0 \in T
  BY <1>3 DEF SameTrade
<1>5. ASSUME NEW k \in Nat, k \in T
      PROVE  k + 1 \in T
  <2>1. SUFFICES ASSUME k + 1 <= n PROVE SameTrade(run[k + 1], t)
    OBVIOUS
  <2>2. k + 1 \in 1..n /\ (k + 1) - 1 = k /\ SameTrade(run[k], t)
    BY <1>5, <2>1
  <2>3. run[k + 1] = SplitBy(run[k], splits[k + 1])
    BY <1>3, <2>2
  <2>4. run[k] \in Trades /\ ~IsSplit(run[k]) /\ splits[k + 1] \in Trades /\ ValidSplit(splits[k + 1])
    BY <1>1, <2>2 DEF SameTrade, IsSplit
  <2>5. SameTrade(run[k + 1], run[k])
    BY <2>3, <2>4, SplitByIs
  <2>. QED
    BY <2>2, <2>5 DEF SameTrade
<1>6. n \in T
  <2>. HIDE DEF T
  <2>. QED
    BY <1>4, <1>5, NumberInduction
<1>7. splits = <<>> => n = 0
  BY <1>1
<1>. QED
  BY <1>2, <1>3, <1>6, <1>7 DEF Scaled

\* The trades of a holding in shares of today.
LEMMA AdjustedIs ==
  ASSUME NEW ts, InOrder(ts), NEW a, a = Adjusted(ts)
  PROVE  /\ InOrder(a) /\ AreDeals(a)
         /\ \A k \in DOMAIN a : \E t \in Range(ts) :
              ~IsSplit(t) /\ a[k].day = t.day /\ a[k].type = t.type
         /\ (\A t \in Range(ts) : ~IsSplit(t)) => a = ts
<1>1. PICK O, S : O = {k \in DOMAIN ts : ~IsSplit(ts[k])} /\ S = {k \in DOMAIN ts : ValidSplit(ts[k])}
  OBVIOUS
<1>2. PICK others, splits : others = Only(ts, O) /\ splits = Only(ts, S)
  OBVIOUS
<1>3. InOrder(others) /\ InOrder(splits)
      /\ (\A k \in DOMAIN others : \E j \in O : others[k] = ts[j])
      /\ (\A k \in DOMAIN splits : \E j \in S : splits[k] = ts[j])
  <2>1. O \in SUBSET DOMAIN ts /\ S \in SUBSET DOMAIN ts
    BY <1>1
  <2>2. InOrder(Only(ts, O)) /\ \A k \in DOMAIN Only(ts, O) : \E j \in O : Only(ts, O)[k] = ts[j]
    BY <2>1, OnlyTrades
  <2>3. InOrder(Only(ts, S)) /\ \A k \in DOMAIN Only(ts, S) : \E j \in S : Only(ts, S)[k] = ts[j]
    BY <2>1, OnlyTrades
  <2>. QED
    BY <1>2, <2>2, <2>3
<1>4. S = {} => splits = <<>>
  BY <1>1, <1>2, OnlyTrades
<1>5. O = DOMAIN ts => others = ts
  BY <1>1, <1>2, OnlyTrades
<1>6. a = [k \in DOMAIN others |-> Scaled(others[k], splits)]
  BY <1>1, <1>2 DEF Adjusted
<1>7. splits \in Seq(Trades) /\ \A k \in DOMAIN splits : ValidSplit(splits[k])
  BY <1>1, <1>3 DEF InOrder
<1>8. \A k \in DOMAIN others : others[k] \in Trades /\ ~IsSplit(others[k]) /\ others[k] \in Range(ts)
  BY <1>1, <1>3, InOrderIs DEF Range
<1>9. ASSUME NEW k \in DOMAIN others
      PROVE  SameTrade(a[k], others[k]) /\ (splits = <<>> => a[k] = others[k])
  <2>1. a[k] = Scaled(others[k], splits)
    BY <1>6, <1>9
  <2>. QED
    BY <1>7, <1>8, <2>1, ScaledIs
<1>10. PICK n \in Nat : n = Len(others) /\ DOMAIN others = 1..n
  BY <1>3, InOrderIs
<1>11. DOMAIN a = 1..n
  BY <1>6, <1>10
<1>12. a \in Seq(Trades) /\ Len(a) = n
  <2>1. \A k \in 1..n : a[k] \in Trades
    BY <1>9, <1>10 DEF SameTrade
  <2>2. a = [k \in 1..n |-> a[k]]
    BY <1>6, <1>10
  <2>. QED
    BY <2>1, <2>2
<1>13. InOrder(a)
  <2>1. \A i \in 1..n : a[i].day = others[i].day
    BY <1>9, <1>10 DEF SameTrade
  <2>2. \A i, j \in 1..n : i < j => others[i].day <= others[j].day
    BY <1>3, <1>10 DEF InOrder
  <2>. QED
    BY <1>11, <1>12, <2>1, <2>2 DEF InOrder
<1>14. ASSUME NEW k \in DOMAIN a
       PROVE  IsDeal(a[k])
  <2>1. a[k] \in Trades /\ a[k].type = others[k].type /\ ~IsSplit(others[k])
    BY <1>8, <1>9, <1>10, <1>11, <1>14 DEF SameTrade
  <2>2. a[k].type \in {"BUY", "SELL"}
    BY <2>1, TradeIs DEF IsSplit
  <2>. QED
    BY <2>1, <2>2, TradeIs DEF IsDeal
<1>15. AreDeals(a)
  BY <1>11, <1>12, <1>14 DEF AreDeals
<1>16. \A k \in DOMAIN a : \E t \in Range(ts) : ~IsSplit(t) /\ a[k].day = t.day /\ a[k].type = t.type
  BY <1>8, <1>9, <1>10, <1>11 DEF SameTrade
<1>17. ASSUME \A t \in Range(ts) : ~IsSplit(t)
       PROVE  a = ts
  <2>1. O = DOMAIN ts /\ S = {}
    BY <1>1, <1>17 DEF Range, ValidSplit
  <2>2. others = ts /\ splits = <<>>
    BY <1>4, <1>5, <2>1
  <2>3. \A k \in 1..n : a[k] = ts[k]
    BY <1>9, <1>10, <2>2
  <2>4. ts = [k \in 1..n |-> ts[k]] /\ a = [k \in 1..n |-> a[k]]
    BY <1>6, <1>10, <2>2 DEF InOrder
  <2>. QED
    BY <2>3, <2>4
<1>. QED
  BY <1>13, <1>15, <1>16, <1>17

-----------------------------------------------------------------------------
(* What is held on a day.                                                  *)

\* What a timeline says of a day is its last entry up to that day; before the first there is
\* nothing.
LEMMA HeldIs ==
  ASSUME NEW timeline, DOMAIN timeline \subseteq Days, NEW d \in Int
  PROVE  /\ (\A e \in DOMAIN timeline : d < e) => Held(timeline, d) = [qty |-> 0, invested |-> 0]
         /\ \A e \in DOMAIN timeline :
              e <= d /\ (\A f \in DOMAIN timeline : f <= d => f <= e)
                => Held(timeline, d) = timeline[e]
         /\ (\E e \in DOMAIN timeline : e <= d)
              => \E e \in DOMAIN timeline :
                   e <= d /\ (\A f \in DOMAIN timeline : f <= d => f <= e)
                   /\ Held(timeline, d) = timeline[e]
<1>1. Days \subseteq Int
  BY DEF Days
<1>2. (\A e \in DOMAIN timeline : d < e) => Held(timeline, d) = [qty |-> 0, invested |-> 0]
  <2>0. \A e \in DOMAIN timeline : e \in Int
    BY <1>1
  <2>1. ASSUME \A e \in DOMAIN timeline : d < e
        PROVE  ~\E e \in DOMAIN timeline : e <= d
    BY <2>0, <2>1
  <2>. QED
    BY <2>1 DEF Held
<1>3. ASSUME NEW e \in DOMAIN timeline, e <= d, \A f \in DOMAIN timeline : f <= d => f <= e
      PROVE  Held(timeline, d) = timeline[e]
  <2>1. PICK B : B = {f \in DOMAIN timeline : f <= d}
    OBVIOUS
  <2>2. LastOnOrBefore(DOMAIN timeline, d) = CHOOSE f \in B : \A g \in B : g <= f
    BY <2>1 DEF LastOnOrBefore
  <2>3. e \in B /\ \A g \in B : g <= e
    BY <1>3, <2>1
  <2>4. \A f \in B : (\A g \in B : g <= f) => f = e
    <3>1. \A f \in B : f \in Int
      BY <1>1, <2>1
    <3>. QED
      BY <2>3, <3>1
  <2>5. (CHOOSE f \in B : \A g \in B : g <= f) = e
    BY <2>3, <2>4
  <2>. QED
    BY <1>3, <2>2, <2>5 DEF Held
<1>4. ASSUME \E e \in DOMAIN timeline : e <= d
      PROVE  \E e \in DOMAIN timeline :
                e <= d /\ (\A f \in DOMAIN timeline : f <= d => f <= e)
  <2>1. PICK B : B = {f \in DOMAIN timeline : f <= d}
    OBVIOUS
  <2>2. B \in SUBSET Days /\ B # {}
    BY <1>4, <2>1
  <2>3. Max(B) \in B /\ \A f \in B : f <= Max(B)
    BY <2>2, FirstAndLast
  <2>. QED
    BY <2>1, <2>3
<1>. QED
  BY <1>2, <1>3, <1>4

\* What a holding is at the end of a walk, and on any day.
LEMMA HoldingIs ==
  ASSUME NEW ts, InOrder(ts), NEW a, a = Adjusted(ts)
  PROVE  \E m, s : /\ WalkedThrough(m, s, a)
                   /\ Metrics(ts) = [qty |-> LotQty(m.lots), invested |-> LotCost(m.lots),
                                     realized |-> m.realized]
                   /\ Snapshots(ts) = s.days
                   /\ LotQty(m.lots) \in Nat /\ LotCost(m.lots) \in Nat
                   /\ (\A t \in Range(ts) : ~IsSplit(t)) => FundSnapshots(ts) = s.days
<1>1. AreDeals(a)
  BY AdjustedIs
<1>2. PICK m, s : WalkedThrough(m, s, a)
  BY <1>1, WalksEnd
<1>3. Metrics(ts) = [qty |-> LotQty(m.lots), invested |-> LotCost(m.lots), realized |-> m.realized]
  BY <1>2 DEF WalkedThrough, Metrics
<1>4. Snapshots(ts) = s.days
  BY <1>2 DEF WalkedThrough, Snapshots, Timeline
<1>5. LotQty(m.lots) \in Nat /\ LotCost(m.lots) \in Nat
  <2>1. IsLots(m.lots)
    BY <1>2 DEF WalkedThrough
  <2>. QED
    BY <2>1, LotsAre
<1>6. ASSUME \A t \in Range(ts) : ~IsSplit(t)
      PROVE  FundSnapshots(ts) = s.days
  <2>1. a = ts
    BY <1>6, AdjustedIs
  <2>2. {k \in DOMAIN ts : ~IsSplit(ts[k])} = DOMAIN ts
    BY <1>6 DEF Range
  <2>3. Only(ts, DOMAIN ts) = ts
    BY OnlyTrades
  <2>. QED
    BY <1>2, <2>1, <2>2, <2>3 DEF WalkedThrough, FundSnapshots, Timeline
<1>. QED
  BY <1>2, <1>3, <1>4, <1>5, <1>6

-----------------------------------------------------------------------------
(* Trades lie in the past.                                                 *)

PastTrades == {t \in Trades : t.day <= today}
TradesPast == txns \in Seq(PastTrades)

\* A sequence without one of its elements.
LEMMA RemovedFrom ==
  ASSUME NEW T, NEW s \in Seq(T), NEW k \in DOMAIN s
  PROVE  RemoveAt(s, k) \in Seq(T)
<1>1. k \in 1..Len(s) /\ Len(s) \in Nat
  OBVIOUS
<1>2. SubSeq(s, 1, k - 1) \in Seq(T)
  BY <1>1
<1>3. SubSeq(s, k + 1, Len(s)) \in Seq(T)
  BY <1>1
<1>. QED
  BY <1>2, <1>3 DEF RemoveAt

\* The first trades lie in the past.
LEMMA PastInit ==
  MarketInit => TradesPast
<1>1. SUFFICES ASSUME NEW h \in Histories, today = h.day, txns = h.trades
               PROVE  TradesPast
  BY DEF MarketInit
<1>2. h.trades \in Seq(Trades) /\ \A t \in Range(h.trades) : t.day <= h.day
  BY MarketAssumption DEF MarketAssumption
<1>3. txns \in Seq(Trades) /\ \A k \in 1..Len(txns) : txns[k] \in Trades /\ txns[k].day <= today
  BY <1>1, <1>2 DEF Range
<1>. QED
  BY <1>3 DEF TradesPast, PastTrades

\* No step records a trade of the future: a new one is of today, and the day only moves on.
LEMMA PastStep ==
  ASSUME MInv, TradesPast, [MarketNext]_market
  PROVE  TradesPast'
<1>1. today \in Nat /\ Inputs \subseteq Trades
  BY MarketAssumption, FxAssumption DEF MInv, MarketTypeOK, Days, FxAssumption, MarketAssumption
<1>2. CASE NextDay
  <2>1. txns' = txns /\ today' = today + 1
    BY <1>2 DEF NextDay
  <2>2. PastTrades \subseteq PastTrades'
    <3>1. \A t \in Trades : t.day \in Nat
      BY TradeIs
    <3>. QED
      BY <1>1, <2>1, <3>1 DEF PastTrades
  <2>. QED
    BY <2>1, <2>2 DEF TradesPast
<1>3. ASSUME NEW t \in Inputs, WriteTrade(t)
      PROVE  TradesPast'
  <2>1. txns' = Append(txns, t) /\ today' = today /\ t \in PastTrades
    BY <1>1, <1>3 DEF WriteTrade, PastTrades
  <2>2. PastTrades' = PastTrades
    BY <2>1 DEF PastTrades
  <2>. QED
    BY <2>1, <2>2 DEF TradesPast
<1>4. ASSUME NEW k \in DOMAIN txns, DeleteTrade(k)
      PROVE  TradesPast'
  <2>1. txns' = RemoveAt(txns, k) /\ today' = today
    BY <1>4 DEF DeleteTrade
  <2>2. PastTrades' = PastTrades
    BY <2>1 DEF PastTrades
  <2>3. RemoveAt(txns, k) \in Seq(PastTrades)
    BY <1>4, RemovedFrom DEF TradesPast
  <2>. QED
    BY <2>1, <2>2, <2>3 DEF TradesPast
<1>5. CASE UNCHANGED <<txns, today>>
  BY <1>5 DEF TradesPast, PastTrades
<1>6. \/ NextDay \/ (\E t \in Inputs : WriteTrade(t)) \/ (\E k \in DOMAIN txns : DeleteTrade(k))
      \/ UNCHANGED <<txns, today>>
  BY DEF MarketNext, StartSync, SyncItem, Outage, Crash, NextPhase, FinishSync, market
<1>. QED
  BY <1>2, <1>3, <1>4, <1>5, <1>6

\* What the figures are computed from: the cache as its invariant has it, and trades of the
\* past.
VInv == MInv /\ TradesPast

\* The trades are of the past whatever is written, deleted and synced.
THEOREM ValueInvariant ==
  Spec => []VInv
<1>1. MarketInit => VInv
  BY MarketInitInv, PastInit DEF VInv
<1>2. VInv /\ [MarketNext]_market => VInv'
  BY MarketStepInv, PastStep DEF VInv
<1>. QED
  BY <1>1, <1>2, PTL DEF Spec

\* The parts of the invariant the figures of a portfolio are computed from.
LEMMA ValueShape ==
  ASSUME VInv
  PROVE  /\ txns \in Seq(Trades) /\ today \in Days /\ today \in Nat /\ Days \subseteq Nat
         /\ \A t \in Range(txns) : t \in Trades /\ t.day <= today
         /\ DOMAIN prices = Symbols
         /\ \A s \in Symbols : /\ DOMAIN prices[s] \in SUBSET Days
                               /\ \A d \in DOMAIN prices[s] : d <= today /\ prices[s][d] \in Nat \ {0}
                               /\ DOMAIN prices[s] = {} => prices[s] = <<>>
         /\ rates \subseteq Currencies \X Currencies \X Days
<1>1. MarketTypeOK /\ MarketShape /\ TradesPast
  BY DEF VInv, MInv
<1>2. Days \subseteq Nat
  BY FxAssumption DEF FxAssumption, Days
<1>3. txns \in Seq(Trades) /\ \A t \in Range(txns) : t \in Trades /\ t.day <= today
  BY <1>1 DEF TradesPast, PastTrades, Range, MarketShape
<1>4. \A s \in Symbols : /\ DOMAIN prices[s] \in SUBSET Days
                         /\ \A d \in DOMAIN prices[s] : d <= today /\ prices[s][d] \in Nat \ {0}
  BY <1>1, NeededDays DEF MarketTypeOK
<1>5. \A s \in Symbols : DOMAIN prices[s] = {} => prices[s] = <<>>
  BY <1>1, NoArgument DEF MarketShape
<1>. QED
  BY <1>1, <1>2, <1>3, <1>4, <1>5 DEF MarketShape, MarketTypeOK

\* The trades of a holding.
LEMMA HoldingTrades ==
  ASSUME VInv, NEW ps, NEW s, NEW ts, ts = OfSymbol(TradesIn(ps), s)
  PROVE  /\ InOrder(TradesIn(ps)) /\ InOrder(ts)
         /\ \A t \in Range(ts) : t \in Trades /\ t.sym = s /\ t.day <= today
                                 /\ t \in Range(TradesIn(ps))
         /\ \A t \in Range(TradesIn(ps)) : t \in Trades /\ t.day <= today
         /\ s \in SymbolsOf(TradesIn(ps)) <=> ts # <<>>
<1>1. txns \in Seq(Trades) /\ \A t \in Range(txns) : t \in Trades /\ t.day <= today
  BY ValueShape
<1>2. InOrder(TradesIn(ps)) /\ Range(TradesIn(ps)) = {t \in Range(txns) : t.portfolio \in ps}
  BY <1>1, TradesInAre
<1>3. InOrder(ts) /\ Range(ts) = {t \in Range(TradesIn(ps)) : t.sym = s}
      /\ (s \in SymbolsOf(TradesIn(ps)) <=> ts # <<>>)
  BY <1>2, OfSymbolIs
<1>. QED
  BY <1>1, <1>2, <1>3

-----------------------------------------------------------------------------
(* The lots kept are the newest shares.                                    *)

\* Shares held after some trades, as a sum over the trades.
LEMMA HeldAfterIs ==
  ASSUME NEW a, AreDeals(a)
  PROVE  /\ \A k \in Nat : k <= Len(a) => HeldAfter(a, k) = SumFunctionOnSet(ChangeIn(a), 1..k)
         /\ (\A k \in DOMAIN a : HeldAfter(a, k) >= 0) => NoneShort(a)
<1>1. ASSUME NEW k \in Nat, k <= Len(a)
      PROVE  HeldAfter(a, k) = SumFunctionOnSet(ChangeIn(a), 1..k)
  <2>1. IsFiniteSet(1..k) /\ 1..k \in SUBSET DOMAIN a
    BY <1>1, DealsAre
  <2>2. \A j \in 1..k : ChangeIn(a)[j] \in Int /\ ChangeIn(a)[j] = Change(a[j])
    BY <2>1, DealsAre DEF ChangeIn
  <2>3. PICK h : h = [j \in 1..k |-> Change(a[j])]
    OBVIOUS
  <2>4. h = [j \in 1..k |-> ChangeIn(a)[j]]
    BY <2>2, <2>3
  <2>5. SumFunction(h) = SumFunctionOnSet(ChangeIn(a), 1..k)
    BY <2>1, <2>2, <2>4, TotalIs
  <2>. QED
    BY <2>3, <2>5 DEF HeldAfter, Total
<1>2. ASSUME \A k \in DOMAIN a : HeldAfter(a, k) >= 0
      PROVE  NoneShort(a)
  <2>1. \A k \in DOMAIN a : k \in Nat /\ k <= Len(a)
    BY DEF AreDeals
  <2>. QED
    BY <1>1, <1>2, <2>1 DEF NoneShort
<1>. QED
  BY <1>1, <1>2

\* A walk over trades that never sell more than is held keeps the newest shares.
LEMMA NewestKept ==
  ASSUME NEW a, AreDeals(a), NoneShort(a), NEW m, NEW s, WalkedThrough(m, s, a),
         NEW f, f = [qty |-> LotQty(m.lots), invested |-> LotCost(m.lots), realized |-> m.realized]
  PROVE  KeepsNewest(f, a, {k \in DOMAIN a : a[k].type = "BUY"}, {k \in DOMAIN a : a[k].type = "SELL"})
<1>1. PICK n \in Nat : n = Len(a) /\ DOMAIN a = 1..n
  BY DEF AreDeals
<1>2. PICK B, S, q, p, paid : /\ B = {k \in DOMAIN a : a[k].type = "BUY"}
                              /\ S = {k \in DOMAIN a : a[k].type = "SELL"}
                              /\ q = QtyOf(a) /\ p = PriceOf(a) /\ paid = PaidOf(a)
  OBVIOUS
<1>3. B = BuysTo(a, n) /\ S = SalesTo(a, n)
  BY <1>1, <1>2 DEF BuysTo, SalesTo
<1>4. Kept(m, a, n) /\ IsLots(m.lots)
  BY <1>1 DEF WalkedThrough
<1>5. /\ B \in SUBSET (1..n) /\ IsFiniteSet(B) /\ S \in SUBSET (1..n) /\ IsFiniteSet(S)
      /\ Bought(B, q, p)
  <2>1. /\ BuysTo(a, n) \in SUBSET (1..n) /\ IsFiniteSet(BuysTo(a, n))
        /\ SalesTo(a, n) \in SUBSET (1..n) /\ IsFiniteSet(SalesTo(a, n))
        /\ Bought(BuysTo(a, n), QtyOf(a), PriceOf(a))
    BY <1>1, DealsAre
  <2>. QED
    BY <1>2, <1>3, <2>1
<1>6. \A k \in 1..n : /\ q[k] \in Nat /\ p[k] \in Nat /\ paid[k] \in Nat
                      /\ q[k] = a[k].qty /\ p[k] = a[k].price /\ paid[k] = a[k].qty * a[k].price
  BY <1>1, <1>2, DealsAre
<1>7. LotQty(m.lots) \in Nat /\ LotCost(m.lots) \in Nat /\ NewestLots(m.lots, LotQty(m.lots)) = LotCost(m.lots)
  BY <1>4, LotsAre
<1>8. f.qty = HeldAfter(a, Len(a))
  <2>1. HeldAfter(a, n) = SumFunctionOnSet(ChangeIn(a), 1..n)
    BY <1>1, HeldAfterIs
  <2>. QED
    BY <1>1, <1>4, <2>1 DEF Kept
<1>9. \A K \in SUBSET (1..n) : IsFiniteSet(K) => Amount(a, K) = SumFunctionOnSet(paid, K)
  <2>1. SUFFICES ASSUME NEW K \in SUBSET (1..n), IsFiniteSet(K)
                 PROVE  Amount(a, K) = SumFunctionOnSet(paid, K)
    OBVIOUS
  <2>2. \A k \in K : paid[k] \in Int /\ paid[k] = a[k].qty * a[k].price
    BY <1>6
  <2>3. PICK h : h = [k \in K |-> a[k].qty * a[k].price]
    OBVIOUS
  <2>4. h = [k \in K |-> paid[k]]
    BY <2>2, <2>3
  <2>5. SumFunction(h) = SumFunctionOnSet(paid, K)
    BY <2>1, <2>2, <2>4, TotalIs
  <2>. QED
    BY <2>3, <2>5 DEF Amount, Total
<1>. DEFINE later(k) == Total(LAMBDA j : a[j].qty, {j \in B : k < j})
            kept(k) == Larger(0, Lesser(a[k].qty, f.qty - later(k)))
<1>10. f.invested = Total(LAMBDA k : kept(k) * a[k].price, B)
  <2>1. ASSUME NEW k
        PROVE  later(k) = LaterQty(B, q, k)
    <3>1. PICK K : K = {j \in B : k < j}
      OBVIOUS
    <3>2. K \in SUBSET B /\ IsFiniteSet(K)
      BY <1>5, <3>1, FS_Subset
    <3>3. \A j \in K : q[j] \in Int /\ q[j] = a[j].qty
      BY <1>5, <1>6, <3>2
    <3>4. PICK h : h = [j \in K |-> a[j].qty]
      OBVIOUS
    <3>5. h = [j \in K |-> q[j]]
      BY <3>3, <3>4
    <3>6. SumFunction(h) = SumFunctionOnSet(q, K)
      BY <3>2, <3>3, <3>5, TotalIs
    <3>. QED
      BY <3>1, <3>4, <3>6 DEF LaterQty, Total
  <2>2. PICK x : x = LotQty(m.lots) /\ x = f.qty /\ x \in Int
    BY <1>7
  <2>. HIDE DEF later
  <2>3. \A k \in B : kept(k) * a[k].price = NewestOf(B, q, p, x, k)
    BY <1>5, <1>6, <2>1, <2>2 DEF NewestOf
  <2>4. PICK h, g : h = [k \in B |-> kept(k) * a[k].price] /\ g = [k \in B |-> NewestOf(B, q, p, x, k)]
    OBVIOUS
  <2>5. \A k \in B : g[k] \in Int
    BY <1>5, <2>2, <2>4, NewestTerms
  <2>6. h = [k \in B |-> g[k]]
    BY <2>3, <2>4
  <2>7. SumFunction(h) = SumFunctionOnSet(g, B)
    BY <1>5, <2>5, <2>6, TotalIs
  <2>8. SumFunctionOnSet(g, B) = Newest(B, q, p, x)
    BY <2>4 DEF Newest
  <2>9. Newest(B, q, p, x) = NewestLots(m.lots, x)
    <3>1. \A y \in Int : y <= LotQty(m.lots) =>
            NewestLots(m.lots, y) = Newest(BuysTo(a, n), QtyOf(a), PriceOf(a), y)
      BY <1>4 DEF Kept
    <3>2. x \in Int /\ x <= LotQty(m.lots)
      BY <1>7, <2>2
    <3>3. NewestLots(m.lots, x) = Newest(BuysTo(a, n), QtyOf(a), PriceOf(a), x)
      BY <3>1, <3>2
    <3>. QED
      BY <1>2, <1>3, <3>3
  <2>10. f.invested = Newest(B, q, p, x)
    BY <1>7, <2>2, <2>9
  <2>. QED
    BY <2>4, <2>7, <2>8, <2>10 DEF Total
<1>11. f.realized = Amount(a, S) - (Amount(a, B) - f.invested)
  BY <1>2, <1>3, <1>4, <1>5, <1>9 DEF Kept
<1>12. KeepsNewest(f, a, B, S)
  BY <1>8, <1>10, <1>11 DEF KeepsNewest
<1>. QED
  BY <1>2, <1>12

\* A series that takes the last trade on or before today ends where the walk does.
LEMMA SeriesEnds ==
  ASSUME NEW a, AreDeals(a), InOrder(a), NEW m, NEW s, WalkedThrough(m, s, a),
         today \in Int, \A k \in DOMAIN a : a[k].day <= today
  PROVE  Held(s.days, today) = [qty |-> LotQty(m.lots), invested |-> LotCost(m.lots)]
<1>1. PICK n \in Nat : n = Len(a) /\ DOMAIN a = 1..n
  BY DEF AreDeals
<1>2. DOMAIN s.days = {a[j].day : j \in 1..n}
  BY <1>1 DEF WalkedThrough
<1>3. \A j \in 1..n : a[j].day \in Days /\ a[j].day \in Nat
  BY <1>1, TradeIs DEF InOrder
<1>4. DOMAIN s.days \subseteq Days
  BY <1>2, <1>3
<1>5. PICK tl : tl = s.days
  OBVIOUS
<1>6. CASE n = 0
  <2>1. m.lots = <<>> /\ LotQty(<<>>) = 0 /\ LotCost(<<>>) = 0
    BY <1>1, <1>6, LotsNone DEF WalkedThrough
  <2>2. \A e \in DOMAIN tl : today < e
    BY <1>2, <1>5, <1>6
  <2>. QED
    BY <1>4, <1>5, <2>1, <2>2, HeldIs
<1>7. CASE n > 0
  <2>1. n \in 1..n /\ a[n].day <= today
    BY <1>1, <1>7
  <2>2. \A j \in 1..n : a[j].day <= a[n].day
    <3>1. \A j \in 1..n : j = n \/ j < n
      OBVIOUS
    <3>. QED
      BY <1>1, <1>3, <2>1, <3>1 DEF InOrder
  <2>3. PICK e : e = a[n].day
    OBVIOUS
  <2>4. e \in DOMAIN tl /\ e <= today /\ \A g \in DOMAIN tl : g <= e
    BY <1>2, <1>5, <2>1, <2>2, <2>3
  <2>5. Held(tl, today) = tl[e]
    BY <1>4, <1>5, <2>4, HeldIs
  <2>6. tl[e] = [qty |-> LotQty(m.lots), invested |-> LotCost(m.lots)]
    BY <1>1, <1>5, <1>7, <2>3 DEF WalkedThrough
  <2>. QED
    BY <1>5, <2>5, <2>6
<1>. QED
  BY <1>6, <1>7

\* The holdings of a state keep the newest purchases.
LEMMA FifoStep ==
  ASSUME VInv
  PROVE  FifoKeepsNewest
<1>1. SUFFICES ASSUME NEW p \in Portfolios, NEW sym \in SymbolsOf(TradesIn({p})),
                      NEW ts, ts = Holding(p, sym), NEW a, a = Adjusted(ts), NeverShort(ts)
               PROVE  /\ KeepsNewest(Metrics(ts), a, {k \in DOMAIN a : a[k].type = "BUY"},
                                     {k \in DOMAIN a : a[k].type = "SELL"})
                      /\ Held(IF sym \in Range(Funds) THEN FundSnapshots(ts) ELSE Snapshots(ts), today)
                           = [qty |-> Metrics(ts).qty, invested |-> Metrics(ts).invested]
  BY DEF FifoKeepsNewest
<1>2. InOrder(ts) /\ \A t \in Range(ts) : t \in Trades /\ t.sym = sym /\ t.day <= today
  BY <1>1, HoldingTrades DEF Holding
<1>3. InOrder(a) /\ AreDeals(a) /\ \A k \in DOMAIN a : a[k].day <= today
  BY <1>1, <1>2, AdjustedIs
<1>4. NoneShort(a)
  BY <1>1, <1>3, HeldAfterIs DEF NeverShort
<1>5. PICK m, s : /\ WalkedThrough(m, s, a)
                  /\ Metrics(ts) = [qty |-> LotQty(m.lots), invested |-> LotCost(m.lots),
                                    realized |-> m.realized]
                  /\ Snapshots(ts) = s.days
                  /\ (\A t \in Range(ts) : ~IsSplit(t)) => FundSnapshots(ts) = s.days
  BY <1>1, <1>2, HoldingIs
<1>6. sym \in Range(Funds) => \A t \in Range(ts) : ~IsSplit(t)
  BY <1>2, TradeIs DEF IsSplit
<1>7. today \in Int
  BY ValueShape
<1>8. Held(s.days, today) = [qty |-> LotQty(m.lots), invested |-> LotCost(m.lots)]
  BY <1>3, <1>5, <1>7, SeriesEnds
<1>9. KeepsNewest(Metrics(ts), a, {k \in DOMAIN a : a[k].type = "BUY"},
                  {k \in DOMAIN a : a[k].type = "SELL"})
  BY <1>3, <1>4, <1>5, NewestKept
<1>. QED
  BY <1>5, <1>6, <1>8, <1>9

\* calculate_fifo_cost_basis_metrics and its copies, for any trades and splits in which no
\* more is sold than is held: the lots left are the shares bought last, what was paid is
\* invested still or part of the realised gain, and the series end where the summary does.
THEOREM FifoHolds ==
  Spec => []FifoKeepsNewest
<1>1. VInv => FifoKeepsNewest
  BY FifoStep
<1>. QED
  BY <1>1, ValueInvariant, PTL

-----------------------------------------------------------------------------
(* Sales beyond what is held.                                              *)

SumTo(a, k) == SumFunctionOnSet(ChangeIn(a), 1..k)

\* The walk of detect_oversell after the first k trades.
Found(run, a, k) ==
  /\ run[k] = [held |-> run[k].held, over |-> run[k].over] /\ run[k].over \in BOOLEAN
  /\ run[k].over <=> \E j \in 1..k : SumTo(a, j) < 0
  /\ ~run[k].over => run[k].held = SumTo(a, k)

\* One trade of detect_oversell.
LEMMA FoundStep ==
  ASSUME NEW a, AreDeals(a), NEW k \in Nat, k + 1 \in DOMAIN a, NEW run, Found(run, a, k),
         ~run[k].over => run[k].held >= 0, run[k + 1] = Checked(run[k], a[k + 1])
  PROVE  Found(run, a, k + 1) /\ (~run[k + 1].over => run[k + 1].held >= 0)
<1>1. PICK n, t, s, v, c, c1 : /\ n = k + 1 /\ t = a[n] /\ s = run[k] /\ v = run[n]
                               /\ c = SumTo(a, k) /\ c1 = SumTo(a, n)
  OBVIOUS
<1>2. t.type \in {"BUY", "SELL"} /\ t.qty \in Nat
  BY <1>1 DEF AreDeals, IsDeal
<1>3. /\ c1 = c + ChangeIn(a)[n] /\ c \in Int
      /\ t.type = "BUY" => ChangeIn(a)[n] = t.qty
      /\ t.type = "SELL" => ChangeIn(a)[n] = -t.qty
  BY <1>1, DealMore, DealsAre DEF SumTo
<1>4. /\ s = [held |-> s.held, over |-> s.over] /\ s.over \in BOOLEAN
      /\ s.over <=> \E j \in 1..k : SumTo(a, j) < 0
      /\ ~s.over => s.held = c /\ s.held >= 0
  BY <1>1 DEF Found
<1>5. v = Checked(s, t)
  BY <1>1
<1>6. (\E j \in 1..n : SumTo(a, j) < 0) <=> (\E j \in 1..k : SumTo(a, j) < 0) \/ c1 < 0
  <2>1. \A j : j \in 1..n <=> j \in 1..k \/ j = n
    BY <1>1
  <2>. QED
    BY <1>1, <2>1
<1>7. CASE s.over
  <2>1. v = s
    BY <1>5, <1>7 DEF Checked
  <2>. QED
    BY <1>1, <1>4, <1>6, <1>7, <2>1 DEF Found
<1>8. CASE ~s.over /\ t.type = "BUY"
  <2>1. v = [s EXCEPT !.held = @ + t.qty]
    BY <1>5, <1>8 DEF Checked
  <2>2. v = [held |-> s.held + t.qty, over |-> s.over]
    BY <1>4, <2>1
  <2>3. c1 = s.held + t.qty /\ c1 >= 0
    BY <1>2, <1>3, <1>4, <1>8
  <2>. QED
    BY <1>1, <1>4, <1>6, <1>8, <2>2, <2>3 DEF Found
<1>9. CASE ~s.over /\ t.type = "SELL" /\ t.qty > s.held
  <2>1. v = [s EXCEPT !.over = TRUE]
    BY <1>5, <1>9 DEF Checked
  <2>2. v = [held |-> s.held, over |-> TRUE]
    BY <1>4, <2>1
  <2>3. c1 < 0
    BY <1>2, <1>3, <1>4, <1>9
  <2>. QED
    BY <1>1, <1>6, <2>2, <2>3 DEF Found
<1>10. CASE ~s.over /\ t.type = "SELL" /\ ~(t.qty > s.held)
  <2>1. v = [s EXCEPT !.held = @ - t.qty]
    BY <1>5, <1>10 DEF Checked
  <2>2. v = [held |-> s.held - t.qty, over |-> s.over]
    BY <1>4, <2>1
  <2>3. c1 = s.held - t.qty /\ c1 >= 0
    BY <1>2, <1>3, <1>4, <1>10
  <2>. QED
    BY <1>1, <1>4, <1>6, <1>10, <2>2, <2>3 DEF Found
<1>. QED
  BY <1>2, <1>4, <1>7, <1>8, <1>9, <1>10

\* detect_oversell tells whether at some trade more is sold than is held.
LEMMA OversoldIs ==
  ASSUME NEW a, AreDeals(a)
  PROVE  /\ FoldLeft(Checked, [held |-> 0, over |-> FALSE], a).over
              <=> \E k \in DOMAIN a : SumTo(a, k) < 0
         /\ FoldLeft(Checked, [held |-> 0, over |-> FALSE], a).over \in BOOLEAN
<1>1. PICK n \in Nat : n = Len(a) /\ DOMAIN a = 1..n
  BY DEF AreDeals
<1>2. PICK s0 : s0 = [held |-> 0, over |-> FALSE]
  OBVIOUS
<1>3. PICK run : Runs(run, "oversold", s0, a, n) /\ FoldLeft(Checked, s0, a) = run[n]
  BY <1>1, FoldsRun
<1>4. run[0] = s0 /\ \A k \in 1..n : run[k] = Checked(run[k - 1], a[k])
  BY <1>3 DEF Runs, Loop
<1>. DEFINE T == {k \in Nat : k <= n => Found(run, a, k) /\ (~run[k].over => run[k].held >= 0)}
<1>5. 0 \in T
  <2>1. 1..0 = {} /\ IsFiniteSet({})
    BY FS_EmptySet
  <2>2. SumTo(a, 0) = 0
    BY <2>1, SumStep DEF SumTo
  <2>3. run[0].held = 0 /\ run[0].over = FALSE /\ run[0] = [held |-> 0, over |-> FALSE]
    BY <1>2, <1>4
  <2>4. Found(run, a, 0)
    BY <2>1, <2>2, <2>3 DEF Found
  <2>. QED
    BY <2>3, <2>4
<1>6. ASSUME NEW k \in Nat, k \in T
      PROVE  k + 1 \in T
  <2>1. SUFFICES ASSUME k + 1 <= n
                 PROVE  Found(run, a, k + 1) /\ (~run[k + 1].over => run[k + 1].held >= 0)
    OBVIOUS
  <2>2. k + 1 \in 1..n /\ k + 1 \in DOMAIN a /\ (k + 1) - 1 = k
    BY <1>1, <2>1
  <2>3. run[k + 1] = Checked(run[k], a[k + 1])
    BY <1>4, <2>2
  <2>4. Found(run, a, k) /\ (~run[k].over => run[k].held >= 0)
    BY <1>6, <2>1
  <2>. QED
    BY <2>2, <2>3, <2>4, FoundStep
<1>7. n \in T
  <2>. HIDE DEF T
  <2>. QED
    BY <1>5, <1>6, NumberInduction
<1>8. Found(run, a, n)
  BY <1>7
<1>. QED
  BY <1>1, <1>2, <1>3, <1>8 DEF Found

-----------------------------------------------------------------------------
(* The order of a day.                                                     *)

\* A sequence in which the trades of another come by day, and purchases before the sales
\* of their day.
Reordered(f, b, a) ==
  /\ Len(b) = Len(a) /\ AreDeals(b)
  /\ \A i \in 1..Len(a) : f[i] \in 1..Len(a) /\ b[i] = a[f[i]]
  /\ \A k \in 1..Len(a) : \E i \in 1..Len(a) : f[i] = k
  /\ \A i, j \in 1..Len(a) : f[i] = f[j] => i = j
  /\ \A i, j \in 1..Len(a) : i < j => /\ b[i].day <= b[j].day
                                      /\ b[i].day = b[j].day /\ b[i].type = "SELL"
                                           => b[j].type = "SELL"

\* Sorting the purchases of a day first only reorders the trades.
LEMMA BuysFirstIs ==
  ASSUME NEW a, AreDeals(a)
  PROVE  \E f : Reordered(f, BuysFirst(a), a)
<1>1. PICK n \in Nat : n = Len(a) /\ DOMAIN a = 1..n
  BY DEF AreDeals
<1>2. PICK key, b : /\ key = [k \in DOMAIN a |-> 2 * a[k].day + (IF a[k].type = "BUY" THEN 0 ELSE 1)]
                    /\ b = BuysFirst(a)
  OBVIOUS
<1>3. \A k \in 1..n : IsDeal(a[k])
  BY <1>1 DEF AreDeals
<1>4. \A k \in 1..n : a[k].day \in Int /\ a[k].type \in {"BUY", "SELL"}
  BY <1>3 DEF IsDeal
<1>5. \A k \in 1..n : /\ key[k] \in Int
                      /\ a[k].type = "BUY" => key[k] = 2 * a[k].day
                      /\ a[k].type = "SELL" => key[k] = 2 * a[k].day + 1
  BY <1>1, <1>2, <1>4
<1>6. b = Sorted(a, 1..n, key)
  BY <1>1, <1>2 DEF BuysFirst
<1>7. PICK f : Picks(f, b, a, 1..n, key)
  <2>1. 1..n \in SUBSET (1..n)
    OBVIOUS
  <2>2. \A k \in 1..n : key[k] \in Int
    BY <1>5
  <2>. QED
    BY <1>1, <1>6, <2>1, <2>2, SortedPicks
<1>8. Cardinality(1..n) = n
  BY FS_Interval
<1>9. Len(b) = n /\ DOMAIN b = 1..n /\ \A i \in 1..n : f[i] \in 1..n /\ b[i] = a[f[i]]
  BY <1>7, <1>8 DEF Picks
<1>10. /\ \A k \in 1..n : \E i \in 1..n : f[i] = k
       /\ \A i, j \in 1..n : i < j <=> Precedes(key, f[i], f[j])
  BY <1>7, <1>9 DEF Picks
<1>11. ASSUME NEW i \in 1..n, NEW j \in 1..n, f[i] = f[j]
       PROVE  i = j
  <2>1. ~Precedes(key, f[i], f[j]) /\ ~Precedes(key, f[j], f[i])
    BY <1>5, <1>9, <1>11 DEF Precedes
  <2>. QED
    BY <1>10, <2>1
<1>12. ASSUME NEW i \in 1..n, NEW j \in 1..n, i < j
       PROVE  /\ b[i].day <= b[j].day
              /\ b[i].day = b[j].day /\ b[i].type = "SELL" => b[j].type = "SELL"
  <2>1. key[f[i]] <= key[f[j]]
    <3>1. Precedes(key, f[i], f[j]) /\ key[f[i]] \in Int /\ key[f[j]] \in Int
      BY <1>5, <1>9, <1>10, <1>12
    <3>. QED
      BY <3>1 DEF Precedes
  <2>2. PICK k \in 1..n, l \in 1..n : k = f[i] /\ l = f[j] /\ b[i] = a[k] /\ b[j] = a[l]
    BY <1>9
  <2>3. PICK d, e, x, y : d = a[k].day /\ e = a[l].day /\ x = key[k] /\ y = key[l]
    OBVIOUS
  <2>4. d \in Int /\ e \in Int /\ x \in {2 * d, 2 * d + 1} /\ y \in {2 * e, 2 * e + 1} /\ x <= y
        /\ (a[k].type = "SELL" => x = 2 * d + 1) /\ (a[l].type = "BUY" => y = 2 * e)
    BY <1>4, <1>5, <2>1, <2>2, <2>3
  <2>5. d <= e
    BY <2>4
  <2>6. ASSUME d = e, a[k].type = "SELL"
        PROVE  a[l].type = "SELL"
    BY <1>4, <2>4, <2>6
  <2>. QED
    BY <2>2, <2>3, <2>5, <2>6
<1>13. AreDeals(b)
  BY <1>3, <1>9 DEF AreDeals
<1>14. Reordered(f, b, a)
  BY ONLY <1>1, <1>9, <1>10, <1>11, <1>12, <1>13 DEF Reordered
<1>. QED
  BY <1>2, <1>14

\* The first trades of the new order, by their place in the old one.
FirstOf(f, k) == {f[i] : i \in 1..k}

\* What the first k trades of another order add up to.
LEMMA SumOfFirst ==
  ASSUME NEW a, AreDeals(a), NEW f, NEW b, Reordered(f, b, a)
  PROVE  \A k \in Nat : k <= Len(a) => SumTo(b, k) = SumFunctionOnSet(ChangeIn(a), FirstOf(f, k))
<1>1. PICK n \in Nat : n = Len(a) /\ DOMAIN a = 1..n /\ DOMAIN b = 1..n
  BY DEF AreDeals, Reordered
<1>2. /\ \A i \in 1..n : f[i] \in 1..n /\ b[i] = a[f[i]]
      /\ \A i, j \in 1..n : f[i] = f[j] => i = j
      /\ AreDeals(b)
  BY <1>1 DEF Reordered
<1>3. \A k \in 1..n : ChangeIn(a)[k] \in Int
  BY <1>1, DealsAre
<1>4. \A i \in 1..n : ChangeIn(b)[i] = ChangeIn(a)[f[i]]
  BY <1>1, <1>2 DEF ChangeIn
<1>. DEFINE T == {k \in Nat : k <= n => /\ SumTo(b, k) = SumFunctionOnSet(ChangeIn(a), FirstOf(f, k))
                                        /\ IsFiniteSet(FirstOf(f, k))}
<1>5. 0 \in T
  <2>1. 1..0 = {} /\ FirstOf(f, 0) = {} /\ IsFiniteSet({})
    BY FS_EmptySet DEF FirstOf
  <2>. QED
    BY <2>1, SumStep DEF SumTo
<1>6. ASSUME NEW k \in Nat, k \in T
      PROVE  k + 1 \in T
  <2>1. SUFFICES ASSUME k + 1 <= n
                 PROVE  /\ SumTo(b, k + 1) = SumFunctionOnSet(ChangeIn(a), FirstOf(f, k + 1))
                        /\ IsFiniteSet(FirstOf(f, k + 1))
    OBVIOUS
  <2>2. PICK m, F, x : m = k + 1 /\ F = FirstOf(f, k) /\ x = f[m]
    OBVIOUS
  <2>3. m \in 1..n /\ x \in 1..n /\ \A i : i \in 1..m <=> i \in 1..k \/ i = m
    BY <1>2, <2>1, <2>2
  <2>4. FirstOf(f, m) = F \cup {x}
    BY <2>2, <2>3 DEF FirstOf
  <2>5. x \notin F
    <3>1. \A i \in 1..k : i \in 1..n /\ i # m
      BY <2>1, <2>2
    <3>. QED
      BY <1>2, <2>2, <2>3, <3>1 DEF FirstOf
  <2>6. IsFiniteSet(F) /\ SumTo(b, k) = SumFunctionOnSet(ChangeIn(a), F)
    BY <1>6, <2>1, <2>2
  <2>7. IsFiniteSet(F \cup {x})
    BY <2>6, FS_AddElement
  <2>8. \A y \in F \cup {x} : ChangeIn(a)[y] \in Int
    <3>1. F \subseteq 1..n
      BY <1>2, <2>1, <2>2 DEF FirstOf
    <3>. QED
      BY <1>3, <2>3, <3>1
  <2>9. SumFunctionOnSet(ChangeIn(a), F \cup {x}) = SumFunctionOnSet(ChangeIn(a), F) + ChangeIn(a)[x]
    BY <2>5, <2>6, <2>8, SumAddOne
  <2>10. SumTo(b, m) = SumTo(b, k) + ChangeIn(b)[m]
    BY <1>1, <1>2, <2>2, <2>3, DealMore DEF SumTo
  <2>. QED
    BY <1>4, <2>2, <2>3, <2>4, <2>6, <2>7, <2>9, <2>10
<1>7. \A k \in Nat : k \in T
  <2>. HIDE DEF T
  <2>. QED
    BY <1>5, <1>6, NumberInduction
<1>. QED
  BY <1>1, <1>7

\* The trades up to a day are the first ones of the new order.
LEMMA DayIsFirst ==
  ASSUME NEW a, AreDeals(a), NEW f, NEW b, Reordered(f, b, a), NEW d \in Int,
         NEW K, K = {k \in DOMAIN a : a[k].day <= d}
  PROVE  \E m \in Nat : m <= Len(a) /\ K = FirstOf(f, m)
                        /\ \A i \in 1..Len(a) : i <= m <=> b[i].day <= d
<1>1. PICK n \in Nat : n = Len(a) /\ DOMAIN a = 1..n /\ DOMAIN b = 1..n
  BY DEF AreDeals, Reordered
<1>2. /\ \A i \in 1..n : f[i] \in 1..n /\ b[i] = a[f[i]]
      /\ \A k \in 1..n : \E i \in 1..n : f[i] = k
      /\ \A i, j \in 1..n : i < j => b[i].day <= b[j].day
      /\ \A i \in 1..n : b[i].day \in Nat
  BY <1>1 DEF Reordered, AreDeals, IsDeal
<1>3. PICK I : I = {i \in 1..n : b[i].day <= d}
  OBVIOUS
<1>4. K = {f[i] : i \in I}
  <2>1. \A k \in K : k \in 1..n /\ a[k].day <= d
    BY <1>1
  <2>2. ASSUME NEW k \in K
        PROVE  \E i \in I : f[i] = k
    <3>1. PICK i \in 1..n : f[i] = k
      BY <1>2, <2>1
    <3>2. b[i].day <= d
      BY <1>2, <2>1, <3>1
    <3>. QED
      BY <1>3, <3>1, <3>2
  <2>3. ASSUME NEW i \in I
        PROVE  f[i] \in K
    <3>1. i \in 1..n /\ b[i].day <= d
      BY <1>3
    <3>2. f[i] \in 1..n /\ a[f[i]].day <= d
      BY <1>2, <3>1
    <3>. QED
      BY <1>1, <3>2
  <2>. QED
    BY <2>2, <2>3
<1>5. CASE I = {}
  <2>1. 0 \in Nat /\ 0 <= n /\ K = FirstOf(f, 0)
    BY <1>1, <1>4, <1>5 DEF FirstOf
  <2>2. \A i \in 1..n : i <= 0 <=> b[i].day <= d
    BY <1>3, <1>5
  <2>. QED
    BY <1>1, <2>1, <2>2
<1>6. CASE I # {}
  <2>1. I \in SUBSET Int /\ IsFiniteSet(I)
    <3>1. IsFiniteSet(1..n) /\ I \in SUBSET (1..n)
      BY <1>3, FS_Interval
    <3>2. IsFiniteSet(I)
      BY <3>1, FS_Subset
    <3>. QED
      BY <3>1, <3>2
  <2>2. PICK m : m = Max(I)
    OBVIOUS
  <2>3. m \in I /\ \A i \in I : i <= m
    BY <1>6, <2>1, <2>2, MaxMin
  <2>4. m \in 1..n /\ b[m].day <= d
    BY <1>3, <2>3
  <2>5. \A i \in 1..n : i <= m <=> b[i].day <= d
    <3>1. SUFFICES ASSUME NEW i \in 1..n PROVE i <= m <=> b[i].day <= d
      OBVIOUS
    <3>2. CASE i < m
      <4>1. b[i].day <= b[m].day /\ b[i].day \in Nat /\ b[m].day \in Nat
        BY <1>2, <2>4, <3>2
      <4>. QED
        BY <2>4, <3>2, <4>1
    <3>3. CASE i = m
      BY <2>4, <3>3
    <3>4. CASE m < i
      BY <1>3, <2>3, <2>4, <3>4
    <3>. QED
      BY <2>4, <3>2, <3>3, <3>4
  <2>6. I = 1..m
    BY <1>3, <2>4, <2>5
  <2>. QED
    BY <1>1, <1>4, <2>4, <2>5, <2>6 DEF FirstOf
<1>. QED
  BY <1>5, <1>6

\* Once more is sold than is held, the day ends short: only sales follow on that day.
LEMMA ShortAtEnd ==
  ASSUME NEW a, AreDeals(a), NEW f, NEW b, Reordered(f, b, a),
         NEW k \in 1..Len(a), SumTo(b, k) < 0, \A j \in 1..k - 1 : SumTo(b, j) >= 0,
         NEW m \in Nat, m <= Len(a), \A i \in 1..Len(a) : i <= m <=> b[i].day <= b[k].day
  PROVE  SumTo(b, m) < 0
<1>1. PICK n \in Nat : n = Len(a) /\ DOMAIN b = 1..n /\ Len(b) = n /\ AreDeals(b)
  BY DEF AreDeals, Reordered
<1>2. \A i \in 1..n : b[i].type \in {"BUY", "SELL"} /\ b[i].qty \in Nat /\ b[i].day \in Nat
  BY <1>1 DEF AreDeals, IsDeal
<1>3. \A i \in Nat : i + 1 \in 1..n =>
        /\ SumTo(b, i + 1) = SumTo(b, i) + ChangeIn(b)[i + 1] /\ SumTo(b, i) \in Int
        /\ b[i + 1].type = "BUY" => ChangeIn(b)[i + 1] = b[i + 1].qty
        /\ b[i + 1].type = "SELL" => ChangeIn(b)[i + 1] = -b[i + 1].qty
  BY <1>1, DealMore, DealsAre DEF SumTo
<1>4. k <= m /\ k \in 1..n /\ k \in Nat
  BY <1>1, <1>2
<1>5. b[k].type = "SELL"
  <2>1. PICK j \in Nat : j + 1 = k /\ j = k - 1
    BY <1>4
  <2>2. SumTo(b, j) >= 0
    <3>1. CASE j = 0
      <4>1. 1..0 = {} /\ IsFiniteSet({})
        BY FS_EmptySet
      <4>2. SumTo(b, 0) = 0
        BY <4>1, SumStep DEF SumTo
      <4>. QED
        BY <3>1, <4>2
    <3>2. CASE j # 0
      BY <2>1, <3>2
    <3>. QED
      BY <3>1, <3>2
  <2>3. SumTo(b, k) = SumTo(b, j) + ChangeIn(b)[k] /\ SumTo(b, j) \in Int
        /\ (b[k].type = "BUY" => ChangeIn(b)[k] = b[k].qty)
    BY <1>3, <1>4, <2>1
  <2>. QED
    BY <1>2, <1>4, <2>2, <2>3
<1>. DEFINE T == {i \in Nat : k + i <= m => SumTo(b, k + i) < 0 /\ SumTo(b, k + i) \in Int}
<1>6. 0 \in T
  <2>1. SumTo(b, k) \in Int
    <3>1. PICK j \in Nat : j + 1 = k
      BY <1>4
    <3>2. ChangeIn(b)[k] \in Int
      BY <1>1, <1>4, DealsAre
    <3>3. SumTo(b, k) = SumTo(b, j) + ChangeIn(b)[k] /\ SumTo(b, j) \in Int
      BY <1>3, <1>4, <3>1
    <3>. QED
      BY <3>2, <3>3
  <2>. QED
    BY <1>4, <2>1
<1>7. ASSUME NEW i \in Nat, i \in T
      PROVE  i + 1 \in T
  <2>1. SUFFICES ASSUME k + (i + 1) <= m
                 PROVE  SumTo(b, k + (i + 1)) < 0 /\ SumTo(b, k + (i + 1)) \in Int
    OBVIOUS
  <2>2. PICK j \in Nat : j = k + i
    BY <1>4
  <2>3. SumTo(b, j) < 0 /\ k <= j /\ j + 1 = k + (i + 1) /\ j + 1 \in 1..n /\ j + 1 <= m /\ k < j + 1
    BY <1>1, <1>4, <1>7, <2>1, <2>2
  <2>4. b[j + 1].day <= b[k].day
    BY <1>1, <2>3
  <2>5. b[k].day <= b[j + 1].day
        /\ (b[k].day = b[j + 1].day /\ b[k].type = "SELL" => b[j + 1].type = "SELL")
    BY <1>1, <1>4, <2>3 DEF Reordered
  <2>6. b[j + 1].type = "SELL"
    BY <1>2, <1>4, <1>5, <2>3, <2>4, <2>5
  <2>7. SumTo(b, j + 1) = SumTo(b, j) - b[j + 1].qty /\ SumTo(b, j) \in Int /\ b[j + 1].qty \in Nat
    BY <1>2, <1>3, <2>3, <2>6
  <2>8. SumTo(b, j + 1) < 0 /\ SumTo(b, j + 1) \in Int
    BY <2>3, <2>7
  <2>. QED
    BY <2>3, <2>8
<1>8. PICK i \in Nat : k + i = m
  BY <1>4
<1>9. i \in T
  <2>. HIDE DEF T
  <2>. QED
    BY <1>6, <1>7, NumberInduction
<1>. QED
  BY <1>8, <1>9

\* detect_oversell finds a sale beyond what is held exactly when some day ends short.
LEMMA OversoldIsShort ==
  ASSUME NEW ts, InOrder(ts)
  PROVE  /\ Oversold(ts) <=> \E d \in Days : HeldOn(ts, d) < 0
         /\ Oversold(ts) \in BOOLEAN
<1>1. PICK a : a = Adjusted(ts)
  OBVIOUS
<1>2. InOrder(a) /\ AreDeals(a)
  BY <1>1, AdjustedIs
<1>3. PICK b : b = BuysFirst(a)
  OBVIOUS
<1>4. PICK f : Reordered(f, b, a)
  BY <1>2, <1>3, BuysFirstIs
<1>5. PICK n \in Nat : n = Len(a) /\ DOMAIN a = 1..n /\ DOMAIN b = 1..n /\ AreDeals(b)
  BY <1>2, <1>4 DEF AreDeals, Reordered
<1>6. Oversold(ts) = FoldLeft(Checked, [held |-> 0, over |-> FALSE], b).over
  BY <1>1, <1>3 DEF Oversold
<1>7. /\ Oversold(ts) <=> \E k \in 1..n : SumTo(b, k) < 0
      /\ Oversold(ts) \in BOOLEAN
  BY <1>5, <1>6, OversoldIs
<1>8. \A d \in Int : HeldOn(ts, d) = SumFunctionOnSet(ChangeIn(a), {k \in DOMAIN a : a[k].day <= d})
  <2>1. SUFFICES ASSUME NEW d \in Int, NEW K, K = {k \in DOMAIN a : a[k].day <= d}
                 PROVE  HeldOn(ts, d) = SumFunctionOnSet(ChangeIn(a), K)
    OBVIOUS
  <2>2. IsFiniteSet(K) /\ K \in SUBSET (1..n)
    <3>1. IsFiniteSet(1..n) /\ K \in SUBSET (1..n)
      BY <1>5, <2>1, FS_Interval
    <3>. QED
      BY <3>1, FS_Subset
  <2>3. \A k \in K : ChangeIn(a)[k] \in Int /\ ChangeIn(a)[k] = Change(a[k])
    BY <1>2, <1>5, <2>2, DealsAre DEF ChangeIn
  <2>4. PICK h : h = [k \in K |-> Change(a[k])]
    OBVIOUS
  <2>5. h = [k \in K |-> ChangeIn(a)[k]]
    BY <2>3, <2>4
  <2>6. SumFunction(h) = SumFunctionOnSet(ChangeIn(a), K)
    BY <2>2, <2>3, <2>5, TotalIs
  <2>. QED
    BY <1>1, <2>1, <2>4, <2>6 DEF HeldOn, Total
<1>9. \A k \in Nat : k <= n => SumTo(b, k) = SumFunctionOnSet(ChangeIn(a), FirstOf(f, k))
  BY <1>2, <1>4, <1>5, SumOfFirst
<1>10. ASSUME NEW d \in Days, HeldOn(ts, d) < 0
       PROVE  \E k \in 1..n : SumTo(b, k) < 0
  <2>1. PICK K : K = {k \in DOMAIN a : a[k].day <= d}
    OBVIOUS
  <2>2. d \in Int
    BY DEF Days
  <2>3. PICK m \in Nat : m <= n /\ K = FirstOf(f, m) /\ \A i \in 1..n : i <= m <=> b[i].day <= d
    BY <1>2, <1>4, <1>5, <2>1, <2>2, DayIsFirst
  <2>4. SumTo(b, m) < 0
    BY <1>8, <1>9, <1>10, <2>1, <2>2, <2>3
  <2>5. m # 0
    <3>1. 1..0 = {} /\ IsFiniteSet({})
      BY FS_EmptySet
    <3>2. SumTo(b, 0) = 0
      BY <3>1, SumStep DEF SumTo
    <3>. QED
      BY <2>4, <3>2
  <2>. QED
    BY <2>3, <2>4, <2>5
<1>11. ASSUME \E k \in 1..n : SumTo(b, k) < 0
       PROVE  \E d \in Days : HeldOn(ts, d) < 0
  <2>1. PICK T : T = {k \in 1..n : SumTo(b, k) < 0}
    OBVIOUS
  <2>2. T \in SUBSET Nat /\ T # {}
    BY <1>11, <2>1
  <2>3. PICK k \in T : \A j \in T : k <= j
    BY <2>2, LeastNumber
  <2>4. k \in 1..n /\ SumTo(b, k) < 0
    BY <2>1, <2>3
  <2>5. \A j \in 1..k - 1 : SumTo(b, j) >= 0
    <3>1. SUFFICES ASSUME NEW j \in 1..k - 1 PROVE SumTo(b, j) >= 0
      OBVIOUS
    <3>2. j \in 1..n /\ j \notin T /\ j \in DOMAIN b
      BY <1>5, <2>3, <2>4
    <3>3. SumTo(b, j) \in Int
      <4>1. \A i \in 1..j : ChangeIn(b)[i] \in Int
        BY <1>5, <3>2, DealsAre
      <4>2. IsFiniteSet(1..j)
        BY FS_Interval
      <4>. QED
        BY <4>1, <4>2, SumStep DEF SumTo
    <3>. QED
      BY <2>1, <3>2, <3>3
  <2>6. PICK d : d = b[k].day
    OBVIOUS
  <2>7. d \in Days /\ d \in Int
    <3>1. f[k] \in 1..n /\ b[k] = a[f[k]]
      BY <1>4, <1>5, <2>4 DEF Reordered
    <3>2. a[f[k]] \in Trades
      BY <1>2, <1>5, <3>1 DEF InOrder
    <3>. QED
      BY <2>6, <3>1, <3>2, TradeIs
  <2>8. PICK K : K = {j \in DOMAIN a : a[j].day <= d}
    OBVIOUS
  <2>9. PICK m \in Nat : m <= n /\ K = FirstOf(f, m) /\ \A i \in 1..n : i <= m <=> b[i].day <= d
    BY <1>2, <1>4, <1>5, <2>7, <2>8, DayIsFirst
  <2>10. SumTo(b, m) < 0
    BY <1>2, <1>4, <1>5, <2>4, <2>5, <2>6, <2>9, ShortAtEnd
  <2>11. HeldOn(ts, d) < 0
    BY <1>8, <1>9, <2>7, <2>8, <2>9, <2>10
  <2>. QED
    BY <2>7, <2>11
<1>. QED
  BY <1>7, <1>10, <1>11

\* The holdings of a state tell their oversell.
LEMMA OversoldStep ==
  ASSUME VInv
  PROVE  OversellNoticed
<1>1. SUFFICES ASSUME NEW p \in Portfolios, NEW sym \in SymbolsOf(TradesIn({p})),
                      NEW ts, ts = Holding(p, sym), NEW short, short = (\E d \in Days : HeldOn(ts, d) < 0)
               PROVE  /\ Oversold(ts) <=> short
                      /\ Item(TradesIn({p}), sym).status = "oversold" <=> short
  BY DEF OversellNoticed
<1>2. InOrder(ts)
  BY <1>1, HoldingTrades DEF Holding
<1>3. (Oversold(ts) <=> short) /\ Oversold(ts) \in BOOLEAN
  BY <1>1, <1>2, OversoldIsShort
<1>4. Item(TradesIn({p}), sym).status = HoldingStatus(Metrics(ts).qty, Oversold(ts))
  BY <1>1 DEF Item, HoldingRow, Holding
<1>5. HoldingStatus(Metrics(ts).qty, Oversold(ts)) = "oversold" <=> Oversold(ts)
  BY <1>3 DEF HoldingStatus
<1>. QED
  BY <1>3, <1>4, <1>5

\* detect_oversell finds out, for any trades and splits, whether on some day more shares are
\* sold than were bought up to the end of that day, and the row of the holding says so.
THEOREM OversellHolds ==
  Spec => []OversellNoticed
<1>1. VInv => OversellNoticed
  BY OversoldStep
<1>. QED
  BY <1>1, ValueInvariant, PTL

-----------------------------------------------------------------------------
(* Sums over renamed indices.                                              *)

\* An image of a finite set is finite.
LEMMA ImageFinite ==
  ASSUME NEW S, IsFiniteSet(S), NEW f, NEW T, T = {f[x] : x \in S}
  PROVE  IsFiniteSet(T)
<1>1. PICK h : h = [x \in S |-> f[x]]
  OBVIOUS
<1>2. h \in [S -> T] /\ \A t \in T : \E x \in S : h[x] = t
  BY <1>1
<1>3. h \in Surjection(S, T)
  BY <1>2 DEF Surjection
<1>. QED
  BY <1>3, FS_Surjection

\* A sum does not depend on the names of its indices.
LEMMA SumRenamed ==
  ASSUME NEW S, IsFiniteSet(S), NEW g, \A x \in S : g[x] \in Int,
         NEW f, \A x, y \in S : f[x] = f[y] => x = y,
         NEW v, \A x \in S : v[f[x]] = g[x], NEW T, T = {f[x] : x \in S}
  PROVE  SumFunctionOnSet(v, T) = SumFunctionOnSet(g, S) /\ IsFiniteSet(T)
<1>1. IsFiniteSet(T)
  BY ImageFinite
<1>2. \A x \in S : f[x] \in T
  OBVIOUS
<1>3. ASSUME NEW y \in T
      PROVE  v[y] = SumFunctionOnSet(g, WithKey(S, f, y))
  <2>1. PICK x \in S : y = f[x]
    OBVIOUS
  <2>2. WithKey(S, f, y) = {} \cup {x}
    BY <2>1 DEF WithKey
  <2>3. IsFiniteSet({}) /\ x \notin {}
    BY FS_EmptySet
  <2>4. \A z \in {} \cup {x} : g[z] \in Int
    OBVIOUS
  <2>5. SumFunctionOnSet(g, {} \cup {x}) = SumFunctionOnSet(g, {}) + g[x]
    BY <2>3, <2>4, SumAddOne
  <2>6. SumFunctionOnSet(g, {}) = 0
    BY <2>3, SumStep
  <2>. QED
    BY <2>1, <2>2, <2>5, <2>6
<1>4. SumFunctionOnSet(v, T) = SumFunctionOnSet(g, S)
  BY <1>1, <1>2, <1>3, SumPartition
<1>. QED
  BY <1>1, <1>4

-----------------------------------------------------------------------------
(* Conversions.                                                            *)

\* The days with a rate between two currencies.
LEMMA RateDaysIs ==
  ASSUME VInv, NEW from, NEW to, NEW since \in Int, NEW d \in Int
  PROVE  /\ RateDays(rates, from, to, since, d) =
              {e \in Days : since <= e /\ e <= d /\ (<<from, to, e>> \in rates \/ <<to, from, e>> \in rates)}
         /\ RateDays(rates, from, to, since, d) \in SUBSET Days
<1>1. rates \subseteq Currencies \X Currencies \X Days /\ Days \subseteq Nat
  BY ValueShape
<1>2. \A x, y, e : <<x, y, e>> \in rates => e \in Days
  BY <1>1
<1>3. \A e \in Days : e \in Int
  BY <1>1
<1>4. \A e : e \in since..d <=> e \in Int /\ since <= e /\ e <= d
  OBVIOUS
<1>. QED
  BY <1>2, <1>3, <1>4 DEF RateDays

\* Rates loaded from far enough back are all that a conversion looks for.
LEMMA LookupFar ==
  ASSUME VInv, NEW from, NEW to, NEW d \in Int, NEW since \in Int,
         NEW t \in Int, since <= Larger(t, d - FillDays), t <= Larger(1, d - FillDays)
  PROVE  Lookup(rates, from, to, d, since) = LookupStored(rates, from, to, d)
<1>1. FillDays \in Nat /\ Days \subseteq Nat /\ \A e \in Days : 1 <= e
  BY FxAssumption, ValueShape DEF FxAssumption, Days
<1>2. PICK a, b : a = Larger(since, d - FillDays) /\ b = Larger(1, d - FillDays)
  OBVIOUS
<1>3. a \in Int /\ b \in Int /\ a <= b /\ \A e \in Days : b <= e => a <= e
  BY <1>1, <1>2 DEF Larger
<1>4. \A e \in Days : a <= e => b <= e
  BY <1>1, <1>2 DEF Larger
<1>5. RateDays(rates, from, to, a, d) = RateDays(rates, from, to, b, d)
  <2>1. RateDays(rates, from, to, a, d) =
          {e \in Days : a <= e /\ e <= d /\ (<<from, to, e>> \in rates \/ <<to, from, e>> \in rates)}
    BY <1>3, RateDaysIs
  <2>2. RateDays(rates, from, to, b, d) =
          {e \in Days : b <= e /\ e <= d /\ (<<from, to, e>> \in rates \/ <<to, from, e>> \in rates)}
    BY <1>3, RateDaysIs
  <2>3. \A e \in Days : a <= e <=> b <= e
    BY <1>3, <1>4
  <2>. QED
    BY <2>1, <2>2, <2>3
<1>. QED
  BY <1>2, <1>5 DEF Lookup, LookupStored

\* What a conversion finds.
LEMMA LookupIs ==
  ASSUME VInv, NEW from, NEW to, NEW d \in Days, NEW since \in Int,
         NEW found, found = Lookup(rates, from, to, d, since)
  PROVE  /\ found.day \in Days \cup {0} /\ (found.day \in Days <=> found.day # 0)
         /\ found.status \in {"ok", "filled", "fx_unavailable"}
         /\ found.day = 0 <=> found.status = "fx_unavailable"
         /\ from = to => found.day = d
<1>1. FillDays \in Nat /\ Days \subseteq Nat /\ 0 \notin Days
  BY FxAssumption, ValueShape DEF FxAssumption, Days
<1>2. PICK b, known : b = Larger(since, d - FillDays) /\ known = RateDays(rates, from, to, b, d)
  OBVIOUS
<1>3. b \in Int /\ d \in Int
  BY <1>1, <1>2 DEF Larger
<1>4. known \in SUBSET Days
  BY <1>2, <1>3, RateDaysIs
<1>5. found = Nearest(known, from = to, d)
  BY <1>2 DEF Lookup
<1>6. known # {} => Max(known) \in Days
  BY <1>4, FirstAndLast
<1>. QED
  BY <1>1, <1>5, <1>6 DEF Nearest

\* A converted amount is a number, or unknown where no rate was found.
LEMMA ConvertedIs ==
  ASSUME NEW from \in Currencies, NEW to \in Currencies, NEW found, found.day \in Days \cup {0}
  PROVE  /\ \A n \in Int : Converted(n, from, to, found) \in Int
         /\ \A n \in Nat : Converted(n, from, to, found) \in Nat \cup {Missing}
         /\ \A n \in Nat : Converted(n, from, to, found) = Missing <=> found.day = 0
         /\ found.day # 0 => Converted(0, from, to, found) = 0
         /\ found.day = 0 => \A n : Converted(n, from, to, found) = Missing
<1>1. Missing \in Int /\ Missing \notin Nat
  BY DEF Missing
<1>2. CASE found.day = 0
  BY <1>1, <1>2 DEF Converted
<1>3. CASE found.day # 0
  <2>1. PICK w, u : w = Worth[from][found.day] /\ u = Worth[to][found.day]
    OBVIOUS
  <2>2. w \in Nat \ {0} /\ u \in Nat \ {0}
    BY <1>3, <2>1, FxAssumption DEF FxAssumption
  <2>3. \A n : Converted(n, from, to, found) = (n * w) \div u
    BY <1>3, <2>1 DEF Converted
  <2>4. (\A n \in Int : n * w \in Int) /\ (\A n \in Nat : n * w \in Nat) /\ 0 * w = 0
    BY <2>2
  <2>5. (\A n \in Int : n \div u \in Int) /\ (\A n \in Nat : n \div u \in Nat) /\ 0 \div u = 0
    BY <2>2
  <2>6. \A n \in Int : Converted(n, from, to, found) \in Int
    BY <2>3, <2>4, <2>5
  <2>7. \A n \in Nat : Converted(n, from, to, found) \in Nat
    BY <2>3, <2>4, <2>5
  <2>8. Converted(0, from, to, found) = 0
    BY <2>3, <2>4, <2>5
  <2>. QED
    BY <1>1, <1>3, <2>6, <2>7, <2>8
<1>. QED
  BY <1>2, <1>3

\* Amounts in their own currency are not changed.
LEMMA ConvertedSame ==
  ASSUME NEW c \in Currencies, NEW found, found.day \in Days
  PROVE  \A n \in Int : Converted(n, c, c, found) = n
<1>1. PICK w : w = Worth[c][found.day]
  OBVIOUS
<1>2. w \in Nat \ {0}
  BY <1>1, FxAssumption DEF FxAssumption
<1>3. found.day # 0
  BY FxAssumption DEF FxAssumption, Days
<1>4. \A n \in Int : (n * w) \div w = n
  BY <1>2
<1>. QED
  BY <1>1, <1>3, <1>4 DEF Converted

-----------------------------------------------------------------------------
(* Sets of symbols.                                                        *)

\* The symbols traded are finitely many stocks and funds.
LEMMA SymbolsFinite ==
  ASSUME NEW ts, InOrder(ts)
  PROVE  /\ IsFiniteSet(SymbolsOf(ts)) /\ SymbolsOf(ts) \subseteq Symbols
         /\ IsFiniteSet(StocksIn(ts)) /\ StocksIn(ts) \subseteq SymbolsOf(ts)
         /\ IsFiniteSet(FundsIn(ts)) /\ FundsIn(ts) \subseteq SymbolsOf(ts)
         /\ StocksIn(ts) \cap FundsIn(ts) = {}
         /\ StocksIn(ts) \subseteq Range(Stocks) /\ FundsIn(ts) \subseteq Range(Funds)
         /\ \A s \in StocksIn(ts) : QuotedIn[s] \in Currencies /\ s \notin Range(Funds) /\ s \in Symbols
<1>1. PICK n \in Nat : n = Len(ts) /\ DOMAIN ts = 1..n /\ \A k \in 1..n : ts[k] \in Trades
  BY InOrderIs
<1>2. SymbolsOf(ts) = {ts[k].sym : k \in 1..n}
  BY <1>1 DEF SymbolsOf, Range
<1>3. IsFiniteSet(SymbolsOf(ts))
  <2>1. IsFiniteSet(1..n)
    BY FS_Interval
  <2>2. PICK f : f = [k \in 1..n |-> ts[k].sym]
    OBVIOUS
  <2>3. SymbolsOf(ts) = {f[k] : k \in 1..n}
    BY <1>2, <2>2
  <2>. QED
    BY <2>1, <2>3, ImageFinite
<1>4. SymbolsOf(ts) \subseteq Symbols
  BY <1>1, <1>2, TradeIs
<1>5. IsFiniteSet(StocksIn(ts)) /\ IsFiniteSet(FundsIn(ts))
  <2>1. StocksIn(ts) \in SUBSET SymbolsOf(ts) /\ FundsIn(ts) \in SUBSET SymbolsOf(ts)
    BY DEF StocksIn, FundsIn
  <2>. QED
    BY <1>3, <2>1, FS_Subset
<1>6. Range(Stocks) \cap Range(Funds) = {}
  BY Lists
<1>7. \A s \in Range(Stocks) : QuotedIn[s] \in Currencies
  BY MarketAssumption DEF MarketAssumption
<1>. QED
  BY <1>3, <1>4, <1>5, <1>6, <1>7 DEF StocksIn, FundsIn

\* The newest close of a symbol.
LEMMA LatestIs ==
  ASSUME VInv, NEW s \in Symbols, prices[s] # <<>>
  PROVE  LatestDay(s) \in DOMAIN prices[s] /\ LatestDay(s) \in Days /\ LatestDay(s) <= today
         /\ prices[s][LatestDay(s)] \in Nat \ {0}
         /\ \A d \in DOMAIN prices[s] : d <= LatestDay(s)
<1>1. /\ DOMAIN prices[s] \in SUBSET Days /\ DOMAIN prices[s] # {}
      /\ \A d \in DOMAIN prices[s] : d <= today /\ prices[s][d] \in Nat \ {0}
  BY ValueShape
<1>. QED
  BY <1>1, FirstAndLast DEF LatestDay

\* The currency of a holding.
LEMMA BaseIs ==
  ASSUME VInv, NEW ps, NEW s \in SymbolsOf(TradesIn(ps))
  PROVE  BaseCurrency(OfSymbol(TradesIn(ps), s)) \in Currencies
<1>1. PICK ts : ts = OfSymbol(TradesIn(ps), s)
  OBVIOUS
<1>2. InOrder(ts) /\ ts # <<>>
  BY <1>1, HoldingTrades
<1>3. 1 \in DOMAIN ts /\ ts[1] \in Trades
  BY <1>2, InOrderIs DEF InOrder
<1>. QED
  BY <1>1, <1>2, <1>3, TradeIs DEF BaseCurrency

\* The rates of a valuation of today reach back far enough for each price.
LEMMA SinceFar ==
  ASSUME VInv, NEW S, IsFiniteSet(S), S \subseteq Symbols, NEW s \in S, prices[s] # <<>>
  PROVE  RatesSince(S) \in Int /\ RatesSince(S) <= LatestDay(s) - FillDays
<1>1. PICK D : D = {LatestDay(x) : x \in Priced(S)}
  OBVIOUS
<1>2. s \in Priced(S)
  BY DEF Priced
<1>3. D \in SUBSET Days /\ LatestDay(s) \in D
  BY <1>1, <1>2, LatestIs DEF Priced
<1>4. Min(D) \in D /\ Min(D) <= LatestDay(s)
  BY <1>3, FirstAndLast
<1>5. RatesSince(S) = Min(D) - FillDays
  <2>1. D \cup {} = D
    OBVIOUS
  <2>. QED
    BY <1>1, <1>2, <2>1 DEF RatesSince
<1>6. FillDays \in Nat /\ Days \subseteq Nat
  BY FxAssumption, ValueShape DEF FxAssumption
<1>7. PICK m, l, k : m = Min(D) /\ l = LatestDay(s) /\ k = FillDays
  OBVIOUS
<1>8. m \in Int /\ l \in Int /\ k \in Int /\ m <= l
  <2>1. m \in Days /\ l \in Days /\ m <= l
    BY <1>3, <1>4, <1>7
  <2>. QED
    BY <1>6, <1>7, <2>1
<1>9. m - k \in Int /\ m - k <= l - k
  BY <1>8
<1>. QED
  BY <1>5, <1>7, <1>9

-----------------------------------------------------------------------------
(* The holdings add up.                                                    *)

\* The price of a stock in the summary is the one in its row.
LEMMA SamePrice ==
  ASSUME VInv, NEW ps, NEW ts, ts = TradesIn(ps), NEW s \in StocksIn(ts),
         NEW unit, unit = BaseCurrency(OfSymbol(ts, s))
  PROVE  /\ prices[s] = <<>> => PriceToday(ts, s) = 0 /\ ResolvedPrice(s, unit) = Missing
         /\ prices[s] # <<>> => /\ PriceToday(ts, s) = ResolvedPrice(s, unit)
                                /\ PriceToday(ts, s) \in Nat \cup {Missing}
<1>1. CASE prices[s] = <<>>
  BY <1>1 DEF PriceToday, LatestIn, ResolvedPrice
<1>2. CASE prices[s] # <<>>
  <2>1. InOrder(ts)
    BY HoldingTrades
  <2>2. IsFiniteSet(StocksIn(ts)) /\ StocksIn(ts) \subseteq Symbols
    BY <2>1, SymbolsFinite
  <2>3. s \in Symbols /\ QuotedIn[s] \in Currencies /\ s \notin Range(Funds) /\ unit \in Currencies
    BY <2>1, SymbolsFinite, BaseIs
  <2>4. PICK d, since, q : d = LatestDay(s) /\ since = RatesSince(StocksIn(ts)) /\ q = QuotedIn[s]
    OBVIOUS
  <2>5. since \in Int /\ since <= d - FillDays
    BY <1>2, <2>2, <2>4, SinceFar
  <2>6. d \in Days /\ prices[s][d] \in Nat /\ d \in Int
    BY <1>2, <2>3, <2>4, LatestIs, ValueShape
  <2>7. Lookup(rates, q, unit, d, since) = LookupStored(rates, q, unit, d)
    <3>1. FillDays \in Nat /\ d - FillDays \in Int
      BY <2>6, FxAssumption DEF FxAssumption
    <3>2. since <= Larger(1, d - FillDays) /\ 1 <= Larger(1, d - FillDays) /\ 1 \in Int
      BY <2>5, <3>1 DEF Larger
    <3>. QED
      BY <2>5, <2>6, <3>2, LookupFar
  <2>8. PICK found : found = Lookup(rates, q, unit, d, since)
    OBVIOUS
  <2>9. PriceToday(ts, s) = Converted(prices[s][d], q, unit, found)
    BY <1>2, <2>4, <2>8 DEF PriceToday, LatestIn
  <2>10. ResolvedPrice(s, unit) = Converted(prices[s][d], q, unit, found)
    BY <1>2, <2>3, <2>4, <2>7, <2>8 DEF ResolvedPrice
  <2>11. found.day \in Days \cup {0}
    BY <2>5, <2>6, <2>8, LookupIs
  <2>12. Converted(prices[s][d], q, unit, found) \in Nat \cup {Missing}
    BY <2>3, <2>4, <2>6, <2>11, ConvertedIs
  <2>. QED
    BY <1>2, <2>9, <2>10, <2>12
<1>. QED
  BY <1>1, <1>2

\* A row has the figures of its holding.
LEMMA RowIs ==
  ASSUME VInv, NEW ps, NEW ts, ts = TradesIn(ps), NEW s \in StocksIn(ts), NEW h, h = Item(ts, s)
  PROVE  /\ h.of = s /\ h.value \in Int
         /\ Metrics(OfSymbol(ts, s)).qty \in Nat
         /\ h.value = IF PriceToday(ts, s) = Missing THEN 0
                      ELSE Metrics(OfSymbol(ts, s)).qty * PriceToday(ts, s)
         /\ PriceToday(ts, s) = Missing <=> prices[s] # <<>> /\ ~h.priced
<1>1. PICK m, unit, price : /\ m = Metrics(OfSymbol(ts, s)) /\ unit = BaseCurrency(OfSymbol(ts, s))
                            /\ price = PriceToday(ts, s)
  OBVIOUS
<1>2. InOrder(ts) /\ InOrder(OfSymbol(ts, s))
  BY HoldingTrades
<1>3. s \notin Range(Funds)
  BY <1>2, SymbolsFinite
<1>4. h = HoldingRow(s, unit, m, ResolvedPrice(s, unit), Oversold(OfSymbol(ts, s)))
  BY <1>1, <1>3 DEF Item, CurrencyOf
<1>5. /\ h.of = s /\ h.priced = (ResolvedPrice(s, unit) # Missing)
      /\ h.value = IF ResolvedPrice(s, unit) # Missing /\ m.qty > 0
                   THEN ResolvedPrice(s, unit) * m.qty ELSE 0
  BY <1>4 DEF HoldingRow
<1>6. m.qty \in Nat
  BY <1>1, <1>2, HoldingIs
<1>7. /\ prices[s] = <<>> => price = 0 /\ ResolvedPrice(s, unit) = Missing
      /\ prices[s] # <<>> => price = ResolvedPrice(s, unit) /\ price \in Nat \cup {Missing}
  BY <1>1, SamePrice
<1>8. Missing # 0
  BY DEF Missing
<1>9. (\A x, y \in Nat : x * y \in Int /\ x * y = y * x) /\ (\A x \in Nat : x * 0 = 0 /\ 0 * x = 0)
  OBVIOUS
<1>10. PICK q, r : q = m.qty /\ r = ResolvedPrice(s, unit)
  OBVIOUS
<1>11. q \in Nat /\ q * 0 = 0 /\ h.value = IF r # Missing /\ q > 0 THEN r * q ELSE 0
  BY <1>5, <1>6, <1>10
<1>12. /\ h.value = (IF price = Missing THEN 0 ELSE q * price) /\ h.value \in Int
       /\ price = Missing <=> prices[s] # <<>> /\ ~h.priced
  <2>1. CASE prices[s] = <<>>
    BY <1>7, <1>8, <1>10, <1>11, <2>1
  <2>2. CASE prices[s] # <<>> /\ price = Missing
    <3>1. r = Missing /\ ~h.priced
      BY <1>5, <1>7, <1>10, <2>2
    <3>2. h.value = 0
      BY <1>11, <3>1
    <3>. QED
      BY <2>2, <3>1, <3>2
  <2>3. CASE prices[s] # <<>> /\ price # Missing
    <3>1. price \in Nat /\ r = price /\ h.priced
      BY <1>5, <1>7, <1>10, <2>3
    <3>2. r * q = q * price /\ q * price \in Int
      BY <1>11, <3>1
    <3>3. ~(q > 0) => q = 0
      BY <1>11
    <3>4. ~(q > 0) => q * price = 0
      BY <3>1, <3>3
    <3>5. h.value = q * price
      BY <1>11, <2>3, <3>1, <3>2, <3>4
    <3>. QED
      BY <2>3, <3>1, <3>2, <3>5
  <2>. QED
    BY <2>1, <2>2, <2>3
<1>13. h.value = IF PriceToday(ts, s) = Missing THEN 0
                 ELSE Metrics(OfSymbol(ts, s)).qty * PriceToday(ts, s)
  BY <1>1, <1>10, <1>12
<1>14. PriceToday(ts, s) = Missing <=> prices[s] # <<>> /\ ~h.priced
  BY <1>1, <1>12
<1>. QED
  BY <1>1, <1>5, <1>6, <1>12, <1>13, <1>14

\* The holdings of a state add up to their summary.
LEMMA AddUpStep ==
  ASSUME VInv
  PROVE  HoldingsAddUp
<1>1. SUFFICES ASSUME NEW p \in Portfolios, NEW ts, ts = TradesIn({p}),
                      NEW rows, rows = {Item(ts, s) : s \in StocksIn(ts)}
               PROVE  AddUp(rows, StockTotals(ts))
  BY DEF HoldingsAddUp
<1>2. PICK S, U, item, worth, value :
        /\ S = StocksIn(ts) /\ U = {s \in S : PriceToday(ts, s) = Missing}
        /\ item = [s \in S |-> Item(ts, s)]
        /\ worth = [s \in S |-> IF PriceToday(ts, s) = Missing THEN 0
                                ELSE Metrics(OfSymbol(ts, s)).qty * PriceToday(ts, s)]
        /\ value = [h \in rows |-> h.value]
  OBVIOUS
<1>3. IsFiniteSet(S)
  <2>1. InOrder(ts)
    BY <1>1, HoldingTrades
  <2>. QED
    BY <1>2, <2>1, SymbolsFinite
<1>4. \A s \in S : /\ item[s].of = s /\ item[s].value = worth[s] /\ worth[s] \in Int
                   /\ PriceToday(ts, s) = Missing <=> prices[s] # <<>> /\ ~item[s].priced
  BY <1>1, <1>2, RowIs
<1>5. rows = {item[s] : s \in S}
  BY <1>1, <1>2
<1>6. \A s \in S : value[item[s]] = worth[s]
  BY <1>2, <1>4, <1>5
<1>7. SumFunctionOnSet(value, rows) = SumFunctionOnSet(worth, S) /\ IsFiniteSet(rows)
  <2>1. \A x, y \in S : item[x] = item[y] => x = y
    BY <1>4
  <2>2. \A x \in S : worth[x] \in Int
    BY <1>4
  <2>. QED
    BY <1>3, <1>5, <1>6, <2>1, <2>2, SumRenamed
<1>8. Total(LAMBDA h : h.value, rows) = SumFunctionOnSet(worth, S)
  <2>1. \A h \in rows : value[h] \in Int
    BY <1>4, <1>5, <1>6
  <2>2. value = [h \in rows |-> value[h]]
    BY <1>2
  <2>3. SumFunction(value) = SumFunctionOnSet(value, rows)
    BY <1>7, <2>1, <2>2, TotalIs
  <2>. QED
    BY <1>2, <1>7, <2>3 DEF Total
<1>9. PICK price, metrics : price = [s \in S |-> PriceToday(ts, s)] /\ metrics = MetricsIn(ts, S)
  OBVIOUS
<1>10. /\ StockTotals(ts).value = Total(LAMBDA s : metrics[s].qty * price[s], S \ U)
       /\ StockTotals(ts).missing = (U # {})
  <2>1. {s \in DOMAIN price : price[s] = Missing} = U /\ DOMAIN metrics = S
    BY <1>2, <1>9 DEF MetricsIn
  <2>2. StockTotals(ts) = StockSums(metrics, price)
    BY <1>2, <1>9 DEF StockTotals
  <2>3. PICK V : V = {s \in DOMAIN price : price[s] = Missing}
    OBVIOUS
  <2>4. /\ StockSums(metrics, price).value = Total(LAMBDA s : metrics[s].qty * price[s], DOMAIN metrics \ V)
        /\ StockSums(metrics, price).missing = (V # {})
    BY <2>3 DEF StockSums
  <2>5. V = U /\ DOMAIN metrics \ V = S \ U
    BY <2>1, <2>3
  <2>. QED
    BY <2>2, <2>4, <2>5
<1>11. Total(LAMBDA s : metrics[s].qty * price[s], S \ U) = SumFunctionOnSet(worth, S \ U)
  <2>1. PICK R : R = S \ U
    OBVIOUS
  <2>2. R \in SUBSET S /\ IsFiniteSet(R)
    BY <1>3, <2>1, FS_Subset
  <2>3. \A s \in R : worth[s] \in Int /\ worth[s] = metrics[s].qty * price[s]
    BY <1>2, <1>4, <1>9, <2>1 DEF MetricsIn
  <2>4. PICK h : h = [s \in R |-> metrics[s].qty * price[s]]
    OBVIOUS
  <2>5. h = [s \in R |-> worth[s]]
    BY <2>3, <2>4
  <2>6. SumFunction(h) = SumFunctionOnSet(worth, R)
    BY <2>2, <2>3, <2>5, TotalIs
  <2>. QED
    BY <2>1, <2>4, <2>6 DEF Total
<1>12. SumFunctionOnSet(worth, S) = SumFunctionOnSet(worth, S \ U)
  <2>1. PICK R : R = S \ U
    OBVIOUS
  <2>2. R \in SUBSET S /\ U \in SUBSET S /\ R \cap U = {} /\ R \cup U = S
    BY <1>2, <2>1
  <2>3. IsFiniteSet(R) /\ IsFiniteSet(U)
    BY <1>3, <2>2, FS_Subset
  <2>4. \A s \in R \cup U : worth[s] \in Int
    BY <1>4, <2>2
  <2>5. SumFunctionOnSet(worth, R \cup U) = SumFunctionOnSet(worth, R) + SumFunctionOnSet(worth, U)
    BY <2>2, <2>3, <2>4, SumUnion
  <2>6. SumFunctionOnSet(worth, U) = 0
    <3>1. \A s \in U : worth[s] = 0
      BY <1>2
    <3>2. SumFunctionOnSet(worth, U) = 0 * Cardinality(U)
      BY <2>3, <3>1, SumConstant
    <3>3. Cardinality(U) \in Nat
      BY <2>3, FS_CardinalityType
    <3>. QED
      BY <3>2, <3>3
  <2>7. SumFunctionOnSet(worth, R) \in Int
    <3>1. \A s \in R : worth[s] \in Int
      BY <2>2, <2>4
    <3>. QED
      BY <2>3, <3>1, SumStep
  <2>8. PICK x, y : x = SumFunctionOnSet(worth, R) /\ y = SumFunctionOnSet(worth, U)
    OBVIOUS
  <2>9. x \in Int /\ y = 0 /\ SumFunctionOnSet(worth, S) = x + y
    BY <2>2, <2>5, <2>6, <2>7, <2>8
  <2>10. x + y = x
    BY <2>9
  <2>. QED
    BY <2>1, <2>8, <2>9, <2>10
<1>13. U # {} <=> \E h \in rows : prices[h.of] # <<>> /\ ~h.priced
  BY <1>2, <1>4, <1>5
<1>. QED
  BY <1>8, <1>10, <1>11, <1>12, <1>13 DEF AddUp

\* The rows of holdings_service.py and the totals of summary_service.py are computed apart,
\* the rates looked up in the database by the one and in a loaded range by the other; for
\* any trades, prices and rates they add up to the same value and miss the same prices.
THEOREM HoldingsSumToSummary ==
  Spec => []HoldingsAddUp
<1>1. VInv => HoldingsAddUp
  BY AddUpStep
<1>. QED
  BY <1>1, ValueInvariant, PTL

-----------------------------------------------------------------------------
(* A range of the series.                                                  *)

\* Of the days with a rate, the latest one is the same among those from a day on, if there
\* is one.
LEMMA SameNearest ==
  ASSUME NEW R \in SUBSET Days, NEW i \in Int, NEW F, F = {e \in R : i <= e},
         NEW d \in Days, i <= d, NEW same
  PROVE  Nearest(F, same, d).day # 0 => Nearest(R, same, d) = Nearest(F, same, d)
<1>1. Days \subseteq Nat
  BY FxAssumption DEF FxAssumption, Days
<1>2. d \in F <=> d \in R
  OBVIOUS
<1>3. CASE F = {}
  BY <1>2, <1>3 DEF Nearest
<1>4. CASE F # {}
  <2>1. F \in SUBSET Days /\ R # {}
    BY <1>4
  <2>2. Max(F) \in F /\ \A e \in F : e <= Max(F)
    BY <1>4, <2>1, FirstAndLast
  <2>3. Max(R) \in R /\ \A e \in R : e <= Max(R)
    BY <2>1, FirstAndLast
  <2>4. PICK m, n : m = Max(F) /\ n = Max(R)
    OBVIOUS
  <2>5. m \in Int /\ n \in Int /\ i <= m /\ m <= n
    <3>1. m \in F /\ n \in R /\ m \in R
      BY <2>2, <2>3, <2>4
    <3>2. m \in Days /\ n \in Days /\ i <= m /\ m <= n
      BY <2>3, <2>4, <3>1
    <3>. QED
      BY <1>1, <3>2
  <2>6. i <= n
    BY <2>5
  <2>7. n \in F /\ n <= m
    BY <2>2, <2>3, <2>4, <2>6
  <2>8. m = n
    BY <2>5, <2>7
  <2>. QED
    BY <1>2, <1>4, <2>1, <2>4, <2>8 DEF Nearest
<1>. QED
  BY <1>3, <1>4

\* A range looks further back for a rate than the whole history does on its first days, and
\* finds the same rate when the whole history finds one.
LEMMA LookupWider ==
  ASSUME VInv, NEW from, NEW to, NEW i \in Int, NEW e \in Int, NEW d \in Days, i <= e, e <= d,
         NEW full, full = Lookup(rates, from, to, d, i)
  PROVE  full.day # 0 => Lookup(rates, from, to, d, e - FillDays) = full
<1>1. FillDays \in Nat /\ d \in Int
  BY FxAssumption, ValueShape DEF FxAssumption
<1>2. PICK k : k = FillDays
  OBVIOUS
<1>3. PICK a, b : a = Larger(i, d - k) /\ b = Larger(e - k, d - k)
  OBVIOUS
<1>4. k \in Nat
  BY <1>1, <1>2
<1>5. b = d - k /\ a \in Int /\ b \in Int /\ b <= a /\ a <= d
  BY <1>1, <1>3, <1>4 DEF Larger
<1>6. PICK R, F : R = RateDays(rates, from, to, b, d) /\ F = RateDays(rates, from, to, a, d)
  OBVIOUS
<1>7. R = {x \in Days : b <= x /\ x <= d /\ (<<from, to, x>> \in rates \/ <<to, from, x>> \in rates)}
  BY <1>1, <1>5, <1>6, RateDaysIs
<1>8. F = {x \in Days : a <= x /\ x <= d /\ (<<from, to, x>> \in rates \/ <<to, from, x>> \in rates)}
  BY <1>1, <1>5, <1>6, RateDaysIs
<1>9. \A x \in Days : a <= x => b <= x
  <2>1. \A x \in Days : x \in Int
    BY ValueShape
  <2>. QED
    BY <1>5, <2>1
<1>10. F = {x \in R : a <= x} /\ R \in SUBSET Days
  BY <1>7, <1>8, <1>9
<1>11. Nearest(F, from = to, d).day # 0 => Nearest(R, from = to, d) = Nearest(F, from = to, d)
  BY <1>5, <1>10, SameNearest
<1>12. full = Nearest(F, from = to, d)
  BY <1>2, <1>3, <1>6 DEF Lookup
<1>13. Lookup(rates, from, to, d, e - FillDays) = Nearest(R, from = to, d)
  BY <1>2, <1>3, <1>6 DEF Lookup
<1>. QED
  BY <1>11, <1>12, <1>13

\* The closes a series may use are numbers.
LEMMA LoadedIs ==
  ASSUME VInv, NEW s \in Symbols, NEW D \in SUBSET DOMAIN prices[s]
  PROVE  LoadedClose(s, D) \in Nat
<1>1. D \in SUBSET Days /\ \A d \in D : prices[s][d] \in Nat
  BY ValueShape
<1>2. D # {} => Max(D) \in D
  BY <1>1, FirstAndLast
<1>. QED
  BY <1>1, <1>2 DEF LoadedClose

\* With a close between the first trade of the portfolio and a day of a range, the range
\* has the same close for that day as the whole history.
LEMMA SameClose ==
  ASSUME VInv, NEW s \in Symbols, NEW ts, NEW emit \in Days, NEW d \in Days, emit <= d,
         Inception(ts) \in Days, Inception(ts) <= emit,
         NEW e \in DOMAIN prices[s], Inception(ts) <= e, e <= d
  PROVE  LoadedClose(s, {x \in LoadedDays(s, ts, emit) : x <= d})
           = LoadedClose(s, {x \in LoadedDays(s, ts, 0) : x <= d})
<1>1. PICK i, k, C : i = Inception(ts) /\ k = FillDays /\ C = DOMAIN prices[s]
  OBVIOUS
<1>2. Days \subseteq Nat /\ 0 \notin Days /\ k \in Nat /\ C \in SUBSET Days /\ e \in C
  BY <1>1, FxAssumption, ValueShape DEF FxAssumption, Days
<1>3. i \in Int /\ emit \in Int /\ d \in Int /\ e \in Int /\ i <= emit /\ emit <= d /\ i <= e /\ e <= d
      /\ emit # 0
  BY <1>1, <1>2
<1>4. \A x \in C : x \in Int
  BY <1>2
<1>5. PICK B, W, R, F : /\ B = {x \in C : x <= emit} /\ W = {x \in C : x <= d}
                        /\ R = {x \in LoadedDays(s, ts, emit) : x <= d}
                        /\ F = {x \in LoadedDays(s, ts, 0) : x <= d}
  OBVIOUS
<1>6. F = {x \in C : i <= x /\ x <= d}
  BY <1>1, <1>5 DEF LoadedDays, LoadStart
<1>7. R = {x \in C : emit - k <= x /\ x <= d} \cup {x \in (IF B = {} THEN {} ELSE {Max(B)}) : x <= d}
  BY <1>1, <1>3, <1>5 DEF LoadedDays, LoadStart, FirstDay
<1>8. PICK m : m = Max(W)
  OBVIOUS
<1>9. m \in W /\ \A x \in W : x <= m
  <2>1. W \in SUBSET Days /\ W # {}
    BY <1>2, <1>3, <1>5
  <2>. QED
    BY <1>8, <2>1, FirstAndLast
<1>10. m \in C /\ m \in Int /\ m <= d /\ e <= m /\ i <= m
  <2>1. m \in C /\ m \in Int /\ m <= d /\ e <= m
    BY <1>2, <1>3, <1>4, <1>5, <1>9
  <2>. QED
    BY <1>3, <2>1
<1>11. B # {} => Max(B) \in B /\ \A x \in B : x <= Max(B)
  <2>1. B \in SUBSET Days
    BY <1>2, <1>5
  <2>. QED
    BY <2>1, FirstAndLast
<1>12. R \subseteq W /\ F \subseteq W
  <2>1. B \subseteq C
    BY <1>5
  <2>. QED
    BY <1>5, <1>6, <1>7, <1>11, <2>1
<1>13. m \in F
  BY <1>6, <1>10
<1>14. m \in R
  <2>1. CASE emit <= m
    <3>1. emit - k <= m
      BY <1>2, <1>3, <1>10, <2>1
    <3>. QED
      BY <1>7, <1>10, <3>1
  <2>2. CASE ~(emit <= m)
    <3>1. m <= emit /\ m \in B
      BY <1>3, <1>5, <1>10, <2>2
    <3>2. PICK n : n = Max(B)
      OBVIOUS
    <3>3. n \in B /\ m <= n
      BY <1>11, <3>1, <3>2
    <3>4. n \in C /\ n \in Int /\ n <= emit
      BY <1>4, <1>5, <3>3
    <3>5. n <= d
      BY <1>3, <3>4
    <3>6. n <= m
      BY <1>5, <1>9, <3>4, <3>5
    <3>7. n = m
      BY <1>10, <3>3, <3>4, <3>6
    <3>. QED
      BY <1>7, <1>10, <3>1, <3>2, <3>7
  <2>. QED
    BY <2>1, <2>2
<1>15. \A D \in SUBSET W : m \in D => Max(D) = m
  <2>1. SUFFICES ASSUME NEW D \in SUBSET W, m \in D
                 PROVE  Max(D) = m
    OBVIOUS
  <2>2. D \in SUBSET Days /\ D # {}
    BY <1>2, <1>5, <2>1
  <2>3. Max(D) \in D /\ m <= Max(D)
    BY <2>1, <2>2, FirstAndLast
  <2>4. PICK n : n = Max(D)
    OBVIOUS
  <2>5. n \in Int /\ n <= m /\ m <= n
    <3>1. n \in D /\ n \in Days /\ m <= n
      BY <2>2, <2>3, <2>4
    <3>2. n \in W
      BY <2>1, <3>1
    <3>. QED
      BY <1>2, <1>9, <3>1, <3>2
  <2>. QED
    BY <1>10, <2>4, <2>5
<1>16. Max(R) = m /\ Max(F) = m
  BY <1>12, <1>13, <1>14, <1>15
<1>17. LoadedClose(s, R) = LoadedClose(s, F)
  BY <1>13, <1>14, <1>16 DEF LoadedClose
<1>. QED
  BY <1>5, <1>17

\* The first day of some trades.
LEMMA InceptionIs ==
  ASSUME NEW ts, InOrder(ts), ts # <<>>
  PROVE  /\ Inception(ts) \in Days /\ \A t \in Range(ts) : Inception(ts) <= t.day
         /\ \E t \in Range(ts) : Inception(ts) = t.day
<1>1. PICK D : D = {t.day : t \in Range(ts)}
  OBVIOUS
<1>2. Range(ts) # {} /\ Range(ts) \subseteq Trades
  BY InOrderIs
<1>3. D \in SUBSET Days /\ D # {}
  BY <1>1, <1>2, TradeIs
<1>4. Min(D) \in D /\ \A d \in D : Min(D) <= d
  BY <1>3, FirstAndLast
<1>5. Inception(ts) = Min(D)
  BY <1>1 DEF Inception, TradeDays
<1>. QED
  BY <1>1, <1>3, <1>4, <1>5

\* The timeline the series has for a holding.
SeriesOf(ts, s) ==
  IF s \in Range(Funds) THEN FundSnapshots(OfSymbol(ts, s)) ELSE Snapshots(OfSymbol(ts, s))

\* What the series has for a holding on a day: nothing before the first of its trades.
LEMMA SeriesHolds ==
  ASSUME VInv, NEW ps, NEW ts, ts = TradesIn(ps), NEW s \in SymbolsOf(ts), NEW d \in Int,
         NEW h, h = Held(SeriesOf(ts, s), d)
  PROVE  /\ h.qty \in Nat /\ h.invested \in Nat
         /\ d < Inception(OfSymbol(ts, s)) => h = [qty |-> 0, invested |-> 0]
<1>1. PICK own, a : own = OfSymbol(ts, s) /\ a = Adjusted(own)
  OBVIOUS
<1>2. InOrder(own) /\ own # <<>> /\ \A t \in Range(own) : t \in Trades /\ t.sym = s
  BY <1>1, HoldingTrades
<1>3. PICK m, w : /\ WalkedThrough(m, w, a) /\ Snapshots(own) = w.days
                  /\ (\A t \in Range(own) : ~IsSplit(t)) => FundSnapshots(own) = w.days
  BY <1>1, <1>2, HoldingIs
<1>4. s \in Range(Funds) => \A t \in Range(own) : ~IsSplit(t)
  BY <1>2, TradeIs DEF IsSplit
<1>5. SeriesOf(ts, s) = w.days
  BY <1>1, <1>3, <1>4 DEF SeriesOf
<1>6. PICK tl : tl = w.days
  OBVIOUS
<1>7. /\ DOMAIN tl = {a[j].day : j \in DOMAIN a}
      /\ \A x \in DOMAIN tl : tl[x].qty \in Nat /\ tl[x].invested \in Nat
  BY <1>3, <1>6 DEF WalkedThrough
<1>8. \A j \in DOMAIN a : \E t \in Range(own) : a[j].day = t.day
  BY <1>1, <1>2, AdjustedIs
<1>9. \A x \in DOMAIN tl : x \in Days /\ Inception(own) <= x
  <2>1. \A t \in Range(own) : t.day \in Days /\ Inception(own) <= t.day
    BY <1>2, InceptionIs, TradeIs
  <2>. QED
    BY <1>7, <1>8, <2>1
<1>10. DOMAIN tl \subseteq Days
  BY <1>9
<1>11. Inception(own) \in Int /\ \A x \in Days : x \in Int
  BY <1>2, InceptionIs, ValueShape
<1>12. ASSUME d < Inception(own)
       PROVE  Held(tl, d) = [qty |-> 0, invested |-> 0]
  <2>1. \A x \in DOMAIN tl : d < x
    BY <1>9, <1>11, <1>12
  <2>. QED
    BY <1>10, <2>1, HeldIs
<1>13. Held(tl, d).qty \in Nat /\ Held(tl, d).invested \in Nat
  <2>1. CASE \E x \in DOMAIN tl : x <= d
    BY <1>7, <1>10, <2>1, HeldIs
  <2>2. CASE ~\E x \in DOMAIN tl : x <= d
    BY <2>2 DEF Held
  <2>. QED
    BY <2>1, <2>2
<1>. QED
  BY <1>1, <1>5, <1>6, <1>12, <1>13

\* A day of the funds is the same with the closes and the rate of the range, when it is known.
LEMMA SameFundPoint ==
  ASSUME NEW held, IsFiniteSet(DOMAIN held), NEW base, NEW close, NEW wide, NEW found, NEW other,
         \A f \in DOMAIN held : held[f].qty \in Nat /\ close[f] \in Nat /\ wide[f] \in Nat
                               /\ (held[f].qty = 0 \/ close[f] = wide[f]),
         FundCurrency = base \/ found.status = "ok" => other = found,
         FundPoint(held, close, found, base).value # Missing
  PROVE  FundPoint(held, wide, other, base) = FundPoint(held, close, found, base)
<1>1. CASE DOMAIN held = {}
  BY <1>1 DEF FundPoint
<1>2. CASE DOMAIN held # {}
  <2>1. PICK invested : invested = Total(LAMBDA f : held[f].invested, DOMAIN held)
    OBVIOUS
  <2>2. ~FundToBase(invested, base, found).missing
    BY <1>2, <2>1 DEF FundPoint
  <2>3. other = found
    BY <2>2 DEF FundToBase
  <2>4. \A f \in DOMAIN held : held[f].qty * wide[f] = held[f].qty * close[f]
    <3>1. \A f \in DOMAIN held : held[f].qty = 0 => held[f].qty * wide[f] = 0 /\ held[f].qty * close[f] = 0
      OBVIOUS
    <3>. QED
      BY <3>1
  <2>5. [f \in DOMAIN held |-> held[f].qty * wide[f]] = [f \in DOMAIN held |-> held[f].qty * close[f]]
    BY <2>4
  <2>6. Total(LAMBDA f : held[f].qty * wide[f], DOMAIN held)
          = Total(LAMBDA f : held[f].qty * close[f], DOMAIN held)
    BY <2>5 DEF Total
  <2>. QED
    BY <2>3, <2>6 DEF FundPoint
<1>. QED
  BY <1>1, <1>2

\* A day of the series is the same when what counts in it is.
LEMMA SameDayPoint ==
  ASSUME NEW held, NEW base, NEW close, NEW wide, NEW found, NEW other, NEW funds, NEW fundsToo,
         \A s \in DOMAIN held : held[s].qty = 0 \/ close[s] = wide[s],
         \A s \in DOMAIN held : found[s].day # 0 => other[s] = found[s],
         funds.value # Missing => fundsToo = funds,
         DayPoint(held, close, found, base, funds).value # Missing
  PROVE  DayPoint(held, wide, other, base, fundsToo) = DayPoint(held, close, found, base, funds)
<1>1. PICK C : C = {s \in DOMAIN held : held[s].qty # 0 /\ close[s] # 0}
  OBVIOUS
<1>2. {s \in DOMAIN held : held[s].qty # 0 /\ wide[s] # 0} = C
  BY <1>1
<1>3. funds.value # Missing /\ \A s \in C : found[s].day # 0
  BY <1>1 DEF DayPoint
<1>4. fundsToo = funds /\ \A s \in C : other[s] = found[s] /\ wide[s] = close[s]
  BY <1>1, <1>3
<1>5. [s \in C |-> Converted(held[s].qty * wide[s], QuotedIn[s], base, other[s])]
        = [s \in C |-> Converted(held[s].qty * close[s], QuotedIn[s], base, found[s])]
  BY <1>4
<1>6. {other[s].status : s \in C} = {found[s].status : s \in C}
  BY <1>4
<1>7. \A s \in C : other[s].day # 0
  BY <1>3, <1>4
<1>8. PICK h : h = [s \in C |-> Converted(held[s].qty * close[s], QuotedIn[s], base, found[s])]
  OBVIOUS
<1>9. DayPoint(held, close, found, base, funds) =
        [value |-> SumFunction(h) + funds.value,
         invested |-> Total(LAMBDA s : held[s].invested, DOMAIN held) + funds.invested,
         status |-> Combined({found[s].status : s \in C})]
  BY <1>1, <1>3, <1>8 DEF DayPoint, Total
<1>10. DayPoint(held, wide, other, base, fundsToo) =
        [value |-> SumFunction(h) + funds.value,
         invested |-> Total(LAMBDA s : held[s].invested, DOMAIN held) + funds.invested,
         status |-> Combined({found[s].status : s \in C})]
  BY <1>2, <1>3, <1>4, <1>5, <1>6, <1>7, <1>8 DEF DayPoint, Total
<1>. QED
  BY <1>9, <1>10

\* The parts a point of the series is made of.
HeldIn(ts, S, d) == [s \in S |-> Held(SeriesOf(ts, s), d)]
SeriesRate(ts, emit, d, from) ==
  Lookup(rates, from, BaseCurrency(ts), d, LoadStart(emit, Inception(ts)))
FundsOn(ts, emit, d) ==
  FundPoint(HeldIn(ts, FundsIn(ts), d), ClosesOn(FundsIn(ts), ts, emit, d),
            SeriesRate(ts, emit, d, FundCurrency), BaseCurrency(ts))
RatesOn(ts, emit, d) == [s \in StocksIn(ts) |-> SeriesRate(ts, emit, d, QuotedIn[s])]
PointOn(ts, emit, d) ==
  DayPoint(HeldIn(ts, StocksIn(ts), d), ClosesOn(StocksIn(ts), ts, emit, d),
           RatesOn(ts, emit, d), BaseCurrency(ts), FundsOn(ts, emit, d))

\* The series, point by point.
LEMMA SeriesIs ==
  ASSUME NEW ts, InOrder(ts), ts # <<>>, NEW emit
  PROVE  /\ DOMAIN BaseSeries(ts, emit) = FirstDay(ts, emit)..today
         /\ \A d \in FirstDay(ts, emit)..today : BaseSeries(ts, emit)[d] = PointOn(ts, emit, d)
<1>1. PICK snaps : snaps = [s \in SymbolsOf(ts) |-> SeriesOf(ts, s)]
  OBVIOUS
<1>2. BaseSeries(ts, emit) = [d \in FirstDay(ts, emit)..today |->
                                SeriesPoint(ts, BaseCurrency(ts), snaps, emit, d)]
  BY <1>1 DEF BaseSeries, SeriesOf
<1>3. ASSUME NEW S, S \subseteq SymbolsOf(ts), NEW d
      PROVE  [s \in S |-> Held(snaps[s], d)] = HeldIn(ts, S, d)
  BY <1>1, <1>3 DEF HeldIn
<1>4. StocksIn(ts) \subseteq SymbolsOf(ts) /\ FundsIn(ts) \subseteq SymbolsOf(ts)
  BY DEF StocksIn, FundsIn
<1>5. ASSUME NEW d
      PROVE  SeriesPoint(ts, BaseCurrency(ts), snaps, emit, d) = PointOn(ts, emit, d)
  <2>1. [s \in StocksIn(ts) |-> Held(snaps[s], d)] = HeldIn(ts, StocksIn(ts), d)
    BY <1>3, <1>4
  <2>2. [s \in FundsIn(ts) |-> Held(snaps[s], d)] = HeldIn(ts, FundsIn(ts), d)
    BY <1>3, <1>4
  <2>. QED
    BY <2>1, <2>2 DEF SeriesPoint, PointOn, FundsOn, RatesOn, SeriesRate
<1>. QED
  BY <1>2, <1>5

\* The close known on a day.
LEMMA CloseIs ==
  ASSUME VInv, NEW S, NEW s \in S, s \in Symbols, NEW ts, NEW emit, NEW d,
         NEW close, close = ClosesOn(S, ts, emit, d)
  PROVE  /\ close[s] \in Nat
         /\ close[s] = LoadedClose(s, {x \in LoadedDays(s, ts, emit) : x <= d})
<1>1. PICK D : D = {x \in LoadedDays(s, ts, emit) : x <= d}
  OBVIOUS
<1>2. D \in SUBSET DOMAIN prices[s]
  <2>1. PICK B : B = {x \in DOMAIN prices[s] : x <= FirstDay(ts, emit)}
    OBVIOUS
  <2>2. B # {} => Max(B) \in B
    <3>1. B \in SUBSET Days
      BY <2>1, ValueShape
    <3>. QED
      BY <3>1, FirstAndLast
  <2>. QED
    BY <1>1, <2>1, <2>2 DEF LoadedDays
<1>3. LoadedClose(s, D) \in Nat
  BY <1>2, LoadedIs
<1>. QED
  BY <1>1, <1>3 DEF ClosesOn

\* A day of a range is the same as in the whole history, if it is known there.
LEMMA SamePoint ==
  ASSUME VInv, NEW ps, NEW ts, ts = TradesIn(ps), ts # <<>>, PricedThroughout(ts),
         NEW emit \in Days, Inception(ts) <= emit, NEW d \in Days, emit <= d,
         PointOn(ts, 0, d).value # Missing
  PROVE  PointOn(ts, emit, d) = PointOn(ts, 0, d)
<1>1. InOrder(ts) /\ (\A e \in Days : e \in Int) /\ 0 \notin Days /\ d \in Int /\ emit \in Int
  <2>1. InOrder(ts)
    BY HoldingTrades
  <2>2. \A e \in Days : e \in Int
    BY ValueShape
  <2>3. 0 \notin Days
    BY DEF Days
  <2>. QED
    BY <2>1, <2>2, <2>3
<1>2. Inception(ts) \in Days /\ Inception(ts) \in Int
  <2>1. Inception(ts) \in Days
    BY <1>1, InceptionIs
  <2>. QED
    BY <1>1, <2>1
<1>3. LoadStart(0, Inception(ts)) = Inception(ts) /\ LoadStart(emit, Inception(ts)) = emit - FillDays
  BY <1>1 DEF LoadStart
<1>4. StocksIn(ts) \subseteq SymbolsOf(ts) /\ FundsIn(ts) \subseteq SymbolsOf(ts)
  BY DEF StocksIn, FundsIn
<1>5. ASSUME NEW from
      PROVE  SeriesRate(ts, 0, d, from).day # 0 => SeriesRate(ts, emit, d, from) = SeriesRate(ts, 0, d, from)
  <2>1. PICK full : full = Lookup(rates, from, BaseCurrency(ts), d, Inception(ts))
    OBVIOUS
  <2>2. full.day # 0 => Lookup(rates, from, BaseCurrency(ts), d, emit - FillDays) = full
    BY <1>1, <1>2, <2>1, LookupWider
  <2>. QED
    BY <1>3, <2>1, <2>2 DEF SeriesRate
<1>6. ASSUME NEW S, S \subseteq SymbolsOf(ts), NEW held, held = HeldIn(ts, S, d),
             NEW close, close = ClosesOn(S, ts, 0, d), NEW wide, wide = ClosesOn(S, ts, emit, d)
      PROVE  /\ DOMAIN held = S /\ IsFiniteSet(S)
             /\ \A s \in S : /\ held[s].qty \in Nat /\ close[s] \in Nat /\ wide[s] \in Nat
                             /\ held[s].qty = 0 \/ close[s] = wide[s]
  <2>0. IsFiniteSet(S) /\ S \subseteq Symbols
    <3>1. IsFiniteSet(SymbolsOf(ts)) /\ SymbolsOf(ts) \subseteq Symbols
      BY <1>1, SymbolsFinite
    <3>. QED
      BY <1>6, <3>1, FS_Subset
  <2>1. /\ DOMAIN held = S /\ IsFiniteSet(S) /\ S \subseteq Symbols
        /\ \A s \in S : /\ held[s].qty \in Nat /\ close[s] \in Nat
                        /\ d < Inception(OfSymbol(ts, s)) => held[s].qty = 0
                        /\ close[s] = LoadedClose(s, {x \in LoadedDays(s, ts, 0) : x <= d})
    <3>1. ASSUME NEW s \in S
          PROVE  held[s].qty \in Nat /\ (d < Inception(OfSymbol(ts, s)) => held[s].qty = 0)
      <4>1. PICK h : h = Held(SeriesOf(ts, s), d)
        OBVIOUS
      <4>2. s \in SymbolsOf(ts)
        BY <1>6, <3>1
      <4>3. h.qty \in Nat /\ (d < Inception(OfSymbol(ts, s)) => h = [qty |-> 0, invested |-> 0])
        BY <1>1, <4>1, <4>2, SeriesHolds
      <4>. QED
        BY <1>6, <3>1, <4>1, <4>3 DEF HeldIn
    <3>2. ASSUME NEW s \in S
          PROVE  /\ close[s] \in Nat
                 /\ close[s] = LoadedClose(s, {x \in LoadedDays(s, ts, 0) : x <= d})
      BY <1>6, <2>0, <3>2, CloseIs
    <3>3. DOMAIN held = S
      BY <1>6 DEF HeldIn
    <3>. QED
      BY <2>0, <3>1, <3>2, <3>3
  <2>2. \A s \in S : /\ wide[s] \in Nat
                     /\ wide[s] = LoadedClose(s, {x \in LoadedDays(s, ts, emit) : x <= d})
    <3>1. ASSUME NEW s \in S
          PROVE  /\ wide[s] \in Nat
                 /\ wide[s] = LoadedClose(s, {x \in LoadedDays(s, ts, emit) : x <= d})
      BY <1>6, <2>0, <3>1, CloseIs
    <3>. QED
      BY <3>1
  <2>3. ASSUME NEW s \in S
        PROVE  held[s].qty = 0 \/ close[s] = wide[s]
    <3>1. PICK e \in DOMAIN prices[s] : Inception(ts) <= e /\ e <= Inception(OfSymbol(ts, s))
      BY <1>6, <2>3 DEF PricedThroughout
    <3>2. s \in Symbols /\ e \in Days /\ e \in Int
      <4>1. s \in Symbols
        BY <2>1, <2>3
      <4>2. DOMAIN prices[s] \in SUBSET Days
        BY <4>1, ValueShape
      <4>. QED
        BY <1>1, <3>1, <4>1, <4>2
    <3>3. CASE e <= d
      <4>1. LoadedClose(s, {x \in LoadedDays(s, ts, emit) : x <= d})
              = LoadedClose(s, {x \in LoadedDays(s, ts, 0) : x <= d})
        <5>1. s \in Symbols /\ Inception(ts) \in Days /\ Inception(ts) <= emit /\ Inception(ts) <= e
              /\ e <= d /\ emit <= d /\ e \in DOMAIN prices[s]
          BY <1>2, <3>1, <3>2, <3>3
        <5>. QED
          BY <5>1, SameClose
      <4>. QED
        BY <2>1, <2>2, <2>3, <4>1
    <3>4. CASE ~(e <= d)
      <4>1. Inception(OfSymbol(ts, s)) \in Int
        <5>1. InOrder(OfSymbol(ts, s)) /\ OfSymbol(ts, s) # <<>>
          BY <1>6, <2>3, HoldingTrades
        <5>2. Inception(OfSymbol(ts, s)) \in Days
          BY <5>1, InceptionIs
        <5>. QED
          BY <1>1, <5>2
      <4>2. d < Inception(OfSymbol(ts, s))
        BY <1>1, <3>1, <3>2, <3>4, <4>1
      <4>. QED
        BY <2>1, <4>2
    <3>. QED
      BY <3>3, <3>4
  <2>. QED
    BY <2>1, <2>2, <2>3
<1>7. FundsOn(ts, 0, d).value # Missing => FundsOn(ts, emit, d) = FundsOn(ts, 0, d)
  <2>1. PICK held, close, wide, found, other, base :
          /\ held = HeldIn(ts, FundsIn(ts), d) /\ close = ClosesOn(FundsIn(ts), ts, 0, d)
          /\ wide = ClosesOn(FundsIn(ts), ts, emit, d) /\ found = SeriesRate(ts, 0, d, FundCurrency)
          /\ other = SeriesRate(ts, emit, d, FundCurrency) /\ base = BaseCurrency(ts)
    OBVIOUS
  <2>2. /\ DOMAIN held = FundsIn(ts) /\ IsFiniteSet(FundsIn(ts))
        /\ \A s \in FundsIn(ts) : /\ held[s].qty \in Nat /\ close[s] \in Nat /\ wide[s] \in Nat
                                  /\ held[s].qty = 0 \/ close[s] = wide[s]
    BY <1>4, <1>6, <2>1
  <2>3. FundCurrency = base \/ found.status = "ok" => other = found
    <3>1. found = Lookup(rates, FundCurrency, base, d, Inception(ts))
      BY <1>3, <2>1 DEF SeriesRate
    <3>2. /\ found.day = 0 <=> found.status = "fx_unavailable"
          /\ FundCurrency = base => found.day = d
      BY <1>2, <3>1, LookupIs
    <3>3. found.day # 0 => other = found
      BY <1>5, <2>1
    <3>. QED
      BY <1>1, <3>2, <3>3
  <2>4. FundPoint(held, close, found, base).value # Missing
          => FundPoint(held, wide, other, base) = FundPoint(held, close, found, base)
    BY <2>2, <2>3, SameFundPoint
  <2>. QED
    BY <2>1, <2>4 DEF FundsOn
<1>8. PICK held, close, wide, found, other, base, funds, fundsToo :
        /\ held = HeldIn(ts, StocksIn(ts), d) /\ close = ClosesOn(StocksIn(ts), ts, 0, d)
        /\ wide = ClosesOn(StocksIn(ts), ts, emit, d) /\ found = RatesOn(ts, 0, d)
        /\ other = RatesOn(ts, emit, d) /\ base = BaseCurrency(ts)
        /\ funds = FundsOn(ts, 0, d) /\ fundsToo = FundsOn(ts, emit, d)
  OBVIOUS
<1>9. DOMAIN held = StocksIn(ts) /\ \A s \in StocksIn(ts) : held[s].qty = 0 \/ close[s] = wide[s]
  BY <1>4, <1>6, <1>8
<1>10. \A s \in DOMAIN held : found[s].day # 0 => other[s] = found[s]
  BY <1>5, <1>8, <1>9 DEF RatesOn
<1>11. DayPoint(held, close, found, base, funds).value # Missing
  BY <1>8 DEF PointOn
<1>12. funds.value # Missing => fundsToo = funds
  BY <1>7, <1>8
<1>13. DayPoint(held, wide, other, base, fundsToo) = DayPoint(held, close, found, base, funds)
  BY <1>9, <1>10, <1>11, <1>12, SameDayPoint
<1>. QED
  BY <1>8, <1>13 DEF PointOn

\* In every state, the range of a portfolio is a slice of its whole history.
LEMMA SliceStep ==
  ASSUME VInv
  PROVE  RangeIsSlice
<1>1. SUFFICES ASSUME NEW p \in Portfolios, NEW ts, ts = TradesIn({p}), ts # <<>>, PricedThroughout(ts),
                      NEW emit \in Inception(ts)..today
               PROVE  SameDays(BaseSeries(ts, emit), BaseSeries(ts, 0))
  BY DEF RangeIsSlice
<1>2. InOrder(ts) /\ today \in Days /\ (\A e \in Days : e \in Int) /\ 0 \notin Days
  <2>1. InOrder(ts)
    BY <1>1, HoldingTrades
  <2>2. today \in Days /\ \A e \in Days : e \in Int
    BY ValueShape
  <2>3. 0 \notin Days
    BY DEF Days
  <2>. QED
    BY <2>1, <2>2, <2>3
<1>3. Inception(ts) \in Days
  BY <1>1, <1>2, InceptionIs
<1>4. \A d \in Inception(ts)..today : d \in Days /\ d \in Int
  <2>1. PICK i, l : i = Inception(ts) /\ l = LastDay
    OBVIOUS
  <2>2. i \in 1..l /\ today \in 1..l /\ l \in Nat
    BY <1>2, <1>3, <2>1, FxAssumption DEF Days, FxAssumption
  <2>3. \A d \in i..today : d \in 1..l /\ d \in Int
    BY <2>2
  <2>. QED
    BY <2>1, <2>3 DEF Days
<1>5. emit \in Days /\ Inception(ts) <= emit /\ emit <= today /\ emit # 0 /\ emit \in Int
      /\ Inception(ts) \in Int /\ today \in Int
  <2>1. Inception(ts) \in Int /\ today \in Int
    BY <1>2, <1>3
  <2>2. emit \in Days /\ emit \in Int
    BY <1>1, <1>4
  <2>. QED
    BY <1>1, <1>2, <2>1, <2>2
<1>6. FirstDay(ts, emit) = emit /\ FirstDay(ts, 0) = Inception(ts)
  BY <1>5 DEF FirstDay
<1>7. ASSUME NEW d \in DOMAIN BaseSeries(ts, emit), BaseSeries(ts, 0)[d].value # Missing
      PROVE  BaseSeries(ts, emit)[d] = BaseSeries(ts, 0)[d]
  <2>1. d \in emit..today
    BY <1>1, <1>2, <1>6, <1>7, SeriesIs
  <2>2. d \in Inception(ts)..today /\ emit <= d
    BY <1>5, <2>1
  <2>3. BaseSeries(ts, emit)[d] = PointOn(ts, emit, d)
    BY <1>1, <1>2, <1>6, <2>1, SeriesIs
  <2>4. BaseSeries(ts, 0)[d] = PointOn(ts, 0, d)
    BY <1>1, <1>2, <1>6, <2>2, SeriesIs
  <2>5. d \in Days
    BY <1>4, <2>2
  <2>6. PointOn(ts, 0, d).value # Missing
    BY <1>7, <2>4
  <2>7. PointOn(ts, emit, d) = PointOn(ts, 0, d)
    BY <1>1, <1>5, <2>2, <2>5, <2>6, SamePoint
  <2>. QED
    BY <2>3, <2>4, <2>7
<1>. QED
  BY <1>7 DEF SameDays

\* _build_portfolio_value_timeseries, for any trades, prices and rates: a range has the
\* values of the whole history on its days, although it loads less.
THEOREM RangeHolds ==
  Spec => []RangeIsSlice
<1>1. VInv => RangeIsSlice
  BY SliceStep
<1>. QED
  BY <1>1, ValueInvariant, PTL

-----------------------------------------------------------------------------
(* Unknown days.                                                           *)

\* A series that does not know the value of some of its days.
Unsure(series, days) ==
  days \subseteq DOMAIN series /\ \A d \in days : series[d].value = Missing

\* A series with unknown days is not empty.
LEMMA UnsureIsThere ==
  ASSUME NEW series, NEW days, days # {}, Unsure(series, days)
  PROVE  series # <<>>
BY DEF Unsure

\* Cash leaves an unknown day unknown.
LEMMA CashKeepsUnknown ==
  ASSUME NEW series, NEW days, days # {}, Unsure(series, days), NEW cash
  PROVE  /\ Unsure(WithCash(series, cash), days)
         /\ DOMAIN WithCash(series, cash) = DOMAIN series
<1>1. series # <<>>
  BY DEF Unsure
<1>2. CASE cash = <<>>
  BY <1>2 DEF WithCash
<1>3. CASE cash # <<>>
  <2>1. PICK w : w = WithCash(series, cash)
    OBVIOUS
  <2>2. DOMAIN w = DOMAIN series
    BY <1>1, <1>3, <2>1 DEF WithCash
  <2>3. ASSUME NEW d \in days
        PROVE  w[d].value = Missing
    <3>1. d \in DOMAIN series /\ series[d].value = Missing
      BY DEF Unsure
    <3>2. \E v, x, y : w[d] = [series[d] EXCEPT !.value = v, !.status = x]
                       /\ v = IF series[d].value = Missing THEN Missing ELSE y
      BY <1>1, <1>3, <2>1, <3>1 DEF WithCash
    <3>. QED
      BY <3>1, <3>2
  <2>. QED
    BY <2>1, <2>2, <2>3 DEF Unsure
<1>. QED
  BY <1>2, <1>3

\* Deposits and accounts leave an unknown day unknown.
LEMMA DebtKeepsUnknown ==
  ASSUME NEW series, NEW days, days # {}, Unsure(series, days),
         NEW deposits, NEW bank, NEW from, NEW to, \A d \in days : d \in from..to
  PROVE  /\ Unsure(WithDebt(series, deposits, bank, from, to), days)
         /\ \/ WithDebt(series, deposits, bank, from, to) = series
            \/ DOMAIN WithDebt(series, deposits, bank, from, to)
                 = (DOMAIN series \cup DOMAIN deposits \cup DOMAIN bank) \cap from..to
<1>1. series # <<>>
  BY DEF Unsure
<1>2. CASE deposits = <<>> /\ bank = <<>>
  BY <1>2 DEF WithDebt
<1>3. CASE ~(deposits = <<>> /\ bank = <<>>)
  <2>1. PICK w : w = WithDebt(series, deposits, bank, from, to)
    OBVIOUS
  <2>2. DOMAIN w = (DOMAIN series \cup DOMAIN deposits \cup DOMAIN bank) \cap from..to
    BY <1>1, <1>3, <2>1 DEF WithDebt
  <2>3. ASSUME NEW d \in days
        PROVE  d \in DOMAIN w /\ w[d].value = Missing
    <3>1. d \in DOMAIN series /\ series[d].value = Missing /\ d \in DOMAIN w
      BY <2>2 DEF Unsure
    <3>2. \E v, x, y : w[d] = [series[d] EXCEPT !.value = v, !.status = x]
                       /\ v = IF series[d].value = Missing THEN Missing ELSE y
      BY <1>1, <1>3, <2>1, <2>2, <3>1 DEF WithDebt
    <3>. QED
      BY <3>1, <3>2
  <2>. QED
    BY <2>1, <2>2, <2>3 DEF Unsure
<1>. QED
  BY <1>2, <1>3

\* So does fixed income.
LEMMA IncomeKeepsUnknown ==
  ASSUME NEW series, NEW days, days # {}, Unsure(series, days), NEW income, NEW emit
  PROVE  Unsure(WithIncome(series, income, emit), days)
<1>1. series # <<>>
  BY DEF Unsure
<1>2. CASE income.on = <<>>
  BY <1>2 DEF WithIncome
<1>3. CASE income.on # <<>>
  <2>1. PICK w : w = WithIncome(series, income, emit)
    OBVIOUS
  <2>2. DOMAIN w = DOMAIN series
    BY <1>1, <1>3, <2>1 DEF WithIncome
  <2>3. ASSUME NEW d \in days
        PROVE  w[d].value = Missing
    <3>1. d \in DOMAIN series /\ series[d].value = Missing
      BY DEF Unsure
    <3>2. \E v, y : w[d] = [series[d] EXCEPT !.value = v]
                    /\ v = IF series[d].value = Missing THEN Missing ELSE y
      BY <1>1, <1>3, <2>1, <3>1 DEF WithIncome
    <3>. QED
      BY <3>1, <3>2
  <2>. QED
    BY <2>1, <2>2, <2>3 DEF Unsure
<1>. QED
  BY <1>2, <1>3

\* So does another currency.
LEMMA DisplayKeepsUnknown ==
  ASSUME NEW series, NEW days, Unsure(series, days), NEW base, NEW emit
  PROVE  /\ Unsure(InDisplay(series, base, emit), days)
         /\ DOMAIN InDisplay(series, base, emit) = DOMAIN series
<1>1. PICK w : w = InDisplay(series, base, emit)
  OBVIOUS
<1>2. DOMAIN w = DOMAIN series
  BY <1>1 DEF InDisplay
<1>3. ASSUME NEW d \in days
      PROVE  w[d].value = Missing
  <2>1. d \in DOMAIN series /\ series[d].value = Missing
    BY DEF Unsure
  <2>2. \E v, y : w[d] = [series[d] EXCEPT !.value = v]
                  /\ v = IF series[d].value = Missing THEN Missing ELSE y
    BY <1>1, <2>1 DEF InDisplay
  <2>. QED
    BY <2>1, <2>2
<1>. QED
  BY <1>1, <1>2, <1>3 DEF Unsure

-----------------------------------------------------------------------------
(* Where the history of a scope begins.                                    *)

\* The days deposits and accounts begin on.
LEMMA DebtStartIs ==
  ASSUME today \in Days, NEW ps, NEW all
  PROVE  DebtStart(ps, all) \in SUBSET Days /\ \A d \in DebtStart(ps, all) : d <= today
<1>1. PICK D : D = {fd.from : fd \in OnRecord(ps)}
                   \cup {r.day : r \in UNION {RowsOf(a) : a \in Includable(ps, all)}}
  OBVIOUS
<1>2. \A fd \in OnRecord(ps) : fd.from \in Days /\ fd.from <= today
  BY WealthAssumption DEF WealthAssumption, OnRecord
<1>3. \A a \in Includable(ps, all) : \A r \in RowsOf(a) : r.day \in Days /\ r.day <= today
  BY WealthAssumption DEF WealthAssumption, Includable, RowsOf
<1>4. D \in SUBSET Days /\ \A d \in D : d <= today
  BY <1>1, <1>2, <1>3
<1>5. D # {} => Min(D) \in D
  BY <1>4, FirstAndLast
<1>6. DebtStart(ps, all) = IF D = {} THEN {} ELSE {Min(D)}
  BY <1>1 DEF DebtStart
<1>. QED
  BY <1>4, <1>5, <1>6

\* A scope with trades begins with the first of them, its first deposit or its first account.
LEMMA ScopeStartIs ==
  ASSUME VInv, NEW ps, NEW all, TradesIn(ps) # <<>>
  PROVE  ScopeStart(ps, all) \in Days /\ ScopeStart(ps, all) <= today
<1>1. today \in Days
  BY ValueShape
<1>2. PICK D : D = DebtStart(ps, all) \cup {Inception(TradesIn(ps))}
  OBVIOUS
<1>3. Inception(TradesIn(ps)) \in Days /\ Inception(TradesIn(ps)) <= today
  <2>1. InOrder(TradesIn(ps)) /\ \A t \in Range(TradesIn(ps)) : t.day <= today
    BY HoldingTrades
  <2>2. PICK t \in Range(TradesIn(ps)) : Inception(TradesIn(ps)) = t.day
    BY <2>1, InceptionIs
  <2>3. Inception(TradesIn(ps)) \in Days
    BY <2>1, InceptionIs
  <2>. QED
    BY <2>1, <2>2, <2>3
<1>4. DebtStart(ps, all) \in SUBSET Days /\ \A d \in DebtStart(ps, all) : d <= today
  BY <1>1, DebtStartIs
<1>5. D \in SUBSET Days /\ D # {} /\ \A d \in D : d <= today
  BY <1>2, <1>3, <1>4
<1>6. Min(D) \in D
  BY <1>5, FirstAndLast
<1>7. ScopeStart(ps, all) = Min(D)
  BY <1>2 DEF ScopeStart
<1>. QED
  BY <1>5, <1>6, <1>7

\* The day a range of a portfolio with trades begins on.
LEMMA RangeStartIs ==
  ASSUME VInv, NEW ps, NEW all, TradesIn(ps) # <<>>, NEW back \in Ranges,
         NEW start, start = RangeStart(back, ScopeStart(ps, all))
  PROVE  start \in Days /\ start <= today
<1>1. PICK i : i = ScopeStart(ps, all)
  OBVIOUS
<1>2. i \in Days /\ i <= today
  BY <1>1, ScopeStartIs
<1>3. back \in Nat
  BY PortfolioAssumption DEF PortfolioAssumption
<1>4. PICK l : l = LastDay
  OBVIOUS
<1>5. l \in Nat /\ i \in 1..l /\ today \in 1..l
  <2>1. today \in Days
    BY ValueShape
  <2>. QED
    BY <1>2, <1>4, <2>1, FxAssumption DEF FxAssumption, Days
<1>6. start = IF back = 0 THEN i ELSE Larger(i, today - back)
  BY <1>1 DEF RangeStart
<1>7. start \in 1..l /\ start <= today
  BY <1>2, <1>3, <1>5, <1>6 DEF Larger
<1>. QED
  BY <1>4, <1>7 DEF Days

\* The unknown days of what a range of one portfolio is shown from.
Shown(p, back, ts, start, emit, base, days) ==
  /\ ts = TradesIn({p})
  /\ start = RangeStart(back, ScopeStart({p}, FALSE))
  /\ emit = (IF back = 0 THEN 0 ELSE start)
  /\ base = BaseSeries(ts, emit)
  /\ days = UnknownDays(base) \ {today}

\* The days a series does not know lie in the past and inside the series.
LEMMA SeriesDays ==
  ASSUME VInv, NEW p, NEW back \in Ranges, NEW ts, NEW start, NEW emit, NEW base, NEW days,
         Shown(p, back, ts, start, emit, base, days), days # {}
  PROVE  /\ ts # <<>> /\ Unsure(base, days) /\ today \notin days /\ days \subseteq Days
         /\ \E i \in Days : DOMAIN base = i..today /\ i <= today
<1>0. /\ ts = TradesIn({p}) /\ start = RangeStart(back, ScopeStart({p}, FALSE))
      /\ emit = (IF back = 0 THEN 0 ELSE start) /\ base = BaseSeries(ts, emit)
      /\ days = UnknownDays(base) \ {today}
  BY DEF Shown
<1>1. ts # <<>>
  <2>1. SUFFICES ASSUME ts = <<>> PROVE FALSE
    OBVIOUS
  <2>2. base = <<>>
    BY <1>0, <2>1 DEF BaseSeries
  <2>3. DOMAIN <<>> = {}
    OBVIOUS
  <2>. QED
    BY <1>0, <2>2, <2>3 DEF UnknownDays
<1>2. Unsure(base, days) /\ today \notin days
  BY <1>0 DEF Unsure, UnknownDays
<1>3. InOrder(ts)
  BY <1>0, HoldingTrades
<1>4. start \in Days /\ start <= today
  BY <1>0, <1>1, RangeStartIs
<1>5. PICK i : i = FirstDay(ts, emit)
  OBVIOUS
<1>6. DOMAIN base = i..today
  BY <1>0, <1>1, <1>3, <1>5, SeriesIs
<1>7. i \in Days /\ today \in Days /\ i <= today
  <2>1. today \in Days
    BY ValueShape
  <2>2. Inception(ts) \in Days /\ Inception(ts) <= today
    <3>1. \A t \in Range(ts) : t.day <= today
      BY <1>0, HoldingTrades
    <3>2. PICK t \in Range(ts) : Inception(ts) = t.day
      BY <1>1, <1>3, InceptionIs
    <3>3. Inception(ts) \in Days
      BY <1>1, <1>3, InceptionIs
    <3>. QED
      BY <3>1, <3>2, <3>3
  <2>3. 0 \notin Days
    BY DEF Days
  <2>. QED
    BY <1>0, <1>4, <1>5, <2>1, <2>2, <2>3 DEF FirstDay
<1>8. days \subseteq Days
  <2>1. PICK l : l = LastDay
    OBVIOUS
  <2>2. l \in Nat /\ i \in 1..l /\ today \in 1..l
    BY <1>7, <2>1, FxAssumption DEF FxAssumption, Days
  <2>3. \A d \in i..today : d \in 1..l
    BY <2>2
  <2>. QED
    BY <1>2, <1>6, <2>1, <2>3 DEF Unsure, Days
<1>. QED
  BY <1>1, <1>2, <1>6, <1>7, <1>8

\* The days of an unknown series are shown as unknown in the value metric.
LEMMA ValueKeepsUnknown ==
  ASSUME VInv, NEW p, NEW back \in Ranges, NEW ts, NEW start, NEW emit, NEW base, NEW days,
         Shown(p, back, ts, start, emit, base, days), days # {}
  PROVE  Unshown(ValueMetric({p}, FALSE, back), days)
<1>0. /\ ts = TradesIn({p}) /\ start = RangeStart(back, ScopeStart({p}, FALSE))
      /\ emit = (IF back = 0 THEN 0 ELSE start) /\ base = BaseSeries(ts, emit)
      /\ days = UnknownDays(base) \ {today}
  BY DEF Shown
<1>1. PICK i \in Days : DOMAIN base = i..today /\ i <= today
  BY SeriesDays
<1>2. ts # <<>> /\ Unsure(base, days) /\ today \notin days /\ days \subseteq Days
  BY SeriesDays
<1>3. i \in Int /\ today \in Int /\ today \in Days
  BY <1>1, ValueShape
<1>4. PICK parts : \E cash : parts = WithCash(base, cash)
                             /\ ValueParts({p}, FALSE, emit)
                                  = WithBoth(parts, {p}, FALSE, Min(DOMAIN parts), Max(DOMAIN parts))
  <2>1. Investments(ts, {p}, FALSE, emit) = base
    BY <1>0, <1>2 DEF Investments
  <2>2. base # <<>>
    BY <1>2, UnsureIsThere
  <2>. QED
    BY <1>0, <2>1, <2>2 DEF ValueParts, WithCashAndDebt
<1>5. DOMAIN parts = i..today /\ Unsure(parts, days)
  <2>1. PICK cash : parts = WithCash(base, cash)
    BY <1>4
  <2>2. Unsure(WithCash(base, cash), days) /\ DOMAIN WithCash(base, cash) = DOMAIN base
    BY <1>2, CashKeepsUnknown
  <2>. QED
    BY <1>1, <2>1, <2>2
<1>6. DOMAIN parts \in SUBSET Days /\ DOMAIN parts # {}
  <2>1. PICK l : l = LastDay
    OBVIOUS
  <2>2. l \in Nat /\ i \in 1..l /\ today \in 1..l
    BY <1>1, <1>3, <2>1, FxAssumption DEF FxAssumption, Days
  <2>3. i..today \subseteq 1..l /\ i \in i..today
    BY <1>1, <2>2
  <2>. QED
    BY <1>5, <2>1, <2>3 DEF Days
<1>7. Min(DOMAIN parts) = i /\ Max(DOMAIN parts) = today
  <2>1. PICK m, n : m = Min(DOMAIN parts) /\ n = Max(DOMAIN parts)
    OBVIOUS
  <2>2. m \in i..today /\ n \in i..today /\ \A d \in i..today : m <= d /\ d <= n
    BY <1>5, <1>6, <2>1, FirstAndLast
  <2>3. i \in i..today /\ today \in i..today
    BY <1>1, <1>3
  <2>4. m \in Int /\ n \in Int /\ i <= m /\ m <= i /\ n <= today /\ today <= n
    BY <1>3, <2>2, <2>3
  <2>. QED
    BY <1>3, <2>1, <2>4
<1>8. PICK value : value = ValueParts({p}, FALSE, emit)
  OBVIOUS
<1>9. Unsure(value, days) /\ DOMAIN value = i..today
  <2>1. PICK deposits, bank : /\ deposits = DepositSeries({p}, i, today)
                              /\ bank = BankSeries({p}, FALSE, i, today)
    OBVIOUS
  <2>2. value = WithDebt(parts, deposits, bank, i, today)
    BY <1>4, <1>7, <1>8, <2>1 DEF WithBoth
  <2>3. \A d \in days : d \in i..today
    BY <1>5 DEF Unsure
  <2>4. /\ Unsure(value, days)
        /\ value = parts \/ DOMAIN value = (DOMAIN parts \cup DOMAIN deposits \cup DOMAIN bank) \cap i..today
    <3>1. /\ Unsure(WithDebt(parts, deposits, bank, i, today), days)
          /\ \/ WithDebt(parts, deposits, bank, i, today) = parts
             \/ DOMAIN WithDebt(parts, deposits, bank, i, today)
                  = (DOMAIN parts \cup DOMAIN deposits \cup DOMAIN bank) \cap i..today
      <4>1. days # {} /\ Unsure(parts, days) /\ \A d \in days : d \in i..today
        BY <1>5, <2>3
      <4>. QED
        BY ONLY <4>1, DebtKeepsUnknown
    <3>. QED
      BY <2>2, <3>1
  <2>. QED
    BY <1>5, <2>4
<1>10. PICK kpi, aligned : kpi = Summary({p}, FALSE) /\ aligned = Aligned(value, kpi)
  OBVIOUS
<1>11. Unsure(aligned, days) /\ DOMAIN aligned = i..today
  <2>1. Max(DOMAIN value) = today
    BY <1>5, <1>7, <1>9
  <2>2. aligned = value \/ aligned = [value EXCEPT ![today].value = kpi.value]
    BY <1>10, <2>1 DEF Aligned
  <2>3. \A d \in days : d # today
    BY <1>2
  <2>. QED
    BY <1>9, <2>2, <2>3 DEF Unsure
<1>12. PICK unit : ValueMetric({p}, FALSE, back) = ShownFrom(aligned, unit, start)
  BY <1>0, <1>8, <1>10 DEF ValueMetric
<1>13. PICK shown : shown = ShownFrom(aligned, unit, start)
  OBVIOUS
<1>14. ASSUME NEW d \in days \cap DOMAIN shown
       PROVE  shown[d] = Missing
  <2>1. d \in {e \in DOMAIN aligned : start <= e} /\ aligned[d].value = Missing
    BY <1>11, <1>13, <1>14 DEF ShownFrom, Unsure
  <2>2. \E y : shown[d] = IF aligned[d].value = Missing THEN Missing ELSE y
    BY <1>13, <2>1 DEF ShownFrom
  <2>. QED
    BY <2>1, <2>2
<1>. QED
  BY <1>12, <1>13, <1>14 DEF Unshown

\* They are unknown in the gain as well.
LEMMA GainKeepsUnknown ==
  ASSUME VInv, NEW p, NEW back \in Ranges, NEW ts, NEW start, NEW emit, NEW base, NEW days,
         Shown(p, back, ts, start, emit, base, days), days # {}
  PROVE  Unshown(GainTold({p}, FALSE, back), days)
<1>0. /\ ts = TradesIn({p}) /\ start = RangeStart(back, ScopeStart({p}, FALSE))
      /\ emit = (IF back = 0 THEN 0 ELSE start) /\ base = BaseSeries(ts, emit)
      /\ days = UnknownDays(base) \ {today}
  BY DEF Shown
<1>1. PICK i \in Days : DOMAIN base = i..today /\ i <= today
  BY SeriesDays
<1>2. ts # <<>> /\ Unsure(base, days) /\ today \notin days /\ days \subseteq Days
  BY SeriesDays
<1>3. i \in Int /\ today \in Int /\ today \in Days
  BY <1>1, ValueShape
<1>4. PICK own : own = OwnReturns(base, ts, p, emit)
  OBVIOUS
<1>5. Unsure(own, days) /\ DOMAIN own = i..today
  <2>1. CASE IsAware(p)
    <3>1. PICK cash : own = WithCash(base, cash)
      BY <1>4, <2>1 DEF OwnReturns
    <3>. QED
      BY <1>1, <1>2, <3>1, CashKeepsUnknown
  <2>2. CASE ~IsAware(p)
    <3>1. own = InDisplay(base, BaseCurrency(ts), emit)
      BY <1>2, <1>4, <2>2 DEF OwnReturns
    <3>. QED
      <4>1. /\ Unsure(InDisplay(base, BaseCurrency(ts), emit), days)
            /\ DOMAIN InDisplay(base, BaseCurrency(ts), emit) = DOMAIN base
        BY <1>2, DisplayKeepsUnknown
      <4>. QED
        BY <1>1, <3>1, <4>1
  <2>. QED
    BY <2>1, <2>2
<1>6. PICK part : part = WithDebtReturns(own, {p}, FALSE, emit, TRUE, TRUE)
  OBVIOUS
<1>7. Unsure(part, days)
  <2>1. PICK from, to : /\ from = Min(DOMAIN own \cup DebtStart({p}, FALSE)) /\ to = Max(DOMAIN own)
    OBVIOUS
  <2>2. DOMAIN own # {}
    BY <1>2, <1>5 DEF Unsure
  <2>3. PICK deposits, bank : part = WithDebt(own, deposits, bank, from, to)
    BY <1>6, <2>1, <2>2 DEF WithDebtReturns
  <2>4. DOMAIN own \in SUBSET Days
    <3>1. PICK l : l = LastDay
      OBVIOUS
    <3>2. l \in Nat /\ i \in 1..l /\ today \in 1..l
      BY <1>1, <1>3, <3>1, FxAssumption DEF FxAssumption, Days
    <3>3. i..today \subseteq 1..l
      BY <3>2
    <3>. QED
      BY <1>5, <3>1, <3>3 DEF Days
  <2>5. DebtStart({p}, FALSE) \in SUBSET Days
    BY <1>3, DebtStartIs
  <2>6. PICK D : D = DOMAIN own \cup DebtStart({p}, FALSE)
    OBVIOUS
  <2>7. D \in SUBSET Days /\ D # {} /\ DOMAIN own \subseteq D
    BY <2>2, <2>4, <2>5, <2>6
  <2>8. from \in D /\ \A d \in D : from <= d
    BY <2>1, <2>6, <2>7, FirstAndLast
  <2>9. to \in DOMAIN own /\ \A d \in DOMAIN own : d <= to
    BY <2>1, <2>2, <2>4, FirstAndLast
  <2>10. \A d \in Days : d \in Int
    BY ValueShape
  <2>11. from \in Int /\ to \in Int
    BY <2>4, <2>7, <2>8, <2>9, <2>10
  <2>12. \A d \in DOMAIN own : d \in Int /\ from <= d /\ d <= to
    BY <2>4, <2>7, <2>8, <2>9, <2>10
  <2>13. \A d \in DOMAIN own : d \in from..to
    BY <2>11, <2>12
  <2>14. \A d \in days : d \in from..to
    BY <1>5, <2>13 DEF Unsure
  <2>. QED
    BY <1>5, <2>3, <2>14, DebtKeepsUnknown
<1>8. PICK series : series = ReturnSeries({p}, FALSE, emit)
  OBVIOUS
<1>9. PICK income : series = WithIncome(part, income, emit)
  <2>1. Alone({p}) = p
    BY DEF Alone
  <2>. QED
    BY <1>0, <1>4, <1>6, <1>8, <2>1 DEF ReturnSeries
<1>10. Unsure(series, days)
  BY <1>7, <1>9, IncomeKeepsUnknown
<1>11. PICK flows, gain : /\ gain = CumulativeGain(series, flows, start)
                          /\ GainTold({p}, FALSE, back) = gain
  BY <1>0, <1>8 DEF GainTold
<1>12. ASSUME NEW d \in days \cap DOMAIN gain
       PROVE  gain[d] = Missing
  <2>1. d \in {e \in DOMAIN series : start <= e} /\ series[d].value = Missing
    BY <1>10, <1>11, <1>12 DEF CumulativeGain, Unsure
  <2>. QED
    BY <1>11, <2>1 DEF CumulativeGain
<1>. QED
  BY <1>11, <1>12 DEF Unshown

\* In every state, an unknown day is shown as unknown.
LEMMA UnknownStep ==
  ASSUME VInv
  PROVE  UnknownStaysUnknown
<1>1. SUFFICES ASSUME NEW p \in Portfolios, NEW back \in Ranges,
                      NEW start, start = RangeStart(back, ScopeStart({p}, FALSE)),
                      NEW emit, emit = IF back = 0 THEN 0 ELSE start,
                      NEW base, base = BaseSeries(TradesIn({p}), emit),
                      NEW days, days = UnknownDays(base) \ {today}
               PROVE  /\ Unshown(ValueMetric({p}, FALSE, back), days)
                      /\ Unshown(GainTold({p}, FALSE, back), days)
  BY DEF UnknownStaysUnknown
<1>2. CASE days = {}
  BY <1>2 DEF Unshown
<1>3. CASE days # {}
  <2>1. Shown(p, back, TradesIn({p}), start, emit, base, days)
    BY <1>1 DEF Shown
  <2>. QED
    BY <1>3, <2>1, ValueKeepsUnknown, GainKeepsUnknown
<1>. QED
  BY <1>2, <1>3

\* The value and the gain of one portfolio, for any prices, rates, cash, deposits and
\* accounts: a day of the past that lacks a rate stays unknown.
THEOREM UnknownHolds ==
  Spec => []UnknownStaysUnknown
<1>1. VInv => UnknownStaysUnknown
  BY UnknownStep
<1>. QED
  BY <1>1, ValueInvariant, PTL

-----------------------------------------------------------------------------
(* Holdings are valued after a full run.                                   *)

\* A rate found converts any amount.
LEMMA FoundConverts ==
  ASSUME NEW from \in Currencies, NEW to \in Currencies, NEW found, found.day \in Days, NEW n \in Nat
  PROVE  Converted(n, from, to, found) \in Nat /\ Converted(n, from, to, found) # Missing
<1>1. found.day \in Days \cup {0} /\ found.day # 0
  BY DEF Days
<1>2. Converted(n, from, to, found) \in Nat \cup {Missing}
  BY <1>1, ConvertedIs
<1>3. Converted(n, from, to, found) = Missing <=> found.day = 0
  BY <1>1, ConvertedIs
<1>. QED
  BY <1>1, <1>2, <1>3

\* A rate near enough is found.
LEMMA NearIsFound ==
  ASSUME VInv, NEW from, NEW to, NEW d \in Days, NEW since \in Int, NEW e \in Days,
         from = to \/ (<<from, to, e>> \in rates /\ since <= e /\ d - FillDays <= e /\ e <= d)
  PROVE  Lookup(rates, from, to, d, since).day \in Days
<1>1. PICK found, k : found = Lookup(rates, from, to, d, since) /\ k = FillDays
  OBVIOUS
<1>2. found.day \in Days \cup {0} /\ (from = to => found.day = d)
  BY <1>1, LookupIs
<1>3. CASE from = to
  BY <1>1, <1>2, <1>3
<1>4. CASE from # to
  <2>1. k \in Nat /\ d \in Int /\ e \in Int /\ \A x \in Days : x \in Int
    BY <1>1, FxAssumption, ValueShape DEF FxAssumption
  <2>2. PICK b : b = Larger(since, d - k)
    OBVIOUS
  <2>3. b \in Int /\ b <= e /\ e <= d
    BY <1>1, <1>4, <2>1, <2>2 DEF Larger
  <2>4. PICK R : R = RateDays(rates, from, to, b, d)
    OBVIOUS
  <2>5. R = {x \in Days : b <= x /\ x <= d /\ (<<from, to, x>> \in rates \/ <<to, from, x>> \in rates)}
    BY <2>1, <2>3, <2>4, RateDaysIs
  <2>6. e \in R /\ R \in SUBSET Days
    BY <1>4, <2>3, <2>5
  <2>7. Max(R) \in Days
    BY <2>6, FirstAndLast
  <2>8. found = Nearest(R, from = to, d)
    BY <1>1, <2>2, <2>4 DEF Lookup
  <2>. QED
    BY <1>1, <2>6, <2>7, <2>8 DEF Nearest
<1>. QED
  BY <1>3, <1>4

\* The trades of a holding are among those of its symbol.
LEMMA FirstIsFirst ==
  ASSUME VInv, NEW ps, NEW ts, ts = TradesIn(ps), NEW s \in SymbolsOf(ts), NEW own, own = OfSymbol(ts, s)
  PROVE  /\ Inception(own) \in Days /\ Inception(ts) \in Days /\ Inception(ts) <= Inception(own)
         /\ TradesOf(s) # {} /\ FirstTrade(s) \in Days /\ FirstTrade(s) <= Inception(own)
<1>1. InOrder(ts) /\ InOrder(own) /\ own # <<>>
  BY HoldingTrades
<1>2. \A t \in Range(own) : t.sym = s /\ t \in Range(ts)
  BY HoldingTrades
<1>3. PICK t \in Range(own) : Inception(own) = t.day
  BY <1>1, InceptionIs
<1>4. ts # <<>>
  <2>1. Range(ts) # {}
    BY <1>2, <1>3
  <2>. QED
    BY <1>1, <2>1, InOrderIs
<1>5. Inception(own) \in Days
  BY <1>1, InceptionIs
<1>6. Inception(ts) \in Days /\ \A u \in Range(ts) : Inception(ts) <= u.day
  BY <1>1, <1>4, InceptionIs
<1>7. t \in TradesOf(s)
  <2>1. Range(ts) = {u \in Range(txns) : u.portfolio \in ps}
    BY ValueShape, TradesInAre
  <2>. QED
    BY <1>2, <1>3, <2>1 DEF TradesOf
<1>8. FirstTrade(s) \in Days /\ FirstTrade(s) <= t.day
  <2>1. TradeDays(TradesOf(s)) \in SUBSET Days
    BY NeededDays DEF VInv, MInv
  <2>2. t.day \in TradeDays(TradesOf(s))
    BY <1>7 DEF TradeDays
  <2>. QED
    BY <2>1, <2>2, FirstAndLast DEF FirstTrade
<1>. QED
  BY <1>2, <1>3, <1>5, <1>6, <1>7, <1>8

\* After a full run the rates of a priced holding are there from its first trade on.
LEMMA RatesThere ==
  ASSUME VInv, current, NEW ps, NEW ts, ts = TradesIn(ps), NEW s \in SymbolsOf(ts),
         s \in Range(Stocks), prices[s] # <<>>, NEW q, NEW b, q = QuotedIn[s], b = BaseOf(s),
         q \in Currencies, b \in Currencies, <<q, b>> \notin torn,
         NEW e \in FxOpen, Inception(OfSymbol(ts, s)) <= e, e <= today
  PROVE  q = b \/ <<q, b, e>> \in rates
<1>1. SUFFICES ASSUME q # b
               PROVE  <<q, b, e>> \in rates
  OBVIOUS
<1>2. PICK pair : pair = <<q, b>>
  OBVIOUS
<1>3. /\ TradesOf(s) # {} /\ FirstTrade(s) \in Days /\ FirstTrade(s) <= Inception(OfSymbol(ts, s))
      /\ Inception(OfSymbol(ts, s)) \in Days
  BY FirstIsFirst
<1>4. pair \in CollectedPairs
  BY <1>1, <1>2, <1>3 DEF CollectedPairs, Pairs
<1>5. Complete(FxOpen, PairDays(pair), FxRequired(pair))
  BY <1>2, <1>4 DEF VInv, MInv, CurrentCachesComplete
<1>6. FirstTrade(s) \in FxRequired(pair)
  <2>1. s \in Traded /\ IsPriced(s) /\ QuotedIn[s] = pair[1] /\ pair[2] \in {BaseOf(s), Display}
    <3>1. s \in Symbols
      BY Lists
    <3>. QED
      BY <1>2, <1>3, <3>1 DEF Traded, IsPriced
  <2>2. FirstTrade(s) \in NeededFrom(s)
    BY DEF NeededFrom
  <2>3. FirstTrade(s) \in ValuedDays(pair)
    BY <2>1, <2>2 DEF ValuedDays
  <2>. QED
    BY <2>3 DEF FxRequired
<1>7. FxRequired(pair) \in SUBSET Days
  BY NeededDays DEF VInv, MInv
<1>8. Min(FxRequired(pair)) \in Days /\ Min(FxRequired(pair)) <= FirstTrade(s)
  BY <1>6, <1>7, FirstAndLast
<1>9. PICK m, f, i : m = Min(FxRequired(pair)) /\ f = FirstTrade(s) /\ i = Inception(OfSymbol(ts, s))
  OBVIOUS
<1>10. m \in Int /\ f \in Int /\ i \in Int /\ e \in Int /\ today \in Int /\ m <= f /\ f <= i /\ i <= e
  <2>1. \A x \in Days : x \in Int
    BY ValueShape
  <2>2. e \in Days /\ today \in Days
    BY Lists, ValueShape
  <2>. QED
    BY <1>3, <1>8, <1>9, <2>1, <2>2
<1>11. e \in m..today
  BY <1>10
<1>12. e \in PairDays(pair)
  BY <1>5, <1>6, <1>9, <1>11 DEF Complete
<1>. QED
  BY <1>2, <1>12 DEF PairDays

\* A holding the rate sync has provided for, in a portfolio that keeps to one currency.
Provided(ts, s) ==
  /\ s \in Whole(Range(Stocks)) /\ prices[s] # <<>>
  /\ BaseOf(s) = BaseCurrency(ts) /\ BaseOf(s) = BaseCurrency(OfSymbol(ts, s))
  /\ <<QuotedIn[s], BaseOf(s)>> \notin torn

\* The rate of a stock that was downloaded whole is found near a day with a trade.
LEMMA NearRate ==
  ASSUME VInv, current, NEW ps, NEW ts, ts = TradesIn(ps), NEW s \in SymbolsOf(ts), Provided(ts, s),
         NEW d \in Days, d <= today, RateNear(OfSymbol(ts, s), d),
         NEW since \in Int, since <= d - FillDays \/ since <= Inception(OfSymbol(ts, s)),
         NEW q, NEW b, q = QuotedIn[s], b = BaseOf(s)
  PROVE  /\ q \in Currencies /\ b \in Currencies
         /\ Lookup(rates, q, b, d, since).day \in Days
<1>1. /\ s \in Range(Stocks) /\ prices[s] # <<>> /\ <<q, b>> \notin torn
      /\ b = BaseCurrency(OfSymbol(ts, s))
  BY DEF Provided, Whole
<1>2. q \in Currencies /\ b \in Currencies
  <2>1. q \in Currencies
    BY <1>1, MarketAssumption DEF MarketAssumption
  <2>2. b \in Currencies
    BY <1>1, BaseIs
  <2>. QED
    BY <2>1, <2>2
<1>3. PICK e \in FxOpen : e <= d /\ d - FillDays <= e /\ Inception(OfSymbol(ts, s)) <= e
  BY DEF RateNear
<1>4. PICK k, i : k = d - FillDays /\ i = Inception(OfSymbol(ts, s))
  OBVIOUS
<1>5. e \in Days /\ e \in Int /\ d \in Int /\ today \in Int /\ k \in Int /\ i \in Int
  <2>1. \A x \in Days : x \in Int
    BY ValueShape
  <2>2. e \in Days /\ today \in Days
    BY Lists, ValueShape
  <2>3. Inception(OfSymbol(ts, s)) \in Days
    BY FirstIsFirst
  <2>. QED
    BY <1>4, <2>1, <2>2, <2>3, FxAssumption DEF FxAssumption
<1>6. e <= today /\ since <= e
  <2>1. k <= e /\ i <= e
    BY <1>3, <1>4
  <2>2. since <= k \/ since <= i
    BY <1>4
  <2>. QED
    BY <1>3, <1>5, <2>1, <2>2
<1>7. q = b \/ <<q, b, e>> \in rates
  BY <1>1, <1>2, <1>3, <1>6, RatesThere
<1>8. Lookup(rates, q, b, d, since).day \in Days
  BY <1>3, <1>5, <1>6, <1>7, NearIsFound
<1>. QED
  BY <1>2, <1>8

\* The price of today can be told.
LEMMA PriceTold ==
  ASSUME VInv, current, NEW ps, NEW ts, ts = TradesIn(ps), NEW s \in SymbolsOf(ts), Provided(ts, s),
         RateNear(OfSymbol(ts, s), LatestDay(s))
  PROVE  PriceToday(ts, s) # Missing
<1>1. s \in Range(Stocks) /\ prices[s] # <<>> /\ BaseOf(s) = BaseCurrency(OfSymbol(ts, s))
  BY DEF Provided, Whole
<1>2. InOrder(ts)
  BY HoldingTrades
<1>3. s \in StocksIn(ts) /\ IsFiniteSet(StocksIn(ts)) /\ StocksIn(ts) \subseteq Symbols /\ s \in Symbols
  <2>1. s \in StocksIn(ts)
    BY <1>1 DEF StocksIn
  <2>2. IsFiniteSet(StocksIn(ts)) /\ StocksIn(ts) \subseteq SymbolsOf(ts) /\ SymbolsOf(ts) \subseteq Symbols
    BY <1>2, SymbolsFinite
  <2>. QED
    BY <2>1, <2>2
<1>4. PICK d, since, q, b : /\ d = LatestDay(s) /\ since = RatesSince(StocksIn(ts))
                            /\ q = QuotedIn[s] /\ b = BaseOf(s)
  OBVIOUS
<1>5. d \in Days /\ d <= today /\ prices[s][d] \in Nat
  BY <1>1, <1>3, <1>4, LatestIs
<1>6. since \in Int /\ since <= d - FillDays
  BY <1>1, <1>3, <1>4, SinceFar
<1>7. PICK found : found = Lookup(rates, q, b, d, since)
  OBVIOUS
<1>8. q \in Currencies /\ b \in Currencies /\ found.day \in Days
  BY <1>4, <1>5, <1>6, <1>7, NearRate
<1>9. PriceToday(ts, s) = Converted(prices[s][d], q, b, found)
  BY <1>1, <1>4, <1>7 DEF PriceToday, LatestIn
<1>. QED
  BY <1>5, <1>8, <1>9, FoundConverts

\* So can the value of a day of the series.
LEMMA DayTold ==
  ASSUME VInv, current, NEW ps, NEW ts, ts = TradesIn(ps), ts # <<>>,
         \A s \in SymbolsOf(ts) : Provided(ts, s),
         NEW d \in Days, d \in Inception(ts)..today, \A s \in SymbolsOf(ts) : RateNear(OfSymbol(ts, s), d)
  PROVE  BaseSeries(ts, 0)[d].value # Missing
<1>1. InOrder(ts)
  BY HoldingTrades
<1>2. Inception(ts) \in Days /\ Inception(ts) \in Int /\ d \in Int /\ d <= today
  <2>1. Inception(ts) \in Days
    BY <1>1, InceptionIs
  <2>2. (\A x \in Days : x \in Int) /\ today \in Days
    BY ValueShape
  <2>3. PICK i : i = Inception(ts)
    OBVIOUS
  <2>4. i \in Days /\ i \in Int /\ today \in Int /\ d \in i..today
    BY <2>1, <2>2, <2>3
  <2>. QED
    BY <2>3, <2>4
<1>3. BaseSeries(ts, 0)[d] = PointOn(ts, 0, d)
  <2>1. FirstDay(ts, 0) = Inception(ts)
    BY DEF FirstDay
  <2>. QED
    BY <1>1, <2>1, SeriesIs
<1>4. FundsIn(ts) = {} /\ StocksIn(ts) \subseteq SymbolsOf(ts)
  <2>1. \A s \in SymbolsOf(ts) : s \in Range(Stocks)
    BY DEF Provided, Whole
  <2>. QED
    BY <2>1, Lists DEF FundsIn, StocksIn
<1>5. FundsOn(ts, 0, d).value = 0
  BY <1>4 DEF FundsOn, FundPoint, HeldIn
<1>6. PICK held, close, found, base : /\ held = HeldIn(ts, StocksIn(ts), d)
                                      /\ close = ClosesOn(StocksIn(ts), ts, 0, d)
                                      /\ found = RatesOn(ts, 0, d) /\ base = BaseCurrency(ts)
  OBVIOUS
<1>7. /\ DOMAIN held = StocksIn(ts) /\ IsFiniteSet(StocksIn(ts))
      /\ \A s \in StocksIn(ts) : held[s].qty \in Nat /\ close[s] \in Nat
  <2>1. IsFiniteSet(StocksIn(ts)) /\ StocksIn(ts) \subseteq Symbols
    <3>1. IsFiniteSet(SymbolsOf(ts)) /\ SymbolsOf(ts) \subseteq Symbols
      BY <1>1, SymbolsFinite
    <3>. QED
      BY <1>4, <3>1, FS_Subset
  <2>2. ASSUME NEW s \in StocksIn(ts)
        PROVE  held[s].qty \in Nat /\ close[s] \in Nat
    <3>1. s \in SymbolsOf(ts) /\ s \in Symbols
      BY <1>4, <2>1
    <3>2. PICK h : h = Held(SeriesOf(ts, s), d)
      OBVIOUS
    <3>3. h.qty \in Nat
      BY <1>2, <3>1, <3>2, SeriesHolds
    <3>4. held[s] = h
      BY <1>6, <3>2 DEF HeldIn
    <3>5. close[s] \in Nat
      BY <1>6, <3>1, CloseIs
    <3>. QED
      BY <3>3, <3>4, <3>5
  <2>3. DOMAIN held = StocksIn(ts)
    BY <1>6 DEF HeldIn
  <2>. QED
    BY <2>1, <2>2, <2>3
<1>8. ASSUME NEW s \in StocksIn(ts)
      PROVE  QuotedIn[s] \in Currencies /\ base \in Currencies /\ found[s].day \in Days
  <2>1. s \in SymbolsOf(ts) /\ Provided(ts, s) /\ RateNear(OfSymbol(ts, s), d)
    BY <1>4, <1>8
  <2>2. base = BaseOf(s)
    BY <1>6, <2>1 DEF Provided
  <2>3. Inception(ts) <= Inception(OfSymbol(ts, s))
    BY <2>1, FirstIsFirst
  <2>4. PICK q, b, i : q = QuotedIn[s] /\ b = BaseOf(s) /\ i = Inception(ts)
    OBVIOUS
  <2>5. i \in Int /\ i <= Inception(OfSymbol(ts, s))
    BY <1>2, <2>3, <2>4
  <2>6. q \in Currencies /\ b \in Currencies /\ Lookup(rates, q, b, d, i).day \in Days
    BY <1>2, <2>1, <2>4, <2>5, NearRate
  <2>7. found[s] = Lookup(rates, q, b, d, i)
    BY <1>6, <2>2, <2>4 DEF RatesOn, SeriesRate, LoadStart
  <2>. QED
    BY <2>2, <2>4, <2>6, <2>7
<1>9. PICK C : C = {s \in DOMAIN held : held[s].qty # 0 /\ close[s] # 0}
  OBVIOUS
<1>10. C \in SUBSET StocksIn(ts) /\ IsFiniteSet(C)
  <2>1. C \in SUBSET StocksIn(ts)
    BY <1>7, <1>9
  <2>. QED
    BY <1>7, <2>1, FS_Subset
<1>11. PICK h : h = [s \in C |-> Converted(held[s].qty * close[s], QuotedIn[s], base, found[s])]
  OBVIOUS
<1>12. \A s \in C : h[s] \in Nat
  <2>1. SUFFICES ASSUME NEW s \in C
                 PROVE  h[s] \in Nat
    OBVIOUS
  <2>2. \A x, y \in Nat : x * y \in Nat
    OBVIOUS
  <2>3. PICK n : n = held[s].qty * close[s]
    OBVIOUS
  <2>4. n \in Nat /\ QuotedIn[s] \in Currencies /\ base \in Currencies /\ found[s].day \in Days
    BY <1>7, <1>8, <1>10, <2>1, <2>2, <2>3
  <2>5. Converted(n, QuotedIn[s], base, found[s]) \in Nat
    BY <2>4, FoundConverts
  <2>. QED
    BY <1>11, <2>1, <2>3, <2>5
<1>13. SumFunction(h) \in Nat
  <2>1. SumFunction(h) = SumFunctionOnSet(h, C)
    BY <1>11, SumOfFunction
  <2>2. SumFunctionOnSet(h, C) \in Nat
    BY <1>10, <1>12, SumNatural
  <2>. QED
    BY <2>1, <2>2
<1>14. \A s \in C : found[s].day # 0
  <2>1. 0 \notin Days
    BY DEF Days
  <2>. QED
    BY <1>8, <1>10, <2>1
<1>15. PICK funds : funds = FundsOn(ts, 0, d)
  OBVIOUS
<1>16. funds.value = 0 /\ 0 # Missing
  BY <1>5, <1>15 DEF Missing
<1>17. DayPoint(held, close, found, base, funds).value = SumFunction(h) + funds.value
  BY <1>9, <1>11, <1>14, <1>16 DEF DayPoint, Total
<1>18. SumFunction(h) + 0 # Missing
  BY <1>13 DEF Missing
<1>. QED
  BY <1>3, <1>6, <1>15, <1>16, <1>17, <1>18 DEF PointOn

\* In every state that is current, each holding has a value.
LEMMA ValuedStep ==
  ASSUME VInv
  PROVE  ValuedAfterSync
<1>1. SUFFICES ASSUME current, NEW p \in Portfolios, NEW ts, ts = TradesIn({p}), ts # <<>>,
                      \A s \in SymbolsOf(ts) : Provided(ts, s)
               PROVE  /\ \A s \in SymbolsOf(ts) :
                           RateNear(OfSymbol(ts, s), LatestDay(s)) => PriceToday(ts, s) # Missing
                      /\ \A d \in Days :
                           (d \in Inception(ts)..today /\ \A s \in SymbolsOf(ts) : RateNear(OfSymbol(ts, s), d))
                             => BaseSeries(ts, 0)[d].value # Missing
  BY DEF ValuedAfterSync, Provided
<1>2. ASSUME NEW s \in SymbolsOf(ts), RateNear(OfSymbol(ts, s), LatestDay(s))
      PROVE  PriceToday(ts, s) # Missing
  BY <1>1, <1>2, PriceTold
<1>3. ASSUME NEW d \in Days, d \in Inception(ts)..today, \A s \in SymbolsOf(ts) : RateNear(OfSymbol(ts, s), d)
      PROVE  BaseSeries(ts, 0)[d].value # Missing
  BY <1>1, <1>3, DayTold
<1>. QED
  BY <1>2, <1>3

\* earliest_required_fx_date against _calculate_holdings and the series, for any trades,
\* prices and plans: what the rate sync takes to be needed is what the valuations ask for.
THEOREM ValuedHolds ==
  Spec => []ValuedAfterSync
<1>1. VInv => ValuedAfterSync
  BY ValuedStep
<1>. QED
  BY <1>1, ValueInvariant, PTL

-----------------------------------------------------------------------------
(* The trades of a scope.                                                  *)

\* There is one way to sort.
LEMMA SortedOnce ==
  ASSUME NEW K \in SUBSET Int, IsFiniteSet(K), NEW key, \A k \in K : key[k] \in Int,
         NEW f, SortedBy(f, K, key), NEW g, SortedBy(g, K, key)
  PROVE  \A i \in 1..Cardinality(K) : f[i] = g[i]
<1>1. PICK n \in Nat : n = Cardinality(K)
  BY FS_CardinalityType
<1>2. /\ \A i \in 1..n : f[i] \in K /\ g[i] \in K
      /\ \A k \in K : (\E i \in 1..n : f[i] = k) /\ (\E i \in 1..n : g[i] = k)
      /\ \A i, j \in 1..n : i < j <=> Precedes(key, f[i], f[j])
      /\ \A i, j \in 1..n : i < j <=> Precedes(key, g[i], g[j])
  BY <1>1 DEF SortedBy
<1>3. /\ \A a \in K : ~Precedes(key, a, a)
      /\ \A a, b, c \in K : Precedes(key, a, b) /\ Precedes(key, b, c) => Precedes(key, a, c)
  BY PrecedesOrders
<1>. DEFINE T == {i \in Nat : i <= n => \A j \in 1..i : f[j] = g[j]}
<1>4. 0 \in T
  OBVIOUS
<1>5. ASSUME NEW i \in Nat, i \in T
      PROVE  i + 1 \in T
  <2>1. SUFFICES ASSUME i + 1 <= n PROVE \A j \in 1..i + 1 : f[j] = g[j]
    OBVIOUS
  <2>2. PICK e : e = i + 1
    OBVIOUS
  <2>3. e \in 1..n /\ \A j : j \in 1..e <=> j \in 1..i \/ j = e
    BY <2>1, <2>2
  <2>4. \A j \in 1..i : f[j] = g[j] /\ j \in 1..n /\ j < e
    BY <1>5, <2>1, <2>2
  <2>5. PICK k \in 1..n : f[k] = g[e]
    BY <1>2, <2>3
  <2>6. PICK m \in 1..n : g[m] = f[e]
    BY <1>2, <2>3
  <2>7. k \notin 1..i
    <3>1. SUFFICES ASSUME k \in 1..i PROVE FALSE
      OBVIOUS
    <3>2. g[k] = g[e] /\ k < e
      BY <2>4, <2>5, <3>1
    <3>3. Precedes(key, g[k], g[e])
      BY <1>2, <2>3, <2>5, <3>2
    <3>. QED
      BY <1>2, <1>3, <2>3, <2>5, <3>2, <3>3
  <2>8. m \notin 1..i
    <3>1. SUFFICES ASSUME m \in 1..i PROVE FALSE
      OBVIOUS
    <3>2. f[m] = f[e] /\ m < e
      BY <2>4, <2>6, <3>1
    <3>3. Precedes(key, f[m], f[e])
      BY <1>2, <2>3, <2>6, <3>2
    <3>. QED
      BY <1>2, <1>3, <2>3, <2>6, <3>2, <3>3
  <2>9. (k = e \/ e < k) /\ (m = e \/ e < m)
    BY <2>1, <2>2, <2>7, <2>8
  <2>10. f[e] = g[e]
    <3>1. SUFFICES ASSUME e < k, e < m PROVE FALSE
      BY <2>5, <2>6, <2>9
    <3>2. Precedes(key, f[e], g[e]) /\ Precedes(key, g[e], f[e])
      BY <1>2, <2>3, <2>5, <2>6, <3>1
    <3>. QED
      BY <1>2, <1>3, <2>3, <3>2
  <2>. QED
    BY <2>2, <2>3, <2>4, <2>10
<1>6. n \in T
  <2>. HIDE DEF T
  <2>. QED
    BY <1>4, <1>5, NumberInduction
<1>. QED
  BY <1>1, <1>6

\* The trades of some portfolios in a symbol, by their places in the table.
Places(ps, s) == {k \in DOMAIN txns : txns[k].portfolio \in ps /\ txns[k].sym = s}
DayOf == [k \in DOMAIN txns |-> txns[k].day]

\* A holding consists of the trades at its places, by day and then by place.
LEMMA HoldingPicks ==
  ASSUME VInv, NEW ps, NEW s
  PROVE  /\ OfSymbol(TradesIn(ps), s) = Sorted(txns, Places(ps, s), DayOf)
         /\ \E h : Picks(h, OfSymbol(TradesIn(ps), s), txns, Places(ps, s), DayOf)
<1>1. PICK n \in Nat : DOMAIN txns = 1..n /\ \A k \in 1..n : txns[k] \in Trades
  BY ValueShape
<1>2. \A k \in 1..n : DayOf[k] \in Int /\ k \in Int
  BY <1>1, TradeIs DEF DayOf
<1>3. PICK A, K, ts : /\ A = {k \in DOMAIN txns : txns[k].portfolio \in ps}
                      /\ K = Places(ps, s) /\ ts = TradesIn(ps)
  OBVIOUS
<1>4. A \in SUBSET (1..n) /\ K \in SUBSET (1..n) /\ K = {k \in A : txns[k].sym = s}
  BY <1>1, <1>3 DEF Places
<1>5. PICK f : Picks(f, ts, txns, A, DayOf)
  <2>1. ts = Sorted(txns, A, DayOf)
    BY <1>3 DEF TradesIn, DayOf
  <2>2. \A k \in A : DayOf[k] \in Int
    BY <1>2, <1>4
  <2>. QED
    BY <1>1, <1>4, <2>1, <2>2, SortedPicks
<1>6. PICK m \in Nat : m = Len(ts) /\ DOMAIN ts = 1..m
  BY <1>5 DEF Picks
<1>7. PICK J, r : J = {i \in DOMAIN ts : ts[i].sym = s} /\ r = OfSymbol(ts, s)
  OBVIOUS
<1>8. PICK g, key : Picks(g, r, ts, J, key) /\ \A i, j \in DOMAIN r : i < j <=> g[i] < g[j]
  <2>1. r = Only(ts, J) /\ J \in SUBSET (1..m)
    BY <1>6, <1>7 DEF OfSymbol
  <2>. QED
    BY <1>6, <2>1, OnlyPicks
<1>9. PICK c \in Nat : c = Len(r) /\ DOMAIN r = 1..c /\ \A i \in 1..c : g[i] \in J /\ r[i] = ts[g[i]]
  BY <1>8 DEF Picks
<1>10. \A i \in 1..m : f[i] \in A /\ ts[i] = txns[f[i]]
  BY <1>5, <1>6 DEF Picks
<1>11. PICK e : e = [i \in 1..c |-> f[g[i]]]
  OBVIOUS
<1>12. \A i \in 1..c : e[i] \in K /\ r[i] = txns[e[i]] /\ e[i] = f[g[i]] /\ g[i] \in 1..m
  BY <1>4, <1>6, <1>7, <1>9, <1>10, <1>11
<1>13. \A k \in K : \E i \in 1..c : e[i] = k
  <2>1. SUFFICES ASSUME NEW k \in K PROVE \E i \in 1..c : e[i] = k
    OBVIOUS
  <2>2. PICK j \in 1..m : f[j] = k
    BY <1>4, <1>5, <1>6 DEF Picks
  <2>3. j \in J
    BY <1>4, <1>6, <1>7, <1>10, <2>2
  <2>4. PICK i \in 1..c : g[i] = j
    BY <1>8, <1>9, <2>3 DEF Picks
  <2>. QED
    BY <1>12, <2>2, <2>4
<1>14. \A i, j \in 1..c : i < j <=> Precedes(DayOf, e[i], e[j])
  <2>1. \A i, j \in 1..m : i < j <=> Precedes(DayOf, f[i], f[j])
    BY <1>5, <1>6 DEF Picks
  <2>. QED
    BY <1>8, <1>9, <1>12, <2>1
<1>15. IsFiniteSet(K) /\ K \in SUBSET Int /\ (\A k \in K : DayOf[k] \in Int)
  <2>1. IsFiniteSet(1..n)
    BY FS_Interval
  <2>2. IsFiniteSet(K)
    BY <1>4, <2>1, FS_Subset
  <2>. QED
    BY <1>2, <1>4, <2>2
<1>16. Cardinality(K) = c
  <2>1. \A i, j \in 1..c : e[i] = e[j] => i = j
    <3>1. \A a \in K : ~Precedes(DayOf, a, a)
      BY <1>15, PrecedesOrders
    <3>2. \A i, j \in 1..c : i = j \/ i < j \/ j < i
      OBVIOUS
    <3>. QED
      BY <1>12, <1>14, <3>1, <3>2
  <2>2. e \in [1..c -> K]
    BY <1>11, <1>12
  <2>3. e \in Bijection(1..c, K)
    BY <1>13, <2>1, <2>2 DEF Bijection, Injection, Surjection, IsInjective
  <2>4. IsFiniteSet(1..c) /\ Cardinality(1..c) = c
    BY FS_Interval
  <2>5. ExistsBijection(1..c, K)
    BY <2>3 DEF ExistsBijection
  <2>. QED
    BY <2>4, <2>5, FS_Bijection
<1>17. SortedBy(e, K, DayOf)
  <2>1. e \in [1..c -> K]
    BY <1>11, <1>12
  <2>. QED
    BY <1>13, <1>14, <1>16, <2>1 DEF SortedBy
<1>18. PICK q : q = Sorted(txns, K, DayOf)
  OBVIOUS
<1>19. PICK h : Picks(h, q, txns, K, DayOf)
  BY <1>1, <1>4, <1>15, <1>18, SortedPicks
<1>20. SortedBy(h, K, DayOf) /\ q \in Seq(Range(txns)) /\ DOMAIN q = 1..c /\ \A i \in 1..c : q[i] = txns[h[i]]
  BY <1>16, <1>19 DEF Picks
<1>21. \A i \in 1..c : e[i] = h[i]
  BY <1>15, <1>16, <1>17, <1>20, SortedOnce
<1>22. \A i \in 1..c : r[i] = q[i]
  BY <1>12, <1>20, <1>21
<1>23. r = q
  <2>1. r \in Seq(Range(ts))
    BY <1>8 DEF Picks
  <2>2. r = [i \in 1..c |-> r[i]] /\ q = [i \in 1..c |-> q[i]]
    BY <1>9, <1>20, <2>1
  <2>. QED
    BY <1>22, <2>2
<1>. QED
  BY <1>3, <1>7, <1>18, <1>19, <1>23

\* What each trade adds to the shares held, when none of them is split.
ChangeAt == [k \in DOMAIN txns |-> Change(txns[k])]

\* A holding that is never short has the shares that were bought and not sold.
LEMMA QtyIs ==
  ASSUME NEW ts, InOrder(ts), NEW a, a = Adjusted(ts)
  PROVE  /\ NeverShort(ts) => NoneShort(a)
         /\ NoneShort(a) => /\ Metrics(ts).qty = SumFunctionOnSet(ChangeIn(a), 1..Len(a))
                            /\ Metrics(ts).qty \in Nat
         /\ Metrics(ts).qty \in Nat
<1>1. AreDeals(a)
  BY AdjustedIs
<1>2. PICK m, s : /\ WalkedThrough(m, s, a)
                  /\ Metrics(ts) = [qty |-> LotQty(m.lots), invested |-> LotCost(m.lots),
                                    realized |-> m.realized]
                  /\ LotQty(m.lots) \in Nat
  BY HoldingIs
<1>3. Metrics(ts).qty = LotQty(m.lots) /\ Metrics(ts).qty \in Nat
  BY <1>2
<1>4. ASSUME NoneShort(a)
      PROVE  LotQty(m.lots) = SumFunctionOnSet(ChangeIn(a), 1..Len(a))
  BY <1>2, <1>4 DEF WalkedThrough, Kept
<1>5. NeverShort(ts) => NoneShort(a)
  BY <1>1, HeldAfterIs DEF NeverShort
<1>. QED
  BY <1>3, <1>4, <1>5

\* The trades of a scope without splits, as deals, and what the first of them add up to.
LEMMA FirstAdd ==
  ASSUME VInv, NEW ps, NEW s, \A k \in Places(ps, s) : ~IsSplit(txns[k]),
         NEW a, a = OfSymbol(TradesIn(ps), s), NEW h, Picks(h, a, txns, Places(ps, s), DayOf)
  PROVE  /\ InOrder(a) /\ AreDeals(a) /\ Adjusted(a) = a
         /\ \A i \in DOMAIN a : h[i] \in Places(ps, s)
         /\ \A k \in Nat : k <= Len(a) =>
              /\ IsFiniteSet(FirstOf(h, k)) /\ FirstOf(h, k) \subseteq Places(ps, s)
              /\ \A i \in FirstOf(h, k) : ChangeAt[i] \in Int
              /\ SumFunctionOnSet(ChangeIn(a), 1..k) = SumFunctionOnSet(ChangeAt, FirstOf(h, k))
<1>1. InOrder(a)
  BY HoldingTrades
<1>2. PICK n \in Nat : /\ n = Len(a) /\ DOMAIN a = 1..n
                       /\ \A i \in 1..n : h[i] \in Places(ps, s) /\ a[i] = txns[h[i]]
                       /\ \A i, j \in 1..n : i < j <=> Precedes(DayOf, h[i], h[j])
  BY DEF Picks
<1>3. \A t \in Range(a) : ~IsSplit(t)
  BY <1>2 DEF Range
<1>4. AreDeals(a) /\ Adjusted(a) = a
  BY <1>1, <1>3, AdjustedIs
<1>5. \A i, j \in 1..n : h[i] = h[j] => i = j
  <2>1. PICK m \in Nat : DOMAIN txns = 1..m /\ \A k \in 1..m : txns[k] \in Trades
    BY ValueShape
  <2>2. \A i \in 1..n : h[i] \in Int /\ DayOf[h[i]] \in Int
    <3>1. \A k \in Places(ps, s) : k \in 1..m
      BY <2>1 DEF Places
    <3>2. \A k \in 1..m : DayOf[k] \in Int
      BY <2>1, TradeIs DEF DayOf
    <3>. QED
      BY <1>2, <3>1, <3>2
  <2>3. \A i \in 1..n : ~Precedes(DayOf, h[i], h[i])
    BY <2>2 DEF Precedes
  <2>4. \A i, j \in 1..n : i = j \/ i < j \/ j < i
    OBVIOUS
  <2>. QED
    BY <1>2, <2>3, <2>4
<1>6. \A i \in 1..n : ChangeIn(a)[i] \in Int /\ ChangeAt[h[i]] = ChangeIn(a)[i]
  <2>1. \A i \in 1..n : h[i] \in DOMAIN txns
    BY <1>2 DEF Places
  <2>2. \A i \in 1..n : ChangeIn(a)[i] = Change(a[i]) /\ ChangeAt[h[i]] = Change(txns[h[i]])
    BY <1>2, <2>1 DEF ChangeIn, ChangeAt
  <2>3. \A i \in 1..n : ChangeIn(a)[i] \in Int
    BY <1>2, <1>4, DealsAre
  <2>. QED
    BY <1>2, <2>2, <2>3
<1>7. ASSUME NEW k \in Nat, k <= n
      PROVE  /\ IsFiniteSet(FirstOf(h, k)) /\ FirstOf(h, k) \subseteq Places(ps, s)
             /\ \A i \in FirstOf(h, k) : ChangeAt[i] \in Int
             /\ SumFunctionOnSet(ChangeIn(a), 1..k) = SumFunctionOnSet(ChangeAt, FirstOf(h, k))
  <2>1. PICK S, T, g, c : S = 1..k /\ T = FirstOf(h, k) /\ g = ChangeIn(a) /\ c = ChangeAt
    OBVIOUS
  <2>2. S \subseteq 1..n /\ T = {h[i] : i \in S}
    BY <1>7, <2>1 DEF FirstOf
  <2>3. IsFiniteSet(S)
    BY <2>1, FS_Interval
  <2>4. (\A i \in S : g[i] \in Int) /\ (\A i \in S : c[h[i]] = g[i])
    BY <1>6, <2>1, <2>2
  <2>5. \A i, j \in S : h[i] = h[j] => i = j
    BY <1>5, <2>2
  <2>6. SumFunctionOnSet(c, T) = SumFunctionOnSet(g, S) /\ IsFiniteSet(T)
    <3>1. T = {h[x] : x \in S}
      BY <2>2
    <3>2. \A x \in S : g[x] \in Int
      BY <2>4
    <3>3. \A x \in S : c[h[x]] = g[x]
      BY <2>4
    <3>. QED
      BY ONLY <2>3, <2>5, <3>1, <3>2, <3>3, SumRenamed
  <2>7. T \subseteq Places(ps, s) /\ \A x \in T : c[x] \in Int
    BY <1>2, <2>2, <2>4
  <2>. QED
    BY <2>1, <2>6, <2>7
<1>. QED
  BY <1>1, <1>2, <1>4, <1>7

\* Of some places, those of one portfolio.
PartOf(F, p) == {i \in F : txns[i].portfolio = p}

\* Of the first trades of a scope, those of one portfolio are its first trades.
LEMMA PartFirst ==
  ASSUME VInv, NEW ps, NEW s, NEW p \in ps,
         NEW a, NEW h, Picks(h, a, txns, Places(ps, s), DayOf),
         NEW P, P = Places({p}, s), NEW b, NEW g, Picks(g, b, txns, P, DayOf),
         NEW k \in Nat, k <= Len(a), NEW D, D = PartOf(FirstOf(h, k), p)
  PROVE  /\ \E m \in Nat : m <= Len(b) /\ D = FirstOf(g, m)
         /\ k = Len(a) => D = FirstOf(g, Len(b))
<1>0. Picks(h, a, txns, Places(ps, s), DayOf) /\ Picks(g, b, txns, P, DayOf)
  OBVIOUS
<1>1. PICK n \in Nat : /\ n = Len(a) /\ DOMAIN a = 1..n
                       /\ \A i \in 1..n : h[i] \in Places(ps, s)
                       /\ \A x \in Places(ps, s) : \E i \in 1..n : h[i] = x
                       /\ \A i, j \in 1..n : i < j <=> Precedes(DayOf, h[i], h[j])
  <2>1. Picks(h, a, txns, Places(ps, s), DayOf)
    OBVIOUS
  <2>2. /\ Len(a) \in Nat /\ DOMAIN a = 1..Len(a) /\ \A i \in DOMAIN a : h[i] \in Places(ps, s)
        /\ \A x \in Places(ps, s) : \E i \in DOMAIN a : h[i] = x
        /\ \A i, j \in DOMAIN a : i < j <=> Precedes(DayOf, h[i], h[j])
    BY ONLY <2>1 DEF Picks
  <2>. QED
    BY ONLY <2>2
<1>2. PICK l \in Nat : /\ l = Len(b) /\ DOMAIN b = 1..l
                       /\ \A i \in 1..l : g[i] \in P
                       /\ \A x \in P : \E i \in 1..l : g[i] = x
                       /\ \A i, j \in 1..l : i < j <=> Precedes(DayOf, g[i], g[j])
  <2>1. Picks(g, b, txns, P, DayOf)
    OBVIOUS
  <2>2. /\ Len(b) \in Nat /\ DOMAIN b = 1..Len(b) /\ \A i \in DOMAIN b : g[i] \in P
        /\ \A x \in P : \E i \in DOMAIN b : g[i] = x
        /\ \A i, j \in DOMAIN b : i < j <=> Precedes(DayOf, g[i], g[j])
    BY ONLY <2>1 DEF Picks
  <2>. QED
    BY ONLY <2>2
<1>3. \A x : x \in P <=> x \in Places(ps, s) /\ txns[x].portfolio = p
  BY DEF Places
<1>4. \A x \in D : /\ x \in P
                   /\ \E i \in 1..k : i \in 1..n /\ x = h[i]
  <2>1. \A i \in 1..k : i \in 1..n
    BY <1>1
  <2>2. \A x \in D : (\E i \in 1..k : x = h[i]) /\ txns[x].portfolio = p
    BY DEF FirstOf, PartOf
  <2>3. \A x \in D : x \in Places(ps, s)
    BY <1>1, <2>1, <2>2
  <2>. QED
    BY <1>3, <2>1, <2>2, <2>3
<1>5. \A i \in 1..k : h[i] \in P => h[i] \in D
  BY <1>3 DEF FirstOf, PartOf
<1>6. ASSUME NEW i \in 1..l, NEW j \in 1..l, i < j, g[j] \in D
      PROVE  g[i] \in D
  <2>1. PICK y \in 1..k : y \in 1..n /\ g[j] = h[y]
    BY <1>4, <1>6
  <2>2. PICK x \in 1..n : g[i] = h[x]
    BY <1>1, <1>2, <1>3
  <2>3. x < y
    BY <1>1, <1>2, <1>6, <2>1, <2>2
  <2>4. x \in 1..k
    BY <2>1, <2>2, <2>3
  <2>. QED
    BY <1>2, <1>5, <2>2, <2>4
<1>7. \E m \in Nat : m <= l /\ D = FirstOf(g, m)
  <2>. DEFINE T == {m \in Nat : m <= l => \/ \A i \in 1..m : g[i] \in D
                                          \/ \E e \in Nat : e <= l /\ D = FirstOf(g, e)}
  <2>1. 0 \in T
    OBVIOUS
  <2>2. ASSUME NEW m \in Nat, m \in T
        PROVE  m + 1 \in T
    <3>1. SUFFICES ASSUME m + 1 <= l, ~\E e \in Nat : e <= l /\ D = FirstOf(g, e)
                   PROVE  \A i \in 1..m + 1 : g[i] \in D
      OBVIOUS
    <3>2. m <= l /\ \A i \in 1..m : g[i] \in D
      BY <2>2, <3>1
    <3>3. PICK e : e = m + 1
      OBVIOUS
    <3>4. e \in 1..l /\ (\A i : i \in 1..e <=> i \in 1..m \/ i = e) /\ \A i \in 1..m : i \in 1..l /\ i < e
      BY <3>1, <3>3
    <3>5. g[e] \in D
      <4>1. SUFFICES ASSUME g[e] \notin D PROVE D = FirstOf(g, m)
        BY <3>1, <3>2
      <4>2. \A x \in D : \E i \in 1..m : x = g[i]
        <5>1. SUFFICES ASSUME NEW x \in D PROVE \E i \in 1..m : x = g[i]
          OBVIOUS
        <5>2. PICK i \in 1..l : g[i] = x
          BY <1>2, <1>4
        <5>3. ~(e < i) /\ i # e
          BY <1>6, <3>4, <4>1, <5>2
        <5>4. i \in 1..m
          BY <3>3, <3>4, <5>3
        <5>. QED
          BY <5>2, <5>4
      <4>. QED
        BY <3>2, <4>2 DEF FirstOf, PartOf
    <3>. QED
      BY <3>2, <3>3, <3>4, <3>5
  <2>3. l \in T
    <3>. HIDE DEF T
    <3>. QED
      BY <2>1, <2>2, NumberInduction
  <2>4. CASE \A i \in 1..l : g[i] \in D
    <3>1. \A x \in D : \E i \in 1..l : x = g[i]
      BY <1>2, <1>4
    <3>2. D = FirstOf(g, l)
      BY <2>4, <3>1 DEF FirstOf, PartOf
    <3>. QED
      BY <3>2
  <2>. QED
    BY <2>3, <2>4
<1>8. ASSUME k = n
      PROVE  D = FirstOf(g, l)
  <2>1. \A i \in 1..l : g[i] \in D
    <3>1. \A i \in 1..l : \E x \in 1..k : g[i] = h[x]
      BY <1>1, <1>2, <1>3, <1>8
    <3>. QED
      BY <1>2, <1>5, <3>1
  <2>2. \A x \in D : \E i \in 1..l : x = g[i]
    BY <1>2, <1>4
  <2>. QED
    BY <2>1, <2>2 DEF FirstOf, PartOf
<1>. QED
  BY <1>1, <1>2, <1>7, <1>8

\* Where nothing was split, the portfolios of a scope hold together what each of them holds,
\* and the walk over their trades taken together is never short either.
LEMMA MergedHeld ==
  ASSUME VInv, NEW ps, IsFiniteSet(ps), NEW s, \A k \in Places(ps, s) : ~IsSplit(txns[k]),
         \A p \in ps : NeverShort(Holding(p, s)),
         NEW q, \A p \in ps : q[p] = Metrics(Holding(p, s)).qty
  PROVE  Metrics(OfSymbol(TradesIn(ps), s)).qty = SumFunctionOnSet(q, ps)
<1>1. PICK a, h : a = OfSymbol(TradesIn(ps), s) /\ Picks(h, a, txns, Places(ps, s), DayOf)
  BY HoldingPicks
<1>2. /\ InOrder(a) /\ AreDeals(a) /\ Adjusted(a) = a
      /\ \A k \in Nat : k <= Len(a) =>
           /\ IsFiniteSet(FirstOf(h, k)) /\ FirstOf(h, k) \subseteq Places(ps, s)
           /\ \A i \in FirstOf(h, k) : ChangeAt[i] \in Int
           /\ SumFunctionOnSet(ChangeIn(a), 1..k) = SumFunctionOnSet(ChangeAt, FirstOf(h, k))
  BY <1>1, FirstAdd
<1>3. PICK n \in Nat : n = Len(a) /\ DOMAIN a = 1..n
  BY <1>2 DEF AreDeals
<1>4. PICK port : port = [k \in DOMAIN txns |-> txns[k].portfolio]
  OBVIOUS
<1>5. ASSUME NEW k \in Nat, k <= n, NEW p \in ps
      PROVE  /\ SumFunctionOnSet(ChangeAt, PartOf(FirstOf(h, k), p)) \in Nat
             /\ k = n => SumFunctionOnSet(ChangeAt, PartOf(FirstOf(h, k), p)) = q[p]
  <2>1. PICK b, g : b = OfSymbol(TradesIn({p}), s) /\ Picks(g, b, txns, Places({p}, s), DayOf)
    BY HoldingPicks
  <2>2. \A i \in Places({p}, s) : ~IsSplit(txns[i])
    BY DEF Places
  <2>3. /\ InOrder(b) /\ AreDeals(b) /\ Adjusted(b) = b
        /\ \A j \in Nat : j <= Len(b) =>
             /\ IsFiniteSet(FirstOf(g, j)) /\ \A i \in FirstOf(g, j) : ChangeAt[i] \in Int
             /\ SumFunctionOnSet(ChangeIn(b), 1..j) = SumFunctionOnSet(ChangeAt, FirstOf(g, j))
    <3>1. PICK Z : Z = {p}
      OBVIOUS
    <3>2. b = OfSymbol(TradesIn(Z), s) /\ Picks(g, b, txns, Places(Z, s), DayOf)
      BY <2>1, <3>1
    <3>3. \A i \in Places(Z, s) : ~IsSplit(txns[i])
      BY <2>2, <3>1
    <3>. QED
      BY ONLY VInv, <3>2, <3>3, FirstAdd
  <2>4. b = Holding(p, s)
    BY <2>1 DEF Holding
  <2>5. NoneShort(b) /\ Metrics(b).qty = SumFunctionOnSet(ChangeIn(b), 1..Len(b))
    BY <2>3, <2>4, QtyIs
  <2>6. PICK D, P : D = PartOf(FirstOf(h, k), p) /\ P = Places({p}, s)
    OBVIOUS
  <2>7. /\ \E m \in Nat : m <= Len(b) /\ D = FirstOf(g, m)
        /\ k = Len(a) => D = FirstOf(g, Len(b))
    <3>1. Picks(h, a, txns, Places(ps, s), DayOf)
      BY <1>1
    <3>2. Picks(g, b, txns, P, DayOf) /\ P = Places({p}, s)
      BY <2>1, <2>6
    <3>3. k <= Len(a)
      BY <1>3, <1>5
    <3>4. D = PartOf(FirstOf(h, k), p)
      BY <2>6
    <3>. QED
      BY ONLY VInv, p \in ps, k \in Nat, <3>1, <3>2, <3>3, <3>4, PartFirst
  <2>8. k = n => D = FirstOf(g, Len(b))
    BY <1>3, <2>7
  <2>9. PICK m \in Nat : m <= Len(b) /\ D = FirstOf(g, m)
    BY <2>7
  <2>10. SumFunctionOnSet(ChangeAt, D) \in Int
    <3>1. IsFiniteSet(D) /\ \A i \in D : ChangeAt[i] \in Int
      BY <2>3, <2>9
    <3>. QED
      BY <3>1, SumStep
  <2>11. SumFunctionOnSet(ChangeAt, D) >= 0
    <3>1. CASE m = 0
      <4>1. D = {}
        BY <2>9, <3>1 DEF FirstOf
      <4>2. IsFiniteSet({}) /\ \A x \in {} : ChangeAt[x] \in Int
        BY FS_EmptySet
      <4>3. SumFunctionOnSet(ChangeAt, {}) = 0
        BY <4>2, SumStep
      <4>. QED
        BY <4>1, <4>3
    <3>2. CASE m # 0
      <4>1. m \in DOMAIN b
        BY <2>3, <2>9, <3>2 DEF AreDeals
      <4>2. SumFunctionOnSet(ChangeIn(b), 1..m) >= 0
        BY <2>5, <4>1 DEF NoneShort
      <4>. QED
        BY <2>3, <2>9, <4>2
    <3>. QED
      BY <3>1, <3>2
  <2>12. k = n => SumFunctionOnSet(ChangeAt, D) = q[p]
    <3>1. Len(b) \in Nat /\ Len(b) <= Len(b)
      BY <2>3 DEF AreDeals
    <3>. QED
      BY <2>3, <2>4, <2>5, <2>8, <3>1
  <2>. QED
    BY <2>6, <2>10, <2>11, <2>12
<1>6. ASSUME NEW k \in Nat, k <= n, NEW v, v = [p \in ps |-> SumFunctionOnSet(ChangeAt, PartOf(FirstOf(h, k), p))]
      PROVE  SumFunctionOnSet(ChangeIn(a), 1..k) = SumFunctionOnSet(v, ps)
  <2>1. PICK F, c : F = FirstOf(h, k) /\ c = ChangeAt
    OBVIOUS
  <2>2. /\ IsFiniteSet(F) /\ F \subseteq Places(ps, s)
        /\ SumFunctionOnSet(ChangeIn(a), 1..k) = SumFunctionOnSet(c, F)
    BY <1>2, <1>3, <1>6, <2>1
  <2>3. \A i \in F : c[i] \in Int
    BY <1>2, <1>3, <1>6, <2>1
  <2>4. \A i \in F : port[i] \in ps /\ port[i] = txns[i].portfolio
    BY <1>4, <2>2 DEF Places
  <2>5. \A p \in ps : v[p] = SumFunctionOnSet(c, WithKey(F, port, p))
    <3>1. SUFFICES ASSUME NEW p \in ps PROVE v[p] = SumFunctionOnSet(c, WithKey(F, port, p))
      OBVIOUS
    <3>2. WithKey(F, port, p) = PartOf(FirstOf(h, k), p)
      BY <2>1, <2>4 DEF WithKey, PartOf
    <3>. QED
      BY <1>6, <2>1, <3>2
  <2>6. \A i \in F : port[i] \in ps
    BY <2>4
  <2>7. SumFunctionOnSet(v, ps) = SumFunctionOnSet(c, F)
    BY ONLY IsFiniteSet(ps), <2>2, <2>3, <2>5, <2>6, SumPartition
  <2>. QED
    BY <2>2, <2>7
<1>7. NoneShort(a)
  <2>1. SUFFICES ASSUME NEW k \in DOMAIN a PROVE SumFunctionOnSet(ChangeIn(a), 1..k) >= 0
    BY DEF NoneShort
  <2>2. PICK v : v = [p \in ps |-> SumFunctionOnSet(ChangeAt, PartOf(FirstOf(h, k), p))]
    OBVIOUS
  <2>3. k \in Nat /\ k <= n
    BY <1>3
  <2>4. \A p \in ps : v[p] \in Nat
    BY <1>5, <2>2, <2>3
  <2>5. SumFunctionOnSet(v, ps) \in Nat
    BY <2>4, SumNatural
  <2>. QED
    BY <1>6, <2>2, <2>3, <2>5
<1>8. Metrics(a).qty = SumFunctionOnSet(ChangeIn(a), 1..n)
  BY <1>2, <1>3, <1>7, QtyIs
<1>9. SumFunctionOnSet(ChangeIn(a), 1..n) = SumFunctionOnSet(q, ps)
  <2>1. PICK v : v = [p \in ps |-> SumFunctionOnSet(ChangeAt, PartOf(FirstOf(h, n), p))]
    OBVIOUS
  <2>2. n \in Nat /\ n <= n
    OBVIOUS
  <2>3. \A p \in ps : v[p] = q[p] /\ v[p] \in Nat
    BY <1>5, <2>1, <2>2
  <2>4. (\A p \in ps : v[p] \in Int) /\ (\A p \in ps : q[p] = v[p])
    BY <2>3
  <2>5. SumFunctionOnSet(q, ps) = SumFunctionOnSet(v, ps)
    BY <2>4, SumSame
  <2>. QED
    BY <1>6, <2>1, <2>2, <2>5
<1>. QED
  BY <1>1, <1>8, <1>9

\* A holding without trades.
LEMMA HoldsNothing ==
  ASSUME NEW ts, ts = <<>>
  PROVE  Metrics(ts).qty = 0
<1>1. InOrder(ts) /\ Range(ts) = {}
  BY DEF InOrder, Range
<1>2. Adjusted(ts) = ts
  BY <1>1, AdjustedIs
<1>3. NoneShort(ts) /\ Len(ts) = 0
  BY DEF NoneShort
<1>4. Metrics(ts).qty = SumFunctionOnSet(ChangeIn(ts), 1..0)
  BY <1>1, <1>2, <1>3, QtyIs
<1>5. 1..0 = {} /\ IsFiniteSet({}) /\ \A x \in {} : ChangeIn(ts)[x] \in Int
  BY FS_EmptySet
<1>6. SumFunctionOnSet(ChangeIn(ts), {}) = 0
  BY <1>5, SumStep
<1>. QED
  BY <1>4, <1>5, <1>6

\* Where one portfolio of a scope holds a stock, the scope holds it as this portfolio does.
LEMMA SoleHeld ==
  ASSUME VInv, NEW ps, IsFiniteSet(ps), NEW s, NEW p \in ps,
         \A r \in ps : r # p => Holding(r, s) = <<>>,
         NEW q, \A r \in ps : q[r] = Metrics(Holding(r, s)).qty
  PROVE  Metrics(OfSymbol(TradesIn(ps), s)).qty = SumFunctionOnSet(q, ps)
<1>1. \A r \in ps : r # p => Places({r}, s) = {}
  <2>1. SUFFICES ASSUME NEW r \in ps, r # p PROVE Places({r}, s) = {}
    OBVIOUS
  <2>2. PICK g : Picks(g, OfSymbol(TradesIn({r}), s), txns, Places({r}, s), DayOf)
    BY HoldingPicks
  <2>3. OfSymbol(TradesIn({r}), s) = <<>>
    BY <2>1 DEF Holding
  <2>. QED
    BY <2>2, <2>3 DEF Picks
<1>2. Places(ps, s) = Places({p}, s)
  <2>1. \A k \in Places(ps, s) : k \in Places({txns[k].portfolio}, s) /\ txns[k].portfolio \in ps
    BY DEF Places
  <2>2. \A k \in Places({p}, s) : k \in Places(ps, s)
    BY DEF Places
  <2>. QED
    BY <1>1, <2>1, <2>2
<1>3. OfSymbol(TradesIn(ps), s) = Holding(p, s)
  BY <1>2, HoldingPicks DEF Holding
<1>4. \A r \in ps : q[r] \in Int
  <2>1. \A r \in ps : InOrder(Holding(r, s))
    BY HoldingTrades DEF Holding
  <2>. QED
    BY <2>1, QtyIs
<1>5. PICK R : R = ps \ {p}
  OBVIOUS
<1>6. IsFiniteSet(R)
  BY <1>5, FS_Subset
<1>7. \A r \in R : q[r] = 0
  BY <1>5, HoldsNothing
<1>8. SumFunctionOnSet(q, R) = 0
  <2>1. SumFunctionOnSet(q, R) = 0 * Cardinality(R)
    BY <1>6, <1>7, SumConstant
  <2>2. Cardinality(R) \in Nat
    BY <1>6, FS_CardinalityType
  <2>. QED
    BY <2>1, <2>2
<1>9. SumFunctionOnSet(q, ps) = q[p] + SumFunctionOnSet(q, R)
  BY <1>4, <1>5, SumTakeOut
<1>10. q[p] \in Int /\ q[p] = Metrics(Holding(p, s)).qty
  BY <1>4
<1>. QED
  BY <1>3, <1>8, <1>9, <1>10

\* The portfolios of a scope hold together what each of them holds, unless a split that one
\* has recorded scales the trades of another.
LEMMA TogetherHeld ==
  ASSUME VInv, NEW ps, IsFiniteSet(ps), ~SplitsShared(ps), NEW s,
         \A p \in ps : NeverShort(Holding(p, s)),
         NEW q, \A p \in ps : q[p] = Metrics(Holding(p, s)).qty
  PROVE  Metrics(OfSymbol(TradesIn(ps), s)).qty = SumFunctionOnSet(q, ps)
<1>1. CASE \A k \in Places(ps, s) : ~IsSplit(txns[k])
  BY <1>1, MergedHeld
<1>2. CASE \E k \in Places(ps, s) : IsSplit(txns[k])
  <2>1. PICK k \in Places(ps, s) : IsSplit(txns[k])
    BY <1>2
  <2>2. PICK t, p : t = txns[k] /\ p = t.portfolio
    OBVIOUS
  <2>3. p \in ps /\ t.sym = s /\ t \in Range(txns) /\ IsSplit(t)
    BY <2>1, <2>2 DEF Places, Range
  <2>4. t \in Range(TradesIn({p}))
    <3>1. Range(TradesIn({p})) = {x \in Range(txns) : x.portfolio \in {p}}
      BY ValueShape, TradesInAre
    <3>. QED
      BY <2>2, <2>3, <3>1
  <2>5. \A r \in ps : r # p => s \notin SymbolsOf(TradesIn({r}))
    BY <2>3, <2>4 DEF SplitsShared
  <2>6. \A r \in ps : r # p => Holding(r, s) = <<>>
    BY <2>5, HoldingTrades DEF Holding
  <2>. QED
    BY <2>3, <2>6, SoleHeld
<1>. QED
  BY <1>1, <1>2

-----------------------------------------------------------------------------
(* Sums of sums.                                                           *)

\* Multiplying every term multiplies the sum.
LEMMA SumScaled ==
  ASSUME NEW S, IsFiniteSet(S), NEW f, \A x \in S : f[x] \in Int, NEW c \in Int,
         NEW g, \A x \in S : g[x] = f[x] * c
  PROVE  SumFunctionOnSet(g, S) = SumFunctionOnSet(f, S) * c
<1>. DEFINE T == {U \in SUBSET S : /\ SumFunctionOnSet(f, U) \in Int
                                   /\ SumFunctionOnSet(g, U) = SumFunctionOnSet(f, U) * c}
<1>0. (\A x \in S : g[x] \in Int) /\ (\A x \in S : f[x] \in Int)
  OBVIOUS
<1>1. {} \in T
  <2>1. SumFunctionOnSet(f, {}) = 0
    BY <1>0, SumStep
  <2>2. SumFunctionOnSet(g, {}) = 0
    BY <1>0, SumStep
  <2>. QED
    BY <2>1, <2>2
<1>2. ASSUME NEW U \in SUBSET S, U # {}, \A V \in SUBSET U : V # U => V \in T
      PROVE  U \in T
  <2>1. PICK x \in U : TRUE
    BY <1>2
  <2>2. SumFunctionOnSet(f, U) = f[x] + SumFunctionOnSet(f, U \ {x})
    BY <1>0, <2>1, SumTakeOut
  <2>3. SumFunctionOnSet(g, U) = g[x] + SumFunctionOnSet(g, U \ {x})
    BY <1>0, <2>1, SumTakeOut
  <2>4. U \ {x} \in T
    BY <1>2, <2>1
  <2>5. PICK a, b : a = f[x] /\ b = SumFunctionOnSet(f, U \ {x})
    OBVIOUS
  <2>6. a \in Int /\ b \in Int /\ g[x] = a * c /\ SumFunctionOnSet(g, U \ {x}) = b * c
    BY <2>1, <2>4, <2>5
  <2>7. a * c + b * c = (a + b) * c /\ a + b \in Int
    BY <2>6
  <2>. QED
    BY <2>2, <2>3, <2>5, <2>6, <2>7
<1>3. \A U \in SUBSET S : U \in T
  <2>. HIDE DEF T
  <2>. QED
    BY <1>1, <1>2, SubsetInduction
<1>. QED
  BY <1>3

\* The sum of two terms at a time.
LEMMA SumPlus ==
  ASSUME NEW S, IsFiniteSet(S), NEW f, \A x \in S : f[x] \in Int, NEW h, \A x \in S : h[x] \in Int,
         NEW g, \A x \in S : g[x] = f[x] + h[x]
  PROVE  SumFunctionOnSet(g, S) = SumFunctionOnSet(f, S) + SumFunctionOnSet(h, S)
<1>. DEFINE T == {U \in SUBSET S :
                    /\ SumFunctionOnSet(f, U) \in Int /\ SumFunctionOnSet(h, U) \in Int
                    /\ SumFunctionOnSet(g, U) = SumFunctionOnSet(f, U) + SumFunctionOnSet(h, U)}
<1>0. (\A x \in S : g[x] \in Int) /\ (\A x \in S : f[x] \in Int) /\ (\A x \in S : h[x] \in Int)
  OBVIOUS
<1>1. {} \in T
  <2>1. SumFunctionOnSet(f, {}) = 0
    BY <1>0, SumStep
  <2>2. SumFunctionOnSet(g, {}) = 0
    BY <1>0, SumStep
  <2>3. SumFunctionOnSet(h, {}) = 0
    BY <1>0, SumStep
  <2>. QED
    BY <2>1, <2>2, <2>3
<1>2. ASSUME NEW U \in SUBSET S, U # {}, \A V \in SUBSET U : V # U => V \in T
      PROVE  U \in T
  <2>1. PICK x \in U : TRUE
    BY <1>2
  <2>2. SumFunctionOnSet(f, U) = f[x] + SumFunctionOnSet(f, U \ {x})
    BY <1>0, <2>1, SumTakeOut
  <2>3. SumFunctionOnSet(g, U) = g[x] + SumFunctionOnSet(g, U \ {x})
    BY <1>0, <2>1, SumTakeOut
  <2>4. SumFunctionOnSet(h, U) = h[x] + SumFunctionOnSet(h, U \ {x})
    BY <1>0, <2>1, SumTakeOut
  <2>5. U \ {x} \in T
    BY <1>2, <2>1
  <2>6. g[x] = f[x] + h[x] /\ f[x] \in Int /\ h[x] \in Int
    BY <2>1
  <2>. QED
    BY <2>2, <2>3, <2>4, <2>5, <2>6
<1>3. \A U \in SUBSET S : U \in T
  <2>. HIDE DEF T
  <2>. QED
    BY <1>1, <1>2, SubsetInduction
<1>. QED
  BY <1>3

\* A table summed up by its rows, and by its columns.
LEMMA SumSwap ==
  ASSUME NEW A, IsFiniteSet(A), NEW B, IsFiniteSet(B),
         NEW m, \A a \in A, b \in B : m[a][b] \in Int,
         NEW n, \A a \in A, b \in B : n[b][a] = m[a][b],
         NEW f, \A a \in A : f[a] = SumFunctionOnSet(m[a], B),
         NEW g, \A b \in B : g[b] = SumFunctionOnSet(n[b], A)
  PROVE  SumFunctionOnSet(f, A) = SumFunctionOnSet(g, B)
<1>1. PICK S, v, row, col : /\ S = A \X B /\ v = [z \in S |-> m[z[1]][z[2]]]
                            /\ row = [z \in S |-> z[1]] /\ col = [z \in S |-> z[2]]
  OBVIOUS
<1>2. IsFiniteSet(S)
  BY <1>1, FS_Product
<1>3. \A z \in S : v[z] \in Int /\ row[z] \in A /\ col[z] \in B
  BY <1>1
<1>4. \A a \in A : f[a] = SumFunctionOnSet(v, WithKey(S, row, a))
  <2>1. SUFFICES ASSUME NEW a \in A PROVE f[a] = SumFunctionOnSet(v, WithKey(S, row, a))
    OBVIOUS
  <2>2. PICK c, u, T : c = [b \in B |-> <<a, b>>] /\ u = m[a] /\ T = WithKey(S, row, a)
    OBVIOUS
  <2>3. T = {c[b] : b \in B}
    BY <1>1, <2>2 DEF WithKey
  <2>4. \A x, y \in B : c[x] = c[y] => x = y
    BY <2>2
  <2>5. \A b \in B : v[c[b]] = u[b]
    BY <1>1, <2>2
  <2>6. \A b \in B : u[b] \in Int
    BY <2>2
  <2>7. SumFunctionOnSet(v, T) = SumFunctionOnSet(u, B)
    BY ONLY IsFiniteSet(B), <2>3, <2>4, <2>5, <2>6, SumRenamed
  <2>. QED
    BY <2>2, <2>7
<1>5. \A b \in B : g[b] = SumFunctionOnSet(v, WithKey(S, col, b))
  <2>1. SUFFICES ASSUME NEW b \in B PROVE g[b] = SumFunctionOnSet(v, WithKey(S, col, b))
    OBVIOUS
  <2>2. PICK c, u, T : c = [a \in A |-> <<a, b>>] /\ u = n[b] /\ T = WithKey(S, col, b)
    OBVIOUS
  <2>3. T = {c[a] : a \in A}
    BY <1>1, <2>2 DEF WithKey
  <2>4. \A x, y \in A : c[x] = c[y] => x = y
    BY <2>2
  <2>5. \A a \in A : v[c[a]] = u[a]
    BY <1>1, <2>2
  <2>6. \A a \in A : u[a] \in Int
    BY <2>2
  <2>7. SumFunctionOnSet(v, T) = SumFunctionOnSet(u, A)
    BY ONLY IsFiniteSet(A), <2>3, <2>4, <2>5, <2>6, SumRenamed
  <2>. QED
    BY <2>2, <2>7
<1>6. (\A z \in S : v[z] \in Int) /\ (\A z \in S : row[z] \in A) /\ (\A z \in S : col[z] \in B)
  BY <1>3
<1>7. SumFunctionOnSet(f, A) = SumFunctionOnSet(v, S)
  BY ONLY IsFiniteSet(A), <1>2, <1>4, <1>6, SumPartition
<1>8. SumFunctionOnSet(g, B) = SumFunctionOnSet(v, S)
  BY ONLY IsFiniteSet(B), <1>2, <1>5, <1>6, SumPartition
<1>. QED
  BY <1>7, <1>8

\* Items without a value add nothing.
LEMMA SumOfPart ==
  ASSUME NEW X, IsFiniteSet(X), NEW w, \A x \in X : w[x] \in Int,
         NEW P \in SUBSET X, \A x \in X : x \notin P => w[x] = 0
  PROVE  SumFunctionOnSet(w, X) = SumFunctionOnSet(w, P) /\ IsFiniteSet(P)
<1>1. IsFiniteSet(P)
  BY FS_Subset
<1>2. \A x \in P : w[x] \in Int
  OBVIOUS
<1>3. PICK R : R = X \ P
  OBVIOUS
<1>4. IsFiniteSet(R) /\ (\A x \in R : w[x] = 0)
  BY <1>3, FS_Subset
<1>5. SumFunctionOnSet(w, R) = 0
  <2>1. SumFunctionOnSet(w, R) = 0 * Cardinality(R)
    BY <1>4, SumConstant
  <2>2. Cardinality(R) \in Nat
    BY <1>4, FS_CardinalityType
  <2>. QED
    BY <2>1, <2>2
<1>6. P \cap R = {} /\ P \cup R = X /\ \A x \in P \cup R : w[x] \in Int
  BY <1>3
<1>7. SumFunctionOnSet(w, P \cup R) = SumFunctionOnSet(w, P) + SumFunctionOnSet(w, R)
  BY ONLY <1>1, <1>4, <1>6, SumUnion
<1>8. SumFunctionOnSet(w, P) \in Int
  BY <1>1, <1>2, SumStep
<1>9. SumFunctionOnSet(w, X) = SumFunctionOnSet(w, P) + SumFunctionOnSet(w, R)
  BY <1>6, <1>7
<1>. QED
  BY <1>1, <1>5, <1>8, <1>9

-----------------------------------------------------------------------------
(* The stocks of a scope.                                                  *)

\* The first trade of a holding is the first one of a portfolio in it.
LEMMA FirstOfScope ==
  ASSUME VInv, NEW ps, NEW s \in SymbolsOf(TradesIn(ps))
  PROVE  \E p \in ps : /\ s \in SymbolsOf(TradesIn({p}))
                       /\ BaseCurrency(OfSymbol(TradesIn(ps), s)) = BaseCurrency(Holding(p, s))
<1>1. PICK a, h : a = OfSymbol(TradesIn(ps), s) /\ Picks(h, a, txns, Places(ps, s), DayOf)
  BY HoldingPicks
<1>2. PICK n \in Nat : /\ n = Len(a) /\ DOMAIN a = 1..n
                       /\ \A i \in 1..n : h[i] \in Places(ps, s) /\ a[i] = txns[h[i]]
                       /\ \A x \in Places(ps, s) : \E i \in 1..n : h[i] = x
                       /\ \A i, j \in 1..n : i < j <=> Precedes(DayOf, h[i], h[j])
  <2>1. Picks(h, a, txns, Places(ps, s), DayOf)
    BY <1>1
  <2>. QED
    BY ONLY <2>1 DEF Picks
<1>3. a # <<>> /\ InOrder(a)
  BY <1>1, HoldingTrades
<1>4. n >= 1
  <2>1. SUFFICES ASSUME DOMAIN a = {} PROVE FALSE
    BY <1>2
  <2>2. Range(a) = {}
    BY <2>1 DEF Range
  <2>. QED
    BY <1>3, <2>2, InOrderIs
<1>5. PICK x, p : x = h[1] /\ p = txns[x].portfolio
  OBVIOUS
<1>6. x \in Places(ps, s) /\ a[1] = txns[x] /\ p \in ps
  BY <1>2, <1>4, <1>5 DEF Places
<1>7. PICK Z, P, b, g : /\ Z = {p} /\ P = Places(Z, s) /\ b = OfSymbol(TradesIn(Z), s)
                        /\ Picks(g, b, txns, P, DayOf)
  <2>1. PICK Z : Z = {p}
    OBVIOUS
  <2>2. \E g : Picks(g, OfSymbol(TradesIn(Z), s), txns, Places(Z, s), DayOf)
    BY HoldingPicks
  <2>. QED
    BY <2>1, <2>2
<1>8. PICK l \in Nat : /\ l = Len(b) /\ DOMAIN b = 1..l
                       /\ \A i \in 1..l : g[i] \in P /\ b[i] = txns[g[i]]
                       /\ \A y \in P : \E i \in 1..l : g[i] = y
                       /\ \A i, j \in 1..l : i < j <=> Precedes(DayOf, g[i], g[j])
  <2>1. Picks(g, b, txns, P, DayOf)
    BY <1>7
  <2>. QED
    BY ONLY <2>1 DEF Picks
<1>9. x \in P /\ \A y \in P : y \in Places(ps, s)
  BY <1>5, <1>6, <1>7 DEF Places
<1>10. PICK j \in 1..l : g[j] = x
  BY <1>8, <1>9
<1>11. j = 1
  <2>1. SUFFICES ASSUME j # 1 PROVE FALSE
    OBVIOUS
  <2>2. 1 \in 1..l /\ 1 < j
    BY <1>10, <2>1
  <2>3. PICK i \in 1..n : g[1] = h[i]
    BY <1>2, <1>8, <1>9, <2>2
  <2>4. Precedes(DayOf, h[i], h[1])
    BY <1>5, <1>8, <1>10, <2>2, <2>3
  <2>5. i < 1
    BY <1>2, <1>4, <2>3, <2>4
  <2>. QED
    BY <2>3, <2>5
<1>12. b # <<>> /\ b[1] = a[1] /\ b = Holding(p, s)
  <2>1. 1 \in DOMAIN b
    BY <1>8, <1>10, <1>11
  <2>2. b # <<>>
    BY <2>1
  <2>. QED
    BY <1>6, <1>7, <1>8, <1>10, <1>11, <2>2 DEF Holding
<1>13. s \in SymbolsOf(TradesIn({p}))
  BY <1>7, <1>12, HoldingTrades
<1>. QED
  BY <1>1, <1>3, <1>6, <1>12, <1>13 DEF BaseCurrency

\* The stocks of a scope are held by its portfolios, and kept in the display currency when
\* each of these keeps them in it.
LEMMA KeptTogether ==
  ASSUME VInv, NEW ps, \A p \in ps : KeptInDisplay(p)
  PROVE  \A s \in StocksIn(TradesIn(ps)) : BaseCurrency(OfSymbol(TradesIn(ps), s)) = Display
<1>1. SUFFICES ASSUME NEW s \in StocksIn(TradesIn(ps))
               PROVE  BaseCurrency(OfSymbol(TradesIn(ps), s)) = Display
  OBVIOUS
<1>2. s \in SymbolsOf(TradesIn(ps)) /\ s \in Range(Stocks)
  BY DEF StocksIn
<1>3. PICK p \in ps : /\ s \in SymbolsOf(TradesIn({p}))
                      /\ BaseCurrency(OfSymbol(TradesIn(ps), s)) = BaseCurrency(Holding(p, s))
  BY <1>2, FirstOfScope
<1>4. s \in StocksIn(TradesIn({p}))
  BY <1>2, <1>3 DEF StocksIn
<1>. QED
  BY <1>3, <1>4 DEF KeptInDisplay, Holding

\* What is traded in a portfolio of a scope is traded in the scope.
LEMMA TradedInScope ==
  ASSUME VInv, NEW ps, NEW p \in ps
  PROVE  /\ SymbolsOf(TradesIn({p})) \subseteq SymbolsOf(TradesIn(ps))
         /\ StocksIn(TradesIn({p})) \subseteq StocksIn(TradesIn(ps))
         /\ FundsIn(TradesIn({p})) \subseteq FundsIn(TradesIn(ps))
<1>1. txns \in Seq(Trades)
  BY ValueShape
<1>2. Range(TradesIn(ps)) = {t \in Range(txns) : t.portfolio \in ps}
  BY <1>1, TradesInAre
<1>3. Range(TradesIn({p})) = {t \in Range(txns) : t.portfolio \in {p}}
  BY <1>1, TradesInAre
<1>4. SymbolsOf(TradesIn({p})) \subseteq SymbolsOf(TradesIn(ps))
  BY <1>2, <1>3 DEF SymbolsOf
<1>. QED
  BY <1>4 DEF StocksIn, FundsIn

\* What a share of a stock is worth in the display currency, nothing when it is not known.
ShownPrice(s) ==
  IF prices[s] = <<>> \/ ResolvedPrice(s, Display) = Missing THEN 0 ELSE ResolvedPrice(s, Display)

\* The row of a stock kept in the display currency.
LEMMA StockWorth ==
  ASSUME VInv, NEW ps, NEW ts, ts = TradesIn(ps), NEW s \in StocksIn(ts),
         BaseCurrency(OfSymbol(ts, s)) = Display, NEW h, h = Item(ts, s)
  PROVE  /\ ShownPrice(s) \in Nat /\ h.value \in Nat
         /\ h.value = Metrics(OfSymbol(ts, s)).qty * ShownPrice(s)
         /\ h.of = s /\ h.kind = "STOCK" /\ h.qty = Metrics(OfSymbol(ts, s)).qty
         /\ h.value > 0 => h.qty > 0 /\ h.status # "closed"
<1>1. PICK q, r, price : /\ q = Metrics(OfSymbol(ts, s)).qty /\ r = ResolvedPrice(s, Display)
                         /\ price = PriceToday(ts, s)
  OBVIOUS
<1>2. /\ prices[s] = <<>> => price = 0 /\ r = Missing
      /\ prices[s] # <<>> => price = r /\ price \in Nat \cup {Missing}
  BY <1>1, SamePrice
<1>3. h.of = s /\ q \in Nat /\ h.value = IF price = Missing THEN 0 ELSE q * price
  BY <1>1, RowIs
<1>4. Missing # 0 /\ Missing \notin Nat
  BY DEF Missing
<1>5. ShownPrice(s) = IF prices[s] = <<>> \/ r = Missing THEN 0 ELSE r
  BY <1>1 DEF ShownPrice
<1>6. PICK c : c = ShownPrice(s)
  OBVIOUS
<1>7. c \in Nat /\ h.value = q * c
  <2>1. q * 0 = 0
    BY <1>3
  <2>2. CASE prices[s] = <<>>
    BY <1>2, <1>3, <1>4, <1>5, <1>6, <2>1, <2>2
  <2>3. CASE prices[s] # <<>> /\ r = Missing
    BY <1>2, <1>3, <1>4, <1>5, <1>6, <2>1, <2>3
  <2>4. CASE prices[s] # <<>> /\ r # Missing
    BY <1>2, <1>3, <1>4, <1>5, <1>6, <2>4
  <2>. QED
    BY <2>2, <2>3, <2>4
<1>8. \A x, y \in Nat : x * y \in Nat /\ (x * y > 0 => x > 0)
  <2>1. \A x, y \in Nat : x * y \in Nat
    OBVIOUS
  <2>2. \A y \in Nat : 0 * y = 0
    OBVIOUS
  <2>3. \A x, y \in Nat : x * y > 0 => x # 0
    BY <2>2
  <2>. QED
    BY <2>1, <2>3
<1>9. h.value \in Nat /\ (h.value > 0 => q > 0)
  BY <1>3, <1>7, <1>8
<1>10. s \notin Range(Funds)
  <2>1. InOrder(ts)
    BY HoldingTrades
  <2>. QED
    BY <2>1, SymbolsFinite
<1>11. /\ h.kind = "STOCK" /\ h.qty = q
       /\ h.status = HoldingStatus(q, Oversold(OfSymbol(ts, s)))
  <2>1. h = HoldingRow(s, CurrencyOf(s, ts), Metrics(OfSymbol(ts, s)),
                       ResolvedPrice(s, CurrencyOf(s, ts)), Oversold(OfSymbol(ts, s)))
    BY DEF Item
  <2>. QED
    BY <1>1, <1>10, <2>1 DEF HoldingRow
<1>12. q > 0 => h.status # "closed"
  BY <1>3, <1>11 DEF HoldingStatus
<1>. QED
  BY <1>1, <1>3, <1>6, <1>7, <1>9, <1>11, <1>12

\* The stocks of one portfolio add up to its total.
LEMMA StocksOfOne ==
  ASSUME VInv, Idle, NEW p \in Portfolios, NEW ts, ts = TradesIn({p}),
         \A s \in StocksIn(ts) : BaseCurrency(OfSymbol(ts, s)) = Display,
         NEW w, \A s \in StocksIn(ts) : w[s] = Metrics(OfSymbol(ts, s)).qty * ShownPrice(s)
  PROVE  StockTotals(ts).value = SumFunctionOnSet(w, StocksIn(ts)) /\ StockTotals(ts).value \in Int
<1>1. PICK S, row, T, value : /\ S = StocksIn(ts) /\ row = [s \in S |-> Item(ts, s)]
                              /\ T = {row[s] : s \in S} /\ value = [h \in T |-> h.value]
  OBVIOUS
<1>2. PICK Z : Z = {p}
  OBVIOUS
<1>3. \A s \in S : row[s].value = w[s] /\ row[s].of = s /\ w[s] \in Nat
  <2>1. SUFFICES ASSUME NEW s \in S PROVE row[s].value = w[s] /\ row[s].of = s /\ w[s] \in Nat
    OBVIOUS
  <2>2. PICK h : h = Item(ts, s)
    OBVIOUS
  <2>3. ts = TradesIn(Z) /\ s \in StocksIn(ts) /\ BaseCurrency(OfSymbol(ts, s)) = Display
    BY <1>1, <1>2
  <2>4. /\ h.value \in Nat /\ h.of = s
        /\ h.value = Metrics(OfSymbol(ts, s)).qty * ShownPrice(s)
    BY ONLY VInv, <2>2, <2>3, StockWorth
  <2>. QED
    BY <1>1, <2>2, <2>4
<1>4. IsFiniteSet(S)
  <2>1. InOrder(TradesIn(Z))
    BY HoldingTrades
  <2>. QED
    BY <1>1, <1>2, <2>1, SymbolsFinite
<1>5. SumFunctionOnSet(value, T) = SumFunctionOnSet(w, S) /\ IsFiniteSet(T)
  <2>1. \A x \in S : w[x] \in Int
    BY <1>3
  <2>2. \A x, y \in S : row[x] = row[y] => x = y
    BY <1>3
  <2>3. \A x \in S : value[row[x]] = w[x]
    <3>1. \A x \in S : row[x] \in T /\ row[x].value = w[x]
      BY <1>1, <1>3
    <3>2. \A h \in T : value[h] = h.value
      BY <1>1
    <3>. QED
      BY <3>1, <3>2
  <2>4. T = {row[x] : x \in S}
    BY <1>1
  <2>. QED
    BY ONLY <1>4, <2>1, <2>2, <2>3, <2>4, SumRenamed
<1>6. Total(LAMBDA h : h.value, T) = SumFunctionOnSet(value, T)
  <2>1. value = [r \in T |-> value[r]]
    BY <1>1
  <2>3. \A r \in T : value[r] \in Int
    <3>1. \A r \in T : \E x \in S : r = row[x]
      BY <1>1
    <3>2. \A r \in T : value[r] = r.value
      BY <1>1
    <3>3. \A x \in S : row[x].value \in Int
      BY <1>3
    <3>. QED
      BY <3>1, <3>2, <3>3
  <2>2. SumFunction(value) = SumFunctionOnSet(value, T)
    BY <1>5, <2>1, <2>3, TotalIs
  <2>. QED
    BY <1>1, <2>2 DEF Total
<1>7. Total(LAMBDA h : h.value, T) = StockTotals(ts).value
  <2>1. HoldingsAddUp
    BY AddUpStep
  <2>2. T = {Item(ts, s) : s \in StocksIn(ts)}
    BY <1>1
  <2>. QED
    BY <2>1, <2>2 DEF HoldingsAddUp, AddUp
<1>8. SumFunctionOnSet(w, S) \in Int
  <2>1. \A x \in S : w[x] \in Int
    BY <1>3
  <2>. QED
    BY <1>4, <2>1, SumStep
<1>. QED
  BY <1>1, <1>5, <1>6, <1>7, <1>8

\* A portfolio that sells none of the symbols short, and what its stocks are worth.
NotShort(p, ts) == \A s \in SymbolsOf(ts) : NeverShort(Holding(p, s))
OwnStocks(p) == StockTotals(TradesIn({p})).value

\* What the portfolios of a scope hold in stocks, one after the other, is what their trades
\* taken together hold.
LEMMA StocksOfScope ==
  ASSUME VInv, Idle, NEW ps \in SUBSET Portfolios, \A p \in ps : KeptInDisplay(p),
         ~SplitsShared(ps), NEW ts, ts = TradesIn(ps),
         \A p \in ps : NotShort(p, ts),
         NEW g, \A p \in ps : g[p] = OwnStocks(p),
         NEW w, \A s \in StocksIn(ts) : w[s] = Item(ts, s).value
  PROVE  /\ SumFunctionOnSet(g, ps) = SumFunctionOnSet(w, StocksIn(ts))
         /\ \A p \in ps : g[p] \in Int
<1>1. PICK X, m, n : /\ X = StocksIn(ts)
                     /\ m = [p \in ps |-> [s \in X |-> Metrics(Holding(p, s)).qty * ShownPrice(s)]]
                     /\ n = [s \in X |-> [p \in ps |-> Metrics(Holding(p, s)).qty * ShownPrice(s)]]
  OBVIOUS
<1>2. IsFiniteSet(ps) /\ IsFiniteSet(X)
  <2>1. IsFiniteSet(ps)
    BY WealthAssumption, FS_Subset DEF WealthAssumption
  <2>2. InOrder(ts)
    BY HoldingTrades
  <2>. QED
    BY <1>1, <2>1, <2>2, SymbolsFinite
<1>3. \A p \in ps, s \in X : Metrics(Holding(p, s)).qty \in Nat
  <2>1. \A p \in ps, s \in X : InOrder(Holding(p, s))
    BY HoldingTrades DEF Holding
  <2>. QED
    BY <2>1, QtyIs
<1>4. \A s \in X : /\ ShownPrice(s) \in Nat /\ Item(ts, s).value \in Nat
                   /\ Item(ts, s).value = Metrics(OfSymbol(ts, s)).qty * ShownPrice(s)
  <2>1. \A s \in X : BaseCurrency(OfSymbol(ts, s)) = Display
    BY <1>1, KeptTogether
  <2>. QED
    BY <1>1, <2>1, StockWorth
<1>5. \A p \in ps, s \in X : m[p][s] \in Nat /\ n[s][p] = m[p][s]
  <2>1. \A a, b \in Nat : a * b \in Nat
    OBVIOUS
  <2>. QED
    BY <1>1, <1>3, <1>4, <2>1
<1>6. ASSUME NEW p \in ps
      PROVE  g[p] = SumFunctionOnSet(m[p], X) /\ g[p] \in Int
  <2>1. PICK own, Y, u : own = TradesIn({p}) /\ Y = StocksIn(own) /\ u = m[p]
    OBVIOUS
  <2>2. Y \in SUBSET X
    BY <1>1, <2>1, TradedInScope
  <2>3. \A s \in X : u[s] = Metrics(OfSymbol(own, s)).qty * ShownPrice(s) /\ u[s] \in Int
    BY <1>1, <1>5, <2>1 DEF Holding
  <2>4. \A s \in X : s \notin Y => u[s] = 0
    <3>1. SUFFICES ASSUME NEW s \in X, s \notin Y PROVE u[s] = 0
      OBVIOUS
    <3>2. s \notin SymbolsOf(own)
      BY <1>1, <2>1, <3>1 DEF StocksIn
    <3>3. OfSymbol(own, s) = <<>>
      BY <2>1, <3>2, HoldingTrades
    <3>4. Metrics(OfSymbol(own, s)).qty = 0 /\ ShownPrice(s) \in Nat
      BY <1>4, <3>3, HoldsNothing
    <3>. QED
      BY <2>3, <3>4
  <2>5. SumFunctionOnSet(u, X) = SumFunctionOnSet(u, Y)
    <3>1. \A s \in X : u[s] \in Int
      BY <2>3
    <3>. QED
      BY ONLY <1>2, <2>2, <2>4, <3>1, SumOfPart
  <2>6. StockTotals(own).value = SumFunctionOnSet(u, Y) /\ StockTotals(own).value \in Int
    <3>1. \A s \in StocksIn(own) : BaseCurrency(OfSymbol(own, s)) = Display
      BY <2>1 DEF KeptInDisplay
    <3>2. \A s \in StocksIn(own) : u[s] = Metrics(OfSymbol(own, s)).qty * ShownPrice(s)
      BY <2>1, <2>2, <2>3
    <3>3. p \in Portfolios /\ own = TradesIn({p})
      BY <2>1
    <3>4. StockTotals(own).value = SumFunctionOnSet(u, StocksIn(own)) /\ StockTotals(own).value \in Int
      BY ONLY VInv, Idle, <3>1, <3>2, <3>3, StocksOfOne
    <3>. QED
      BY <2>1, <3>4
  <2>. QED
    BY <2>1, <2>5, <2>6 DEF OwnStocks
<1>7. ASSUME NEW s \in X
      PROVE  w[s] = SumFunctionOnSet(n[s], ps)
  <2>1. PICK q, c, v : q = [p \in ps |-> Metrics(Holding(p, s)).qty] /\ c = ShownPrice(s) /\ v = n[s]
    OBVIOUS
  <2>2. (\A p \in ps : q[p] \in Int) /\ c \in Int /\ (\A p \in ps : v[p] = q[p] * c)
    BY <1>1, <1>3, <1>4, <2>1
  <2>3. SumFunctionOnSet(v, ps) = SumFunctionOnSet(q, ps) * c
    BY ONLY <1>2, <2>2, SumScaled
  <2>4. Metrics(OfSymbol(ts, s)).qty = SumFunctionOnSet(q, ps)
    <3>1. \A p \in ps : NeverShort(Holding(p, s))
      BY <1>1 DEF StocksIn, NotShort
    <3>2. \A p \in ps : q[p] = Metrics(Holding(p, s)).qty
      BY <2>1
    <3>3. Metrics(OfSymbol(TradesIn(ps), s)).qty = SumFunctionOnSet(q, ps)
      BY ONLY VInv, ~SplitsShared(ps), <1>2, <3>1, <3>2, TogetherHeld
    <3>. QED
      BY <3>3
  <2>. QED
    BY <1>1, <1>4, <2>1, <2>3, <2>4
<1>8. SumFunctionOnSet(g, ps) = SumFunctionOnSet(w, X)
  <2>1. (\A p \in ps, s \in X : m[p][s] \in Int) /\ (\A p \in ps, s \in X : n[s][p] = m[p][s])
    BY <1>5
  <2>2. (\A p \in ps : g[p] = SumFunctionOnSet(m[p], X)) /\ (\A s \in X : w[s] = SumFunctionOnSet(n[s], ps))
    BY <1>6, <1>7
  <2>. QED
    BY ONLY <1>2, <2>1, <2>2, SumSwap
<1>. QED
  BY <1>1, <1>6, <1>8

\* The rows that are worth something.
Worthy(rows) == {h \in rows : h.value > 0}

\* The rows of the stocks.
StockItems(ts) == {Item(ts, s) : s \in StocksIn(ts)}

\* The rows of the stocks that are worth something add up to those of all stocks.
LEMMA StockRows ==
  ASSUME VInv, NEW ps, NEW ts, ts = TradesIn(ps),
         \A s \in StocksIn(ts) : BaseCurrency(OfSymbol(ts, s)) = Display,
         NEW T, T = Worthy(StockItems(ts)),
         NEW value, \A h \in T : value[h] = h.value,
         NEW w, \A s \in StocksIn(ts) : w[s] = Item(ts, s).value
  PROVE  /\ SumFunctionOnSet(value, T) = SumFunctionOnSet(w, StocksIn(ts)) /\ IsFiniteSet(T)
         /\ \A h \in T : h.kind = "STOCK" /\ h.qty > 0 /\ h.status # "closed" /\ h.value \in Int
<1>0. T = {h \in {Item(ts, s) : s \in StocksIn(ts)} : h.value > 0}
  BY DEF Worthy, StockItems
<1>1. PICK X, row, P : /\ X = StocksIn(ts) /\ row = [s \in X |-> Item(ts, s)]
                       /\ P = {s \in X : Item(ts, s).value > 0}
  OBVIOUS
<1>2. \A s \in X : /\ Item(ts, s).value \in Nat /\ Item(ts, s).of = s /\ Item(ts, s).kind = "STOCK"
                   /\ Item(ts, s).value > 0 => Item(ts, s).qty > 0 /\ Item(ts, s).status # "closed"
  BY <1>1, StockWorth
<1>3. IsFiniteSet(X)
  <2>1. InOrder(ts)
    BY HoldingTrades
  <2>. QED
    BY <1>1, <2>1, SymbolsFinite
<1>4. T = {row[s] : s \in P}
  BY <1>0, <1>1
<1>5. SumFunctionOnSet(value, T) = SumFunctionOnSet(w, X) /\ IsFiniteSet(T)
  <2>1. \A s \in X : w[s] \in Int
    BY <1>1, <1>2
  <2>2. P \in SUBSET X
    BY <1>1
  <2>3. \A s \in X : s \notin P => w[s] = 0
    BY <1>1, <1>2
  <2>4. \A x, y \in P : row[x] = row[y] => x = y
    BY <1>1, <1>2
  <2>5. \A x \in P : value[row[x]] = w[x]
    <3>1. SUFFICES ASSUME NEW x \in P PROVE value[row[x]] = w[x]
      OBVIOUS
    <3>2. row[x] \in T /\ row[x] = Item(ts, x) /\ w[x] = Item(ts, x).value
      BY <1>1, <1>4
    <3>. QED
      BY <3>2
  <2>6. \A x \in P : w[x] \in Int
    BY <2>1, <2>2
  <2>7. SumFunctionOnSet(w, X) = SumFunctionOnSet(w, P) /\ IsFiniteSet(P)
    BY ONLY <1>3, <2>1, <2>2, <2>3, SumOfPart
  <2>8. SumFunctionOnSet(value, T) = SumFunctionOnSet(w, P) /\ IsFiniteSet(T)
    BY ONLY <1>4, <2>4, <2>5, <2>6, <2>7, SumRenamed
  <2>. QED
    BY <2>7, <2>8
<1>6. \A h \in T : h.kind = "STOCK" /\ h.qty > 0 /\ h.status # "closed" /\ h.value \in Int
  <2>1. SUFFICES ASSUME NEW h \in T
                 PROVE  h.kind = "STOCK" /\ h.qty > 0 /\ h.status # "closed" /\ h.value \in Int
    OBVIOUS
  <2>2. PICK s \in X : h = Item(ts, s) /\ h.value > 0
    BY <1>0, <1>1
  <2>. QED
    BY <1>2, <2>2
<1>. QED
  BY <1>1, <1>5, <1>6

-----------------------------------------------------------------------------
(* Deposits and accounts.                                                  *)

\* What an amount of a deposit or an account is worth today.
WorthToday(i, n) ==
  LET found == Lookup(rates, i.ccy, Display, today, today)
  IN  IF n > 0 /\ found.day # 0 THEN Converted(n, i.ccy, Display, found) ELSE 0

\* A row shows this worth.
LEMMA WorthIs ==
  ASSUME VInv, NEW i, i.ccy \in Currencies, NEW n \in Int, NEW v, v = WorthToday(i, n),
         NEW kind, NEW h, h = Row(kind, i, n)
  PROVE  /\ v \in Nat /\ h.kind = kind /\ h.of = i.name
         /\ v > 0 => h.value = v /\ h.status # "closed"
         /\ h.value > 0 => v > 0
<1>1. PICK found, worth : /\ found = Lookup(rates, i.ccy, Display, today, today)
                          /\ worth = Converted(n, i.ccy, Display, found)
  OBVIOUS
<1>2. found.day \in Days \cup {0}
  <2>1. today \in Days /\ today \in Int
    BY ValueShape
  <2>. QED
    BY <1>1, <2>1, LookupIs
<1>3. Display \in Currencies
  BY FxAssumption DEF FxAssumption
<1>4. n > 0 => worth \in Nat \cup {Missing} /\ (worth = Missing <=> found.day = 0)
  <2>1. n > 0 => n \in Nat
    OBVIOUS
  <2>. QED
    BY <1>1, <1>2, <1>3, <2>1, ConvertedIs
<1>5. Missing \notin Nat
  BY DEF Missing
<1>6. v = IF n > 0 /\ found.day # 0 THEN worth ELSE 0
  BY <1>1 DEF WorthToday
<1>7. h = DebtRow(kind, i, n, worth)
  BY <1>1 DEF Row
<1>8. /\ h.kind = kind /\ h.of = i.name
      /\ h.value = IF n <= 0 THEN n ELSE IF worth = Missing THEN 0 ELSE worth
      /\ h.status = IF n <= 0 THEN "closed" ELSE "ok"
  BY <1>7 DEF DebtRow
<1>9. CASE n > 0 /\ found.day # 0
  BY <1>4, <1>5, <1>6, <1>8, <1>9
<1>10. CASE n > 0 /\ found.day = 0
  BY <1>4, <1>6, <1>8, <1>10
<1>11. CASE ~(n > 0)
  BY <1>6, <1>8, <1>11
<1>. QED
  BY <1>9, <1>10, <1>11

\* The amounts that are held and have a rate, converted: the terms of Worths.
WorthsOf(items, m) ==
  LET held == {i \in items : m[i] > 0}
      found == [i \in held |-> Lookup(rates, i.ccy, Display, today, today)]
  IN  [i \in {j \in held : found[j].day # 0} |-> Converted(m[i], i.ccy, Display, found[i])]

\* The sum of the amounts that are held and have a rate is the sum of what all are worth.
LEMMA WorthsAdd ==
  ASSUME VInv, NEW items, IsFiniteSet(items), \A i \in items : i.ccy \in Currencies,
         NEW m, \A i \in items : m[i] \in Int, NEW v, \A i \in items : v[i] = WorthToday(i, m[i])
  PROVE  /\ SumFunction(WorthsOf(items, m)) = SumFunctionOnSet(v, items) /\ SumFunctionOnSet(v, items) \in Int
         /\ \A i \in items : v[i] \in Nat
<1>1. \A i \in items : v[i] \in Nat
  <2>1. SUFFICES ASSUME NEW i \in items PROVE v[i] \in Nat
    OBVIOUS
  <2>2. PICK n, x, r : n = m[i] /\ x = WorthToday(i, n) /\ r = Row("", i, n)
    OBVIOUS
  <2>3. n \in Int /\ i.ccy \in Currencies
    BY <2>2
  <2>4. x \in Nat
    BY ONLY VInv, <2>2, <2>3, WorthIs
  <2>. QED
    BY <2>2, <2>4
<1>2. PICK H, found : /\ H = {i \in items : m[i] > 0}
                      /\ found = [i \in H |-> Lookup(rates, i.ccy, Display, today, today)]
  OBVIOUS
<1>3. PICK K, h : /\ K = {i \in H : found[i].day # 0}
                  /\ h = [i \in K |-> Converted(m[i], i.ccy, Display, found[i])]
  OBVIOUS
<1>4. h = WorthsOf(items, m)
  BY <1>2, <1>3 DEF WorthsOf
<1>5. \A i \in K : i \in items /\ v[i] = Converted(m[i], i.ccy, Display, found[i])
  BY <1>2, <1>3 DEF WorthToday
<1>6. \A i \in items : i \notin K => v[i] = 0
  BY <1>2, <1>3 DEF WorthToday
<1>7. (\A i \in items : v[i] \in Int) /\ K \in SUBSET items
  BY <1>1, <1>2, <1>3
<1>8. SumFunctionOnSet(v, items) = SumFunctionOnSet(v, K) /\ IsFiniteSet(K)
  BY ONLY IsFiniteSet(items), <1>6, <1>7, SumOfPart
<1>9. h = [i \in K |-> v[i]]
  BY <1>5, <1>3
<1>10. SumFunction(h) = SumFunctionOnSet(v, K)
  <2>1. \A i \in K : v[i] \in Int
    BY <1>5, <1>7
  <2>. QED
    BY <1>8, <1>9, <2>1, TotalIs
<1>11. SumFunctionOnSet(v, items) \in Int
  BY <1>7, SumStep
<1>. QED
  BY <1>1, <1>8, <1>10, <1>11, <1>4

\* The rows of what is held in one currency each.
RowsOfKind(kind, items, m) == {Row(kind, i, m[i]) : i \in items}

\* The rows that are worth something add up to what all are worth.
LEMMA WorthRows ==
  ASSUME VInv, NEW items, IsFiniteSet(items), \A i \in items : i.ccy \in Currencies,
         \A i, j \in items : i.name = j.name => i = j,
         NEW m, \A i \in items : m[i] \in Int, NEW v, \A i \in items : v[i] = WorthToday(i, m[i]),
         NEW kind, NEW T, T = Worthy(RowsOfKind(kind, items, m)),
         NEW value, \A h \in T : value[h] = h.value
  PROVE  /\ SumFunctionOnSet(value, T) = SumFunctionOnSet(v, items) /\ IsFiniteSet(T)
         /\ \A h \in T : h.kind = kind /\ h.status # "closed" /\ h.value \in Int
<1>0. T = {h \in {Row(kind, i, m[i]) : i \in items} : h.value > 0}
  BY DEF Worthy, RowsOfKind
<1>1. PICK row, P : /\ row = [i \in items |-> Row(kind, i, m[i])]
                    /\ P = {i \in items : row[i].value > 0}
  OBVIOUS
<1>2. \A i \in items : /\ v[i] \in Nat /\ row[i].kind = kind /\ row[i].of = i.name
                       /\ v[i] > 0 => row[i].value = v[i] /\ row[i].status # "closed"
                       /\ row[i].value > 0 => v[i] > 0
  <2>1. SUFFICES ASSUME NEW i \in items
                 PROVE  /\ v[i] \in Nat /\ row[i].kind = kind /\ row[i].of = i.name
                        /\ v[i] > 0 => row[i].value = v[i] /\ row[i].status # "closed"
                        /\ row[i].value > 0 => v[i] > 0
    OBVIOUS
  <2>2. PICK n, x, r : n = m[i] /\ x = WorthToday(i, n) /\ r = Row(kind, i, n)
    OBVIOUS
  <2>3. n \in Int /\ i.ccy \in Currencies
    BY <2>2
  <2>4. /\ x \in Nat /\ r.kind = kind /\ r.of = i.name
        /\ x > 0 => r.value = x /\ r.status # "closed"
        /\ r.value > 0 => x > 0
    BY ONLY VInv, <2>2, <2>3, WorthIs
  <2>5. row[i] = r /\ v[i] = x
    BY <1>1, <2>2
  <2>. QED
    BY <2>4, <2>5
<1>3. T = {row[i] : i \in P}
  BY <1>0, <1>1
<1>4. SumFunctionOnSet(value, T) = SumFunctionOnSet(v, items) /\ IsFiniteSet(T)
  <2>1. \A i \in items : v[i] \in Int
    BY <1>2
  <2>2. P \in SUBSET items
    BY <1>1
  <2>3. \A i \in items : i \notin P => v[i] = 0
    <3>1. \A i \in items : ~(v[i] > 0) => v[i] = 0
      BY <1>2
    <3>. QED
      BY <1>1, <1>2, <3>1
  <2>4. \A x, y \in P : row[x] = row[y] => x = y
    BY <1>2, <2>2
  <2>5. \A x \in P : value[row[x]] = v[x]
    <3>1. SUFFICES ASSUME NEW x \in P PROVE value[row[x]] = v[x]
      OBVIOUS
    <3>2. row[x] \in T /\ row[x].value > 0 /\ x \in items
      BY <1>1, <1>3
    <3>. QED
      BY <1>2, <3>2
  <2>6. \A x \in P : v[x] \in Int
    BY <2>1, <2>2
  <2>7. SumFunctionOnSet(v, items) = SumFunctionOnSet(v, P) /\ IsFiniteSet(P)
    BY ONLY IsFiniteSet(items), <2>1, <2>2, <2>3, SumOfPart
  <2>8. SumFunctionOnSet(value, T) = SumFunctionOnSet(v, P) /\ IsFiniteSet(T)
    BY ONLY <1>3, <2>4, <2>5, <2>6, <2>7, SumRenamed
  <2>. QED
    BY <2>7, <2>8
<1>5. \A h \in T : h.kind = kind /\ h.status # "closed" /\ h.value \in Int
  <2>1. SUFFICES ASSUME NEW h \in T PROVE h.kind = kind /\ h.status # "closed" /\ h.value \in Int
    OBVIOUS
  <2>2. PICK i \in items : h = row[i] /\ h.value > 0
    BY <1>0, <1>1
  <2>. QED
    BY <1>2, <2>2
<1>. QED
  BY <1>4, <1>5

\* A deposit counts with its principal until it is settled.
Principal(fd) == IF IsSettled(fd) THEN 0 ELSE fd.principal

\* The deposits of a scope and what they are worth today.
LEMMA DepositsAre ==
  ASSUME VInv, NEW ps, NEW X, X = OnRecord(ps),
         NEW v, \A fd \in X : v[fd] = WorthToday(fd, Principal(fd))
  PROVE  /\ IsFiniteSet(X) /\ \A fd \in X : fd.ccy \in Currencies /\ Principal(fd) \in Int
         /\ \A fd \in X : v[fd] \in Nat
         /\ DepositTotals(ps, Display).value = SumFunctionOnSet(v, X)
         /\ SumFunctionOnSet(v, X) \in Int
<1>1. X \in SUBSET Deposits
  BY DEF OnRecord
<1>2. IsFiniteSet(X)
  <2>1. IsFiniteSet(Deposits)
    BY WealthAssumption DEF WealthAssumption
  <2>. QED
    BY <1>1, <2>1, FS_Subset
<1>3. \A fd \in X : fd.ccy \in Currencies /\ fd.principal \in Nat
  <2>1. \A fd \in Deposits : fd.ccy \in Currencies /\ fd.principal \in Nat
    BY WealthAssumption DEF WealthAssumption
  <2>. QED
    BY <1>1, <2>1
<1>4. \A fd \in X : Principal(fd) \in Int
  BY <1>3 DEF Principal
<1>5. PICK m, H, items : /\ m = [fd \in X |-> Principal(fd)] /\ H = {fd \in X : m[fd] > 0}
                         /\ items = {fd \in OnRecord(ps) : ~IsSettled(fd)}
  OBVIOUS
<1>6. H = {fd \in items : fd.principal > 0} /\ \A fd \in H : fd \in X /\ m[fd] = fd.principal
  <2>1. \A fd \in X : m[fd] = IF IsSettled(fd) THEN 0 ELSE fd.principal
    BY <1>5 DEF Principal
  <2>2. \A fd : fd \in items <=> fd \in X /\ ~IsSettled(fd)
    BY <1>5
  <2>3. \A fd : fd \in H <=> fd \in items /\ fd.principal > 0
    BY <1>5, <2>1, <2>2
  <2>. QED
    BY <2>1, <2>2, <2>3
<1>7. PICK found : found = [i \in H |-> Lookup(rates, i.ccy, Display, today, today)]
  OBVIOUS
<1>8. PICK K : K = {i \in H : found[i].day # 0}
  OBVIOUS
<1>9. PICK h : h = [i \in K |-> Converted(m[i], i.ccy, Display, found[i])]
  OBVIOUS
<1>10. /\ SumFunction(WorthsOf(X, m)) = SumFunctionOnSet(v, X) /\ SumFunctionOnSet(v, X) \in Int
       /\ \A i \in X : v[i] \in Nat
  <2>1. \A i \in X : i.ccy \in Currencies
    BY <1>3
  <2>2. \A i \in X : m[i] \in Int
    BY <1>4, <1>5
  <2>3. \A i \in X : v[i] = WorthToday(i, m[i])
    BY <1>5
  <2>. QED
    BY ONLY VInv, <1>2, <2>1, <2>2, <2>3, WorthsAdd
<1>11. h = [i \in K |-> Converted(i.principal, i.ccy, Display, found[i])] /\ h = WorthsOf(X, m)
  <2>1. h = [i \in K |-> Converted(i.principal, i.ccy, Display, found[i])]
    BY <1>6, <1>8, <1>9
  <2>2. h = WorthsOf(X, m)
    BY <1>5, <1>7, <1>8, <1>9 DEF WorthsOf
  <2>. QED
    BY <2>1, <2>2
<1>12. DepositTotals(ps, Display).value
         = Worths(items, LAMBDA fd : fd.principal, Display, today, today).value
  BY <1>5 DEF DepositTotals, AsTotals
<1>13. Worths(items, LAMBDA fd : fd.principal, Display, today, today).value
         = Total(LAMBDA i : Converted(i.principal, i.ccy, Display, found[i]), K)
  BY <1>6, <1>7, <1>8 DEF Worths
<1>14. DepositTotals(ps, Display).value = SumFunction(h)
  BY <1>11, <1>12, <1>13 DEF Total
<1>. QED
  BY <1>2, <1>3, <1>4, <1>10, <1>11, <1>14

\* The deposits of a scope are those of its portfolios.
LEMMA DepositsTogether ==
  ASSUME VInv, NEW ps, IsFiniteSet(ps),
         NEW g, \A p \in ps : g[p] = DepositTotals({p}, Display).value
  PROVE  SumFunctionOnSet(g, ps) = DepositTotals(ps, Display).value /\ \A p \in ps : g[p] \in Int
<1>1. PICK X, v, key : /\ X = OnRecord(ps) /\ v = [fd \in X |-> WorthToday(fd, Principal(fd))]
                       /\ key = [fd \in X |-> fd.portfolio]
  OBVIOUS
<1>2. /\ IsFiniteSet(X) /\ \A fd \in X : v[fd] \in Nat
      /\ DepositTotals(ps, Display).value = SumFunctionOnSet(v, X)
  <2>1. \A fd \in X : v[fd] = WorthToday(fd, Principal(fd))
    BY <1>1
  <2>2. X = OnRecord(ps)
    BY <1>1
  <2>. QED
    BY ONLY VInv, <2>1, <2>2, DepositsAre
<1>3. ASSUME NEW p \in ps
      PROVE  g[p] = SumFunctionOnSet(v, WithKey(X, key, p)) /\ g[p] \in Int
  <2>1. PICK Z, Y : Z = {p} /\ Y = OnRecord(Z)
    OBVIOUS
  <2>2. Y = WithKey(X, key, p) /\ \A fd \in Y : fd \in X
    BY <1>1, <2>1 DEF OnRecord, WithKey
  <2>3. \A fd \in Y : v[fd] = WorthToday(fd, Principal(fd))
    BY <1>1, <2>2
  <2>4. DepositTotals(Z, Display).value = SumFunctionOnSet(v, Y) /\ SumFunctionOnSet(v, Y) \in Int
    BY ONLY VInv, <2>1, <2>3, DepositsAre
  <2>. QED
    BY <2>1, <2>2, <2>4
<1>4. \A fd \in X : key[fd] \in ps
  BY <1>1 DEF OnRecord
<1>5. (\A fd \in X : v[fd] \in Int) /\ \A p \in ps : g[p] = SumFunctionOnSet(v, WithKey(X, key, p))
  BY <1>2, <1>3
<1>6. SumFunctionOnSet(g, ps) = SumFunctionOnSet(v, X)
  BY ONLY IsFiniteSet(ps), <1>2, <1>4, <1>5, SumPartition
<1>. QED
  BY <1>2, <1>3, <1>6

\* What is on an account is a number.
LEMMA BalanceIs ==
  ASSUME NEW a \in Accounts
  PROVE  Balance(a, today) \in Int
<1>1. PICK K, c, h : /\ K = {r \in RowsOf(a) : r.day <= today}
                     /\ c = [r \in K |-> r.amount] /\ h = [r \in K |-> r.amount]
  OBVIOUS
<1>2. IsFiniteSet(a.rows) /\ \A r \in a.rows : r.amount \in Int
  BY WealthAssumption DEF WealthAssumption
<1>3. K \in SUBSET a.rows
  BY <1>1 DEF RowsOf
<1>4. IsFiniteSet(K) /\ \A r \in K : c[r] \in Int
  <2>1. IsFiniteSet(K)
    BY <1>2, <1>3, FS_Subset
  <2>. QED
    BY <1>1, <1>2, <1>3, <2>1
<1>5. h = [r \in K |-> c[r]]
  BY <1>1
<1>6. SumFunction(h) = SumFunctionOnSet(c, K)
  BY <1>4, <1>5, TotalIs
<1>7. SumFunctionOnSet(c, K) \in Int
  BY <1>4, SumStep
<1>8. Balance(a, today) = SumFunction(h)
  BY <1>1 DEF Balance, Total
<1>. QED
  BY <1>6, <1>7, <1>8

\* The accounts of a scope and what they are worth today.
LEMMA AccountsAre ==
  ASSUME VInv, NEW ps, NEW all, NEW X, X = Includable(ps, all),
         NEW v, \A a \in X : v[a] = WorthToday(a, Balance(a, today))
  PROVE  /\ IsFiniteSet(X) /\ \A a \in X : a.ccy \in Currencies /\ Balance(a, today) \in Int
         /\ BankTotals(ps, all, Display).value = SumFunctionOnSet(v, X)
         /\ SumFunctionOnSet(v, X) \in Int
<1>1. X \in SUBSET Accounts
  BY DEF Includable
<1>2. IsFiniteSet(X)
  <2>1. IsFiniteSet(Accounts)
    BY WealthAssumption DEF WealthAssumption
  <2>. QED
    BY <1>1, <2>1, FS_Subset
<1>3. \A a \in X : a.ccy \in Currencies /\ Balance(a, today) \in Int
  <2>1. \A a \in Accounts : a.ccy \in Currencies
    BY WealthAssumption DEF WealthAssumption
  <2>. QED
    BY <1>1, <2>1, BalanceIs
<1>4. PICK m, H : m = [a \in X |-> Balance(a, today)] /\ H = {a \in X : m[a] > 0}
  OBVIOUS
<1>5. PICK found : found = [i \in H |-> Lookup(rates, i.ccy, Display, today, today)]
  OBVIOUS
<1>6. PICK K : K = {i \in H : found[i].day # 0}
  OBVIOUS
<1>7. PICK h : h = [i \in K |-> Converted(m[i], i.ccy, Display, found[i])]
  OBVIOUS
<1>8. SumFunction(WorthsOf(X, m)) = SumFunctionOnSet(v, X) /\ SumFunctionOnSet(v, X) \in Int
  <2>1. \A i \in X : i.ccy \in Currencies
    BY <1>3
  <2>2. \A i \in X : m[i] \in Int
    BY <1>3, <1>4
  <2>3. \A i \in X : v[i] = WorthToday(i, m[i])
    BY <1>4
  <2>. QED
    BY ONLY VInv, <1>2, <2>1, <2>2, <2>3, WorthsAdd
<1>9. H = {a \in X : Balance(a, today) > 0}
  BY <1>4
<1>10. h = [i \in K |-> Converted(Balance(i, today), i.ccy, Display, found[i])] /\ h = WorthsOf(X, m)
  <2>1. h = [i \in K |-> Converted(Balance(i, today), i.ccy, Display, found[i])]
    BY <1>4, <1>6, <1>7
  <2>2. h = WorthsOf(X, m)
    BY <1>4, <1>5, <1>6, <1>7 DEF WorthsOf
  <2>. QED
    BY <2>1, <2>2
<1>11. BankTotals(ps, all, Display).value
         = Worths(X, LAMBDA a : Balance(a, today), Display, today, today).value
  BY DEF BankTotals, AsTotals
<1>12. Worths(X, LAMBDA a : Balance(a, today), Display, today, today).value
         = Total(LAMBDA i : Converted(Balance(i, today), i.ccy, Display, found[i]), K)
  BY <1>5, <1>6, <1>9 DEF Worths
<1>13. BankTotals(ps, all, Display).value = SumFunction(h)
  BY <1>10, <1>11, <1>12 DEF Total
<1>. QED
  BY <1>2, <1>3, <1>8, <1>10, <1>13

-----------------------------------------------------------------------------
(* Broker cash.                                                            *)

\* What settling a trade moves is a number.
LEMMA ReceivedIs ==
  ASSUME NEW t \in Trades
  PROVE  Received(t) \in Int
<1>1. t.qty \in Nat /\ t.price \in Nat
  BY TradeIs
<1>2. t.qty * t.price \in Int /\ -(t.qty * t.price) \in Int
  BY <1>1
<1>. QED
  BY <1>2 DEF Received

\* The broker cash of a portfolio in a currency is a number.
LEMMA CashIs ==
  ASSUME VInv, NEW p, NEW c
  PROVE  Cash(p, c, today) \in Int
<1>1. PICK ts, R, K : /\ ts = Settled(p)
                      /\ R = {r \in CashRows : r.portfolio = p /\ r.ccy = c /\ r.day <= Lesser(today, today)}
                      /\ K = {k \in DOMAIN ts : ts[k].day <= today /\ ts[k].ccy = c}
  OBVIOUS
<1>2. PICK paid, moved : paid = [r \in R |-> r.amount] /\ moved = [k \in K |-> Received(ts[k])]
  OBVIOUS
<1>3. SumFunction(paid) \in Int
  <2>1. IsFiniteSet(CashRows) /\ \A r \in CashRows : r.amount \in Int
    BY WealthAssumption DEF WealthAssumption
  <2>2. R \in SUBSET CashRows
    BY <1>1
  <2>3. IsFiniteSet(R) /\ \A r \in R : paid[r] \in Int
    <3>1. IsFiniteSet(R)
      BY <2>1, <2>2, FS_Subset
    <3>. QED
      BY <1>2, <2>1, <2>2, <3>1
  <2>4. paid = [r \in R |-> paid[r]]
    BY <1>2
  <2>5. SumFunction(paid) = SumFunctionOnSet(paid, R)
    BY <2>3, <2>4, TotalIs
  <2>6. SumFunctionOnSet(paid, R) \in Int
    BY <2>3, SumStep
  <2>. QED
    BY <2>5, <2>6
<1>4. SumFunction(moved) \in Int
  <2>1. InOrder(ts)
    <3>1. ts = TradesIn({p}) \/ ts = <<>>
      BY <1>1 DEF Settled
    <3>2. txns \in Seq(Trades)
      BY ValueShape
    <3>3. InOrder(TradesIn({p}))
      BY <3>2, TradesInAre
    <3>4. InOrder(<<>>)
      BY DEF InOrder, Range
    <3>. QED
      BY <3>1, <3>3, <3>4
  <2>2. Len(ts) \in Nat /\ DOMAIN ts = 1..Len(ts) /\ \A k \in DOMAIN ts : ts[k] \in Trades
    BY <2>1, InOrderIs
  <2>3. IsFiniteSet(DOMAIN ts) /\ K \in SUBSET DOMAIN ts
    <3>1. IsFiniteSet(1..Len(ts))
      BY <2>2, FS_Interval
    <3>. QED
      BY <1>1, <2>2, <3>1
  <2>4. IsFiniteSet(K) /\ \A k \in K : moved[k] \in Int
    <3>1. IsFiniteSet(K)
      BY <2>3, FS_Subset
    <3>2. \A k \in K : ts[k] \in Trades
      BY <2>2, <2>3
    <3>. QED
      BY <1>2, <3>1, <3>2, ReceivedIs
  <2>5. moved = [k \in K |-> moved[k]]
    BY <1>2
  <2>6. SumFunction(moved) = SumFunctionOnSet(moved, K)
    BY <2>4, <2>5, TotalIs
  <2>7. SumFunctionOnSet(moved, K) \in Int
    BY <2>4, SumStep
  <2>. QED
    BY <2>6, <2>7
<1>5. Cash(p, c, today) = SumFunction(paid) + SumFunction(moved)
  BY <1>1, <1>2 DEF Cash, Total
<1>. QED
  BY <1>3, <1>4, <1>5

\* The broker cash of a scope in a currency is a number.
LEMMA CashOfIs ==
  ASSUME VInv, NEW ps, IsFiniteSet(ps), NEW c
  PROVE  CashOf(ps, c, today) \in Int
<1>1. PICK h : h = [p \in ps |-> Cash(p, c, today)]
  OBVIOUS
<1>2. \A p \in ps : h[p] \in Int
  BY <1>1, CashIs
<1>3. h = [p \in ps |-> h[p]]
  BY <1>1
<1>4. SumFunction(h) = SumFunctionOnSet(h, ps)
  BY <1>2, <1>3, TotalIs
<1>5. SumFunctionOnSet(h, ps) \in Int
  BY <1>2, SumStep
<1>. QED
  BY <1>1, <1>4, <1>5 DEF CashOf, Total

\* The slice of a currency.
CashRow(ps, c) ==
  [kind |-> "CASH", of |-> c, ccy |-> Display,
   value |-> Converted(CashOf(ps, c, today), c, Display,
                       Lookup(rates, c, Display, today, today - FillDays))]

\* The slices of the cash add up to the cash of the summary.
LEMMA CashSlices ==
  ASSUME VInv, NEW ps, IsFiniteSet(ps), NEW T, T = CashAllocation(ps),
         NEW value, \A h \in T : value[h] = h.value
  PROVE  /\ SumFunctionOnSet(value, T) = CashToday(ps, Display).value /\ IsFiniteSet(T)
         /\ CashToday(ps, Display).value \in Int /\ \A h \in T : h.value \in Int
<1>1. PICK found, balance :
        /\ found = [c \in Currencies |-> Lookup(rates, c, Display, today, today - FillDays)]
        /\ balance = [c \in Currencies |-> CashOf(ps, c, today)]
  OBVIOUS
<1>2. PICK w, K, P : /\ K = {c \in Currencies : found[c].day # 0}
                     /\ P = {c \in Currencies : balance[c] # 0 /\ found[c].day # 0}
                     /\ w = [c \in Currencies |->
                               IF found[c].day # 0 THEN Converted(balance[c], c, Display, found[c]) ELSE 0]
  OBVIOUS
<1>3. PICK row, h : /\ row = [c \in Currencies |-> CashRow(ps, c)]
                    /\ h = [c \in K |-> Converted(balance[c], c, Display, found[c])]
  OBVIOUS
<1>4. IsFiniteSet(Currencies)
  <2>1. Alphabet \in Seq(Currencies) /\ Range(Alphabet) = Currencies
    BY MarketAssumption DEF MarketAssumption
  <2>2. PICK n \in Nat : DOMAIN Alphabet = 1..n
    BY <2>1
  <2>3. Currencies = {Alphabet[k] : k \in 1..n} /\ IsFiniteSet(1..n)
    BY <2>1, <2>2, FS_Interval DEF Range
  <2>. QED
    BY <2>3, ImageFinite
<1>5. \A c \in Currencies : /\ w[c] \in Int
                            /\ balance[c] = 0 => w[c] = 0
  <2>1. SUFFICES ASSUME NEW c \in Currencies
                 PROVE  w[c] \in Int /\ (balance[c] = 0 => w[c] = 0)
    OBVIOUS
  <2>2. PICK n, f : n = balance[c] /\ f = found[c]
    OBVIOUS
  <2>3. n \in Int
    BY <1>1, <2>2, CashOfIs
  <2>4. f.day \in Days \cup {0}
    <3>1. today \in Days /\ today \in Nat
      BY ValueShape
    <3>2. today - FillDays \in Int
      BY <3>1, FxAssumption DEF FxAssumption
    <3>. QED
      BY <1>1, <2>2, <3>1, <3>2, LookupIs
  <2>5. Display \in Currencies
    BY FxAssumption DEF FxAssumption
  <2>6. Converted(n, c, Display, f) \in Int /\ (f.day # 0 => Converted(0, c, Display, f) = 0)
    BY <2>3, <2>4, <2>5, ConvertedIs
  <2>7. w[c] = IF f.day # 0 THEN Converted(n, c, Display, f) ELSE 0
    BY <1>2, <2>2
  <2>. QED
    BY <2>2, <2>6, <2>7
<1>6. \A c \in Currencies : w[c] \in Int
  BY <1>5
<1>7. SumFunctionOnSet(w, Currencies) = SumFunctionOnSet(w, P) /\ IsFiniteSet(P)
  <2>1. P \in SUBSET Currencies
    BY <1>2
  <2>2. \A c \in Currencies : c \notin P => w[c] = 0
    BY <1>2, <1>5
  <2>. QED
    BY ONLY <1>4, <1>6, <2>1, <2>2, SumOfPart
<1>8. SumFunctionOnSet(w, Currencies) = SumFunctionOnSet(w, K) /\ IsFiniteSet(K)
  <2>1. K \in SUBSET Currencies
    BY <1>2
  <2>2. \A c \in Currencies : c \notin K => w[c] = 0
    BY <1>2
  <2>. QED
    BY ONLY <1>4, <1>6, <2>1, <2>2, SumOfPart
<1>9. T = {row[c] : c \in P} /\ \A c \in P : row[c].value = w[c] /\ row[c].of = c
  <2>1. \A c \in P : c \in Currencies /\ row[c] = CashRow(ps, c) /\ w[c] = Converted(balance[c], c, Display, found[c])
    BY <1>2, <1>3
  <2>2. \A c \in P : CashRow(ps, c).value = w[c] /\ CashRow(ps, c).of = c
    BY <1>1, <2>1 DEF CashRow
  <2>3. P = {x \in Currencies : CashOf(ps, x, today) # 0
                                /\ Lookup(rates, x, Display, today, today - FillDays).day # 0}
    BY <1>1, <1>2
  <2>4. T = {CashRow(ps, c) : c \in P}
    BY <2>3 DEF CashAllocation, CashRow
  <2>5. T = {row[c] : c \in P}
    BY <2>1, <2>4
  <2>. QED
    BY <2>1, <2>2, <2>5
<1>10. SumFunctionOnSet(value, T) = SumFunctionOnSet(w, P) /\ IsFiniteSet(T)
  <2>1. \A x, y \in P : row[x] = row[y] => x = y
    BY <1>9
  <2>2. \A x \in P : value[row[x]] = w[x]
    <3>1. \A x \in P : row[x] \in T /\ row[x].value = w[x]
      BY <1>9
    <3>. QED
      BY <3>1
  <2>3. (\A x \in P : w[x] \in Int) /\ T = {row[x] : x \in P}
    BY <1>2, <1>6, <1>9
  <2>. QED
    BY ONLY <1>7, <2>1, <2>2, <2>3, SumRenamed
<1>11. SumFunction(h) = SumFunctionOnSet(w, K)
  <2>1. \A c \in K : w[c] \in Int
    BY <1>2, <1>6
  <2>2. h = [c \in K |-> w[c]]
    BY <1>2, <1>3
  <2>. QED
    BY <1>8, <2>1, <2>2, TotalIs
<1>12. CashToday(ps, Display).value = SumFunction(h)
  <2>1. balance = Balances(ps, today)
    BY <1>1 DEF Balances
  <2>2. PICK held : CashToday(ps, Display) = CashWorth(balance, held, Display, today, today - FillDays)
    BY <2>1 DEF CashToday
  <2>3. CashWorth(balance, held, Display, today, today - FillDays).value
          = Total(LAMBDA c : Converted(balance[c], c, Display, found[c]), K)
    BY <1>1, <1>2 DEF CashWorth
  <2>. QED
    BY <1>3, <2>2, <2>3 DEF Total
<1>13. SumFunctionOnSet(w, Currencies) \in Int
  BY <1>4, <1>6, SumStep
<1>14. \A r \in T : r.value \in Int
  <2>1. \A r \in T : \E c \in P : r = row[c]
    BY <1>9
  <2>2. \A c \in P : row[c].value \in Int
    BY <1>2, <1>6, <1>9
  <2>. QED
    BY <2>1, <2>2
<1>. QED
  BY <1>7, <1>8, <1>10, <1>11, <1>12, <1>13, <1>14

\* The cash of the summary is a number.
LEMMA CashTodayIs ==
  ASSUME VInv, NEW ps, IsFiniteSet(ps)
  PROVE  CashToday(ps, Display).value \in Int
<1>1. PICK T, value : T = CashAllocation(ps) /\ value = [h \in T |-> h.value]
  OBVIOUS
<1>2. T = CashAllocation(ps) /\ \A h \in T : value[h] = h.value
  BY <1>1
<1>. QED
  BY ONLY VInv, IsFiniteSet(ps), <1>2, CashSlices

-----------------------------------------------------------------------------
(* The summary of a scope.                                                 *)

\* A portfolio without funds.
LEMMA FundsNothing ==
  ASSUME NEW ts, FundsIn(ts) = {}
  PROVE  FundTotals(ts).value = 0
<1>1. PICK metrics, nav, found : /\ FundTotals(ts) = FundSums(metrics, nav, found, BaseCurrency(ts))
                                 /\ DOMAIN metrics = {}
  <2>1. DOMAIN MetricsIn(ts, FundsIn(ts)) = {}
    BY DEF MetricsIn
  <2>. QED
    BY <2>1 DEF FundTotals
<1>2. PICK U : FundSums(metrics, nav, found, BaseCurrency(ts)).value
                 = Total(LAMBDA f : FundToBase(nav[f] * metrics[f].qty, BaseCurrency(ts), found[f]).amount,
                         DOMAIN metrics \ U)
  BY DEF FundSums
<1>3. PICK h : h = [f \in {} |-> FundToBase(nav[f] * metrics[f].qty, BaseCurrency(ts), found[f]).amount]
  OBVIOUS
<1>4. DOMAIN metrics \ U = {}
  BY <1>1
<1>5. FundTotals(ts).value = SumFunction(h)
  BY <1>1, <1>2, <1>3, <1>4 DEF Total
<1>6. DOMAIN h = {} /\ IsFiniteSet({}) /\ \A x \in {} : h[x] \in Int
  BY <1>3, FS_EmptySet
<1>7. SumFunction(h) = SumFunctionOnSet(h, {})
  BY <1>6, SumOfFunction
<1>8. SumFunctionOnSet(h, {}) = 0
  BY <1>6, SumStep
<1>. QED
  BY <1>5, <1>7, <1>8

\* A sum of one term.
LEMMA SumOne ==
  ASSUME NEW p, NEW f, f[p] \in Int
  PROVE  SumFunctionOnSet(f, {p}) = f[p]
<1>1. PICK S : S = {p}
  OBVIOUS
<1>2. IsFiniteSet(S) /\ \A x \in S : f[x] \in Int
  BY <1>1, FS_Singleton
<1>3. S \in SUBSET S /\ p \in S /\ S \ {p} = {}
  BY <1>1
<1>4. SumFunctionOnSet(f, S) = f[p] + SumFunctionOnSet(f, S \ {p})
  BY <1>2, <1>3, SumTakeOut
<1>5. SumFunctionOnSet(f, {}) = 0
  BY <1>2, SumStep
<1>. QED
  BY <1>1, <1>3, <1>4, <1>5

\* The summary of one portfolio that is kept in the display currency, as the sum of its
\* parts; in the scope of all its cash and its accounts are not among them.
LEMMA PartIs ==
  ASSUME VInv, Idle, NEW p \in Portfolios, KeptInDisplay(p), NEW ts, ts = TradesIn({p}), FundsIn(ts) = {},
         NEW own \in BOOLEAN, NEW kpi, kpi = SingleSummary(ts, p, own)
  PROVE  /\ StockTotals(ts).value \in Int /\ DepositTotals({p}, Display).value \in Int
         /\ BankTotals({p}, FALSE, Display).value \in Int /\ CashToday({p}, Display).value \in Int
         /\ own => kpi.value = StockTotals(ts).value + DepositTotals({p}, Display).value
                               + BankTotals({p}, FALSE, Display).value + CashToday({p}, Display).value
         /\ ~own => kpi.value = StockTotals(ts).value + DepositTotals({p}, Display).value
<1>1. PICK Z : Z = {p} /\ IsFiniteSet(Z)
  BY FS_Singleton
<1>2. PICK s, d, b, c : /\ s = StockTotals(ts).value /\ d = DepositTotals({p}, Display).value
                        /\ b = BankTotals({p}, FALSE, Display).value
                        /\ c = CashToday({p}, Display).value
  OBVIOUS
<1>3. s \in Int
  <2>1. PICK w : w = [x \in StocksIn(ts) |-> Metrics(OfSymbol(ts, x)).qty * ShownPrice(x)]
    OBVIOUS
  <2>2. \A x \in StocksIn(ts) : w[x] = Metrics(OfSymbol(ts, x)).qty * ShownPrice(x)
    BY <2>1
  <2>3. \A x \in StocksIn(ts) : BaseCurrency(OfSymbol(ts, x)) = Display
    BY DEF KeptInDisplay
  <2>4. p \in Portfolios /\ ts = TradesIn({p})
    OBVIOUS
  <2>5. StockTotals(ts).value \in Int
    BY ONLY VInv, Idle, <2>2, <2>3, <2>4, StocksOfOne
  <2>. QED
    BY <1>2, <2>5
<1>4. d \in Int
  <2>1. PICK X, v : X = OnRecord(Z) /\ v = [fd \in X |-> WorthToday(fd, Principal(fd))]
    OBVIOUS
  <2>2. \A fd \in X : v[fd] = WorthToday(fd, Principal(fd))
    BY <2>1
  <2>3. X = OnRecord(Z)
    BY <2>1
  <2>4. DepositTotals(Z, Display).value = SumFunctionOnSet(v, X) /\ SumFunctionOnSet(v, X) \in Int
    BY ONLY VInv, <2>2, <2>3, DepositsAre
  <2>. QED
    BY <1>1, <1>2, <2>4
<1>5. b \in Int
  <2>1. PICK X, v, all : /\ X = Includable(Z, all) /\ v = [a \in X |-> WorthToday(a, Balance(a, today))]
                         /\ all = FALSE
    OBVIOUS
  <2>2. \A a \in X : v[a] = WorthToday(a, Balance(a, today))
    BY <2>1
  <2>3. X = Includable(Z, all)
    BY <2>1
  <2>4. BankTotals(Z, all, Display).value = SumFunctionOnSet(v, X) /\ SumFunctionOnSet(v, X) \in Int
    BY ONLY VInv, <2>2, <2>3, AccountsAre
  <2>. QED
    BY <1>1, <1>2, <2>1, <2>4
<1>6. c \in Int
  <2>1. CashToday(Z, Display).value \in Int
    BY ONLY VInv, <1>1, CashTodayIs
  <2>. QED
    BY <1>1, <1>2, <2>1
<1>7. PICK totals, cash, found :
        /\ totals = WithDebtTotals(SecuritiesTotals(ts), p, own)
        /\ cash = (IF own THEN CashToday({p}, Display) ELSE NoCash)
        /\ found = LookupStored(rates, Display, Display, today)
  OBVIOUS
<1>8. kpi = InSummary(totals, cash, Display, found)
  BY <1>7 DEF SingleSummary, KeptInDisplay
<1>9. totals.value = s + d + (IF own THEN b ELSE 0)
  <2>1. SecuritiesTotals(ts).value = s
    <3>1. FundTotals(ts).value = 0
      BY FundsNothing
    <3>2. SecuritiesTotals(ts).value = StockTotals(ts).value + FundTotals(ts).value
      BY DEF SecuritiesTotals, Merged
    <3>. QED
      BY <1>2, <1>3, <3>1, <3>2
  <2>2. totals.value = SecuritiesTotals(ts).value + DepositTotals({p}, Display).value
                       + (IF own THEN BankTotals({p}, FALSE, Display) ELSE Nothing).value
    BY <1>7 DEF WithDebtTotals, Merged
  <2>3. Nothing.value = 0
    BY DEF Nothing
  <2>4. CASE own
    BY <1>2, <2>1, <2>2, <2>4
  <2>5. CASE ~own
    BY <1>2, <2>1, <2>2, <2>3, <2>5
  <2>. QED
    BY <2>4, <2>5
<1>10. cash.value = IF own THEN c ELSE 0
  BY <1>2, <1>7 DEF NoCash
<1>11. kpi.value = totals.value + cash.value
  <2>1. found.day \in Days
    <3>1. today \in Days /\ today \in Int
      BY ValueShape
    <3>2. found.day = today
      BY <1>7, <3>1, LookupIs DEF LookupStored
    <3>. QED
      BY <3>1, <3>2
  <2>2. 0 \notin Days
    BY FxAssumption DEF FxAssumption, Days
  <2>3. totals.value \in Int
    BY <1>3, <1>4, <1>5, <1>9
  <2>4. Display \in Currencies
    BY FxAssumption DEF FxAssumption
  <2>5. Converted(totals.value, Display, Display, found) = totals.value
    BY <2>1, <2>3, <2>4, ConvertedSame
  <2>6. kpi.value = (IF found.day = 0 THEN totals.value ELSE Converted(totals.value, Display, Display, found))
                    + cash.value
    BY <1>8 DEF InSummary
  <2>. QED
    BY <2>5, <2>6
<1>12. own => kpi.value = s + d + b + c
  BY <1>3, <1>4, <1>5, <1>6, <1>9, <1>10, <1>11
<1>13. ~own => kpi.value = s + d
  BY <1>3, <1>4, <1>9, <1>10, <1>11
<1>. QED
  BY <1>2, <1>3, <1>4, <1>5, <1>6, <1>12, <1>13

\* The deposits of one portfolio, and one without funds.
OwnDeposits(p) == DepositTotals({p}, Display).value
NoFunds(p) == FundsIn(TradesIn({p})) = {}

\* The summary of a scope whose portfolios are kept in the display currency.
LEMMA SummaryIs ==
  ASSUME VInv, Idle, NEW ps \in SUBSET Portfolios, IsFiniteSet(ps), NEW all \in BOOLEAN,
         all \/ \E p \in Portfolios : ps = {p},
         \A p \in ps : KeptInDisplay(p) /\ NoFunds(p),
         NEW g, \A p \in ps : g[p] = OwnStocks(p),
         NEW d, \A p \in ps : d[p] = OwnDeposits(p)
  PROVE  Summary(ps, all).value = SumFunctionOnSet(g, ps) + SumFunctionOnSet(d, ps)
                                  + BankTotals(ps, all, Display).value + CashToday(ps, Display).value
<1>1. ASSUME NEW p \in ps, NEW own \in BOOLEAN
      PROVE  /\ g[p] \in Int /\ d[p] \in Int
             /\ BankTotals({p}, FALSE, Display).value \in Int /\ CashToday({p}, Display).value \in Int
             /\ own => SingleSummary(TradesIn({p}), p, own).value
                         = g[p] + d[p] + BankTotals({p}, FALSE, Display).value + CashToday({p}, Display).value
             /\ ~own => SingleSummary(TradesIn({p}), p, own).value = g[p] + d[p]
  <2>1. PICK ts, kpi : ts = TradesIn({p}) /\ kpi = SingleSummary(ts, p, own)
    OBVIOUS
  <2>2. p \in Portfolios /\ KeptInDisplay(p) /\ FundsIn(ts) = {} /\ own \in BOOLEAN
    BY <2>1 DEF NoFunds
  <2>3. /\ StockTotals(ts).value \in Int /\ DepositTotals({p}, Display).value \in Int
        /\ BankTotals({p}, FALSE, Display).value \in Int /\ CashToday({p}, Display).value \in Int
        /\ own => kpi.value = StockTotals(ts).value + DepositTotals({p}, Display).value
                              + BankTotals({p}, FALSE, Display).value + CashToday({p}, Display).value
        /\ ~own => kpi.value = StockTotals(ts).value + DepositTotals({p}, Display).value
    BY ONLY VInv, Idle, <2>1, <2>2, PartIs
  <2>4. g[p] = StockTotals(ts).value /\ d[p] = DepositTotals({p}, Display).value
    BY <2>1 DEF OwnStocks, OwnDeposits
  <2>. QED
    BY <2>1, <2>3, <2>4
<1>2. CASE ~all
  <2>1. PICK p \in Portfolios : ps = {p}
    BY <1>2
  <2>2. Alone(ps) = p
    BY <2>1 DEF Alone
  <2>3. Summary(ps, all) = SingleSummary(TradesIn({p}), p, TRUE)
    BY <1>2, <2>1, <2>2 DEF Summary
  <2>4. /\ g[p] \in Int /\ d[p] \in Int
        /\ SingleSummary(TradesIn({p}), p, TRUE).value
             = g[p] + d[p] + BankTotals({p}, FALSE, Display).value + CashToday({p}, Display).value
    BY <1>1, <2>1
  <2>5. SumFunctionOnSet(g, {p}) = g[p] /\ SumFunctionOnSet(d, {p}) = d[p]
    BY <2>4, SumOne
  <2>6. all = FALSE
    BY <1>2
  <2>. QED
    BY <2>1, <2>3, <2>4, <2>5, <2>6
<1>3. CASE all
  <2>1. PICK part, c : /\ part = [p \in ps |-> SingleSummary(TradesIn({p}), p, FALSE)]
                       /\ c = [p \in ps |-> part[p].value]
    OBVIOUS
  <2>2. \A p \in ps : g[p] \in Int /\ d[p] \in Int /\ c[p] = g[p] + d[p]
    BY <1>1, <2>1
  <2>3. SumFunctionOnSet(c, ps) = SumFunctionOnSet(g, ps) + SumFunctionOnSet(d, ps)
    BY <2>2, SumPlus
  <2>4. SumFunction(c) = SumFunctionOnSet(c, ps)
    BY <2>1, SumOfFunction
  <2>5. Summary(ps, all).value = Total(LAMBDA p : part[p].value, ps)
                                 + CashToday(ps, Display).value + BankTotals(ps, TRUE, Display).value
    <3>1. DOMAIN part = ps
      BY <2>1
    <3>. QED
      BY <1>3, <2>1, <3>1 DEF Summary, AllSummary, AllSums
  <2>6. Total(LAMBDA p : part[p].value, ps) = SumFunction(c)
    BY <2>1 DEF Total
  <2>7. CashToday(ps, Display).value \in Int
    BY CashTodayIs
  <2>8. BankTotals(ps, all, Display).value \in Int
    <3>1. PICK X, v : X = Includable(ps, all) /\ v = [a \in X |-> WorthToday(a, Balance(a, today))]
      OBVIOUS
    <3>2. \A a \in X : v[a] = WorthToday(a, Balance(a, today))
      BY <3>1
    <3>3. X = Includable(ps, all)
      BY <3>1
    <3>4. BankTotals(ps, all, Display).value = SumFunctionOnSet(v, X) /\ SumFunctionOnSet(v, X) \in Int
      BY ONLY VInv, <3>2, <3>3, AccountsAre
    <3>. QED
      BY <3>4
  <2>9. SumFunctionOnSet(g, ps) \in Int /\ SumFunctionOnSet(d, ps) \in Int
    <3>1. (\A p \in ps : g[p] \in Int) /\ (\A p \in ps : d[p] \in Int)
      BY <2>2
    <3>2. SumFunctionOnSet(g, ps) \in Int
      BY <3>1, SumStep
    <3>3. SumFunctionOnSet(d, ps) \in Int
      BY <3>1, SumStep
    <3>. QED
      BY <3>2, <3>3
  <2>10. all = TRUE
    BY <1>3
  <2>11. PICK x, y, z, u : /\ x = SumFunctionOnSet(g, ps) /\ y = SumFunctionOnSet(d, ps)
                           /\ z = BankTotals(ps, all, Display).value /\ u = CashToday(ps, Display).value
    OBVIOUS
  <2>12. Summary(ps, all).value = (x + y) + u + z
    BY <2>3, <2>4, <2>5, <2>6, <2>10, <2>11
  <2>13. x \in Int /\ y \in Int /\ z \in Int /\ u \in Int
    BY <2>7, <2>8, <2>9, <2>11
  <2>. QED
    BY <2>11, <2>12, <2>13
<1>. QED
  BY <1>2, <1>3

-----------------------------------------------------------------------------
(* The buckets and the slices.                                             *)

\* The rows of a kind, of which those worth something are open.
Shows(rows, kind) ==
  \A h \in rows : h.kind = kind /\ (h.value > 0 => h.status # "closed")

\* The rows a bucket is made of.
InBucket(items, b) ==
  {h \in items : h.kind # "FIXED_DEPOSIT" /\ h.value > 0 /\ h.status # "closed" /\ BucketOf(h) = b}

\* The bucket of a row, where there are no funds.
LEMMA BucketIs ==
  ASSUME NEW h
  PROVE  /\ h.kind = "STOCK" => BucketOf(h) = "Equity"
         /\ h.kind = "BANK_CASH" => BucketOf(h) = "Cash"
<1>1. ASSUME h.kind = "STOCK"
      PROVE  BucketOf(h) = "Equity"
  BY <1>1 DEF BucketOf
<1>2. ASSUME h.kind = "BANK_CASH"
      PROVE  BucketOf(h) = "Cash"
  BY <1>2 DEF BucketOf
<1>. QED
  BY <1>1, <1>2

\* Stocks are equity and accounts are cash; deposits are in no bucket of rows.
LEMMA BucketRows ==
  ASSUME NEW S, Shows(S, "STOCK"), NEW D, Shows(D, "FIXED_DEPOSIT"), NEW B, Shows(B, "BANK_CASH"),
         NEW items, items = S \cup D \cup B
  PROVE  /\ InBucket(items, "Equity") = Worthy(S) /\ InBucket(items, "Cash") = Worthy(B)
         /\ InBucket(items, "Debt") = {} /\ InBucket(items, "Other") = {}
<1>1. \A h \in S : h.kind = "STOCK" /\ BucketOf(h) = "Equity" /\ (h.value > 0 => h.status # "closed")
  BY BucketIs DEF Shows
<1>2. \A h \in B : h.kind = "BANK_CASH" /\ BucketOf(h) = "Cash" /\ (h.value > 0 => h.status # "closed")
  BY BucketIs DEF Shows
<1>3. \A h \in D : h.kind = "FIXED_DEPOSIT"
  BY DEF Shows
<1>4. \A b : \A h : h \in InBucket(items, b) <=>
               h \in S \cup B /\ h.value > 0 /\ BucketOf(h) = b
  <2>1. SUFFICES ASSUME NEW b, NEW h
                 PROVE  h \in InBucket(items, b) <=> h \in S \cup B /\ h.value > 0 /\ BucketOf(h) = b
    OBVIOUS
  <2>2. h \in InBucket(items, b) <=> /\ h \in items /\ h.kind # "FIXED_DEPOSIT"
                                     /\ h.value > 0 /\ h.status # "closed" /\ BucketOf(h) = b
    BY DEF InBucket
  <2>3. CASE h \in S
    BY <1>1, <2>2, <2>3
  <2>4. CASE h \in B
    BY <1>2, <2>2, <2>4
  <2>5. CASE h \notin S /\ h \notin B
    BY <1>3, <2>2, <2>5
  <2>. QED
    BY <2>3, <2>4, <2>5
<1>5. \A h : h \in InBucket(items, "Equity") <=> h \in Worthy(S)
  BY <1>1, <1>2, <1>4 DEF Worthy
<1>6. \A h : h \in InBucket(items, "Cash") <=> h \in Worthy(B)
  BY <1>1, <1>2, <1>4 DEF Worthy
<1>7. \A h : h \notin InBucket(items, "Debt") /\ h \notin InBucket(items, "Other")
  BY <1>1, <1>2, <1>4
<1>. QED
  BY <1>5, <1>6, <1>7

\* The values of some rows, summed up by an operator of the model.
LEMMA ValuesAdd ==
  ASSUME NEW T, IsFiniteSet(T), NEW value, \A h \in T : value[h] = h.value /\ h.value \in Int
  PROVE  Total(LAMBDA h : h.value, T) = SumFunctionOnSet(value, T) /\ SumFunctionOnSet(value, T) \in Int
<1>1. PICK f : f = [h \in T |-> h.value]
  OBVIOUS
<1>2. f = [h \in T |-> value[h]]
  BY <1>1
<1>3. \A h \in T : value[h] \in Int
  OBVIOUS
<1>4. SumFunction(f) = SumFunctionOnSet(value, T)
  BY <1>2, <1>3, TotalIs
<1>5. SumFunctionOnSet(value, T) \in Int
  BY <1>3, SumStep
<1>. QED
  BY <1>1, <1>4, <1>5 DEF Total

\* The values of the rows of three kinds add up kind by kind.
LEMMA KindsAdd ==
  ASSUME NEW A, IsFiniteSet(A), NEW B, IsFiniteSet(B), NEW C, IsFiniteSet(C),
         A \cap B = {}, A \cap C = {}, B \cap C = {},
         NEW value, \A h \in A \cup B \cup C : value[h] \in Int
  PROVE  /\ IsFiniteSet(A \cup B \cup C)
         /\ SumFunctionOnSet(value, A \cup B \cup C)
              = SumFunctionOnSet(value, A) + SumFunctionOnSet(value, B) + SumFunctionOnSet(value, C)
<1>1. PICK D : D = A \cup B
  OBVIOUS
<1>2. IsFiniteSet(D)
  BY <1>1, FS_Union
<1>3. D \cap C = {} /\ A \cup B \cup C = D \cup C
  BY <1>1
<1>4. IsFiniteSet(D \cup C)
  BY <1>2, FS_Union
<1>5. \A h \in D \cup C : value[h] \in Int
  BY <1>1
<1>6. SumFunctionOnSet(value, D \cup C) = SumFunctionOnSet(value, D) + SumFunctionOnSet(value, C)
  BY <1>2, <1>3, <1>5, SumUnion
<1>7. SumFunctionOnSet(value, A \cup B) = SumFunctionOnSet(value, A) + SumFunctionOnSet(value, B)
  BY SumUnion
<1>. QED
  BY <1>1, <1>3, <1>4, <1>6, <1>7

\* Where there are no funds the slices of the allocation are the rows worth something.
LEMMA SlicesAre ==
  ASSUME NEW S, Shows(S, "STOCK"), \A h \in S : h.value > 0 => h.qty > 0,
         NEW D, Shows(D, "FIXED_DEPOSIT"), NEW B, Shows(B, "BANK_CASH"),
         NEW ps, NEW all, Holdings(ps, all) = S \cup D \cup B
  PROVE  Allocation(ps, all) = Worthy(S) \cup Worthy(D) \cup Worthy(B)
<1>1. \A h : h \in Allocation(ps, all) <=>
               /\ h \in S \cup D \cup B /\ h.status # "closed" /\ h.value > 0
               /\ h.kind \in {"STOCK", "MUTUAL_FUND"} => h.qty > 0
  BY DEF Allocation
<1>2. \A h \in S : h.value > 0 => h.status # "closed" /\ h.qty > 0
  BY DEF Shows
<1>3. \A h \in D : h.kind = "FIXED_DEPOSIT" /\ (h.value > 0 => h.status # "closed")
  BY DEF Shows
<1>4. \A h \in B : h.kind = "BANK_CASH" /\ (h.value > 0 => h.status # "closed")
  BY DEF Shows
<1>5. \A h : h \in Allocation(ps, all) <=> h \in Worthy(S) \cup Worthy(D) \cup Worthy(B)
  BY <1>1, <1>2, <1>3, <1>4 DEF Worthy
<1>. QED
  BY <1>5

-----------------------------------------------------------------------------
(* What is held in a scope adds up to its summary.                         *)

\* What the rows of one kind show, and what those of them add up to that are worth something.
SumsTo(rows, kind, value, n) ==
  /\ Shows(rows, kind) /\ IsFiniteSet(Worthy(rows)) /\ \A h \in Worthy(rows) : h.value \in Int
  /\ SumFunctionOnSet(value, Worthy(rows)) = n

\* The rows of the stocks.
LEMMA StockSide ==
  ASSUME VInv, NEW ps, NEW ts, ts = TradesIn(ps),
         \A s \in StocksIn(ts) : BaseCurrency(OfSymbol(ts, s)) = Display,
         NEW S, S = StockItems(ts),
         NEW value, \A h \in Worthy(S) : value[h] = h.value,
         NEW w, \A s \in StocksIn(ts) : w[s] = Item(ts, s).value
  PROVE  /\ SumsTo(S, "STOCK", value, SumFunctionOnSet(w, StocksIn(ts)))
         /\ \A h \in S : h.value > 0 => h.qty > 0
<1>1. ASSUME NEW s \in StocksIn(ts), NEW h, h = Item(ts, s)
      PROVE  h.kind = "STOCK" /\ (h.value > 0 => h.qty > 0 /\ h.status # "closed")
  <2>1. BaseCurrency(OfSymbol(ts, s)) = Display
    OBVIOUS
  <2>. QED
    BY ONLY VInv, ts = TradesIn(ps), s \in StocksIn(ts), h = Item(ts, s), <2>1, StockWorth
<1>2. Shows(S, "STOCK") /\ \A h \in S : h.value > 0 => h.qty > 0
  BY <1>1 DEF Shows, StockItems, RowsOfKind
<1>3. PICK T : T = Worthy(S)
  OBVIOUS
<1>4. T = Worthy(StockItems(ts))
  BY <1>3
<1>5. \A h \in T : value[h] = h.value
  BY <1>3
<1>6. /\ SumFunctionOnSet(value, T) = SumFunctionOnSet(w, StocksIn(ts)) /\ IsFiniteSet(T)
      /\ \A h \in T : h.kind = "STOCK" /\ h.qty > 0 /\ h.status # "closed" /\ h.value \in Int
  <2>1. ts = TradesIn(ps) /\ \A s \in StocksIn(ts) : BaseCurrency(OfSymbol(ts, s)) = Display
    OBVIOUS
  <2>2. \A s \in StocksIn(ts) : w[s] = Item(ts, s).value
    OBVIOUS
  <2>. QED
    BY ONLY VInv, <1>4, <1>5, <2>1, <2>2, StockRows
<1>. QED
  BY <1>2, <1>3, <1>6 DEF SumsTo

\* The rows of what is held in one currency each, of different names.
LEMMA WorthSide ==
  ASSUME VInv, NEW items, IsFiniteSet(items), \A i \in items : i.ccy \in Currencies,
         \A i, j \in items : i.name = j.name => i = j,
         NEW m, \A i \in items : m[i] \in Int, NEW v, \A i \in items : v[i] = WorthToday(i, m[i]),
         NEW kind, NEW rows, rows = RowsOfKind(kind, items, m),
         NEW value, \A h \in Worthy(rows) : value[h] = h.value
  PROVE  SumsTo(rows, kind, value, SumFunctionOnSet(v, items))
<1>1. ASSUME NEW i \in items, NEW h, h = Row(kind, i, m[i])
      PROVE  h.kind = kind /\ (h.value > 0 => h.status # "closed")
  <2>1. PICK n, x : n = m[i] /\ x = WorthToday(i, n)
    OBVIOUS
  <2>2. n \in Int /\ i.ccy \in Currencies /\ h = Row(kind, i, n) /\ x = WorthToday(i, n)
    BY <1>1, <2>1
  <2>3. /\ x \in Nat /\ h.kind = kind /\ h.of = i.name
        /\ x > 0 => h.value = x /\ h.status # "closed"
        /\ h.value > 0 => x > 0
    BY ONLY VInv, <2>2, WorthIs
  <2>. QED
    BY <2>3
<1>2. Shows(rows, kind)
  BY <1>1 DEF Shows, StockItems, RowsOfKind
<1>3. PICK T : T = Worthy(rows)
  OBVIOUS
<1>4. T = Worthy(RowsOfKind(kind, items, m))
  BY <1>3
<1>5. \A h \in T : value[h] = h.value
  BY <1>3
<1>6. /\ SumFunctionOnSet(value, T) = SumFunctionOnSet(v, items) /\ IsFiniteSet(T)
      /\ \A h \in T : h.kind = kind /\ h.status # "closed" /\ h.value \in Int
  <2>1. IsFiniteSet(items) /\ \A i \in items : i.ccy \in Currencies
    OBVIOUS
  <2>2. \A i, j \in items : i.name = j.name => i = j
    OBVIOUS
  <2>3. \A i \in items : m[i] \in Int
    OBVIOUS
  <2>4. \A i \in items : v[i] = WorthToday(i, m[i])
    OBVIOUS
  <2>. QED
    BY ONLY VInv, <1>4, <1>5, <2>1, <2>2, <2>3, <2>4, WorthRows
<1>. QED
  BY <1>2, <1>3, <1>6 DEF SumsTo

\* The rows of the deposits.
LEMMA DepositSide ==
  ASSUME VInv, NEW ps, NEW rows, rows = DepositRows(ps),
         NEW value, \A h \in Worthy(rows) : value[h] = h.value
  PROVE  /\ SumsTo(rows, "FIXED_DEPOSIT", value, DepositTotals(ps, Display).value)
         /\ DepositTotals(ps, Display).value \in Int
<1>1. PICK X, m, v : /\ X = OnRecord(ps) /\ m = [fd \in X |-> Principal(fd)]
                     /\ v = [fd \in X |-> WorthToday(fd, Principal(fd))]
  OBVIOUS
<1>2. \A fd \in X : v[fd] = WorthToday(fd, Principal(fd)) /\ m[fd] = Principal(fd)
  BY <1>1
<1>3. /\ IsFiniteSet(X) /\ \A fd \in X : fd.ccy \in Currencies /\ Principal(fd) \in Int
      /\ \A fd \in X : v[fd] \in Nat
      /\ DepositTotals(ps, Display).value = SumFunctionOnSet(v, X)
      /\ SumFunctionOnSet(v, X) \in Int
  <2>1. X = OnRecord(ps) /\ \A fd \in X : v[fd] = WorthToday(fd, Principal(fd))
    BY <1>1, <1>2
  <2>. QED
    BY ONLY VInv, <2>1, DepositsAre
<1>4. \A i, j \in X : i.name = j.name => i = j
  BY <1>1, WealthAssumption DEF WealthAssumption, OnRecord
<1>5. rows = RowsOfKind("FIXED_DEPOSIT", X, m)
  BY <1>1, <1>2 DEF DepositRows, Principal, RowsOfKind
<1>6. \A i \in X : i.ccy \in Currencies /\ m[i] \in Int /\ v[i] = WorthToday(i, m[i])
  BY <1>2, <1>3
<1>7. SumsTo(rows, "FIXED_DEPOSIT", value, SumFunctionOnSet(v, X))
  <2>1. PICK kind : kind = "FIXED_DEPOSIT"
    OBVIOUS
  <2>2. SumsTo(rows, kind, value, SumFunctionOnSet(v, X))
    BY <1>3, <1>4, <1>5, <1>6, <2>1, WorthSide
  <2>. QED
    BY <2>1, <2>2
<1>. QED
  BY <1>3, <1>7

\* The rows of the accounts.
LEMMA AccountSide ==
  ASSUME VInv, NEW ps, NEW all, NEW rows, rows = AccountRows(ps, all),
         NEW value, \A h \in Worthy(rows) : value[h] = h.value
  PROVE  /\ SumsTo(rows, "BANK_CASH", value, BankTotals(ps, all, Display).value)
         /\ BankTotals(ps, all, Display).value \in Int
<1>1. PICK X, m, v : /\ X = Includable(ps, all) /\ m = [a \in X |-> Balance(a, today)]
                     /\ v = [a \in X |-> WorthToday(a, Balance(a, today))]
  OBVIOUS
<1>2. \A a \in X : v[a] = WorthToday(a, Balance(a, today)) /\ m[a] = Balance(a, today)
  BY <1>1
<1>3. /\ IsFiniteSet(X) /\ \A a \in X : a.ccy \in Currencies /\ Balance(a, today) \in Int
      /\ BankTotals(ps, all, Display).value = SumFunctionOnSet(v, X)
      /\ SumFunctionOnSet(v, X) \in Int
  <2>1. X = Includable(ps, all) /\ \A a \in X : v[a] = WorthToday(a, Balance(a, today))
    BY <1>1, <1>2
  <2>. QED
    BY ONLY VInv, <2>1, AccountsAre
<1>4. \A i, j \in X : i.name = j.name => i = j
  BY <1>1, WealthAssumption DEF WealthAssumption, Includable
<1>5. rows = RowsOfKind("BANK_CASH", X, m)
  BY <1>1, <1>2 DEF AccountRows, RowsOfKind
<1>6. \A i \in X : i.ccy \in Currencies /\ m[i] \in Int /\ v[i] = WorthToday(i, m[i])
  BY <1>2, <1>3
<1>7. SumsTo(rows, "BANK_CASH", value, SumFunctionOnSet(v, X))
  <2>1. PICK kind : kind = "BANK_CASH"
    OBVIOUS
  <2>2. SumsTo(rows, kind, value, SumFunctionOnSet(v, X))
    BY <1>3, <1>4, <1>5, <1>6, <2>1, WorthSide
  <2>. QED
    BY <2>1, <2>2
<1>. QED
  BY <1>3, <1>7

\* Rows of different kinds are different rows.
LEMMA KindsApart ==
  ASSUME NEW A, NEW B, NEW j, NEW k, Shows(A, j), Shows(B, k), j # k
  PROVE  Worthy(A) \cap Worthy(B) = {}
<1>1. \A h : h \in Worthy(A) => h.kind = j
  BY DEF Worthy, Shows
<1>2. \A h : h \in Worthy(B) => h.kind = k
  BY DEF Worthy, Shows
<1>. QED
  BY <1>1, <1>2

\* The sums of the buckets and of the slices.
LEMMA BucketsAre ==
  ASSUME NEW ps, NEW all, NEW S, NEW D, NEW B, NEW value, NEW x \in Int, NEW d \in Int, NEW b \in Int,
         SumsTo(S, "STOCK", value, x), \A h \in S : h.value > 0 => h.qty > 0,
         SumsTo(D, "FIXED_DEPOSIT", value, d), SumsTo(B, "BANK_CASH", value, b),
         \A h \in Worthy(S) \cup Worthy(D) \cup Worthy(B) : value[h] = h.value,
         Holdings(ps, all) = S \cup D \cup B, d = DepositTotals(ps, Display).value,
         NEW c \in Int, c = CashToday(ps, Display).value
  PROVE  /\ Buckets(ps, all).equity = x /\ Buckets(ps, all).debt = d
         /\ Buckets(ps, all).cash = b /\ Buckets(ps, all).other = Larger(0, c)
         /\ ValueOf(Allocation(ps, all)) = x + d + b
<1>1. PICK items : items = S \cup D \cup B
  OBVIOUS
<1>2. Shows(S, "STOCK") /\ Shows(D, "FIXED_DEPOSIT") /\ Shows(B, "BANK_CASH")
  BY DEF SumsTo
<1>3. /\ InBucket(items, "Equity") = Worthy(S) /\ InBucket(items, "Cash") = Worthy(B)
      /\ InBucket(items, "Debt") = {} /\ InBucket(items, "Other") = {}
  BY <1>1, <1>2, BucketRows
<1>4. PICK e, f, g : e = Worthy(S) /\ f = Worthy(D) /\ g = Worthy(B)
  OBVIOUS
<1>5. /\ IsFiniteSet(e) /\ IsFiniteSet(f) /\ IsFiniteSet(g)
      /\ SumFunctionOnSet(value, e) = x /\ SumFunctionOnSet(value, f) = d
      /\ SumFunctionOnSet(value, g) = b
      /\ \A h \in e \cup f \cup g : h.value \in Int
  BY <1>4 DEF SumsTo
<1>6. \A h \in e \cup f \cup g : value[h] = h.value /\ value[h] \in Int
  BY <1>4, <1>5
<1>7. Total(LAMBDA h : h.value, e) = x
  <2>1. \A h \in e : value[h] = h.value /\ h.value \in Int
    BY <1>5, <1>6
  <2>2. Total(LAMBDA h : h.value, e) = SumFunctionOnSet(value, e)
    BY <1>5, <2>1, ValuesAdd
  <2>. QED
    BY <1>5, <2>2
<1>8. Total(LAMBDA h : h.value, g) = b
  <2>1. \A h \in g : value[h] = h.value /\ h.value \in Int
    BY <1>5, <1>6
  <2>2. Total(LAMBDA h : h.value, g) = SumFunctionOnSet(value, g)
    BY <1>5, <2>1, ValuesAdd
  <2>. QED
    BY <1>5, <2>2
<1>9. PICK z : z = {}
  OBVIOUS
<1>10. Total(LAMBDA h : h.value, z) = 0
  <2>1. IsFiniteSet(z) /\ \A h \in z : value[h] = h.value /\ h.value \in Int
    BY <1>9, FS_EmptySet
  <2>2. Total(LAMBDA h : h.value, z) = SumFunctionOnSet(value, z)
    BY <2>1, ValuesAdd
  <2>3. \A h \in z : value[h] \in Int
    BY <1>9
  <2>4. SumFunctionOnSet(value, {}) = 0
    BY ONLY <2>1, <2>3, SumStep
  <2>. QED
    BY <1>9, <2>2, <2>4
<1>11. /\ Buckets(ps, all).equity = Total(LAMBDA h : h.value, InBucket(items, "Equity"))
       /\ Buckets(ps, all).debt = Total(LAMBDA h : h.value, InBucket(items, "Debt")) + d
       /\ Buckets(ps, all).cash = Total(LAMBDA h : h.value, InBucket(items, "Cash"))
       /\ Buckets(ps, all).other = Total(LAMBDA h : h.value, InBucket(items, "Other")) + Larger(0, c)
  <2>1. Buckets(ps, all) = BucketSums(items, d, c)
    BY <1>1 DEF Buckets
  <2>. QED
    BY <2>1 DEF BucketSums, InBucket
<1>12. Allocation(ps, all) = e \cup f \cup g
  BY <1>2, <1>4, SlicesAre
<1>13. e \cap f = {} /\ e \cap g = {} /\ f \cap g = {}
  <2>1. "STOCK" # "FIXED_DEPOSIT" /\ "STOCK" # "BANK_CASH" /\ "FIXED_DEPOSIT" # "BANK_CASH"
    OBVIOUS
  <2>2. PICK i, j, k : i = "STOCK" /\ j = "FIXED_DEPOSIT" /\ k = "BANK_CASH"
    OBVIOUS
  <2>3. Shows(S, i) /\ Shows(D, j) /\ Shows(B, k) /\ i # j /\ i # k /\ j # k
    BY <1>2, <2>1, <2>2
  <2>4. Worthy(S) \cap Worthy(D) = {} /\ Worthy(S) \cap Worthy(B) = {} /\ Worthy(D) \cap Worthy(B) = {}
    BY ONLY <2>3, KindsApart
  <2>. QED
    BY <1>4, <2>4
<1>14. IsFiniteSet(e \cup f \cup g) /\ SumFunctionOnSet(value, e \cup f \cup g) = x + d + b
  <2>1. \A h \in e \cup f \cup g : value[h] \in Int
    BY <1>6
  <2>2. /\ IsFiniteSet(e \cup f \cup g)
        /\ SumFunctionOnSet(value, e \cup f \cup g)
             = SumFunctionOnSet(value, e) + SumFunctionOnSet(value, f) + SumFunctionOnSet(value, g)
    <3>1. IsFiniteSet(e)
      BY <1>5
    <3>2. IsFiniteSet(f)
      BY <1>5
    <3>3. IsFiniteSet(g)
      BY <1>5
    <3>4. e \cap f = {}
      BY <1>13
    <3>5. e \cap g = {}
      BY <1>13
    <3>6. f \cap g = {}
      BY <1>13
    <3>. QED
      BY ONLY <2>1, <3>1, <3>2, <3>3, <3>4, <3>5, <3>6, KindsAdd
  <2>. QED
    BY <1>5, <2>2
<1>15. ValueOf(Allocation(ps, all)) = x + d + b
  <2>1. PICK y : y = e \cup f \cup g
    OBVIOUS
  <2>2. IsFiniteSet(y) /\ \A h \in y : value[h] = h.value /\ h.value \in Int
    BY <1>5, <1>6, <1>14, <2>1
  <2>3. Total(LAMBDA h : h.value, y) = SumFunctionOnSet(value, y)
    BY <2>2, ValuesAdd
  <2>. QED
    BY <1>12, <1>14, <2>1, <2>3 DEF ValueOf
<1>16. PICK n : n = Larger(0, c) /\ n \in Int
  BY DEF Larger
<1>17. /\ Buckets(ps, all).equity = x /\ Buckets(ps, all).debt = 0 + d
       /\ Buckets(ps, all).cash = b /\ Buckets(ps, all).other = 0 + n
  BY <1>3, <1>4, <1>7, <1>8, <1>9, <1>10, <1>11, <1>16
<1>18. 0 + d = d /\ 0 + n = n
  BY <1>16
<1>. QED
  BY <1>15, <1>16, <1>17, <1>18

\* What a bucket and a slice are summed up from, for one scope.
LEMMA ScopeSplits ==
  ASSUME VInv, Idle, NEW ps \in SUBSET Portfolios, NEW all \in BOOLEAN,
         all \/ \E p \in Portfolios : ps = {p},
         FundsIn(TradesIn(ps)) = {}, CashToday(ps, Display).value >= 0,
         \A p \in ps : \A s \in SymbolsOf(TradesIn(ps)) : NeverShort(Holding(p, s)),
         ~SplitsShared(ps), \A p \in ps : KeptInDisplay(p)
  PROVE  SplitUp(Buckets(ps, all), Allocation(ps, all), CashAllocation(ps), Summary(ps, all))
<1>1. IsFiniteSet(ps)
  BY WealthAssumption, FS_Subset DEF WealthAssumption
<1>2. PICK ts, S, D, B, T : /\ ts = TradesIn(ps) /\ S = StockItems(ts) /\ D = DepositRows(ps)
                            /\ B = AccountRows(ps, all) /\ T = CashAllocation(ps)
  OBVIOUS
<1>3. PICK w, g, f, value :
        /\ w = [s \in StocksIn(ts) |-> Item(ts, s).value]
        /\ g = [p \in ps |-> OwnStocks(p)]
        /\ f = [p \in ps |-> OwnDeposits(p)]
        /\ value = [h \in S \cup D \cup B \cup T |-> h.value]
  OBVIOUS
<1>4. PICK x, d, b, c : /\ x = SumFunctionOnSet(w, StocksIn(ts)) /\ d = DepositTotals(ps, Display).value
                        /\ b = BankTotals(ps, all, Display).value /\ c = CashToday(ps, Display).value
  OBVIOUS
<1>5. \A h \in S \cup D \cup B \cup T : value[h] = h.value
  BY <1>3
<1>6. SumsTo(S, "STOCK", value, x) /\ \A h \in S : h.value > 0 => h.qty > 0
  <2>1. \A s \in StocksIn(ts) : BaseCurrency(OfSymbol(ts, s)) = Display
    BY <1>2, KeptTogether
  <2>2. \A s \in StocksIn(ts) : w[s] = Item(ts, s).value
    BY <1>3
  <2>3. \A h \in Worthy(S) : value[h] = h.value
    BY <1>5 DEF Worthy
  <2>4. S = StockItems(ts) /\ ts = TradesIn(ps)
    BY <1>2
  <2>5. /\ SumsTo(S, "STOCK", value, SumFunctionOnSet(w, StocksIn(ts)))
        /\ \A h \in S : h.value > 0 => h.qty > 0
    BY ONLY VInv, <2>1, <2>2, <2>3, <2>4, StockSide
  <2>. QED
    BY <1>4, <2>5
<1>7. SumsTo(D, "FIXED_DEPOSIT", value, d) /\ d \in Int
  <2>1. D = DepositRows(ps)
    BY <1>2
  <2>2. \A h \in Worthy(D) : value[h] = h.value
    BY <1>5 DEF Worthy
  <2>3. /\ SumsTo(D, "FIXED_DEPOSIT", value, DepositTotals(ps, Display).value)
        /\ DepositTotals(ps, Display).value \in Int
    BY ONLY VInv, <2>1, <2>2, DepositSide
  <2>. QED
    BY <1>4, <2>3
<1>8. SumsTo(B, "BANK_CASH", value, b) /\ b \in Int
  <2>1. B = AccountRows(ps, all)
    BY <1>2
  <2>2. \A h \in Worthy(B) : value[h] = h.value
    BY <1>5 DEF Worthy
  <2>3. /\ SumsTo(B, "BANK_CASH", value, BankTotals(ps, all, Display).value)
        /\ BankTotals(ps, all, Display).value \in Int
    BY ONLY VInv, <2>1, <2>2, AccountSide
  <2>. QED
    BY <1>4, <2>3
<1>9. /\ SumFunctionOnSet(value, T) = c /\ IsFiniteSet(T) /\ c \in Int
      /\ \A h \in T : h.value \in Int
  <2>1. T = CashAllocation(ps) /\ \A h \in T : value[h] = h.value
    BY <1>2, <1>5
  <2>2. /\ SumFunctionOnSet(value, T) = CashToday(ps, Display).value /\ IsFiniteSet(T)
        /\ CashToday(ps, Display).value \in Int /\ \A h \in T : h.value \in Int
    BY ONLY VInv, <1>1, <2>1, CashSlices
  <2>. QED
    BY <1>4, <2>2
<1>10. ValueOf(CashAllocation(ps)) = c
  <2>1. \A h \in T : value[h] = h.value /\ h.value \in Int
    BY <1>5, <1>9
  <2>2. Total(LAMBDA h : h.value, T) = SumFunctionOnSet(value, T)
    BY <1>9, <2>1, ValuesAdd
  <2>. QED
    BY <1>2, <1>9, <2>2 DEF ValueOf
<1>11. SumFunctionOnSet(g, ps) = x /\ x \in Int
  <2>1. \A p \in ps : g[p] = OwnStocks(p)
    BY <1>3
  <2>2. \A s \in StocksIn(ts) : w[s] = Item(ts, s).value
    BY <1>3
  <2>3. ts = TradesIn(ps) /\ \A p \in ps : \A s \in SymbolsOf(ts) : NeverShort(Holding(p, s))
    BY <1>2
  <2>4. /\ SumFunctionOnSet(g, ps) = SumFunctionOnSet(w, StocksIn(ts))
        /\ \A p \in ps : g[p] \in Int
    <3>1. ts = TradesIn(ps)
      BY <2>3
    <3>2. \A p \in ps : NotShort(p, ts)
      BY <2>3 DEF NotShort
    <3>3. ps \in SUBSET Portfolios /\ Idle /\ ~SplitsShared(ps)
      OBVIOUS
    <3>4. \A p \in ps : KeptInDisplay(p)
      OBVIOUS
    <3>. QED
      BY ONLY VInv, <2>1, <2>2, <3>1, <3>2, <3>3, <3>4, StocksOfScope
  <2>5. SumFunctionOnSet(g, ps) \in Int
    BY ONLY <1>1, <2>4, SumStep
  <2>. QED
    BY <1>4, <2>4, <2>5
<1>12. SumFunctionOnSet(f, ps) = d
  <2>1. \A p \in ps : f[p] = DepositTotals({p}, Display).value
    BY <1>3 DEF OwnDeposits
  <2>2. SumFunctionOnSet(f, ps) = DepositTotals(ps, Display).value
    BY ONLY VInv, <1>1, <2>1, DepositsTogether
  <2>. QED
    BY <1>4, <2>2
<1>13. Summary(ps, all).value = x + d + b + c
  <2>1. \A p \in ps : g[p] = OwnStocks(p)
    BY <1>3
  <2>2. \A p \in ps : f[p] = OwnDeposits(p)
    BY <1>3
  <2>3. \A p \in ps : KeptInDisplay(p) /\ NoFunds(p)
    <3>1. SUFFICES ASSUME NEW p \in ps PROVE FundsIn(TradesIn({p})) = {}
      BY DEF NoFunds
    <3>2. FundsIn(TradesIn({p})) \subseteq FundsIn(TradesIn(ps))
      BY TradedInScope
    <3>. QED
      BY <3>2
  <2>4. Summary(ps, all).value = SumFunctionOnSet(g, ps) + SumFunctionOnSet(f, ps)
                                 + BankTotals(ps, all, Display).value + CashToday(ps, Display).value
    <3>1. ps \in SUBSET Portfolios /\ Idle /\ all \in BOOLEAN
      OBVIOUS
    <3>2. all \/ \E p \in Portfolios : ps = {p}
      OBVIOUS
    <3>. QED
      BY ONLY VInv, <1>1, <2>1, <2>2, <2>3, <3>1, <3>2, SummaryIs
  <2>. QED
    BY <1>4, <1>11, <1>12, <2>4
<1>14. /\ Buckets(ps, all).equity = x /\ Buckets(ps, all).debt = d
       /\ Buckets(ps, all).cash = b /\ Buckets(ps, all).other = Larger(0, c)
       /\ ValueOf(Allocation(ps, all)) = x + d + b
  <2>1. Holdings(ps, all) = S \cup D \cup B
    <3>1. Items(ts) = StockItems(ts)
      BY <1>2 DEF Items, StockItems
    <3>. QED
      BY <1>2, <3>1 DEF Holdings
  <2>2. \A h \in Worthy(S) \cup Worthy(D) \cup Worthy(B) : value[h] = h.value
    BY <1>5 DEF Worthy
  <2>3. d = DepositTotals(ps, Display).value /\ c = CashToday(ps, Display).value
    BY <1>4
  <2>. QED
    BY ONLY <1>6, <1>7, <1>8, <1>9, <1>11, <2>1, <2>2, <2>3, BucketsAre
<1>15. c >= 0 /\ Larger(0, c) = c
  BY <1>4, <1>9 DEF Larger
<1>. QED
  BY <1>7, <1>8, <1>9, <1>10, <1>11, <1>13, <1>14, <1>15 DEF SplitUp

\* In every state, the buckets of a scope add up to its summary.
LEMMA BucketsStep ==
  ASSUME VInv
  PROVE  BucketsAddUp
<1>1. SUFFICES ASSUME Idle, NEW sc \in Scopes,
                      FundsIn(TradesIn(sc.ps)) = {}, CashToday(sc.ps, Display).value >= 0,
                      \A p \in sc.ps : \A s \in SymbolsOf(TradesIn(sc.ps)) : NeverShort(Holding(p, s)),
                      ~SplitsShared(sc.ps), \A p \in sc.ps : KeptInDisplay(p)
               PROVE  SplitUp(Buckets(sc.ps, sc.all), Allocation(sc.ps, sc.all),
                              CashAllocation(sc.ps), Summary(sc.ps, sc.all))
  BY DEF BucketsAddUp
<1>2. PICK ps, all : ps = sc.ps /\ all = sc.all
  OBVIOUS
<1>3. ps \in SUBSET Portfolios /\ all \in BOOLEAN /\ (all \/ \E p \in Portfolios : ps = {p})
  <2>1. CASE \E p \in Portfolios : sc = [ps |-> {p}, all |-> FALSE]
    BY <1>2, <2>1
  <2>2. CASE sc = [ps |-> Portfolios, all |-> TRUE]
    <3>1. ps = Portfolios /\ all = TRUE
      BY <1>2, <2>2
    <3>. QED
      BY <3>1
  <2>3. \/ \E p \in Portfolios : sc = [ps |-> {p}, all |-> FALSE]
        \/ sc = [ps |-> Portfolios, all |-> TRUE]
    BY <1>1 DEF Scopes
  <2>. QED
    BY <2>1, <2>2, <2>3
<1>4. /\ FundsIn(TradesIn(ps)) = {} /\ CashToday(ps, Display).value >= 0
      /\ \A p \in ps : \A s \in SymbolsOf(TradesIn(ps)) : NeverShort(Holding(p, s))
      /\ ~SplitsShared(ps) /\ \A p \in ps : KeptInDisplay(p)
  BY <1>1, <1>2
<1>5. SplitUp(Buckets(ps, all), Allocation(ps, all), CashAllocation(ps), Summary(ps, all))
  BY <1>1, <1>3, <1>4, ScopeSplits
<1>. QED
  BY <1>2, <1>5

\* The buckets of the dashboard, and the slices of the allocation with those of the cash,
\* add up to the value of the summary (calculate_allocation_buckets, build_holdings).
THEOREM BucketsHold ==
  Spec => []BucketsAddUp
<1>1. VInv => BucketsAddUp
  BY BucketsStep
<1>. QED
  BY <1>1, ValueInvariant, PTL
=============================================================================
