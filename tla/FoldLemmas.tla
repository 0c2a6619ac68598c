------------------------------ MODULE FoldLemmas ------------------------------
(***************************************************************************)
(* Induction over finite data, and what it gives of the folds the models   *)
(* are written with: sums over a set of rows, folds over a sequence.       *)
(*                                                                         *)
(* The induction principles are stated with sets in place of predicates.   *)
(* They come from the well-foundedness theorems of the library: a set of   *)
(* counterexamples that is not empty has a least one.                      *)
(***************************************************************************)
EXTENDS Integers, Sequences, FiniteSets, FiniteSetsExt, Functions, FiniteSetTheorems,
        WellFoundedInduction, TLAPS

-----------------------------------------------------------------------------
(* Induction.                                                              *)

\* A set of numbers that is not empty has a least element.
LEMMA LeastNumber ==
  ASSUME NEW T \in SUBSET Nat, T # {}
  PROVE  \E n \in T : \A m \in T : n <= m
<1>1. PICK x \in T : \A y \in T : ~ (<<y, x>> \in OpToRel(<, Nat))
  BY NatLessThanWellFounded, WFMin
<1>2. \A y \in T : ~(y < x)
  BY <1>1 DEF OpToRel
<1>. QED
  BY <1>2

\* What holds of 0 and passes from each number to the next holds of all.
LEMMA NumberInduction ==
  ASSUME NEW T, 0 \in T, \A n \in Nat : n \in T => n + 1 \in T
  PROVE  \A n \in Nat : n \in T
<1>. SUFFICES ASSUME Nat \ T # {} PROVE FALSE
  OBVIOUS
<1>1. PICK n \in Nat \ T : \A m \in Nat \ T : n <= m
  BY LeastNumber
<1>. QED
  BY <1>1

\* Among sets of subsets of a finite set, one that is not empty has a minimal element.
LEMMA MinimalSubset ==
  ASSUME NEW S, IsFiniteSet(S), NEW B \in SUBSET SUBSET S, B # {}
  PROVE  \E U \in B : \A V \in B : V \subseteq U => V = U
<1>1. B \subseteq FiniteSubsetsOf(S)
  BY FS_Subset DEF FiniteSubsetsOf
<1>2. IsWellFoundedOn(StrictSubsetOrdering(S), FiniteSubsetsOf(S))
  BY FS_StrictSubsetOrderingWellFounded
<1>3. PICK U \in B : \A V \in B : ~(<<V, U>> \in StrictSubsetOrdering(S))
  BY <1>1, <1>2, WFMin
<1>. QED
  BY <1>3 DEF StrictSubsetOrdering

\* What holds of the empty set and passes to a set from that set without any one
\* element holds of every subset of a finite set.
LEMMA SubsetInduction ==
  ASSUME NEW S, IsFiniteSet(S), NEW T, {} \in T,
         \A U \in SUBSET S : U # {} /\ (\A V \in SUBSET U : V # U => V \in T) => U \in T
  PROVE  \A U \in SUBSET S : U \in T
<1>. DEFINE B == {U \in SUBSET S : U \notin T}
<1>. SUFFICES ASSUME B # {} PROVE FALSE
  OBVIOUS
<1>1. B \in SUBSET SUBSET S
  OBVIOUS
<1>2. PICK U \in B : \A V \in B : V \subseteq U => V = U
  <2>. HIDE DEF B
  <2>. QED
    BY <1>1, MinimalSubset
<1>3. \A V \in SUBSET U : V # U => V \in T
  BY <1>2
<1>. QED
  BY <1>2, <1>3

\* A finite set of integers that is not empty has a greatest and a least element.
LEMMA MaxMin ==
  ASSUME NEW S \in SUBSET Int, IsFiniteSet(S), S # {}
  PROVE  /\ Max(S) \in S /\ \A x \in S : x <= Max(S)
         /\ Min(S) \in S /\ \A x \in S : Min(S) <= x
<1>. DEFINE T == {U \in SUBSET S : U = {} \/ /\ \E m \in U : \A x \in U : x <= m
                                             /\ \E m \in U : \A x \in U : m <= x}
<1>1. {} \in T
  OBVIOUS
<1>2. ASSUME NEW U \in SUBSET S, U # {}, \A V \in SUBSET U : V # U => V \in T
      PROVE  U \in T
  <2>1. PICK y \in U : TRUE
    BY <1>2
  <2>2. U \ {y} \in T
    BY <1>2, <2>1
  <2>3. CASE U \ {y} = {}
    BY <2>1, <2>3
  <2>4. CASE U \ {y} # {}
    <3>1. PICK g \in U \ {y} : \A x \in U \ {y} : x <= g
      BY <2>2, <2>4
    <3>2. PICK l \in U \ {y} : \A x \in U \ {y} : l <= x
      BY <2>2, <2>4
    <3>3. \E m \in U : \A x \in U : x <= m
      <4>1. CASE y <= g
        BY <3>1, <4>1
      <4>2. CASE ~(y <= g)
        BY <2>1, <3>1, <4>2
      <4>. QED
        BY <4>1, <4>2
    <3>4. \E m \in U : \A x \in U : m <= x
      <4>1. CASE l <= y
        BY <3>2, <4>1
      <4>2. CASE ~(l <= y)
        BY <2>1, <3>2, <4>2
      <4>. QED
        BY <4>1, <4>2
    <3>. QED
      BY <3>3, <3>4
  <2>. QED
    BY <2>3, <2>4
<1>3. S \in T
  <2>. HIDE DEF T
  <2>. QED
    BY <1>1, <1>2, SubsetInduction
<1>4. (\E m \in S : \A x \in S : m >= x) /\ (\E m \in S : \A x \in S : m <= x)
  BY <1>3
<1>. QED
  BY <1>4 DEF Max, Min

-----------------------------------------------------------------------------
(* Recursion over the subsets of a finite set, one chosen element at a time. *)

\* One value of each subset: the base for the empty set, otherwise the value of the
\* subset without its chosen element, combined with that element.
Folds(g, S, base, chosen, step) ==
  g = [s \in SUBSET S |->
         IF s = {} THEN base ELSE step[chosen[s]][g[s \ {chosen[s]}]]]

\* Such a function exists, if the combination stays within a set of values.
LEMMA FoldExists ==
  ASSUME NEW S, IsFiniteSet(S), NEW V, NEW base \in V,
         NEW chosen, \A s \in SUBSET S : s # {} => chosen[s] \in s,
         NEW step, \A x \in S, v \in V : step[x][v] \in V
  PROVE  \E g \in [SUBSET S -> V] : Folds(g, S, base, chosen, step)
<1>. DEFINE Pairs == (SUBSET S) \X V
            Closed(U) == /\ <<{}, base>> \in U
                         /\ \A s \in SUBSET S, v \in V :
                              s # {} /\ <<s \ {chosen[s]}, v>> \in U
                                => <<s, step[chosen[s]][v]>> \in U
            R == {p \in Pairs : \A U \in SUBSET Pairs : Closed(U) => p \in U}
<1>1. Closed(Pairs)
  <2>1. ASSUME NEW s \in SUBSET S, s # {}, NEW v \in V
        PROVE  <<s, step[chosen[s]][v]>> \in Pairs
    <3>1. chosen[s] \in S
      BY <2>1
    <3>. QED
      BY <3>1
  <2>. QED
    BY <2>1
<1>2. Closed(R)
  <2>1. <<{}, base>> \in R
    OBVIOUS
  <2>2. ASSUME NEW s \in SUBSET S, NEW v \in V, s # {}, <<s \ {chosen[s]}, v>> \in R
        PROVE  <<s, step[chosen[s]][v]>> \in R
    <3>1. <<s, step[chosen[s]][v]>> \in Pairs
      BY <1>1, <2>2
    <3>2. ASSUME NEW U \in SUBSET Pairs, Closed(U)
          PROVE  <<s, step[chosen[s]][v]>> \in U
      BY <2>2, <3>2
    <3>. QED
      BY <3>1, <3>2
  <2>. QED
    BY <2>1, <2>2
<1>3. ASSUME NEW U \in SUBSET R, Closed(U)
      PROVE  U = R
  <2>1. U \in SUBSET Pairs
    OBVIOUS
  <2>. QED
    BY <1>3, <2>1
<1>4. R \subseteq Pairs
  OBVIOUS
<1>. HIDE DEF R
<1>. DEFINE Single == {s \in SUBSET S : \E v \in V : /\ <<s, v>> \in R
                                                     /\ \A w \in V : <<s, w>> \in R => w = v}
<1>5. {} \in Single
  <2>1. ASSUME NEW w \in V, <<{}, w>> \in R, w # base
        PROVE  FALSE
    <3>1. Closed(R \ {<<{}, w>>})
      BY <1>2, <2>1
    <3>. HIDE DEF Closed
    <3>2. R \ {<<{}, w>>} = R
      BY <1>3, <3>1
    <3>. QED
      BY <2>1, <3>2
  <2>. QED
    BY <1>2, <2>1
<1>6. ASSUME NEW s \in SUBSET S, s # {}, \A t \in SUBSET s : t # s => t \in Single
      PROVE  s \in Single
  <2>1. /\ chosen[s] \in s /\ s \ {chosen[s]} \in SUBSET s /\ s \ {chosen[s]} # s
        /\ chosen[s] \in S
    BY <1>6
  <2>2. PICK v \in V : /\ <<s \ {chosen[s]}, v>> \in R
                       /\ \A w \in V : <<s \ {chosen[s]}, w>> \in R => w = v
    BY <1>6, <2>1
  <2>3. <<s, step[chosen[s]][v]>> \in R /\ step[chosen[s]][v] \in V
    BY <1>2, <1>6, <2>1, <2>2
  <2>4. ASSUME NEW w \in V, <<s, w>> \in R, w # step[chosen[s]][v]
        PROVE  FALSE
    <3>. DEFINE U == R \ {<<s, w>>}
    <3>1. <<{}, base>> \in U
      BY <1>2, <1>6
    <3>2. ASSUME NEW t \in SUBSET S, NEW u \in V, t # {}, <<t \ {chosen[t]}, u>> \in U
          PROVE  <<t, step[chosen[t]][u]>> \in U
      <4>1. <<t, step[chosen[t]][u]>> \in R
        BY <1>2, <3>2
      <4>2. t = s => u = v
        BY <2>2, <3>2
      <4>. QED
        BY <2>4, <4>1, <4>2
    <3>3. Closed(U)
      BY <3>1, <3>2
    <3>4. U \in SUBSET R
      OBVIOUS
    <3>. HIDE DEF Closed
    <3>5. U = R
      BY <1>3, <3>3, <3>4
    <3>. QED
      BY <2>4, <3>5
  <2>. QED
    BY <2>3, <2>4
<1>7. \A s \in SUBSET S : s \in Single
  <2>. HIDE DEF Single
  <2>. QED
    BY <1>5, <1>6, SubsetInduction
<1>. DEFINE g == [s \in SUBSET S |-> CHOOSE v \in V : <<s, v>> \in R]
<1>8. \A s \in SUBSET S : g[s] \in V /\ <<s, g[s]>> \in R
  BY <1>7
<1>9. g \in [SUBSET S -> V]
  BY <1>8
<1>10. g[{}] = base
  BY <1>2, <1>7, <1>8
<1>11. ASSUME NEW s \in SUBSET S, s # {}
       PROVE  g[s] = step[chosen[s]][g[s \ {chosen[s]}]]
  <2>1. s \ {chosen[s]} \in SUBSET S /\ chosen[s] \in S
    BY <1>11
  <2>2. <<s, step[chosen[s]][g[s \ {chosen[s]}]]>> \in R
    <3>. HIDE DEF g
    <3>. QED
      BY <1>2, <1>8, <1>11, <2>1
  <2>3. step[chosen[s]][g[s \ {chosen[s]}]] \in V
    <3>. HIDE DEF g
    <3>. QED
      BY <1>8, <2>1
  <2>4. \A v, w \in V : <<s, v>> \in R /\ <<s, w>> \in R => v = w
    BY <1>7
  <2>. HIDE DEF g
  <2>. QED
    BY <1>8, <2>2, <2>3, <2>4
<1>12. Folds(g, S, base, chosen, step)
  <2>. HIDE DEF g
  <2>1. g = [s \in SUBSET S |-> g[s]]
    BY <1>9
  <2>. QED
    BY <1>10, <1>11, <2>1 DEF Folds
<1>. QED
  BY <1>9, <1>12

-----------------------------------------------------------------------------
(* Sums.                                                                   *)

\* The recursion the library's sum runs, over the subsets of a set of indices.
Adds(g, f, S) ==
  g = [s \in SUBSET S |->
         IF s = {} THEN 0
         ELSE f[CHOOSE x \in s : TRUE] + g[s \ {CHOOSE x \in s : TRUE}]]

\* There is a function that runs this recursion.
LEMMA AddsExists ==
  ASSUME NEW S, IsFiniteSet(S), NEW f, \A x \in S : f[x] \in Int
  PROVE  \E g \in [SUBSET S -> Int] : Adds(g, f, S)
<1>. DEFINE chosen == [s \in SUBSET S |-> CHOOSE x \in s : TRUE]
            step == [x \in S |-> [v \in Int |-> f[x] + v]]
<1>1. \A s \in SUBSET S : s # {} => chosen[s] \in s
  OBVIOUS
<1>2. \A x \in S, v \in Int : step[x][v] \in Int /\ step[x][v] = f[x] + v
  OBVIOUS
<1>3. PICK g \in [SUBSET S -> Int] : Folds(g, S, 0, chosen, step)
  <2>. HIDE DEF chosen, step
  <2>1. 0 \in Int /\ \A x \in S, v \in Int : step[x][v] \in Int
    BY <1>2
  <2>. QED
    BY <1>1, <2>1, FoldExists, Zenon
<1>4. ASSUME NEW s \in SUBSET S, s # {}
      PROVE  step[chosen[s]][g[s \ {chosen[s]}]]
               = f[CHOOSE x \in s : TRUE] + g[s \ {CHOOSE x \in s : TRUE}]
  <2>1. chosen[s] = CHOOSE x \in s : TRUE
    OBVIOUS
  <2>2. chosen[s] \in S /\ g[s \ {chosen[s]}] \in Int
    BY <1>1, <1>4
  <2>. QED
    BY <1>2, <2>1, <2>2
<1>. HIDE DEF chosen, step
<1>. QED
  BY <1>3, <1>4 DEF Folds, Adds

\* Two of them agree on the sets both are defined for.
LEMMA AddsUnique ==
  ASSUME NEW S, IsFiniteSet(S), NEW T \in SUBSET S, NEW f,
         NEW g, Adds(g, f, S), NEW h, Adds(h, f, T)
  PROVE  \A s \in SUBSET T : g[s] = h[s]
<1>. DEFINE Agree == {s \in SUBSET T : g[s] = h[s]}
<1>1. {} \in Agree
  BY DEF Adds
<1>2. ASSUME NEW s \in SUBSET T, s # {}, \A t \in SUBSET s : t # s => t \in Agree
      PROVE  s \in Agree
  <2>. DEFINE c == CHOOSE x \in s : TRUE
  <2>1. c \in s
    BY <1>2
  <2>2. s \ {c} \in SUBSET s /\ s \ {c} # s
    BY <2>1
  <2>3. g[s \ {c}] = h[s \ {c}]
    <3>. HIDE DEF c
    <3>. QED
      BY <1>2, <2>2
  <2>4. g[s] = f[c] + g[s \ {c}] /\ h[s] = f[c] + h[s \ {c}]
    BY <1>2 DEF Adds
  <2>. HIDE DEF c
  <2>. QED
    BY <2>3, <2>4
<1>3. IsFiniteSet(T)
  BY FS_Subset
<1>. HIDE DEF Agree
<1>4. \A s \in SUBSET T : s \in Agree
  BY <1>1, <1>2, <1>3, SubsetInduction
<1>. QED
  BY <1>4 DEF Agree

\* What the sum over a set of indices is: an integer, nothing for no index, and the
\* chosen element on top of the rest.
LEMMA SumStep ==
  ASSUME NEW S, IsFiniteSet(S), NEW f, \A x \in S : f[x] \in Int
  PROVE  /\ SumFunctionOnSet(f, S) \in Int
         /\ SumFunctionOnSet(f, {}) = 0
         /\ S # {} => LET c == CHOOSE x \in S : TRUE IN
                      SumFunctionOnSet(f, S) = f[c] + SumFunctionOnSet(f, S \ {c})
<1>. DEFINE G(T) == CHOOSE g : Adds(g, f, T)
<1>1. ASSUME NEW T
      PROVE  SumFunctionOnSet(f, T) = G(T)[T]
  BY DEF SumFunctionOnSet, FoldFunctionOnSet, MapThenFoldSet, Adds
<1>. HIDE DEF G
<1>2. PICK g \in [SUBSET S -> Int] : Adds(g, f, S)
  BY AddsExists
<1>3. ASSUME NEW T \in SUBSET S
      PROVE  SumFunctionOnSet(f, T) = g[T]
  <2>1. IsFiniteSet(T)
    BY FS_Subset
  <2>2. Adds(G(T), f, T)
    <3>1. \E h : Adds(h, f, T)
      BY <2>1, AddsExists
    <3>. QED
      BY <3>1 DEF G
  <2>. QED
    BY <1>1, <1>2, <2>2, AddsUnique
<1>4. g[{}] = 0
  BY <1>2 DEF Adds
<1>5. ASSUME S # {}
      PROVE  LET c == CHOOSE x \in S : TRUE IN
             SumFunctionOnSet(f, S) = f[c] + SumFunctionOnSet(f, S \ {c})
  <2>. DEFINE c == CHOOSE x \in S : TRUE
  <2>1. g[S] = f[c] + g[S \ {c}]
    BY <1>2, <1>5 DEF Adds
  <2>2. SumFunctionOnSet(f, S \ {c}) = g[S \ {c}] /\ SumFunctionOnSet(f, S) = g[S]
    <3>. HIDE DEF c
    <3>. QED
      BY <1>3
  <2>. QED
    BY <2>1, <2>2
<1>. QED
  BY <1>2, <1>3, <1>4, <1>5

\* Any one element may be taken out of a sum.
LEMMA SumTakeOut ==
  ASSUME NEW S, IsFiniteSet(S), NEW f, \A x \in S : f[x] \in Int
  PROVE  \A U \in SUBSET S : \A x \in U :
           SumFunctionOnSet(f, U) = f[x] + SumFunctionOnSet(f, U \ {x})
<1>. DEFINE T == {U \in SUBSET S : \A x \in U :
                    SumFunctionOnSet(f, U) = f[x] + SumFunctionOnSet(f, U \ {x})}
<1>1. {} \in T
  OBVIOUS
<1>2. ASSUME NEW U \in SUBSET S, U # {}, \A V \in SUBSET U : V # U => V \in T
      PROVE  U \in T
  <2>. DEFINE c == CHOOSE x \in U : TRUE
  <2>1. c \in U
    BY <1>2
  <2>2. SumFunctionOnSet(f, U) = f[c] + SumFunctionOnSet(f, U \ {c})
    BY <1>2, FS_Subset, SumStep
  <2>. HIDE DEF c
  <2>3. ASSUME NEW x \in U, x # c
        PROVE  SumFunctionOnSet(f, U) = f[x] + SumFunctionOnSet(f, U \ {x})
    <3>1. U \ {c} \in T /\ U \ {x} \in T
      BY <1>2, <2>1
    <3>2. SumFunctionOnSet(f, U \ {c}) = f[x] + SumFunctionOnSet(f, (U \ {c}) \ {x})
      BY <2>3, <3>1
    <3>3. SumFunctionOnSet(f, U \ {x}) = f[c] + SumFunctionOnSet(f, (U \ {x}) \ {c})
      BY <2>1, <2>3, <3>1
    <3>4. (U \ {x}) \ {c} = (U \ {c}) \ {x}
      OBVIOUS
    <3>5. f[x] \in Int /\ f[c] \in Int /\ SumFunctionOnSet(f, (U \ {c}) \ {x}) \in Int
      <4>1. (U \ {c}) \ {x} \in SUBSET S
        OBVIOUS
      <4>2. IsFiniteSet((U \ {c}) \ {x})
        BY <4>1, FS_Subset
      <4>. QED
        BY <2>1, <4>1, <4>2, SumStep
    <3>6. SumFunctionOnSet(f, U \ {x}) = f[c] + SumFunctionOnSet(f, (U \ {c}) \ {x})
      BY <3>3, <3>4
    <3>7. \A a, b, d \in Int : a + (b + d) = b + (a + d)
      OBVIOUS
    <3>. QED
      BY <2>2, <3>2, <3>5, <3>6, <3>7
  <2>. QED
    BY <2>2, <2>3
<1>. HIDE DEF T
<1>3. \A U \in SUBSET S : U \in T
  BY <1>1, <1>2, SubsetInduction
<1>. QED
  BY <1>3 DEF T

\* A sum depends on the values of its indices only.
LEMMA SumSame ==
  ASSUME NEW S, IsFiniteSet(S), NEW f, \A x \in S : f[x] \in Int,
         NEW g, \A x \in S : g[x] = f[x]
  PROVE  SumFunctionOnSet(g, S) = SumFunctionOnSet(f, S)
<1>. DEFINE T == {U \in SUBSET S : SumFunctionOnSet(g, U) = SumFunctionOnSet(f, U)}
<1>0. \A x \in S : g[x] \in Int
  OBVIOUS
<1>1. {} \in T
  <2>1. SumFunctionOnSet(g, {}) = 0
    BY <1>0, SumStep
  <2>2. SumFunctionOnSet(f, {}) = 0
    BY SumStep
  <2>. QED
    BY <2>1, <2>2
<1>2. ASSUME NEW U \in SUBSET S, U # {}, \A V \in SUBSET U : V # U => V \in T
      PROVE  U \in T
  <2>1. PICK x \in U : TRUE
    BY <1>2
  <2>2. /\ SumFunctionOnSet(f, U) = f[x] + SumFunctionOnSet(f, U \ {x})
        /\ SumFunctionOnSet(g, U) = g[x] + SumFunctionOnSet(g, U \ {x})
    BY <1>0, SumTakeOut
  <2>3. SumFunctionOnSet(f, U \ {x}) = SumFunctionOnSet(g, U \ {x})
    BY <1>2
  <2>. QED
    BY <2>2, <2>3
<1>. HIDE DEF T
<1>3. \A U \in SUBSET S : U \in T
  BY <1>1, <1>2, SubsetInduction
<1>. QED
  BY <1>3 DEF T

\* The sum over all indices of a function.
LEMMA SumOfFunction ==
  ASSUME NEW S, NEW f, DOMAIN f = S
  PROVE  SumFunction(f) = SumFunctionOnSet(f, S)
BY DEF SumFunction

\* The sum over one more index, and over two sets of indices without a common one.
LEMMA SumAddOne ==
  ASSUME NEW S, IsFiniteSet(S), NEW x, x \notin S, NEW f, \A y \in S \cup {x} : f[y] \in Int
  PROVE  SumFunctionOnSet(f, S \cup {x}) = SumFunctionOnSet(f, S) + f[x]
<1>1. IsFiniteSet(S \cup {x})
  BY FS_AddElement
<1>2. SumFunctionOnSet(f, S \cup {x}) = f[x] + SumFunctionOnSet(f, (S \cup {x}) \ {x})
  <2>1. S \cup {x} \in SUBSET (S \cup {x}) /\ x \in S \cup {x}
    OBVIOUS
  <2>. QED
    BY <1>1, <2>1, SumTakeOut
<1>3. (S \cup {x}) \ {x} = S
  OBVIOUS
<1>4. SumFunctionOnSet(f, S) \in Int /\ f[x] \in Int
  BY SumStep
<1>5. SumFunctionOnSet(f, S \cup {x}) = f[x] + SumFunctionOnSet(f, S)
  BY <1>2, <1>3
<1>. QED
  BY <1>4, <1>5

\* A sum over two disjoint sets is the sum of the two sums.
LEMMA SumUnion ==
  ASSUME NEW S, IsFiniteSet(S), NEW R, IsFiniteSet(R), S \cap R = {},
         NEW f, \A y \in S \cup R : f[y] \in Int
  PROVE  SumFunctionOnSet(f, S \cup R)
           = SumFunctionOnSet(f, S) + SumFunctionOnSet(f, R)
<1>. DEFINE T == {U \in SUBSET R : SumFunctionOnSet(f, S \cup U)
                                     = SumFunctionOnSet(f, S) + SumFunctionOnSet(f, U)}
<1>0. SumFunctionOnSet(f, S) \in Int /\ SumFunctionOnSet(f, {}) = 0
  BY SumStep
<1>1. {} \in T
  <2>1. S \cup {} = S
    OBVIOUS
  <2>. QED
    BY <1>0, <2>1
<1>2. ASSUME NEW U \in SUBSET R, U # {}, \A V \in SUBSET U : V # U => V \in T
      PROVE  U \in T
  <2>1. PICK x \in U : TRUE
    BY <1>2
  <2>. DEFINE V == U \ {x}
  <2>2. V \in SUBSET R /\ IsFiniteSet(V) /\ x \notin V /\ V \cup {x} = U
    BY <2>1, FS_Subset
  <2>3. SumFunctionOnSet(f, S \cup V) = SumFunctionOnSet(f, S) + SumFunctionOnSet(f, V)
    BY <1>2, <2>1
  <2>. HIDE DEF V
  <2>4. SumFunctionOnSet(f, U) = SumFunctionOnSet(f, V) + f[x]
    <3>1. \A y \in V \cup {x} : f[y] \in Int
      BY <2>1, <2>2
    <3>. QED
      BY <2>2, <3>1, SumAddOne
  <2>5. SumFunctionOnSet(f, S \cup U) = SumFunctionOnSet(f, S \cup V) + f[x]
    <3>1. x \notin S \cup V /\ IsFiniteSet(S \cup V)
      BY <2>1, <2>2, FS_Union
    <3>2. (S \cup V) \cup {x} = S \cup U
      BY <2>2
    <3>3. \A y \in (S \cup V) \cup {x} : f[y] \in Int
      BY <2>1, <2>2
    <3>. QED
      BY <3>1, <3>2, <3>3, SumAddOne
  <2>6. SumFunctionOnSet(f, V) \in Int /\ f[x] \in Int
    BY <2>1, <2>2, SumStep
  <2>. QED
    BY <1>0, <2>3, <2>4, <2>5, <2>6
<1>. HIDE DEF T
<1>3. \A U \in SUBSET R : U \in T
  BY <1>1, <1>2, SubsetInduction
<1>. QED
  BY <1>3 DEF T

\* Numbers that are not negative have such a sum, and a greater one if one is positive.
LEMMA SumNatural ==
  ASSUME NEW S, IsFiniteSet(S), NEW f, \A x \in S : f[x] \in Nat
  PROVE  SumFunctionOnSet(f, S) \in Nat /\ \A x \in S : f[x] <= SumFunctionOnSet(f, S)
<1>. DEFINE T == {U \in SUBSET S : SumFunctionOnSet(f, U) \in Nat}
<1>0. \A x \in S : f[x] \in Int
  OBVIOUS
<1>1. {} \in T
  <2>1. SumFunctionOnSet(f, {}) = 0
    BY <1>0, SumStep
  <2>. QED
    BY <2>1
<1>2. ASSUME NEW U \in SUBSET S, U # {}, \A V \in SUBSET U : V # U => V \in T
      PROVE  U \in T
  <2>1. PICK x \in U : TRUE
    BY <1>2
  <2>2. SumFunctionOnSet(f, U) = f[x] + SumFunctionOnSet(f, U \ {x})
    BY <1>0, <2>1, SumTakeOut
  <2>3. U \ {x} \in T
    BY <1>2, <2>1
  <2>. QED
    BY <2>1, <2>2, <2>3
<1>3. \A U \in SUBSET S : U \in T
  <2>. HIDE DEF T
  <2>. QED
    BY <1>1, <1>2, SubsetInduction
<1>4. ASSUME NEW x \in S
      PROVE  f[x] <= SumFunctionOnSet(f, S)
  <2>1. SumFunctionOnSet(f, S) = f[x] + SumFunctionOnSet(f, S \ {x})
    BY <1>0, SumTakeOut
  <2>2. SumFunctionOnSet(f, S \ {x}) \in Nat
    BY <1>3
  <2>. QED
    BY <2>1, <2>2
<1>. QED
  BY <1>3, <1>4

\* A sum of equal values.
LEMMA SumConstant ==
  ASSUME NEW S, IsFiniteSet(S), NEW c \in Int, NEW f, \A x \in S : f[x] = c
  PROVE  SumFunctionOnSet(f, S) = c * Cardinality(S)
<1>. DEFINE T == {U \in SUBSET S : SumFunctionOnSet(f, U) = c * Cardinality(U)}
<1>0. \A x \in S : f[x] \in Int
  OBVIOUS
<1>1. {} \in T
  <2>1. SumFunctionOnSet(f, {}) = 0
    BY <1>0, SumStep
  <2>2. Cardinality({}) = 0
    BY FS_EmptySet
  <2>. QED
    BY <2>1, <2>2
<1>2. ASSUME NEW U \in SUBSET S, U # {}, \A V \in SUBSET U : V # U => V \in T
      PROVE  U \in T
  <2>1. PICK x \in U : TRUE
    BY <1>2
  <2>2. SumFunctionOnSet(f, U) = f[x] + SumFunctionOnSet(f, U \ {x})
    BY <1>0, <2>1, SumTakeOut
  <2>3. U \ {x} \in T
    BY <1>2, <2>1
  <2>4. PICK n \in Nat : n = Cardinality(U \ {x}) /\ Cardinality(U) = n + 1
    <3>1. IsFiniteSet(U \ {x}) /\ x \notin U \ {x} /\ (U \ {x}) \cup {x} = U
      BY <2>1, FS_Subset
    <3>2. Cardinality(U \ {x}) \in Nat
      BY <3>1, FS_CardinalityType
    <3>3. Cardinality((U \ {x}) \cup {x}) = Cardinality(U \ {x}) + 1
      BY <3>1, FS_AddElement
    <3>. QED
      BY <3>1, <3>2, <3>3
  <2>5. SumFunctionOnSet(f, U) = c + c * n
    BY <2>1, <2>2, <2>3, <2>4
  <2>6. c + c * n = c * (n + 1)
    BY <2>4
  <2>. QED
    BY <2>4, <2>5, <2>6
<1>. HIDE DEF T
<1>3. \A U \in SUBSET S : U \in T
  BY <1>1, <1>2, SubsetInduction
<1>. QED
  BY <1>3 DEF T

\* Indices paired off with indices of the opposite value add up to nothing.
LEMMA SumCancels ==
  ASSUME NEW P, IsFiniteSet(P), NEW mate, NEW f,
         \A x, y \in P : mate[x] = mate[y] => x = y,
         \A x, y \in P : mate[x] # y,
         \A x \in P : f[x] \in Int /\ f[mate[x]] = -f[x]
  PROVE  SumFunctionOnSet(f, P \cup {mate[x] : x \in P}) = 0
<1>. DEFINE Both(U) == U \cup {mate[x] : x \in U}
            T == {U \in SUBSET P : IsFiniteSet(Both(U)) /\ SumFunctionOnSet(f, Both(U)) = 0}
<1>0. \A U \in SUBSET P : \A y \in Both(U) : f[y] \in Int
  OBVIOUS
<1>1. {} \in T
  <2>1. Both({}) = {}
    OBVIOUS
  <2>2. IsFiniteSet({}) /\ SumFunctionOnSet(f, {}) = 0
    BY FS_EmptySet, SumStep
  <2>. QED
    BY <2>1, <2>2
<1>2. ASSUME NEW U \in SUBSET P, U # {}, \A V \in SUBSET U : V # U => V \in T
      PROVE  U \in T
  <2>1. PICK x \in U : TRUE
    BY <1>2
  <2>. DEFINE W == U \ {x}
              S == Both(W)
  <2>2. W \in T
    BY <1>2, <2>1
  <2>3. IsFiniteSet(S) /\ SumFunctionOnSet(f, S) = 0
    BY <2>2
  <2>4. x \notin S /\ mate[x] \notin S \cup {x} /\ Both(U) = (S \cup {x}) \cup {mate[x]}
    BY <2>1
  <2>5. \A y \in (S \cup {x}) \cup {mate[x]} : f[y] \in Int
    BY <1>0, <2>4
  <2>6. f[x] \in Int /\ f[mate[x]] = -f[x]
    BY <2>1
  <2>. HIDE DEF W, S, Both
  <2>7. SumFunctionOnSet(f, S \cup {x}) = f[x] /\ IsFiniteSet(S \cup {x})
    <3>1. SumFunctionOnSet(f, S \cup {x}) = SumFunctionOnSet(f, S) + f[x]
      BY <2>3, <2>4, <2>5, SumAddOne
    <3>2. IsFiniteSet(S \cup {x})
      BY <2>3, FS_AddElement
    <3>. QED
      BY <2>3, <2>6, <3>1, <3>2
  <2>8. SumFunctionOnSet(f, Both(U)) = SumFunctionOnSet(f, S \cup {x}) + f[mate[x]]
    <3>. DEFINE R == S \cup {x}
                b == mate[x]
    <3>1. IsFiniteSet(R) /\ b \notin R /\ \A y \in R \cup {b} : f[y] \in Int
      BY <2>4, <2>5, <2>7
    <3>. HIDE DEF R, b
    <3>2. SumFunctionOnSet(f, R \cup {b}) = SumFunctionOnSet(f, R) + f[b]
      BY <3>1, SumAddOne
    <3>. QED
      BY <2>4, <3>2 DEF R, b
  <2>9. IsFiniteSet(Both(U))
    BY <2>4, <2>7, FS_AddElement
  <2>. QED
    BY <2>6, <2>7, <2>8, <2>9
<1>3. P \in T
  <2>. HIDE DEF T
  <2>. QED
    BY <1>1, <1>2, SubsetInduction
<1>. QED
  BY <1>3

-----------------------------------------------------------------------------
(* A finite set put in order.                                              *)

\* A finite set that is not empty has an element before no other, for a strict order.
LEMMA LastExists ==
  ASSUME NEW S, IsFiniteSet(S), S # {}, NEW before,
         \A x \in S : <<x, x>> \notin before,
         \A x, y, z \in S : <<x, y>> \in before /\ <<y, z>> \in before => <<x, z>> \in before
  PROVE  \E x \in S : \A y \in S : <<x, y>> \notin before
<1>. DEFINE T == {U \in SUBSET S : U = {} \/ \E x \in U : \A y \in U : <<x, y>> \notin before}
<1>1. {} \in T
  OBVIOUS
<1>2. ASSUME NEW U \in SUBSET S, U # {}, \A W \in SUBSET U : W # U => W \in T
      PROVE  U \in T
  <2>1. PICK a \in U : TRUE
    BY <1>2
  <2>2. U \ {a} \in T
    BY <1>2, <2>1
  <2>3. CASE U \ {a} = {}
    BY <2>1, <2>3
  <2>4. CASE U \ {a} # {}
    <3>1. PICK x \in U \ {a} : \A y \in U \ {a} : <<x, y>> \notin before
      BY <2>2, <2>4
    <3>2. CASE <<x, a>> \in before
      <4>1. \A y \in U : <<a, y>> \notin before
        BY <3>1, <3>2
      <4>. QED
        BY <4>1
    <3>3. CASE <<x, a>> \notin before
      BY <3>1, <3>3
    <3>. QED
      BY <3>2, <3>3
  <2>. QED
    BY <2>3, <2>4
<1>3. S \in T
  <2>. HIDE DEF T
  <2>. QED
    BY <1>1, <1>2, SubsetInduction
<1>. QED
  BY <1>3

\* A finite set can be listed so that nothing comes after what it is before.
LEMMA OrderExists ==
  ASSUME NEW S, IsFiniteSet(S), NEW before,
         \A x \in S : <<x, x>> \notin before,
         \A x, y, z \in S : <<x, y>> \in before /\ <<y, z>> \in before => <<x, z>> \in before
  PROVE  \E seq \in [1..Cardinality(S) -> S] :
           /\ IsInjective(seq)
           /\ \A i, j \in 1..Cardinality(S) : <<seq[i], seq[j]>> \in before => i < j
<1>. DEFINE Listed(U, seq) ==
              /\ IsInjective(seq)
              /\ \A i, j \in 1..Cardinality(U) : <<seq[i], seq[j]>> \in before => i < j
            T == {U \in SUBSET S : \E seq \in [1..Cardinality(U) -> U] : Listed(U, seq)}
<1>1. {} \in T
  <2>1. Cardinality({}) = 0
    BY FS_EmptySet
  <2>2. << >> \in [1..0 -> {}] /\ IsInjective(<< >>)
    BY DEF IsInjective
  <2>3. 1..0 = {}
    OBVIOUS
  <2>4. Listed({}, << >>)
    BY <2>1, <2>2, <2>3
  <2>. QED
    BY <2>1, <2>2, <2>4
<1>2. ASSUME NEW U \in SUBSET S, U # {}, \A W \in SUBSET U : W # U => W \in T
      PROVE  U \in T
  <2>1. IsFiniteSet(U)
    BY FS_Subset
  <2>2. PICK last \in U : \A y \in U : <<last, y>> \notin before
    BY <1>2, <2>1, LastExists
  <2>. DEFINE W == U \ {last}
              n == Cardinality(W)
  <2>3. W \in T /\ W \in SUBSET U
    BY <1>2, <2>2
  <2>4. n \in Nat /\ Cardinality(U) = n + 1
    <3>1. IsFiniteSet(W) /\ last \notin W /\ W \cup {last} = U
      BY <2>1, <2>2, FS_Subset
    <3>2. n \in Nat
      BY <3>1, FS_CardinalityType
    <3>3. Cardinality(W \cup {last}) = n + 1
      BY <3>1, FS_AddElement
    <3>. QED
      BY <3>1, <3>2, <3>3
  <2>5. PICK seq \in [1..n -> W] : Listed(W, seq)
    BY <2>3
  <2>. HIDE DEF n
  <2>. DEFINE new == [k \in 1..(n + 1) |-> IF k = n + 1 THEN last ELSE seq[k]]
  <2>6. new \in [1..(n + 1) -> U]
    BY <2>2, <2>4, <2>5
  <2>7. \A k \in 1..(n + 1) : k # n + 1 => k \in 1..n /\ new[k] = seq[k] /\ seq[k] # last
    BY <2>4, <2>5
  <2>8. new[n + 1] = last
    BY <2>4
  <2>9. IsInjective(new)
    <3>. SUFFICES ASSUME NEW a \in 1..(n + 1), NEW b \in 1..(n + 1), new[a] = new[b]
                  PROVE  a = b
      BY DEF IsInjective
    <3>1. \A x, y \in 1..n : seq[x] = seq[y] => x = y
      BY <2>5 DEF IsInjective
    <3>. QED
      BY <2>7, <2>8, <3>1
  <2>10. ASSUME NEW i \in 1..(n + 1), NEW j \in 1..(n + 1), <<new[i], new[j]>> \in before
         PROVE  i < j
    <3>1. i # n + 1
      BY <2>2, <2>6, <2>8, <2>10
    <3>2. i \in 1..n /\ new[i] = seq[i]
      BY <2>7, <3>1
    <3>3. CASE j = n + 1
      BY <2>4, <3>2, <3>3
    <3>4. CASE j # n + 1
      <4>1. j \in 1..n /\ new[j] = seq[j]
        BY <2>7, <3>4
      <4>2. \A x, y \in 1..n : <<seq[x], seq[y]>> \in before => x < y
        BY <2>5 DEF n
      <4>. QED
        BY <2>10, <3>2, <4>1, <4>2
    <3>. QED
      BY <3>3, <3>4
  <2>. HIDE DEF new
  <2>11. Listed(U, new)
    BY <2>4, <2>9, <2>10
  <2>12. new \in [1..Cardinality(U) -> U]
    BY <2>4, <2>6
  <2>. QED
    BY <2>11, <2>12
<1>3. S \in T
  <2>. HIDE DEF T
  <2>. QED
    BY <1>1, <1>2, SubsetInduction
<1>. QED
  BY <1>3

\* The elements of a set that have a key.
WithKey(S, key, x) == {i \in S : key[i] = x}

\* The sum over the parts of a partition is the sum over the whole: the elements of S
\* are put into the parts T by a key, and h has the sum over each part.
LEMMA SumPartition ==
  ASSUME NEW S, IsFiniteSet(S), NEW f, \A i \in S : f[i] \in Int,
         NEW T, IsFiniteSet(T), NEW key, \A i \in S : key[i] \in T,
         NEW h, \A x \in T : h[x] = SumFunctionOnSet(f, WithKey(S, key, x))
  PROVE  SumFunctionOnSet(h, T) = SumFunctionOnSet(f, S)
<1>. DEFINE Part(U) == {i \in S : key[i] \in U}
            Good == {U \in SUBSET T : SumFunctionOnSet(h, U) = SumFunctionOnSet(f, Part(U))}
<1>1. \A x \in T : h[x] \in Int
  <2>1. ASSUME NEW x \in T
        PROVE  h[x] \in Int
    <3>1. PICK P : P = WithKey(S, key, x) /\ P = {i \in S : key[i] = x}
      BY DEF WithKey
    <3>2. IsFiniteSet(P) /\ \A i \in P : f[i] \in Int
      BY <3>1, FS_Subset
    <3>3. SumFunctionOnSet(f, P) \in Int
      BY <3>2, SumStep
    <3>. QED
      BY <2>1, <3>1, <3>3
  <2>. QED
    BY <2>1
<1>2. {} \in Good
  <2>1. IsFiniteSet({})
    BY FS_EmptySet
  <2>2. SumFunctionOnSet(h, {}) = 0
    BY <1>1, SumStep
  <2>3. SumFunctionOnSet(f, {}) = 0
    BY SumStep
  <2>4. Part({}) = {}
    OBVIOUS
  <2>. QED
    BY <2>2, <2>3, <2>4
<1>3. ASSUME NEW U \in SUBSET T, U # {}, \A V \in SUBSET U : V # U => V \in Good
      PROVE  U \in Good
  <2>1. PICK x : x \in U
    BY <1>3
  <2>2. PICK V : V = U \ {x}
    OBVIOUS
  <2>3. PICK P, Q : P = Part(V) /\ Q = {i \in S : key[i] = x} /\ Q = WithKey(S, key, x)
    BY DEF WithKey
  <2>4. IsFiniteSet(V) /\ V \cup {x} = U /\ x \notin V /\ x \in T
    <3>1. V \subseteq T
      BY <2>2
    <3>. QED
      BY <2>1, <2>2, <3>1, FS_Subset
  <2>5. /\ IsFiniteSet(P) /\ IsFiniteSet(Q) /\ P \cap Q = {} /\ P \cup Q = Part(U)
        /\ \A i \in P \cup Q : f[i] \in Int
    <3>1. P \subseteq S /\ Q \subseteq S
      BY <2>3
    <3>2. IsFiniteSet(P) /\ IsFiniteSet(Q)
      BY <3>1, FS_Subset
    <3>3. P \cap Q = {} /\ P \cup Q = Part(U)
      BY <2>3, <2>4
    <3>. QED
      BY <3>1, <3>2, <3>3
  <2>6. SumFunctionOnSet(h, V) = SumFunctionOnSet(f, P)
    <3>1. V \in SUBSET U /\ V # U
      BY <2>1, <2>2
    <3>. QED
      BY <1>3, <2>3, <3>1
  <2>7. SumFunctionOnSet(h, V \cup {x}) = SumFunctionOnSet(h, V) + h[x]
    <3>1. \A y \in V \cup {x} : h[y] \in Int
      BY <1>1, <2>4
    <3>. QED
      BY <2>4, <3>1, SumAddOne
  <2>8. SumFunctionOnSet(f, P \cup Q) = SumFunctionOnSet(f, P) + SumFunctionOnSet(f, Q)
    BY <2>5, SumUnion
  <2>9. h[x] = SumFunctionOnSet(f, Q)
    BY <2>3, <2>4
  <2>10. SumFunctionOnSet(h, U) = SumFunctionOnSet(f, Part(U))
    BY ONLY <2>4, <2>5, <2>6, <2>7, <2>8, <2>9
  <2>. QED
    BY <2>10
<1>4. T \in Good
  <2>. HIDE DEF Good
  <2>. QED
    BY <1>2, <1>3, SubsetInduction
<1>5. Part(T) = S
  OBVIOUS
<1>. QED
  BY <1>4, <1>5
=============================================================================
