----------------------------- MODULE AuditLedger -----------------------------
(***************************************************************************)
(* What the bank ledger promises to whoever audits it, whichever service   *)
(* wrote it and for whatever reason: rows are only ever added; a row is    *)
(* taken back by at most one later row, which mirrors it; and a row is     *)
(* corrected in place only as long as nothing has taken it back, and only  *)
(* in its amount and its date.  FixedDeposits implements this              *)
(* specification.                                                          *)
(***************************************************************************)
EXTENDS BankLedger, TLAPS

VARIABLE ledger

\* The type of reversal that takes back a row of type `original`.
ReversalFits(type, original) ==
  CASE type = "REVERSAL" -> original \in ReversibleManualTypes
    [] type = "FD_OPENING_REVERSAL" -> original = "FD_OPENING"
    [] type = "FD_INTEREST_REVERSAL" -> original = "FD_INTEREST"
    [] OTHER -> FALSE

\* Row m undoes `original`: on the same account and for the same deposit, the
\* same amount the other way.
Mirrors(m, original) ==
  /\ ReversalFits(m.type, original.type)
  /\ m.account = original.account
  /\ m.deposit = original.deposit
  /\ m.amount = original.amount
  /\ m.direction = OppositeDirection(original.direction)

\* Row i may be taken back, and may still be corrected.
Stands(i) == i \in DOMAIN ledger /\ ~IsReversal(ledger, i) /\ ~IsReversed(ledger, i)

NewRows == DOMAIN ledger' \ DOMAIN ledger

\* One request adds rows, after those that are there and leaving them alone.  A
\* reversal among them takes back a row that was there and stood.
Insert ==
  /\ DOMAIN ledger \subseteq DOMAIN ledger'
  /\ \A i \in DOMAIN ledger : ledger'[i] = ledger[i] /\ \A j \in NewRows : i < j
  /\ \A i \in NewRows : IsReversal(ledger', i) =>
       LET r == ledger'[i].reverses IN
       /\ Stands(r)
       /\ Mirrors(ledger'[i], ledger[r])
       /\ \A j \in NewRows : ledger'[j].reverses = r => j = i

\* What a correction may not touch: all of a row but its amount and its date.
SameMovement(m, old) ==
  /\ m.type = old.type /\ m.direction = old.direction
  /\ m.account = old.account /\ m.portfolio = old.portfolio
  /\ m.deposit = old.deposit
  /\ m.reverses = old.reverses

\* One request corrects one row that stands.
Correct ==
  /\ DOMAIN ledger' = DOMAIN ledger
  /\ \E i \in DOMAIN ledger :
       /\ Stands(i)
       /\ SameMovement(ledger'[i], ledger[i])
       /\ \A j \in DOMAIN ledger \ {i} : ledger'[j] = ledger[j]

Init == \A i \in DOMAIN ledger : ~IsReversal(ledger, i)

Next == Insert \/ Correct

Spec == Init /\ [][Next]_ledger

-----------------------------------------------------------------------------
(* Properties.                                                             *)

\* No row of the ledger is taken back twice: by the reversal endpoints, by
\* cancellation or by the repair command, in any order.
OneReversalPerMovement ==
  \A i, j \in DOMAIN ledger :
    IsReversal(ledger, i) /\ ledger[i].reverses = ledger[j].reverses => i = j

\* A reversal undoes exactly what it names: an earlier row that is itself no
\* reversal, on the same account, for the same amount, the other way.  It holds
\* although the services build the reversal from the deposit or the payment and
\* not from the original row, and both may have been edited in between.
ReversalMirrorsOriginal ==
  \A i \in DOMAIN ledger : IsReversal(ledger, i) =>
    LET r == ledger[i].reverses IN
    /\ r \in DOMAIN ledger /\ r < i
    /\ ~IsReversal(ledger, r)
    /\ Mirrors(ledger[i], ledger[r])

\* The audit trail is frozen: no row ever leaves the ledger, and a reversal or
\* a reversed row is never rewritten, not even by the in-place edits of a
\* payment or of an investment date.
Frozen ==
  \A i \in DOMAIN ledger :
    /\ i \in DOMAIN ledger'
    /\ IsReversal(ledger, i) \/ IsReversed(ledger, i) => ledger'[i] = ledger[i]

AuditTrailFrozen == [][Frozen]_ledger

-----------------------------------------------------------------------------
(* The specification keeps its promises.                                   *)

\* The inductive invariant is the promise itself.
Audited == OneReversalPerMovement /\ ReversalMirrorsOriginal

\* New rows, of which a reversal names one standing original, keep the promise.
LEMMA InsertKeepsAudited == Audited /\ Insert => Audited'
<1> SUFFICES ASSUME Audited, Insert PROVE Audited'
  OBVIOUS
<1>1. \A i \in DOMAIN ledger : i \in DOMAIN ledger' /\ ledger'[i] = ledger[i]
  BY DEF Insert
<1>2. ASSUME NEW i \in DOMAIN ledger', NEW j \in DOMAIN ledger',
             IsReversal(ledger', i), ledger'[i].reverses = ledger'[j].reverses
      PROVE  i = j
  <2>1. IsReversal(ledger', j)
    BY <1>2 DEF IsReversal
  <2>2. CASE i \in DOMAIN ledger /\ j \in DOMAIN ledger
    BY <1>1, <1>2, <2>2 DEF Audited, OneReversalPerMovement, IsReversal
  <2>3. CASE i \in NewRows /\ j \in NewRows
    BY <1>2, <2>3 DEF Insert
  <2>4. CASE i \in NewRows /\ j \in DOMAIN ledger
    <3>1. ~IsReversed(ledger, ledger'[i].reverses)
      BY <1>2, <2>4 DEF Insert, Stands
    <3> QED BY <1>1, <1>2, <2>4, <3>1 DEF IsReversed
  <2>5. CASE i \in DOMAIN ledger /\ j \in NewRows
    <3>1. ~IsReversed(ledger, ledger'[j].reverses)
      BY <2>1, <2>5 DEF Insert, Stands
    <3> QED BY <1>1, <1>2, <2>5, <3>1 DEF IsReversed
  <2> QED BY <2>2, <2>3, <2>4, <2>5 DEF NewRows
<1>3. ASSUME NEW i \in DOMAIN ledger', IsReversal(ledger', i)
      PROVE  LET r == ledger'[i].reverses IN
             /\ r \in DOMAIN ledger' /\ r < i
             /\ ~IsReversal(ledger', r)
             /\ Mirrors(ledger'[i], ledger'[r])
  <2>1. CASE i \in DOMAIN ledger
    BY <1>1, <1>3, <2>1 DEF Audited, ReversalMirrorsOriginal, IsReversal
  <2>2. CASE i \in NewRows
    BY <1>1, <1>3, <2>2 DEF Insert, Stands, IsReversal
  <2> QED BY <2>1, <2>2 DEF NewRows
<1> QED BY <1>2, <1>3 DEF Audited, OneReversalPerMovement, ReversalMirrorsOriginal

\* Correcting an amount keeps the promise: a row with a reversal is not corrected.
LEMMA CorrectKeepsAudited == Audited /\ Correct => Audited'
<1> SUFFICES ASSUME Audited, Correct PROVE Audited'
  OBVIOUS
<1>1. PICK c \in DOMAIN ledger :
        /\ Stands(c)
        /\ SameMovement(ledger'[c], ledger[c])
        /\ \A j \in DOMAIN ledger \ {c} : ledger'[j] = ledger[j]
  BY DEF Correct
<1>2. DOMAIN ledger' = DOMAIN ledger
  BY DEF Correct
<1>3. \A i \in DOMAIN ledger : ledger'[i].reverses = ledger[i].reverses
  BY <1>1 DEF SameMovement
<1>4. OneReversalPerMovement'
  BY <1>2, <1>3 DEF Audited, OneReversalPerMovement, IsReversal
<1>5. ASSUME NEW i \in DOMAIN ledger', IsReversal(ledger', i)
      PROVE  LET r == ledger'[i].reverses IN
             /\ r \in DOMAIN ledger' /\ r < i
             /\ ~IsReversal(ledger', r)
             /\ Mirrors(ledger'[i], ledger'[r])
  <2> DEFINE r == ledger[i].reverses
  <2>1. IsReversal(ledger, i) /\ i # c /\ r # c
    BY <1>1, <1>2, <1>3, <1>5 DEF Stands, IsReversal, IsReversed
  <2>2. /\ r \in DOMAIN ledger /\ r < i
        /\ ~IsReversal(ledger, r)
        /\ Mirrors(ledger[i], ledger[r])
    BY <1>2, <1>5, <2>1 DEF Audited, ReversalMirrorsOriginal
  <2>3. ledger'[i] = ledger[i] /\ ledger'[r] = ledger[r]
    BY <1>1, <1>2, <1>5, <2>1, <2>2
  <2> QED BY <1>2, <2>2, <2>3 DEF IsReversal
<1> QED BY <1>4, <1>5 DEF Audited, ReversalMirrorsOriginal

\* Whatever implements the specification never takes a row back twice, and every
\* reversal it writes undoes an earlier row exactly.
THEOREM AuditedAlways == Spec => [](OneReversalPerMovement /\ ReversalMirrorsOriginal)
<1>1. Init => Audited
  BY DEF Init, Audited, OneReversalPerMovement, ReversalMirrorsOriginal
<1>2. Audited /\ [Next]_ledger => Audited'
  <2> SUFFICES ASSUME Audited, [Next]_ledger PROVE Audited'
    OBVIOUS
  <2>1. CASE UNCHANGED ledger
    BY <2>1 DEF Audited, OneReversalPerMovement, ReversalMirrorsOriginal, IsReversal
  <2> QED BY <2>1, InsertKeepsAudited, CorrectKeepsAudited DEF Next
<1>3. Audited => OneReversalPerMovement /\ ReversalMirrorsOriginal
  BY DEF Audited
<1> QED BY <1>1, <1>2, <1>3, PTL DEF Spec

\* Whatever implements the specification never loses a row and never rewrites a
\* reversal or a row that was taken back.
THEOREM TrailFrozen == Spec => AuditTrailFrozen
<1>1. Insert => Frozen
  BY DEF Insert, Frozen
<1>2. Correct => Frozen
  BY DEF Correct, Frozen, Stands
<1>3. [Next]_ledger => [Frozen]_ledger
  BY <1>1, <1>2 DEF Next
<1> QED BY <1>3, PTL DEF Spec, AuditTrailFrozen
=============================================================================
