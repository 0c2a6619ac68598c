-------------------- MODULE FixedDepositsConcurrent_proofs --------------------
(***************************************************************************)
(* What holds of FixedDepositsConcurrent whatever the requests, their      *)
(* number and the way their statements interleave.                         *)
(***************************************************************************)
EXTENDS FixedDepositsConcurrent, FoldLemmas

-----------------------------------------------------------------------------
(* The inductive invariant.                                                *)

Inserting == {"cancel", "settle", "record", "reverse", "withdraw"}
RowType == [withdraw |-> "MANUAL", cancel |-> "FD_OPENING_REVERSAL",
            settle |-> "FD_PRINCIPAL", record |-> "FD_INTEREST",
            reverse |-> "FD_INTEREST_REVERSAL"]
InsertAt == [withdraw |-> 1, cancel |-> 3, settle |-> 3, record |-> 3, reverse |-> 3]

MovementTypes == {"MANUAL", "FD_OPENING", "FD_OPENING_REVERSAL", "FD_PRINCIPAL",
                  "FD_INTEREST", "FD_INTEREST_REVERSAL"}
MovementRecord ==
  [by : Requests \cup {NoRequest}, type : MovementTypes, amount : Int, reverses : Nat]

\* What the variables hold, beyond TypeOK: a row lock is free or held by a request.
Shape ==
  /\ kind \in [Requests -> Kinds] /\ pc \in [Requests -> Nat]
  /\ DOMAIN own = Requests /\ DOMAIN seen = Requests /\ DOMAIN sum = Requests
  /\ locks \in [Rows -> Requests \cup {NoRequest}]
  /\ ledger \in Seq(MovementRecord) /\ Len(ledger) >= OpeningRow
  /\ db.net \in Int /\ \A r \in Requests : seen[r].net \in Int

\* The rows of the ledger: a request inserts at most one, of the type it is for,
\* at its INSERT and not before; no other row is a settlement or takes back interest.
RowsOfRequests ==
  /\ \A i \in DOMAIN ledger : LET r == ledger[i].by IN
       IF r = NoRequest
       THEN ledger[i].type \notin {"FD_PRINCIPAL", "FD_INTEREST_REVERSAL"}
       ELSE /\ kind[r] \in Inserting /\ ledger[i].type = RowType[kind[r]]
            /\ Failed(r) \/ pc[r] > InsertAt[kind[r]]
  /\ \A i, j \in DOMAIN ledger :
       ledger[i].by = ledger[j].by /\ ledger[i].by # NoRequest => i = j
  /\ \A r \in Requests : kind[r] \in Inserting /\ pc[r] > InsertAt[kind[r]]
                           => \E i \in DOMAIN ledger : ledger[i].by = r

\* The columns an open transaction has written, by how far it has come.
OwnColumns ==
  \A r \in Requests : ~Finished(r) =>
    /\ "settled" \in DOMAIN own[r] <=> kind[r] = "settle" /\ pc[r] > 6
    /\ "is_reversed" \in DOMAIN own[r] <=> kind[r] = "reverse" /\ pc[r] > 6
    /\ "net" \in DOMAIN own[r] <=> kind[r] = "edit" /\ pc[r] > 3
    /\ "amount" \in DOMAIN own[r] <=> kind[r] = "edit" /\ pc[r] > 4
    /\ "settled" \in DOMAIN own[r] => own[r].settled = TRUE
    /\ "is_reversed" \in DOMAIN own[r] => own[r].is_reversed = TRUE
    /\ "net" \in DOMAIN own[r] => own[r].net = NewInterest
    /\ "amount" \in DOMAIN own[r] => own[r].amount = NewInterest

\* The unique key: whoever holds it writes the first settlement; nobody else can.
SettlementKey ==
  /\ \A r \in Requests : "settled" \in DOMAIN own[r] => locks["settlement"] = r
  /\ locks["settlement"] # NoRequest => ~db.settled
  /\ db.settled <=> \E r \in Requests : kind[r] = "settle" /\ Committed(r)
  /\ \A q, r \in Requests : kind[q] = "settle" /\ Committed(q)
                             /\ kind[r] = "settle" /\ Committed(r) => q = r

\* What the committed requests have left in the payment and its movement.
PaymentColumns ==
  /\ db.net = db.amount
  /\ db.is_reversed <=> \E r \in Requests : kind[r] = "reverse" /\ Committed(r)

IInv == TypeOK /\ Shape /\ RowsOfRequests /\ OwnColumns /\ SettlementKey /\ PaymentColumns

-----------------------------------------------------------------------------
(* The statements of the requests.                                         *)

ProgramLen == [withdraw |-> 4, cancel |-> 7, settle |-> 8, record |-> 6, edit |-> 7,
               reverse |-> 7, put |-> 3, matured |-> 4, account |-> 3]

\* Where each statement stands in the program of each kind of request.
LEMMA Statements ==
  ASSUME NEW r \in Requests, kind[r] \in Kinds, pc[r] \in Nat
  PROVE  /\ Len(Program[kind[r]]) = ProgramLen[kind[r]]
         /\ At(r, "load") => pc[r] = 1 /\ kind[r] # "withdraw"
         /\ At(r, "check") => pc[r] = 2 /\ kind[r] \notin {"withdraw", "put", "account"}
         /\ At(r, "insert") => kind[r] \in Inserting /\ pc[r] = InsertAt[kind[r]]
         /\ At(r, "sum") => kind[r] \notin {"put", "matured", "account"}
                             /\ pc[r] = (IF kind[r] = "withdraw" THEN 2 ELSE
                                         IF kind[r] = "edit" THEN 5 ELSE 4)
         /\ At(r, "balance") =>
              \/ kind[r] = "withdraw" /\ pc[r] = 3
              \/ kind[r] \in {"cancel", "settle", "record", "reverse"} /\ pc[r] = 5
              \/ kind[r] = "edit" /\ pc[r] = 6
              \/ kind[r] = "account" /\ pc[r] = 2
         /\ At(r, "deposit") =>
              \/ kind[r] = "cancel" /\ pc[r] = 6
              \/ kind[r] = "settle" /\ pc[r] = 7
              \/ kind[r] = "put" /\ pc[r] = 2
              \/ kind[r] = "matured" /\ pc[r] = 3
         /\ At(r, "payment") =>
              \/ kind[r] = "edit" /\ pc[r] = 3
              \/ kind[r] = "reverse" /\ pc[r] = 6
         /\ At(r, "movement") => kind[r] = "edit" /\ pc[r] = 4
         /\ At(r, "settlement") => kind[r] = "settle" /\ pc[r] = 6
         /\ At(r, "commit") => pc[r] = ProgramLen[kind[r]]
<1>. USE DEF At, Finished, Failed, Committed, Program, ProgramLen, Inserting, InsertAt,
             Withdraw, Cancel, Settle, Record, Edit, Reverse, Put, MarkMatured, UpdateAccount
<1>1. CASE kind[r] = "withdraw"
  BY <1>1
<1>2. CASE kind[r] = "cancel"
  BY <1>2
<1>3. CASE kind[r] = "settle"
  BY <1>3
<1>4. CASE kind[r] = "record"
  BY <1>4
<1>5. CASE kind[r] = "edit"
  BY <1>5
<1>6. CASE kind[r] = "reverse"
  BY <1>6
<1>7. CASE kind[r] = "put"
  BY <1>7
<1>8. CASE kind[r] = "matured"
  BY <1>8
<1>9. CASE kind[r] = "account"
  BY <1>9
<1>. HIDE DEF At, Finished, Failed, Committed, Program, ProgramLen, Inserting, InsertAt,
              Withdraw, Cancel, Settle, Record, Edit, Reverse, Put, MarkMatured, UpdateAccount
<1>. QED
  BY <1>1, <1>2, <1>3, <1>4, <1>5, <1>6, <1>7, <1>8, <1>9 DEF Kinds

-----------------------------------------------------------------------------
(* The steps.                                                              *)

\* What every step needs of the state before it.
LEMMA Before ==
  ASSUME IInv, NEW r \in Requests
  PROVE  /\ kind[r] \in Kinds /\ pc[r] \in Nat
         /\ pc[r] <= ProgramLen[kind[r]] + 1
         /\ Len(Program[kind[r]]) = ProgramLen[kind[r]]
         /\ ProgramLen[kind[r]] \in Nat
         /\ Committed(r) <=> pc[r] = ProgramLen[kind[r]] + 1
<1>1. kind[r] \in Kinds /\ pc[r] \in Nat /\ pc[r] \in 0 .. Len(Program[kind[r]]) + 1
  BY DEF IInv, Shape, TypeOK
<1>2. Len(Program[kind[r]]) = ProgramLen[kind[r]]
  BY <1>1, Statements
<1>3. ProgramLen[kind[r]] \in Nat
  BY <1>1 DEF ProgramLen, Kinds
<1>. QED
  BY <1>1, <1>2, <1>3 DEF Committed

\* The rows of the ledger are records of movements, by requests or by nobody.
LEMMA LedgerRows ==
  ASSUME IInv
  PROVE  /\ Len(ledger) \in Nat /\ DOMAIN ledger = 1 .. Len(ledger)
         /\ \A i \in DOMAIN ledger :
              /\ ledger[i] \in MovementRecord
              /\ ledger[i].by \in Requests \cup {NoRequest}
              /\ ledger[i].amount \in Int
<1>1. ledger \in Seq(MovementRecord)
  BY DEF IInv, Shape
<1>2. \A i \in DOMAIN ledger : ledger[i] \in MovementRecord
  BY <1>1
<1>3. \A row \in MovementRecord : row.by \in Requests \cup {NoRequest} /\ row.amount \in Int
  BY DEF MovementRecord
<1>. QED
  BY <1>1, <1>2, <1>3

\* A transaction that is rolled back leaves the invariant as it was.
LEMMA FailKeeps ==
  ASSUME IInv, NEW r \in Requests, ~Finished(r), Fail(r)
  PROVE  IInv'
<1>1. /\ pc' = [pc EXCEPT ![r] = 0] /\ own' = [own EXCEPT ![r] = <<>>]
      /\ locks' = [row \in Rows |-> IF locks[row] = r THEN NoRequest ELSE locks[row]]
      /\ UNCHANGED <<kind, ledger, db, seen, sum>>
  BY DEF Fail, ReleaseLocks
<1>2. /\ pc[r] # 0 /\ Len(Program[kind[r]]) \in Nat
      /\ pc[r] <= Len(Program[kind[r]])
  BY Before DEF Finished, Failed, Committed
<1>. USE DEF Finished, Failed, Committed
<1>3. TypeOK'
  <2>1. kind' \in [Requests -> RequestKinds] /\ DOMAIN db' = Columns /\ DOMAIN locks' = Rows
    BY <1>1 DEF IInv, TypeOK
  <2>2. ASSUME NEW q \in Requests
        PROVE  /\ pc'[q] \in 0 .. Len(Program[kind[q]]) + 1
               /\ DOMAIN own'[q] \subseteq Columns
               /\ Finished(q)' => own'[q] = <<>> /\ \A row \in Rows : locks'[row] # q
    BY <1>1, <1>2, ConcurrencyAssumption DEF IInv, TypeOK, Shape, ConcurrencyAssumption
  <2>. QED
    BY <1>1, <2>1, <2>2 DEF IInv, TypeOK
<1>4. Shape'
  BY <1>1, <1>2 DEF IInv, Shape
<1>5. RowsOfRequests'
  BY <1>1, <1>2 DEF IInv, Shape, RowsOfRequests, Inserting, InsertAt
<1>6. OwnColumns'
  BY <1>1, <1>2 DEF IInv, Shape, OwnColumns
<1>7. SettlementKey'
  BY <1>1, <1>2 DEF IInv, Shape, SettlementKey, Rows
<1>8. PaymentColumns'
  <2>1. \A q \in Requests : Committed(q)' <=> Committed(q)
    BY <1>1, <1>2 DEF IInv, Shape
  <2>. QED
    BY <1>1, <2>1 DEF IInv, PaymentColumns
<1>. QED
  BY <1>3, <1>4, <1>5, <1>6, <1>7, <1>8 DEF IInv

\* A statement before the last moves its request on and finishes no one.
LEMMA Advancing ==
  ASSUME IInv, NEW r \in Requests, ~Finished(r), ~At(r, "commit"), Advance(r),
         UNCHANGED kind
  PROVE  /\ pc' \in [Requests -> Nat] /\ pc'[r] = pc[r] + 1 /\ pc[r] \in Nat \ {0}
         /\ pc[r] < Len(Program[kind[r]])
         /\ ~Finished(r)'
         /\ \A q \in Requests :
              /\ q # r => pc'[q] = pc[q]
              /\ Committed(q)' <=> Committed(q)
              /\ Failed(q)' <=> Failed(q)
              /\ Finished(q)' <=> Finished(q)
              /\ pc'[q] \in 0 .. Len(Program[kind[q]]) + 1
<1>1. /\ pc[r] \in Nat \ {0} /\ Len(Program[kind[r]]) = ProgramLen[kind[r]]
      /\ ProgramLen[kind[r]] \in Nat /\ kind[r] \in Kinds
      /\ pc[r] <= Len(Program[kind[r]])
  BY Before DEF Finished, Failed, Committed
<1>2. pc[r] # Len(Program[kind[r]])
  <2>1. Program[kind[r]][ProgramLen[kind[r]]] = "commit"
    BY <1>1
    DEF Program, ProgramLen, Kinds, Withdraw, Cancel, Settle, Record, Edit, Reverse, Put,
        MarkMatured, UpdateAccount
  <2>. QED
    BY <1>1, <2>1 DEF At
<1>3. pc' = [pc EXCEPT ![r] = pc[r] + 1] /\ pc \in [Requests -> Nat]
  BY DEF Advance, IInv, Shape
<1>4. \A q \in Requests : pc[q] \in 0 .. Len(Program[kind[q]]) + 1
  BY DEF IInv, TypeOK
<1>. QED
  BY <1>1, <1>2, <1>3, <1>4 DEF Finished, Failed, Committed

\* Reading, checking and summing leave the rows, the columns and the locks alone.
LEMMA ReadKeeps ==
  ASSUME IInv, NEW r \in Requests,
         At(r, "load") \/ At(r, "check") \/ At(r, "sum"), Advance(r),
         UNCHANGED <<kind, ledger, db, own, locks>>,
         DOMAIN seen' = Requests, DOMAIN sum' = Requests,
         \A q \in Requests : seen'[q].net \in Int
  PROVE  IInv'
<1>1. ~Finished(r) /\ ~At(r, "commit") /\ UNCHANGED kind
  BY DEF At
<1>2. /\ kind[r] \in Inserting => pc[r] # InsertAt[kind[r]]
      /\ kind[r] = "edit" => pc[r] \notin {3, 4}
      /\ kind[r] \in {"settle", "reverse"} => pc[r] # 6
  BY Statements, Before DEF Inserting, InsertAt
<1>3. /\ pc' \in [Requests -> Nat] /\ pc'[r] = pc[r] + 1 /\ pc[r] \in Nat \ {0}
      /\ ~Finished(r)'
      /\ \A q \in Requests :
           /\ q # r => pc'[q] = pc[q]
           /\ Committed(q)' <=> Committed(q)
           /\ Finished(q)' <=> Finished(q)
           /\ pc'[q] \in 0 .. Len(Program[kind[q]]) + 1
  BY <1>1, Advancing
<1>4. TypeOK'
  BY <1>1, <1>3 DEF IInv, TypeOK
<1>5. Shape'
  BY <1>3 DEF IInv, Shape
<1>6. RowsOfRequests'
  <2>1. \A k \in Inserting : InsertAt[k] \in Nat
    BY DEF Inserting, InsertAt
  <2>2. \A q \in Requests :
          /\ Failed(q) => pc'[q] = 0
          /\ kind[q] \in Inserting =>
               (pc[q] > InsertAt[kind[q]] <=> pc'[q] > InsertAt[kind[q]])
    BY <1>1, <1>2, <1>3, <2>1 DEF Failed, Finished, IInv, Shape
  <2>3. \A i \in DOMAIN ledger : LET q == ledger[i].by IN
             IF q = NoRequest
             THEN ledger[i].type \notin {"FD_PRINCIPAL", "FD_INTEREST_REVERSAL"}
             ELSE /\ kind[q] \in Inserting /\ ledger[i].type = RowType[kind[q]]
                  /\ pc'[q] = 0 \/ pc'[q] > InsertAt[kind[q]]
    BY <2>2, LedgerRows DEF IInv, RowsOfRequests
  <2>4. \A q \in Requests : kind[q] \in Inserting /\ pc'[q] > InsertAt[kind[q]]
                           => \E i \in DOMAIN ledger : ledger[i].by = q
    BY <2>2 DEF IInv, RowsOfRequests
  <2>. QED
    BY <2>3, <2>4 DEF IInv, RowsOfRequests, Failed
<1>7. OwnColumns'
  BY <1>1, <1>2, <1>3 DEF IInv, OwnColumns
<1>8. SettlementKey'
  BY <1>3 DEF IInv, SettlementKey
<1>9. PaymentColumns'
  BY <1>3 DEF IInv, PaymentColumns
<1>. QED
  BY <1>4, <1>5, <1>6, <1>7, <1>8, <1>9 DEF IInv

\* The row a request inserts: its own, of the type it is for, naming what it takes back.
LEMMA NewRowIs ==
  ASSUME IInv, NEW r \in Requests, kind[r] \in Inserting
  PROVE  /\ NewRow(r) \in MovementRecord
         /\ NewRow(r).by = r /\ NewRow(r).type = RowType[kind[r]]
         /\ NewRow(r).reverses = CASE NewRow(r).type = "FD_OPENING_REVERSAL" -> OpeningRow
                                   [] NewRow(r).type = "FD_INTEREST_REVERSAL" -> InterestRow
                                   [] OTHER -> 0
<1>1. /\ ledger[OpeningRow].amount \in Int /\ seen[r].net \in Int
      /\ Withdrawal \in Int /\ Principal \in Int /\ Interest \in Int
  BY LedgerRows, ConcurrencyAssumption DEF IInv, Shape, OpeningRow, ConcurrencyAssumption
<1>2. CASE kind[r] = "withdraw"
  <2>1. NewRow(r) = [by |-> r, type |-> "MANUAL", amount |-> -Withdrawal, reverses |-> 0]
    BY <1>2 DEF NewRow
  <2>2. NewRow(r) \in MovementRecord
    BY <1>1, <2>1 DEF MovementRecord, MovementTypes, OpeningRow, InterestRow
  <2>3. NewRow(r).by = r /\ NewRow(r).type = RowType[kind[r]]
    BY <1>2, <2>1 DEF RowType
  <2>. QED
    BY <2>1, <2>2, <2>3
<1>3. CASE kind[r] = "cancel"
  <2>1. NewRow(r) = [by |-> r, type |-> "FD_OPENING_REVERSAL",
                    amount |-> -ledger[OpeningRow].amount, reverses |-> OpeningRow]
    BY <1>3 DEF NewRow
  <2>2. NewRow(r) \in MovementRecord
    BY <1>1, <2>1 DEF MovementRecord, MovementTypes, OpeningRow, InterestRow
  <2>3. NewRow(r).by = r /\ NewRow(r).type = RowType[kind[r]]
    BY <1>3, <2>1 DEF RowType
  <2>. QED
    BY <2>1, <2>2, <2>3
<1>4. CASE kind[r] = "settle"
  <2>1. NewRow(r) = [by |-> r, type |-> "FD_PRINCIPAL", amount |-> Principal, reverses |-> 0]
    BY <1>4 DEF NewRow
  <2>2. NewRow(r) \in MovementRecord
    BY <1>1, <2>1 DEF MovementRecord, MovementTypes, OpeningRow, InterestRow
  <2>3. NewRow(r).by = r /\ NewRow(r).type = RowType[kind[r]]
    BY <1>4, <2>1 DEF RowType
  <2>. QED
    BY <2>1, <2>2, <2>3
<1>5. CASE kind[r] = "record"
  <2>1. NewRow(r) = [by |-> r, type |-> "FD_INTEREST", amount |-> Interest, reverses |-> 0]
    BY <1>5 DEF NewRow
  <2>2. NewRow(r) \in MovementRecord
    BY <1>1, <2>1 DEF MovementRecord, MovementTypes, OpeningRow, InterestRow
  <2>3. NewRow(r).by = r /\ NewRow(r).type = RowType[kind[r]]
    BY <1>5, <2>1 DEF RowType
  <2>. QED
    BY <2>1, <2>2, <2>3
<1>6. CASE kind[r] = "reverse"
  <2>1. NewRow(r) = [by |-> r, type |-> "FD_INTEREST_REVERSAL", amount |-> -seen[r].net,
                    reverses |-> InterestRow]
    BY <1>6 DEF NewRow
  <2>2. NewRow(r) \in MovementRecord
    BY <1>1, <2>1 DEF MovementRecord, MovementTypes, OpeningRow, InterestRow
  <2>3. NewRow(r).by = r /\ NewRow(r).type = RowType[kind[r]]
    BY <1>6, <2>1 DEF RowType
  <2>. QED
    BY <2>1, <2>2, <2>3
<1>. QED
  BY <1>2, <1>3, <1>4, <1>5, <1>6 DEF Inserting

\* An INSERT adds the one row of its request.
LEMMA InsertKeeps ==
  ASSUME IInv, NEW r \in Requests, At(r, "insert"), Advance(r),
         ledger' = Append(ledger, NewRow(r)),
         UNCHANGED <<kind, db, own, seen, sum, locks>>
  PROVE  IInv'
<1>1. ~Finished(r) /\ ~At(r, "commit") /\ UNCHANGED kind
  BY DEF At
<1>2. kind[r] \in Inserting /\ pc[r] = InsertAt[kind[r]]
  BY Statements, Before
<1>3. /\ pc' \in [Requests -> Nat] /\ pc'[r] = pc[r] + 1 /\ pc[r] \in Nat \ {0}
      /\ ~Finished(r)'
      /\ \A q \in Requests :
           /\ q # r => pc'[q] = pc[q]
           /\ Committed(q)' <=> Committed(q)
           /\ Finished(q)' <=> Finished(q)
           /\ pc'[q] \in 0 .. Len(Program[kind[q]]) + 1
  BY <1>1, Advancing
<1>4. /\ ledger \in Seq(MovementRecord) /\ ledger' \in Seq(MovementRecord)
      /\ DOMAIN ledger = 1 .. Len(ledger) /\ DOMAIN ledger' = 1 .. Len(ledger) + 1
      /\ \A i \in DOMAIN ledger : ledger'[i] = ledger[i]
      /\ ledger'[Len(ledger) + 1] = NewRow(r)
      /\ Len(ledger') = Len(ledger) + 1 /\ Len(ledger) \in Nat
  BY <1>2, NewRowIs DEF IInv, Shape
<1>5. TypeOK'
  <2>1. \A i \in DOMAIN ledger' :
          ledger'[i].reverses = CASE ledger'[i].type = "FD_OPENING_REVERSAL" -> OpeningRow
                                  [] ledger'[i].type = "FD_INTEREST_REVERSAL" -> InterestRow
                                  [] OTHER -> 0
    BY <1>2, <1>4, NewRowIs DEF IInv, TypeOK
  <2>. QED
    BY <1>1, <1>3, <2>1 DEF IInv, TypeOK
<1>6. Shape'
  BY <1>3, <1>4 DEF IInv, Shape, OpeningRow
<1>7. RowsOfRequests'
  <2>1. \A k \in Inserting : InsertAt[k] \in Nat
    BY DEF Inserting, InsertAt
  <2>2. \A q \in Requests :
          /\ pc'[q] = 0 <=> Failed(q)
          /\ kind[q] \in Inserting /\ q # r =>
               (pc[q] > InsertAt[kind[q]] <=> pc'[q] > InsertAt[kind[q]])
    BY <1>1, <1>2, <1>3, <2>1 DEF Failed, Finished, IInv, Shape
  <2>3. ~Failed(r) /\ ~(pc[r] > InsertAt[kind[r]]) /\ pc'[r] > InsertAt[kind[r]]
    BY <1>1, <1>2, <1>3, <2>1 DEF Finished
  <2>4. \A i \in DOMAIN ledger : ledger[i].by # r
    BY <2>3, ConcurrencyAssumption DEF IInv, RowsOfRequests, ConcurrencyAssumption
  <2>5. \A i \in DOMAIN ledger : LET q == ledger[i].by IN
             IF q = NoRequest
             THEN ledger[i].type \notin {"FD_PRINCIPAL", "FD_INTEREST_REVERSAL"}
             ELSE /\ kind[q] \in Inserting /\ ledger[i].type = RowType[kind[q]]
                  /\ pc'[q] = 0 \/ pc'[q] > InsertAt[kind[q]]
    BY <2>2, <2>4, LedgerRows DEF IInv, RowsOfRequests
  <2>6. \A i \in DOMAIN ledger' : LET q == ledger'[i].by IN
             IF q = NoRequest
             THEN ledger'[i].type \notin {"FD_PRINCIPAL", "FD_INTEREST_REVERSAL"}
             ELSE /\ kind[q] \in Inserting /\ ledger'[i].type = RowType[kind[q]]
                  /\ pc'[q] = 0 \/ pc'[q] > InsertAt[kind[q]]
    BY <1>2, <1>4, <2>3, <2>5, NewRowIs, ConcurrencyAssumption DEF ConcurrencyAssumption
  <2>7. \A i, j \in DOMAIN ledger' :
          ledger'[i].by = ledger'[j].by /\ ledger'[i].by # NoRequest => i = j
    BY <1>2, <1>4, <2>4, NewRowIs DEF IInv, RowsOfRequests
  <2>8. \A q \in Requests : kind[q] \in Inserting /\ pc'[q] > InsertAt[kind[q]]
                             => \E i \in DOMAIN ledger' : ledger'[i].by = q
    <3>1. \E i \in DOMAIN ledger' : ledger'[i].by = r
      BY <1>2, <1>4, NewRowIs
    <3>2. ASSUME NEW q \in Requests \ {r}, kind[q] \in Inserting, pc'[q] > InsertAt[kind[q]]
          PROVE  \E i \in DOMAIN ledger' : ledger'[i].by = q
      BY <1>4, <2>2, <3>2 DEF IInv, RowsOfRequests
    <3>. QED
      BY <3>1, <3>2
  <2>. QED
    BY <2>6, <2>7, <2>8 DEF RowsOfRequests, Failed
<1>8. OwnColumns'
  <2>1. /\ kind[r] \in {"settle", "reverse"} => pc[r] # 6
        /\ kind[r] # "edit"
    BY <1>2 DEF Inserting, InsertAt
  <2>. QED
    BY <1>1, <1>3, <2>1 DEF IInv, OwnColumns
<1>9. SettlementKey'
  BY <1>3 DEF IInv, SettlementKey
<1>10. PaymentColumns'
  BY <1>3 DEF IInv, PaymentColumns
<1>. QED
  BY <1>5, <1>6, <1>7, <1>8, <1>9, <1>10 DEF IInv

\* An UPDATE adds columns to those its request has written, and takes the row's lock.
LEMMA WriteKeeps ==
  ASSUME IInv, NEW r \in Requests, NEW row \in Rows, NEW columns, Write(r, row, columns),
         ~Finished(r), ~At(r, "commit"),
         kind[r] \in Inserting => pc[r] # InsertAt[kind[r]],
         DOMAIN columns \subseteq Columns,
         "settled" \in DOMAIN columns <=> kind[r] = "settle" /\ pc[r] = 6,
         "settled" \in DOMAIN columns => columns["settled"] = TRUE,
         row = "settlement" <=> "settled" \in DOMAIN columns,
         row = "settlement" => ~db.settled,
         "is_reversed" \in DOMAIN columns <=> kind[r] = "reverse" /\ pc[r] = 6,
         "is_reversed" \in DOMAIN columns => columns["is_reversed"] = TRUE,
         "net" \in DOMAIN columns <=> kind[r] = "edit" /\ pc[r] = 3,
         "net" \in DOMAIN columns => columns["net"] = NewInterest,
         "amount" \in DOMAIN columns <=> kind[r] = "edit" /\ pc[r] = 4,
         "amount" \in DOMAIN columns => columns["amount"] = NewInterest
  PROVE  IInv'
<1>1. /\ locks[row] \in {NoRequest, r}
      /\ locks' = [locks EXCEPT ![row] = r]
      /\ own' = [own EXCEPT ![r] =
                   [c \in DOMAIN own[r] \cup DOMAIN columns |->
                      IF c \in DOMAIN columns THEN columns[c] ELSE own[r][c]]]
      /\ Advance(r)
      /\ UNCHANGED <<kind, ledger, db, seen, sum>>
  BY DEF Write
<1>2. /\ pc' \in [Requests -> Nat] /\ pc'[r] = pc[r] + 1 /\ pc[r] \in Nat \ {0}
      /\ ~Finished(r)'
      /\ \A q \in Requests :
           /\ q # r => pc'[q] = pc[q]
           /\ Committed(q)' <=> Committed(q)
           /\ Finished(q)' <=> Finished(q)
           /\ pc'[q] \in 0 .. Len(Program[kind[q]]) + 1
  BY <1>1, Advancing
<1>3. /\ DOMAIN own = Requests /\ DOMAIN own' = Requests
      /\ \A q \in Requests \ {r} : own'[q] = own[q]
      /\ DOMAIN own'[r] = DOMAIN own[r] \cup DOMAIN columns
      /\ \A c \in DOMAIN own'[r] :
           own'[r][c] = IF c \in DOMAIN columns THEN columns[c] ELSE own[r][c]
  BY <1>1 DEF IInv, Shape
<1>4. TypeOK'
  <2>1. \A q \in Requests : DOMAIN own'[q] \subseteq Columns
    BY <1>3 DEF IInv, TypeOK
  <2>2. \A q \in Requests :
          Finished(q)' => own'[q] = <<>> /\ \A x \in Rows : locks'[x] # q
    BY <1>1, <1>2, <1>3 DEF IInv, TypeOK, Shape
  <2>. QED
    BY <1>1, <1>2, <2>1, <2>2 DEF IInv, TypeOK
<1>5. Shape'
  BY <1>1, <1>2, <1>3 DEF IInv, Shape
<1>6. RowsOfRequests'
  <2>1. \A k \in Inserting : InsertAt[k] \in Nat
    BY DEF Inserting, InsertAt
  <2>2. \A q \in Requests :
          /\ Failed(q) => pc'[q] = 0
          /\ kind[q] \in Inserting =>
               (pc[q] > InsertAt[kind[q]] <=> pc'[q] > InsertAt[kind[q]])
    BY <1>1, <1>2, <2>1 DEF Failed, Finished, IInv, Shape
  <2>3. \A i \in DOMAIN ledger : LET q == ledger[i].by IN
             IF q = NoRequest
             THEN ledger[i].type \notin {"FD_PRINCIPAL", "FD_INTEREST_REVERSAL"}
             ELSE /\ kind[q] \in Inserting /\ ledger[i].type = RowType[kind[q]]
                  /\ pc'[q] = 0 \/ pc'[q] > InsertAt[kind[q]]
    BY <2>2, LedgerRows DEF IInv, RowsOfRequests
  <2>4. \A q \in Requests : kind[q] \in Inserting /\ pc'[q] > InsertAt[kind[q]]
                           => \E i \in DOMAIN ledger : ledger[i].by = q
    BY <2>2 DEF IInv, RowsOfRequests
  <2>. QED
    BY <1>1, <2>3, <2>4 DEF IInv, RowsOfRequests, Failed
<1>7. OwnColumns'
  <2>1. ASSUME NEW q \in Requests \ {r}, ~Finished(q)'
        PROVE  /\ own'[q] = own[q] /\ pc'[q] = pc[q] /\ ~Finished(q) /\ kind'[q] = kind[q]
    BY <1>1, <1>2, <1>3, <2>1
  <2>2. /\ "settled" \in DOMAIN own'[r] <=> kind[r] = "settle" /\ pc'[r] > 6
        /\ "is_reversed" \in DOMAIN own'[r] <=> kind[r] = "reverse" /\ pc'[r] > 6
        /\ "net" \in DOMAIN own'[r] <=> kind[r] = "edit" /\ pc'[r] > 3
        /\ "amount" \in DOMAIN own'[r] <=> kind[r] = "edit" /\ pc'[r] > 4
    BY <1>2, <1>3 DEF IInv, OwnColumns
  <2>3. /\ "settled" \in DOMAIN own'[r] => own'[r]["settled"] = TRUE
        /\ "is_reversed" \in DOMAIN own'[r] => own'[r]["is_reversed"] = TRUE
        /\ "net" \in DOMAIN own'[r] => own'[r]["net"] = NewInterest
        /\ "amount" \in DOMAIN own'[r] => own'[r]["amount"] = NewInterest
    BY <1>3 DEF IInv, OwnColumns
  <2>. QED
    BY <1>1, <2>1, <2>2, <2>3 DEF IInv, OwnColumns
<1>8. SettlementKey'
  <2>1. \A q \in Requests : "settled" \in DOMAIN own'[q] => locks'["settlement"] = q
    BY <1>1, <1>3, ConcurrencyAssumption
    DEF IInv, SettlementKey, Shape, Rows, ConcurrencyAssumption
  <2>2. locks'["settlement"] # NoRequest => ~db.settled
    BY <1>1 DEF IInv, SettlementKey, Shape, Rows
  <2>. QED
    BY <1>1, <1>2, <2>1, <2>2 DEF IInv, SettlementKey
<1>9. PaymentColumns'
  BY <1>1, <1>2 DEF IInv, PaymentColumns
<1>. QED
  BY <1>4, <1>5, <1>6, <1>7, <1>8, <1>9 DEF IInv

\* The UPDATEs and the INSERT of the settlement, each with its columns.
LEMMA UpdatesKeep ==
  ASSUME IInv, NEW r \in Requests,
         WriteBalance(r) \/ WriteDeposit(r) \/ WritePayment(r) \/ WriteMovement(r)
           \/ InsertSettlement(r)
  PROVE  IInv'
<1>0. kind[r] \in Kinds /\ pc[r] \in Nat
  BY Before
<1>1. CASE WriteBalance(r)
  <2>. DEFINE b == IF kind[r] = "account" THEN seen[r].balance ELSE sum[r]
  <2>1. /\ Write(r, "account", [balance |-> b]) /\ At(r, "balance")
        /\ ~Finished(r) /\ ~At(r, "commit")
    BY <1>1 DEF WriteBalance, At
  <2>2. /\ kind[r] \in Inserting => pc[r] # InsertAt[kind[r]]
        /\ ~(kind[r] \in {"settle", "reverse"} /\ pc[r] = 6)
        /\ ~(kind[r] = "edit" /\ pc[r] \in {3, 4})
    BY <1>0, <2>1, Statements DEF Inserting, InsertAt
  <2>3. DOMAIN [balance |-> b] = {"balance"}
    OBVIOUS
  <2>. HIDE DEF b
  <2>. QED
    BY <2>1, <2>2, <2>3, WriteKeeps DEF Columns, Rows
<1>2. CASE WriteDeposit(r)
  <2>1. At(r, "deposit") /\ ~Finished(r) /\ ~At(r, "commit")
    BY <1>2 DEF WriteDeposit, At
  <2>2. /\ kind[r] \in Inserting => pc[r] # InsertAt[kind[r]]
        /\ ~(kind[r] \in {"settle", "reverse"} /\ pc[r] = 6)
        /\ kind[r] \in {"cancel", "settle", "put", "matured"}
    BY <1>0, <2>1, Statements DEF Inserting, InsertAt
  <2>3. ASSUME NEW columns, DOMAIN columns \subseteq {"status", "is_active"},
               Write(r, "deposit", columns)
        PROVE  IInv'
    BY <2>1, <2>2, <2>3, WriteKeeps DEF Columns, Rows
  <2>4. CASE kind[r] = "cancel"
    BY <1>2, <2>3, <2>4 DEF WriteDeposit
  <2>5. CASE kind[r] = "settle"
    BY <1>2, <2>3, <2>5 DEF WriteDeposit
  <2>6. CASE kind[r] = "matured"
    BY <1>2, <2>3, <2>6 DEF WriteDeposit
  <2>7. CASE kind[r] = "put"
    BY <1>2, <2>1, <2>3, <2>7, FailKeeps DEF WriteDeposit
  <2>. QED
    BY <2>2, <2>4, <2>5, <2>6, <2>7
<1>3. CASE WritePayment(r)
  <2>1. At(r, "payment") /\ ~Finished(r) /\ ~At(r, "commit")
    BY <1>3 DEF WritePayment, At
  <2>2. \/ kind[r] = "edit" /\ pc[r] = 3
        \/ kind[r] = "reverse" /\ pc[r] = 6
    BY <1>0, <2>1, Statements
  <2>3. CASE kind[r] = "edit"
    <3>1. Write(r, "payment", [net |-> NewInterest])
      BY <1>3, <2>3 DEF WritePayment
    <3>2. PICK columns : /\ Write(r, "payment", columns) /\ DOMAIN columns = {"net"}
                         /\ columns["net"] = NewInterest
      BY <3>1
    <3>3. /\ DOMAIN columns \subseteq Columns /\ "payment" \in Rows
          /\ kind[r] \in Inserting => pc[r] # InsertAt[kind[r]]
          /\ "settled" \in DOMAIN columns <=> kind[r] = "settle" /\ pc[r] = 6
          /\ "is_reversed" \in DOMAIN columns <=> kind[r] = "reverse" /\ pc[r] = 6
          /\ "net" \in DOMAIN columns <=> kind[r] = "edit" /\ pc[r] = 3
          /\ "amount" \in DOMAIN columns <=> kind[r] = "edit" /\ pc[r] = 4
          /\ "payment" = "settlement" <=> "settled" \in DOMAIN columns
      BY <2>2, <2>3, <3>2 DEF Columns, Rows, Inserting, InsertAt
    <3>. QED
      BY <2>1, <3>2, <3>3, WriteKeeps, Zenon
  <2>4. CASE kind[r] = "reverse"
    <3>1. Write(r, "payment", [is_reversed |-> TRUE])
      BY <1>3, <2>4 DEF WritePayment
    <3>2. PICK columns : /\ Write(r, "payment", columns) /\ DOMAIN columns = {"is_reversed"}
                         /\ columns["is_reversed"] = TRUE
      BY <3>1
    <3>3. /\ DOMAIN columns \subseteq Columns /\ "payment" \in Rows
          /\ kind[r] \in Inserting => pc[r] # InsertAt[kind[r]]
          /\ "settled" \in DOMAIN columns <=> kind[r] = "settle" /\ pc[r] = 6
          /\ "is_reversed" \in DOMAIN columns <=> kind[r] = "reverse" /\ pc[r] = 6
          /\ "net" \in DOMAIN columns <=> kind[r] = "edit" /\ pc[r] = 3
          /\ "amount" \in DOMAIN columns <=> kind[r] = "edit" /\ pc[r] = 4
          /\ "payment" = "settlement" <=> "settled" \in DOMAIN columns
      BY <2>2, <2>4, <3>2 DEF Columns, Rows, Inserting, InsertAt
    <3>. QED
      BY <2>1, <3>2, <3>3, WriteKeeps, Zenon
  <2>. QED
    BY <2>2, <2>3, <2>4
<1>4. CASE WriteMovement(r)
  <2>1. /\ At(r, "movement") /\ ~Finished(r) /\ ~At(r, "commit")
        /\ Write(r, "movement", [amount |-> NewInterest])
    BY <1>4 DEF WriteMovement, At
  <2>2. kind[r] = "edit" /\ pc[r] = 4
    BY <1>0, <2>1, Statements
  <2>3. PICK columns : /\ Write(r, "movement", columns) /\ DOMAIN columns = {"amount"}
                       /\ columns["amount"] = NewInterest
    BY <2>1
  <2>4. /\ DOMAIN columns \subseteq Columns /\ "movement" \in Rows
        /\ kind[r] \in Inserting => pc[r] # InsertAt[kind[r]]
        /\ "settled" \in DOMAIN columns <=> kind[r] = "settle" /\ pc[r] = 6
        /\ "is_reversed" \in DOMAIN columns <=> kind[r] = "reverse" /\ pc[r] = 6
        /\ "net" \in DOMAIN columns <=> kind[r] = "edit" /\ pc[r] = 3
        /\ "amount" \in DOMAIN columns <=> kind[r] = "edit" /\ pc[r] = 4
        /\ "movement" = "settlement" <=> "settled" \in DOMAIN columns
    BY <2>2, <2>3 DEF Columns, Rows, Inserting, InsertAt
  <2>. QED
    BY <2>1, <2>3, <2>4, WriteKeeps, Zenon
<1>5. CASE InsertSettlement(r)
  <2>1. At(r, "settlement") /\ ~Finished(r) /\ ~At(r, "commit")
    BY <1>5 DEF InsertSettlement, At
  <2>2. kind[r] = "settle" /\ pc[r] = 6
    BY <1>0, <2>1, Statements
  <2>3. CASE db.settled
    BY <1>5, <2>1, <2>3, FailKeeps DEF InsertSettlement
  <2>4. CASE ~db.settled
    <3>1. Write(r, "settlement", [settled |-> TRUE])
      BY <1>5, <2>4 DEF InsertSettlement
    <3>2. PICK columns : /\ Write(r, "settlement", columns) /\ DOMAIN columns = {"settled"}
                         /\ columns["settled"] = TRUE
      BY <3>1
    <3>3. /\ DOMAIN columns \subseteq Columns /\ "settlement" \in Rows
          /\ kind[r] \in Inserting => pc[r] # InsertAt[kind[r]]
          /\ "settled" \in DOMAIN columns <=> kind[r] = "settle" /\ pc[r] = 6
          /\ "is_reversed" \in DOMAIN columns <=> kind[r] = "reverse" /\ pc[r] = 6
          /\ "net" \in DOMAIN columns <=> kind[r] = "edit" /\ pc[r] = 3
          /\ "amount" \in DOMAIN columns <=> kind[r] = "edit" /\ pc[r] = 4
          /\ "settlement" = "settlement" <=> "settled" \in DOMAIN columns
      BY <2>2, <3>2 DEF Columns, Rows, Inserting, InsertAt
    <3>. QED
      BY <2>1, <2>4, <3>2, <3>3, WriteKeeps, Zenon
  <2>. QED
    BY <2>3, <2>4
<1>. QED
  BY <1>1, <1>2, <1>3, <1>4, <1>5

\* COMMIT makes the columns and the row of one request visible together.
LEMMA CommitKeeps ==
  ASSUME IInv, NEW r \in Requests, Commit(r)
  PROVE  IInv'
<1>1. /\ pc' = [pc EXCEPT ![r] = pc[r] + 1] /\ own' = [own EXCEPT ![r] = <<>>]
      /\ locks' = [row \in Rows |-> IF locks[row] = r THEN NoRequest ELSE locks[row]]
      /\ UNCHANGED <<kind, ledger, seen, sum>>
      /\ At(r, "commit") /\ ~Finished(r)
  BY DEF Commit, ReleaseLocks, Advance, At
<1>2. /\ pc[r] = Len(Program[kind[r]]) /\ Len(Program[kind[r]]) \in Nat \ {0}
      /\ Len(Program[kind[r]]) = ProgramLen[kind[r]] /\ kind[r] \in Kinds
  <2>1. pc[r] = ProgramLen[kind[r]]
    BY <1>1, Before, Statements
  <2>. QED
    BY <1>1, <2>1, Before DEF Finished, Failed
<1>3. /\ pc'[r] = ProgramLen[kind[r]] + 1 /\ Committed(r)' /\ ~Committed(r) /\ Finished(r)'
      /\ \A q \in Requests \ {r} :
           /\ pc'[q] = pc[q] /\ own'[q] = own[q]
           /\ Committed(q)' <=> Committed(q)
           /\ Finished(q)' <=> Finished(q)
  BY <1>1, <1>2 DEF IInv, Shape, Committed, Finished, Failed
<1>4. /\ db' = [c \in Columns |-> IF c \in DOMAIN own[r] THEN own[r][c] ELSE db[c]]
      /\ db'.settled = IF kind[r] = "settle" THEN TRUE ELSE db.settled
      /\ db'.is_reversed = IF kind[r] = "reverse" THEN TRUE ELSE db.is_reversed
      /\ db'.net = IF kind[r] = "edit" THEN NewInterest ELSE db.net
      /\ db'.amount = IF kind[r] = "edit" THEN NewInterest ELSE db.amount
  <2>1. db' = [c \in Columns |-> IF c \in DOMAIN own[r] THEN own[r][c] ELSE db[c]]
    BY DEF Commit, View
  <2>2. /\ "settled" \in DOMAIN own[r] <=> kind[r] = "settle"
        /\ "is_reversed" \in DOMAIN own[r] <=> kind[r] = "reverse"
        /\ "net" \in DOMAIN own[r] <=> kind[r] = "edit"
        /\ "amount" \in DOMAIN own[r] <=> kind[r] = "edit"
    BY <1>1, <1>2 DEF IInv, OwnColumns, ProgramLen
  <2>3. /\ kind[r] = "settle" => own[r]["settled"] = TRUE
        /\ kind[r] = "reverse" => own[r]["is_reversed"] = TRUE
        /\ kind[r] = "edit" => own[r]["net"] = NewInterest /\ own[r]["amount"] = NewInterest
    BY <1>1, <2>2 DEF IInv, OwnColumns
  <2>. QED
    BY <2>1, <2>2, <2>3 DEF Columns
<1>5. TypeOK'
  <2>1. /\ kind' \in [Requests -> RequestKinds] /\ DOMAIN db' = Columns
        /\ DOMAIN locks' = Rows
    BY <1>1, <1>4 DEF IInv, TypeOK
  <2>2. ASSUME NEW q \in Requests
        PROVE  /\ pc'[q] \in 0 .. Len(Program[kind[q]]) + 1
               /\ DOMAIN own'[q] \subseteq Columns
               /\ Finished(q)' => own'[q] = <<>> /\ \A row \in Rows : locks'[row] # q
    BY <1>1, <1>2, <1>3, ConcurrencyAssumption, SMTT(30) DEF IInv, TypeOK, Shape, ConcurrencyAssumption
  <2>. QED
    BY <1>1, <2>1, <2>2 DEF IInv, TypeOK
<1>6. Shape'
  BY <1>1, <1>4, ConcurrencyAssumption DEF IInv, Shape, ConcurrencyAssumption
<1>7. RowsOfRequests'
  <2>1. \A k \in Inserting : InsertAt[k] \in Nat /\ InsertAt[k] < ProgramLen[k]
    BY DEF Inserting, InsertAt, ProgramLen
  <2>2. \A q \in Requests :
          /\ Failed(q) => pc'[q] = 0
          /\ kind[q] \in Inserting =>
               (pc[q] > InsertAt[kind[q]] <=> pc'[q] > InsertAt[kind[q]])
    BY <1>1, <1>2, <1>3, <2>1 DEF Failed, IInv, Shape
  <2>3. \A i \in DOMAIN ledger : LET q == ledger[i].by IN
             IF q = NoRequest
             THEN ledger[i].type \notin {"FD_PRINCIPAL", "FD_INTEREST_REVERSAL"}
             ELSE /\ kind[q] \in Inserting /\ ledger[i].type = RowType[kind[q]]
                  /\ pc'[q] = 0 \/ pc'[q] > InsertAt[kind[q]]
    BY <2>2, LedgerRows DEF IInv, RowsOfRequests
  <2>4. \A q \in Requests : kind[q] \in Inserting /\ pc'[q] > InsertAt[kind[q]]
                           => \E i \in DOMAIN ledger : ledger[i].by = q
    BY <2>2 DEF IInv, RowsOfRequests
  <2>. QED
    BY <1>1, <2>3, <2>4 DEF IInv, RowsOfRequests, Failed
<1>8. OwnColumns'
  BY <1>1, <1>3 DEF IInv, OwnColumns
<1>9. SettlementKey'
  <2>1. \A q \in Requests : "settled" \in DOMAIN own'[q] => locks'["settlement"] = q
    BY <1>1, <1>3 DEF IInv, SettlementKey, Shape, Rows
  <2>2. kind[r] = "settle" => locks["settlement"] = r /\ ~db.settled
    BY <1>1, <1>2, ConcurrencyAssumption
    DEF IInv, OwnColumns, SettlementKey, ProgramLen, ConcurrencyAssumption
  <2>3. locks'["settlement"] # NoRequest => ~db'.settled
    BY <1>1, <1>4, <2>2 DEF IInv, SettlementKey, Rows
  <2>4. db'.settled <=> \E q \in Requests : kind[q] = "settle" /\ Committed(q)'
    BY <1>3, <1>4 DEF IInv, SettlementKey
  <2>5. \A p, q \in Requests : kind[p] = "settle" /\ Committed(p)'
                                /\ kind[q] = "settle" /\ Committed(q)' => p = q
    BY <1>3, <2>2 DEF IInv, SettlementKey
  <2>. QED
    BY <1>1, <2>1, <2>3, <2>4, <2>5 DEF SettlementKey
<1>10. PaymentColumns'
  <2>1. db'.is_reversed <=> \E q \in Requests : kind[q] = "reverse" /\ Committed(q)'
    BY <1>3, <1>4 DEF IInv, PaymentColumns
  <2>. QED
    BY <1>1, <1>4, <2>1 DEF IInv, PaymentColumns
<1>. QED
  BY <1>5, <1>6, <1>7, <1>8, <1>9, <1>10 DEF IInv

\* A SELECT, a validation and the sum of the ledger.
LEMMA LoadKeeps ==
  ASSUME IInv, NEW r \in Requests, Load(r)
  PROVE  IInv'
<1>1. At(r, "load") /\ ~Finished(r)
  BY DEF Load, At
<1>2. CASE Fail(r)
  BY <1>1, <1>2, FailKeeps
<1>3. CASE /\ seen' = [seen EXCEPT ![r] = View(r)] /\ Advance(r)
           /\ UNCHANGED <<kind, ledger, db, own, sum, locks>>
  <2>1. View(r).net \in Int
    BY <1>1, ConcurrencyAssumption
    DEF View, Columns, IInv, Shape, OwnColumns, ConcurrencyAssumption
  <2>2. DOMAIN seen' = Requests /\ DOMAIN sum' = Requests
    BY <1>3 DEF IInv, Shape
  <2>3. \A q \in Requests : seen'[q].net \in Int
    BY <1>3, <2>1 DEF IInv, Shape
  <2>. QED
    BY <1>1, <1>3, <2>2, <2>3, ReadKeeps
<1>. QED
  BY <1>2, <1>3 DEF Load

\* A test of what was read, which changes no table.
LEMMA CheckKeeps ==
  ASSUME IInv, NEW r \in Requests, Check(r)
  PROVE  IInv'
<1>1. At(r, "check") /\ ~Finished(r)
  BY DEF Check, At
<1>2. CASE Fail(r)
  BY <1>1, <1>2, FailKeeps
<1>3. CASE Advance(r) /\ UNCHANGED <<kind, ledger, db, own, seen, sum, locks>>
  BY <1>1, <1>3, ReadKeeps DEF IInv, Shape
<1>. QED
  BY <1>2, <1>3 DEF Check

\* Reading the ledger of the account to recompute its balance.
LEMMA SumKeeps ==
  ASSUME IInv, NEW r \in Requests, Sum(r)
  PROVE  IInv'
<1>1. /\ At(r, "sum") /\ Advance(r) /\ UNCHANGED <<kind, ledger, db, own, seen, locks>>
      /\ DOMAIN sum' = DOMAIN sum
  BY DEF Sum
<1>. QED
  BY <1>1, ReadKeeps DEF IInv, Shape

\* Every step of every request keeps the invariant.
LEMMA StepKeeps ==
  ASSUME IInv, NEW r \in Requests, Step(r)
  PROVE  IInv'
<1>1. CASE Load(r) \/ Check(r) \/ Sum(r)
  BY <1>1, LoadKeeps, CheckKeeps, SumKeeps
<1>2. CASE Insert(r)
  <2>1. At(r, "insert") /\ ~Finished(r)
    BY <1>2 DEF Insert, At
  <2>2. \/ Fail(r)
        \/ /\ ledger' = Append(ledger, NewRow(r)) /\ Advance(r)
           /\ UNCHANGED <<kind, db, own, seen, sum, locks>>
    BY <1>2 DEF Insert
  <2>. QED
    BY <2>1, <2>2, FailKeeps, InsertKeeps
<1>3. CASE \/ WriteBalance(r) \/ WriteDeposit(r) \/ WritePayment(r) \/ WriteMovement(r)
           \/ InsertSettlement(r)
  BY <1>3, UpdatesKeep
<1>4. CASE Commit(r)
  BY <1>4, CommitKeeps
<1>5. CASE AbortDeadlocked(r)
  <2>1. ~Finished(r)
    BY <1>5 DEF AbortDeadlocked, Deadlocked, WaitsFor, Wanted, At
  <2>. QED
    BY <1>5, <2>1, FailKeeps DEF AbortDeadlocked
<1>. QED
  BY <1>1, <1>2, <1>3, <1>4, <1>5 DEF Step

\* The requests start on an open deposit with nothing written or locked.
LEMMA InitIsInvariant == Init => IInv
<1>. SUFFICES ASSUME Init PROVE IInv
  OBVIOUS
<1>1. /\ kind \in [Requests -> RequestKinds] /\ kind \in [Requests -> Kinds]
      /\ pc = [r \in Requests |-> 1]
      /\ own = [r \in Requests |-> <<>>]
      /\ locks = [row \in Rows |-> NoRequest]
      /\ seen = [r \in Requests |-> db] /\ sum = [r \in Requests |-> 0]
  BY ConcurrencyAssumption DEF Init, ConcurrencyAssumption
<1>2. ASSUME NEW r \in Requests
      PROVE  /\ Len(Program[kind[r]]) = ProgramLen[kind[r]]
             /\ ProgramLen[kind[r]] \in Nat \ {0, 1}
             /\ ~Finished(r) /\ ~Committed(r) /\ ~Failed(r)
  <2>1. kind[r] \in Kinds /\ pc[r] \in Nat /\ pc[r] = 1
    BY <1>1
  <2>2. ProgramLen[kind[r]] \in Nat \ {0, 1}
    BY <2>1 DEF ProgramLen, Kinds
  <2>. QED
    BY <2>1, <2>2, Statements DEF Finished, Committed, Failed
<1>3. /\ DOMAIN db = Columns /\ db.net = Interest /\ db.amount = Interest
      /\ db.settled = FALSE /\ db.is_reversed = FALSE
  BY DEF Init, Columns
<1>4. /\ ledger \in Seq(MovementRecord) /\ Len(ledger) >= 2
      /\ \A i \in DOMAIN ledger :
           /\ ledger[i].by = NoRequest /\ ledger[i].reverses = 0
           /\ ledger[i].type \in {"MANUAL", "FD_OPENING", "FD_INTEREST"}
  <2>. DEFINE first == [by |-> NoRequest, type |-> "MANUAL", amount |-> Funds, reverses |-> 0]
              second == [by |-> NoRequest, type |-> "FD_OPENING", amount |-> -Principal,
                         reverses |-> 0]
              third == [by |-> NoRequest, type |-> "FD_INTEREST", amount |-> Interest,
                        reverses |-> 0]
              Early == {row \in MovementRecord :
                          /\ row.by = NoRequest /\ row.reverses = 0
                          /\ row.type \in {"MANUAL", "FD_OPENING", "FD_INTEREST"}}
  <2>1. Funds \in Int /\ Principal \in Int /\ Interest \in Int
    BY ConcurrencyAssumption DEF ConcurrencyAssumption
  <2>2. first \in Early /\ second \in Early /\ third \in Early
    BY <2>1 DEF MovementRecord, MovementTypes
  <2>3. PICK tail : ledger = <<first, second>> \o tail /\ (tail = <<third>> \/ tail = <<>>)
    BY DEF Init
  <2>. HIDE DEF first, second, third, Early
  <2>4. /\ <<first, second>> \in Seq(Early) /\ Len(<<first, second>>) = 2
        /\ tail \in Seq(Early) /\ Len(tail) \in Nat
    <3>1. <<first, second>> \in Seq(Early) /\ Len(<<first, second>>) = 2
      BY <2>2
    <3>2. <<third>> \in Seq(Early) /\ Len(<<third>>) = 1
      BY <2>2
    <3>3. <<>> \in Seq(Early) /\ Len(<<>>) = 0
      OBVIOUS
    <3>. QED
      BY <2>3, <3>1, <3>2, <3>3
  <2>5. ledger \in Seq(Early) /\ Len(ledger) >= 2
    BY <2>3, <2>4
  <2>6. \A i \in DOMAIN ledger : ledger[i] \in Early
    BY <2>5
  <2>7. ledger \in Seq(MovementRecord)
    BY <2>5 DEF Early
  <2>. QED
    BY <2>5, <2>6, <2>7 DEF Early
<1>5. TypeOK
  <2>1. \A r \in Requests : pc[r] \in 0 .. Len(Program[kind[r]]) + 1
    BY <1>1, <1>2
  <2>. QED
    BY <1>1, <1>2, <1>3, <1>4, <2>1 DEF TypeOK
<1>6. Shape
  BY <1>1, <1>3, <1>4, ConcurrencyAssumption
  DEF Shape, OpeningRow, ConcurrencyAssumption
<1>7. RowsOfRequests
  <2>1. \A k \in Inserting : InsertAt[k] \in Nat /\ InsertAt[k] >= 1
    BY DEF Inserting, InsertAt
  <2>. QED
    BY <1>1, <1>4, <2>1 DEF RowsOfRequests
<1>8. OwnColumns
  BY <1>1 DEF OwnColumns
<1>9. SettlementKey
  BY <1>1, <1>2, <1>3 DEF SettlementKey, Rows
<1>10. PaymentColumns
  BY <1>2, <1>3 DEF PaymentColumns
<1>. QED
  BY <1>5, <1>6, <1>7, <1>8, <1>9, <1>10 DEF IInv

\* The inductive invariant holds throughout, for any number of requests.
THEOREM InductiveInvariant == Spec => []IInv
<1>1. IInv /\ [Next]_vars => IInv'
  <2>. SUFFICES ASSUME IInv, [Next]_vars PROVE IInv'
    OBVIOUS
  <2>1. CASE Next
    BY <2>1, StepKeeps DEF Next
  <2>2. CASE UNCHANGED vars
    BY <2>2 DEF vars, IInv, TypeOK, Shape, RowsOfRequests, OwnColumns, SettlementKey,
                PaymentColumns, Finished, Failed, Committed
  <2>. QED
    BY <2>1, <2>2
<1>. QED
  BY InitIsInvariant, <1>1, PTL DEF Spec

-----------------------------------------------------------------------------
(* What the runs check, for every set of requests.                         *)

\* Only an open transaction holds row locks or uncommitted columns, and a reversal
\* names the row it takes back.
THEOREM TypesHold == Spec => []TypeOK
<1>1. IInv => TypeOK
  BY DEF IInv
<1>. QED
  BY InductiveInvariant, <1>1, PTL

\* However many settlements of one deposit race each other, the principal comes
\* back at most once, and exactly if the settlement is recorded.
THEOREM SettlementPaysOnce == Spec => []SettledOnce
<1>1. IInv => SettledOnce
  <2>. SUFFICES ASSUME IInv PROVE SettledOnce
    OBVIOUS
  <2>1. \A i \in CommittedOfType("FD_PRINCIPAL") :
          /\ i \in DOMAIN ledger /\ ledger[i].by \in Requests
          /\ kind[ledger[i].by] = "settle" /\ Committed(ledger[i].by)
    BY LedgerRows
    DEF CommittedOfType, CommittedRows, IInv, RowsOfRequests, RowType, Inserting
  <2>2. CASE db.settled
    <3>1. PICK r \in Requests : kind[r] = "settle" /\ Committed(r)
      BY <2>2 DEF IInv, SettlementKey
    <3>2. PICK i \in DOMAIN ledger : ledger[i].by = r
      <4>1. pc[r] > InsertAt[kind[r]]
        BY <3>1, Before DEF ProgramLen, InsertAt
      <4>. QED
        BY <3>1, <4>1 DEF IInv, RowsOfRequests, Inserting
    <3>3. CommittedOfType("FD_PRINCIPAL") = {i}
      <4>1. r # NoRequest
        BY ConcurrencyAssumption DEF ConcurrencyAssumption
      <4>2. i \in CommittedOfType("FD_PRINCIPAL")
        BY <3>1, <3>2, <4>1
        DEF CommittedOfType, CommittedRows, IInv, RowsOfRequests, RowType
      <4>3. ASSUME NEW j \in CommittedOfType("FD_PRINCIPAL") PROVE j = i
        BY <2>1, <3>1, <3>2, <4>1 DEF IInv, SettlementKey, RowsOfRequests
      <4>. QED
        BY <4>2, <4>3
    <3>. QED
      BY <2>2, <3>3, FS_Singleton DEF SettledOnce
  <2>3. CASE ~db.settled
    <3>1. CommittedOfType("FD_PRINCIPAL") = {}
      BY <2>1, <2>3 DEF IInv, SettlementKey
    <3>. QED
      BY <2>3, <3>1, FS_EmptySet DEF SettledOnce
  <2>. QED
    BY <2>2, <2>3
<1>. QED
  BY InductiveInvariant, <1>1, PTL

\* However edits and reversals of one payment race, the payment and its movement
\* show one amount, and the mark is set exactly if some reversal was committed.
THEOREM PaymentKeepsItsMovement == Spec => []PaymentMatchesMovement
<1>1. IInv => PaymentMatchesMovement
  <2>. SUFFICES ASSUME IInv PROVE PaymentMatchesMovement
    OBVIOUS
  <2>1. ASSUME NEW i \in CommittedOfType("FD_INTEREST_REVERSAL")
        PROVE  \E r \in Requests : kind[r] = "reverse" /\ Committed(r)
    BY LedgerRows
    DEF CommittedOfType, CommittedRows, IInv, RowsOfRequests, RowType, Inserting
  <2>2. ASSUME NEW r \in Requests, kind[r] = "reverse", Committed(r)
        PROVE  CommittedOfType("FD_INTEREST_REVERSAL") # {}
    <3>1. pc[r] > InsertAt[kind[r]]
      BY <2>2, Before DEF ProgramLen, InsertAt
    <3>2. PICK i \in DOMAIN ledger : ledger[i].by = r
      BY <2>2, <3>1 DEF IInv, RowsOfRequests, Inserting
    <3>3. r # NoRequest
      BY ConcurrencyAssumption DEF ConcurrencyAssumption
    <3>4. i \in CommittedOfType("FD_INTEREST_REVERSAL")
      BY <2>2, <3>2, <3>3
      DEF CommittedOfType, CommittedRows, IInv, RowsOfRequests, RowType
    <3>. QED
      BY <3>4
  <2>. QED
    BY <2>1, <2>2 DEF PaymentMatchesMovement, IInv, PaymentColumns
<1>. QED
  BY InductiveInvariant, <1>1, PTL

-----------------------------------------------------------------------------
(* The cached balance, when only one request posts to the account.         *)

SumAt == [withdraw |-> 2, cancel |-> 4, settle |-> 4, record |-> 4, edit |-> 5, reverse |-> 4]
BalanceAt == [withdraw |-> 3, cancel |-> 5, settle |-> 5, record |-> 5, edit |-> 6,
              reverse |-> 5, account |-> 2]

\* Kinds never change, so this holds of a whole behaviour or of none of its states.
OnePoster == \A q, r \in Requests : kind[q] \in Posting /\ kind[r] \in Posting => q = r

\* The balance an open transaction has written, and where it took it from.
BalanceColumn ==
  \A r \in Requests : ~Finished(r) =>
    /\ "balance" \in DOMAIN own[r] <=> kind[r] \in Posting /\ pc[r] > BalanceAt[kind[r]]
    /\ "balance" \in DOMAIN own[r] =>
         own[r].balance = (IF kind[r] = "account" THEN seen[r].balance ELSE sum[r])

\* The balance of the rows that some writers have inserted.
Done == {r \in Requests : Committed(r)}
RowsOf(rows, writers) == {i \in DOMAIN rows : rows[i].by \in writers}
Signed(rows, i, amount) ==
  IF Len(rows) >= InterestRow /\ rows[InterestRow].by = NoRequest /\ i = InterestRow
  THEN amount ELSE rows[i].amount
Total(rows, writers, amount) ==
  SumFunction([i \in RowsOf(rows, writers) |-> Signed(rows, i, amount)])

\* The cache is the sum of the ledger, what the poster loaded of it still stands, and
\* what it summed is what it sees until it commits.
CacheKept ==
  OnePoster =>
    /\ db.balance = Total(ledger, Done \cup {NoRequest}, db.amount)
    /\ \A r \in Requests : ~Finished(r) /\ kind[r] = "account" /\ pc[r] > 1
                             => seen[r].balance = db.balance
    /\ \A r \in Requests :
         ~Finished(r) /\ kind[r] \in Posting \ {"account"} /\ pc[r] > SumAt[kind[r]]
           => sum[r] = Total(ledger, Done \cup {NoRequest, r},
                             IF "amount" \in DOMAIN own[r] THEN own[r].amount
                             ELSE db.amount)

CInv == IInv /\ BalanceColumn /\ CacheKept

\* The balances of the model in these terms.
LEMMA TotalIsBalance ==
  ASSUME IInv
  PROVE  /\ BalanceOf(CommittedRows, db.amount) = Total(ledger, Done \cup {NoRequest}, db.amount)
         /\ \A r \in Requests :
              BalanceSeen(r) = Total(ledger, Done \cup {NoRequest, r},
                                     IF "amount" \in DOMAIN own[r] THEN own[r].amount
                                     ELSE db.amount)
<1>1. \A i, a : SignedAmount(i, a) = Signed(ledger, i, a)
  BY DEF SignedAmount, Signed, HasPayment
<1>2. CommittedRows = RowsOf(ledger, Done \cup {NoRequest})
  BY DEF CommittedRows, RowsOf, Done
<1>3. \A r \in Requests : VisibleRows(r) = RowsOf(ledger, Done \cup {NoRequest, r})
  BY <1>2 DEF VisibleRows, RowsOf
<1>4. \A r \in Requests : View(r).amount = IF "amount" \in DOMAIN own[r] THEN own[r].amount
                                           ELSE db.amount
  BY DEF View, Columns
<1>5. ASSUME NEW rows, NEW a
      PROVE  BalanceOf(rows, a) = SumFunction([i \in rows |-> Signed(ledger, i, a)])
  <2>1. [i \in rows |-> SignedAmount(i, a)] = [i \in rows |-> Signed(ledger, i, a)]
    BY <1>1
  <2>. QED
    BY <2>1 DEF BalanceOf
<1>. QED
  BY <1>2, <1>3, <1>4, <1>5 DEF BalanceSeen, Total

\* A row somebody else adds leaves a balance alone, whatever row it becomes.
LEMMA TotalOfOthers ==
  ASSUME IInv, NEW row, row \in MovementRecord, row.by # NoRequest,
         NEW writers, row.by \notin writers, NEW amount
  PROVE  Total(Append(ledger, row), writers, amount) = Total(ledger, writers, amount)
<1>. DEFINE longer == Append(ledger, row)
<1>1. /\ Len(ledger) \in Nat /\ DOMAIN ledger = 1 .. Len(ledger)
      /\ DOMAIN longer = 1 .. Len(ledger) + 1 /\ Len(longer) = Len(ledger) + 1
      /\ \A i \in DOMAIN ledger : longer[i] = ledger[i]
      /\ longer[Len(ledger) + 1] = row
  BY DEF IInv, Shape
<1>. HIDE DEF longer
<1>2. RowsOf(longer, writers) = RowsOf(ledger, writers)
  BY <1>1 DEF RowsOf
<1>3. \A i \in RowsOf(ledger, writers) :
        Signed(longer, i, amount) = Signed(ledger, i, amount)
  BY <1>1 DEF RowsOf, Signed, InterestRow
<1>4. Total(longer, writers, amount) = Total(ledger, writers, amount)
  BY <1>2, <1>3 DEF Total
<1>. QED
  BY <1>4 DEF longer

\* What an UPDATE of a request does: it adds columns, of the account only if it is
\* the write of the balance, of the amount only if it is the edit of the movement.
LEMMA WriteEffect ==
  ASSUME IInv, NEW r \in Requests, ~Fail(r),
         WriteBalance(r) \/ WriteDeposit(r) \/ WritePayment(r) \/ WriteMovement(r)
           \/ InsertSettlement(r)
  PROVE  /\ ~Finished(r) /\ ~At(r, "commit") /\ Advance(r)
         /\ UNCHANGED <<kind, ledger, db, seen, sum>>
         /\ \A q \in Requests \ {r} : own'[q] = own[q]
         /\ DOMAIN own[r] \subseteq DOMAIN own'[r]
         /\ "amount" \in DOMAIN own'[r] /\ "amount" \notin DOMAIN own[r] => WriteMovement(r)
         /\ ~WriteMovement(r) /\ "amount" \in DOMAIN own[r] => own'[r].amount = own[r].amount
         /\ WriteBalance(r) =>
              /\ "balance" \in DOMAIN own'[r]
              /\ own'[r].balance = IF kind[r] = "account" THEN seen[r].balance ELSE sum[r]
         /\ ~WriteBalance(r) =>
              /\ "balance" \in DOMAIN own'[r] <=> "balance" \in DOMAIN own[r]
              /\ "balance" \in DOMAIN own[r] => own'[r].balance = own[r].balance
<1>1. ASSUME NEW row, NEW columns, Write(r, row, columns)
      PROVE  /\ Advance(r) /\ UNCHANGED <<kind, ledger, db, seen, sum>>
             /\ \A q \in Requests \ {r} : own'[q] = own[q]
             /\ DOMAIN own'[r] = DOMAIN own[r] \cup DOMAIN columns
             /\ \A c \in DOMAIN own'[r] :
                  own'[r][c] = IF c \in DOMAIN columns THEN columns[c] ELSE own[r][c]
  BY <1>1 DEF Write, IInv, Shape
<1>2. ~Finished(r) /\ ~At(r, "commit")
  BY DEF WriteBalance, WriteDeposit, WritePayment, WriteMovement, InsertSettlement, At
<1>. DEFINE b == IF kind[r] = "account" THEN seen[r].balance ELSE sum[r]
<1>3. CASE WriteBalance(r)
  <2>1. PICK columns : /\ Write(r, "account", columns) /\ DOMAIN columns = {"balance"}
                       /\ columns["balance"] = b
    BY <1>3 DEF WriteBalance
  <2>2. ~WriteMovement(r)
    BY <1>3 DEF WriteBalance, WriteMovement, At
  <2>. HIDE DEF b
  <2>3. /\ Advance(r) /\ UNCHANGED <<kind, ledger, db, seen, sum>>
        /\ \A q \in Requests \ {r} : own'[q] = own[q]
        /\ DOMAIN own'[r] = DOMAIN own[r] \cup {"balance"}
        /\ own'[r]["balance"] = b
        /\ "amount" \in DOMAIN own[r] => own'[r]["amount"] = own[r]["amount"]
    BY <1>1, <2>1
  <2>. QED
    BY <1>2, <1>3, <2>2, <2>3 DEF b
<1>4. ASSUME ~WriteBalance(r),
             NEW row, NEW columns, Write(r, row, columns), "balance" \notin DOMAIN columns,
             "amount" \in DOMAIN columns => WriteMovement(r)
      PROVE  /\ Advance(r) /\ UNCHANGED <<kind, ledger, db, seen, sum>>
             /\ \A q \in Requests \ {r} : own'[q] = own[q]
             /\ DOMAIN own[r] \subseteq DOMAIN own'[r]
             /\ "amount" \in DOMAIN own'[r] /\ "amount" \notin DOMAIN own[r] => WriteMovement(r)
             /\ ~WriteMovement(r) /\ "amount" \in DOMAIN own[r]
                  => own'[r].amount = own[r].amount
             /\ "balance" \in DOMAIN own'[r] <=> "balance" \in DOMAIN own[r]
             /\ "balance" \in DOMAIN own[r] => own'[r].balance = own[r].balance
  BY <1>1, <1>4
<1>5. CASE ~WriteBalance(r)
  <2>1. \E row, columns : /\ Write(r, row, columns) /\ "balance" \notin DOMAIN columns
                          /\ "amount" \in DOMAIN columns => WriteMovement(r)
    <3>1. CASE WriteDeposit(r)
      <4>1. \E columns : /\ Write(r, "deposit", columns)
                         /\ DOMAIN columns \subseteq {"status", "is_active"}
        <5>1. kind[r] \in {"cancel", "settle", "put", "matured"}
          BY <3>1, Before, Statements DEF WriteDeposit
        <5>2. CASE kind[r] = "cancel"
          BY <3>1, <5>2 DEF WriteDeposit
        <5>3. CASE kind[r] = "settle"
          BY <3>1, <5>3 DEF WriteDeposit
        <5>4. CASE kind[r] = "put"
          BY <3>1, <5>4 DEF WriteDeposit
        <5>5. CASE kind[r] = "matured"
          BY <3>1, <5>5 DEF WriteDeposit
        <5>. QED
          BY <5>1, <5>2, <5>3, <5>4, <5>5
      <4>. QED
        BY <4>1
    <3>2. CASE WritePayment(r)
      <4>1. CASE kind[r] = "edit"
        <5>1. Write(r, "payment", [net |-> NewInterest])
          BY <3>2, <4>1 DEF WritePayment
        <5>. QED
          BY <5>1
      <4>2. CASE kind[r] # "edit"
        <5>1. Write(r, "payment", [is_reversed |-> TRUE])
          BY <3>2, <4>2 DEF WritePayment
        <5>. QED
          BY <5>1
      <4>. QED
        BY <4>1, <4>2
    <3>3. CASE WriteMovement(r)
      <4>1. Write(r, "movement", [amount |-> NewInterest])
        BY <3>3 DEF WriteMovement
      <4>. QED
        BY <3>3, <4>1
    <3>4. CASE InsertSettlement(r)
      <4>1. Write(r, "settlement", [settled |-> TRUE])
        BY <3>4 DEF InsertSettlement
      <4>. QED
        BY <4>1
    <3>. QED
      BY <1>5, <3>1, <3>2, <3>3, <3>4
  <2>2. PICK row, columns : /\ Write(r, row, columns) /\ "balance" \notin DOMAIN columns
                            /\ "amount" \in DOMAIN columns => WriteMovement(r)
    BY <2>1
  <2>. QED
    BY <1>2, <1>4, <1>5, <2>2
<1>. QED
  BY <1>3, <1>5

\* A step that commits nothing keeps the cache if it keeps what concerns its own
\* request; a row it may have inserted is nobody else's business yet.
LEMMA CacheStands ==
  ASSUME CInv, NEW r \in Requests, UNCHANGED <<kind, db>>,
         \A q \in Requests : Committed(q)' <=> Committed(q),
         \A q \in Requests \ {r} : /\ pc'[q] = pc[q] /\ own'[q] = own[q] /\ seen'[q] = seen[q]
                                   /\ sum'[q] = sum[q] /\ (Finished(q)' <=> Finished(q)),
         \/ ledger' = ledger
         \/ /\ kind[r] \in Posting \ {"account"} /\ ~Committed(r)
            /\ \E row \in MovementRecord : row.by = r /\ ledger' = Append(ledger, row),
         ~Finished(r)' =>
           /\ "balance" \in DOMAIN own'[r] <=> kind[r] \in Posting /\ pc'[r] > BalanceAt[kind[r]]
           /\ "balance" \in DOMAIN own'[r] =>
                own'[r].balance = (IF kind[r] = "account" THEN seen'[r].balance ELSE sum'[r]),
         OnePoster /\ ~Finished(r)' /\ kind[r] = "account" /\ pc'[r] > 1
           => seen'[r].balance = db.balance,
         OnePoster /\ ~Finished(r)' /\ kind[r] \in Posting \ {"account"}
             /\ pc'[r] > SumAt[kind[r]]
           => sum'[r] = Total(ledger', Done \cup {NoRequest, r},
                              IF "amount" \in DOMAIN own'[r] THEN own'[r].amount
                              ELSE db.amount)
  PROVE  BalanceColumn' /\ CacheKept'
<1>1. BalanceColumn'
  BY DEF CInv, BalanceColumn
<1>2. Done' = Done
  BY DEF Done
<1>3. ASSUME OnePoster
      PROVE  /\ db.balance = Total(ledger', Done \cup {NoRequest}, db.amount)
             /\ \A q \in Requests \ {r} :
                  ~Finished(q) /\ kind[q] \in Posting \ {"account"} /\ pc[q] > SumAt[kind[q]]
                    => sum[q] = Total(ledger', Done \cup {NoRequest, q},
                                      IF "amount" \in DOMAIN own[q] THEN own[q].amount
                                      ELSE db.amount)
  <2>1. CASE ledger' = ledger
    BY <1>3, <2>1 DEF CInv, CacheKept
  <2>2. CASE /\ kind[r] \in Posting \ {"account"} /\ ~Committed(r)
             /\ \E row \in MovementRecord : row.by = r /\ ledger' = Append(ledger, row)
    <3>1. PICK row \in MovementRecord : row.by = r /\ ledger' = Append(ledger, row)
      BY <2>2
    <3>2. row.by # NoRequest /\ row.by \notin Done \cup {NoRequest}
      BY <2>2, <3>1, ConcurrencyAssumption DEF Done, ConcurrencyAssumption
    <3>3. Total(ledger', Done \cup {NoRequest}, db.amount)
            = Total(ledger, Done \cup {NoRequest}, db.amount)
      BY <3>1, <3>2, TotalOfOthers DEF CInv
    <3>4. \A q \in Requests \ {r} : kind[q] \notin Posting
      BY <1>3, <2>2 DEF OnePoster
    <3>. QED
      BY <1>3, <3>3, <3>4 DEF CInv, CacheKept
  <2>. QED
    BY <2>1, <2>2
<1>4. CacheKept'
  <2>1. OnePoster' <=> OnePoster
    BY DEF OnePoster
  <2>2. ASSUME OnePoster
        PROVE  /\ db'.balance = Total(ledger', Done' \cup {NoRequest}, db'.amount)
               /\ \A q \in Requests : ~Finished(q)' /\ kind'[q] = "account" /\ pc'[q] > 1
                                        => seen'[q].balance = db'.balance
               /\ \A q \in Requests :
                    ~Finished(q)' /\ kind'[q] \in Posting \ {"account"}
                        /\ pc'[q] > SumAt[kind'[q]]
                      => sum'[q] = Total(ledger', Done' \cup {NoRequest, q},
                                         IF "amount" \in DOMAIN own'[q] THEN own'[q].amount
                                         ELSE db'.amount)
    <3>1. db'.balance = Total(ledger', Done' \cup {NoRequest}, db'.amount)
      BY <1>2, <1>3, <2>2
    <3>2. ASSUME NEW q \in Requests
          PROVE  /\ ~Finished(q)' /\ kind'[q] = "account" /\ pc'[q] > 1
                                        => seen'[q].balance = db'.balance
                 /\ ~Finished(q)' /\ kind'[q] \in Posting \ {"account"}
                        /\ pc'[q] > SumAt[kind'[q]]
                      => sum'[q] = Total(ledger', Done' \cup {NoRequest, q},
                                         IF "amount" \in DOMAIN own'[q] THEN own'[q].amount
                                         ELSE db'.amount)
      <4>1. CASE q = r
        BY <1>2, <2>2, <4>1
      <4>2. CASE q # r
        BY <1>2, <1>3, <2>2, <4>2 DEF CInv, CacheKept
      <4>. QED
        BY <4>1, <4>2
    <3>. QED
      BY <3>1, <3>2
  <2>. QED
    BY <2>1, <2>2 DEF CacheKept
<1>. QED
  BY <1>1, <1>4

\* A rollback.
LEMMA FailKeepsCache ==
  ASSUME CInv, NEW r \in Requests, ~Finished(r), Fail(r)
  PROVE  BalanceColumn' /\ CacheKept'
<1>1. /\ pc' = [pc EXCEPT ![r] = 0] /\ own' = [own EXCEPT ![r] = <<>>]
      /\ UNCHANGED <<kind, ledger, db, seen, sum>>
  BY DEF Fail
<1>2. pc \in [Requests -> Nat] /\ DOMAIN own = Requests /\ Len(Program[kind[r]]) \in Nat
  BY Before DEF CInv, IInv, Shape
<1>3. \A q \in Requests : Committed(q)' <=> Committed(q)
  BY <1>1, <1>2 DEF Committed, Finished
<1>4. Finished(r)'
  BY <1>1, <1>2 DEF Finished, Failed
<1>5. \A q \in Requests \ {r} :
        /\ pc'[q] = pc[q] /\ own'[q] = own[q] /\ seen'[q] = seen[q] /\ sum'[q] = sum[q]
        /\ Finished(q)' <=> Finished(q)
  BY <1>1, <1>2, <1>3 DEF Finished, Failed
<1>. QED
  BY <1>1, <1>3, <1>4, <1>5, CacheStands

\* A SELECT, a validation, an INSERT and the sum of the ledger.
LEMMA ReadsKeepCache ==
  ASSUME CInv, NEW r \in Requests, ~Fail(r),
         Load(r) \/ Check(r) \/ Insert(r) \/ Sum(r)
  PROVE  BalanceColumn' /\ CacheKept'
<1>1. /\ ~Finished(r) /\ ~At(r, "commit") /\ Advance(r) /\ UNCHANGED <<kind, db, own>>
      /\ \A q \in Requests \ {r} : seen'[q] = seen[q] /\ sum'[q] = sum[q]
  <2>1. DOMAIN seen = Requests /\ DOMAIN sum = Requests
    BY DEF CInv, IInv, Shape
  <2>2. CASE Load(r)
    BY <2>1, <2>2 DEF Load, At
  <2>3. CASE Check(r)
    BY <2>3 DEF Check, At
  <2>4. CASE Insert(r)
    BY <2>4 DEF Insert, At
  <2>5. CASE Sum(r)
    BY <2>1, <2>5 DEF Sum, At
  <2>. QED
    BY <2>2, <2>3, <2>4, <2>5
<1>2. /\ pc'[r] = pc[r] + 1 /\ pc[r] \in Nat \ {0} /\ kind[r] \in Kinds
      /\ \A q \in Requests : Committed(q)' <=> Committed(q)
      /\ \A q \in Requests \ {r} : pc'[q] = pc[q] /\ (Finished(q)' <=> Finished(q))
  BY <1>1, Advancing, Before DEF CInv
<1>3. /\ Load(r) => kind[r] # "withdraw" /\ pc'[r] = 2
      /\ Check(r) => kind[r] \in {"cancel", "settle", "record", "edit", "reverse", "matured"}
                     /\ pc'[r] = 3
      /\ Insert(r) => kind[r] \in Inserting /\ pc'[r] = InsertAt[kind[r]] + 1
      /\ Sum(r) => kind[r] \in Posting \ {"account"} /\ pc'[r] = SumAt[kind[r]] + 1
  BY <1>2, Statements DEF Load, Check, Insert, Sum, Kinds, Posting, SumAt
<1>4. /\ kind[r] \in Posting => ~(pc'[r] > BalanceAt[kind[r]])
      /\ kind[r] = "account" => Load(r)
      /\ kind[r] \in Posting \ {"account"} /\ ~Sum(r) => ~(pc'[r] > SumAt[kind[r]])
  BY <1>3 DEF Posting, Inserting, InsertAt, SumAt, BalanceAt
<1>5. "balance" \notin DOMAIN own[r]
  <2>1. \A k \in Posting : BalanceAt[k] \in Nat
    BY DEF Posting, BalanceAt
  <2>. QED
    BY <1>1, <1>2, <1>4, <2>1 DEF CInv, BalanceColumn
<1>6. kind[r] = "account" => seen'[r].balance = db.balance
  <2>1. ASSUME Load(r) PROVE seen'[r] = View(r)
    BY <2>1 DEF Load, CInv, IInv, Shape
  <2>2. View(r).balance = db.balance
    BY <1>5 DEF View, Columns
  <2>. QED
    BY <1>4, <2>1, <2>2
<1>7. \/ ledger' = ledger
      \/ /\ kind[r] \in Posting \ {"account"} /\ ~Committed(r)
         /\ \E row \in MovementRecord : row.by = r /\ ledger' = Append(ledger, row)
  <2>1. CASE Insert(r)
    <3>1. ledger' = Append(ledger, NewRow(r))
      BY <2>1 DEF Insert
    <3>2. NewRow(r) \in MovementRecord /\ NewRow(r).by = r
      BY <1>3, <2>1, NewRowIs DEF CInv
    <3>3. kind[r] \in Posting \ {"account"}
      BY <1>3, <2>1 DEF Inserting, Posting
    <3>4. ~Committed(r)
      BY <1>1 DEF Finished
    <3>. QED
      BY <3>1, <3>2, <3>3, <3>4
  <2>2. CASE ~Insert(r)
    BY <2>2 DEF Load, Check, Sum
  <2>. QED
    BY <2>1, <2>2
<1>8. Sum(r) => sum'[r] = Total(ledger', Done \cup {NoRequest, r},
                                IF "amount" \in DOMAIN own'[r] THEN own'[r].amount
                                ELSE db.amount)
  <2>1. ASSUME Sum(r) PROVE sum'[r] = BalanceSeen(r) /\ ledger' = ledger
    BY <2>1 DEF Sum, CInv, IInv, Shape
  <2>2. BalanceSeen(r) = Total(ledger, Done \cup {NoRequest, r},
                               IF "amount" \in DOMAIN own[r] THEN own[r].amount
                               ELSE db.amount)
    BY TotalIsBalance DEF CInv
  <2>. QED
    BY <1>1, <2>1, <2>2
<1>9. \A q \in Requests \ {r} :
        /\ pc'[q] = pc[q] /\ own'[q] = own[q] /\ seen'[q] = seen[q] /\ sum'[q] = sum[q]
        /\ Finished(q)' <=> Finished(q)
  BY <1>1, <1>2
<1>10. /\ "balance" \notin DOMAIN own'[r]
       /\ ~(kind[r] \in Posting /\ pc'[r] > BalanceAt[kind[r]])
       /\ kind[r] \in Posting \ {"account"} /\ pc'[r] > SumAt[kind[r]] => Sum(r)
  BY <1>1, <1>4, <1>5
<1>. QED
  BY <1>1, <1>2, <1>6, <1>7, <1>8, <1>9, <1>10, CacheStands

\* An UPDATE, and the INSERT of the settlement.
LEMMA UpdatesKeepCache ==
  ASSUME CInv, NEW r \in Requests, ~Fail(r),
         WriteBalance(r) \/ WriteDeposit(r) \/ WritePayment(r) \/ WriteMovement(r)
           \/ InsertSettlement(r)
  PROVE  BalanceColumn' /\ CacheKept'
<1>0. IInv
  BY DEF CInv
<1>1. /\ ~Finished(r) /\ ~At(r, "commit") /\ Advance(r)
      /\ UNCHANGED <<kind, ledger, db, seen, sum>>
      /\ \A q \in Requests \ {r} : own'[q] = own[q]
      /\ "amount" \in DOMAIN own'[r] /\ "amount" \notin DOMAIN own[r] => WriteMovement(r)
      /\ DOMAIN own[r] \subseteq DOMAIN own'[r]
      /\ ~WriteMovement(r) /\ "amount" \in DOMAIN own[r] => own'[r].amount = own[r].amount
      /\ WriteBalance(r) =>
           /\ "balance" \in DOMAIN own'[r]
           /\ own'[r].balance = IF kind[r] = "account" THEN seen[r].balance ELSE sum[r]
      /\ ~WriteBalance(r) =>
           /\ "balance" \in DOMAIN own'[r] <=> "balance" \in DOMAIN own[r]
           /\ "balance" \in DOMAIN own[r] => own'[r].balance = own[r].balance
  BY <1>0, WriteEffect
<1>2. /\ pc'[r] = pc[r] + 1 /\ pc[r] \in Nat \ {0} /\ kind[r] \in Kinds
      /\ \A q \in Requests : Committed(q)' <=> Committed(q)
      /\ \A q \in Requests \ {r} : pc'[q] = pc[q] /\ (Finished(q)' <=> Finished(q))
  BY <1>0, <1>1, Advancing, Before
<1>3. /\ WriteBalance(r) => kind[r] \in Posting /\ pc[r] = BalanceAt[kind[r]]
      /\ WriteMovement(r) => kind[r] = "edit" /\ pc[r] = 4
      /\ ~WriteBalance(r) => \/ kind[r] = "cancel" /\ pc[r] = 6
                             \/ kind[r] = "settle" /\ pc[r] \in {6, 7}
                             \/ kind[r] \in {"put", "matured"}
                             \/ kind[r] = "edit" /\ pc[r] \in {3, 4}
                             \/ kind[r] = "reverse" /\ pc[r] = 6
  <2>1. CASE WriteBalance(r)
    <3>1. At(r, "balance") /\ ~WriteMovement(r)
      BY <2>1 DEF WriteBalance, WriteMovement, At
    <3>2. kind[r] \in Posting /\ pc[r] = BalanceAt[kind[r]]
      BY <1>2, <3>1, Statements DEF Posting, BalanceAt
    <3>. QED
      BY <2>1, <3>1, <3>2
  <2>2. CASE ~WriteBalance(r)
    <3>1. CASE WriteDeposit(r)
      <4>1. At(r, "deposit") /\ ~WriteMovement(r)
        BY <3>1 DEF WriteDeposit, WriteMovement, At
      <4>. QED
        BY <1>2, <2>2, <4>1, Statements
    <3>2. CASE WritePayment(r)
      <4>1. At(r, "payment") /\ ~WriteMovement(r)
        BY <3>2 DEF WritePayment, WriteMovement, At
      <4>. QED
        BY <1>2, <2>2, <4>1, Statements
    <3>3. CASE WriteMovement(r)
      BY <1>2, <2>2, <3>3, Statements DEF WriteMovement
    <3>4. CASE InsertSettlement(r)
      <4>1. At(r, "settlement") /\ ~WriteMovement(r)
        BY <3>4 DEF InsertSettlement, WriteMovement, At
      <4>. QED
        BY <1>2, <2>2, <4>1, Statements
    <3>. QED
      BY <2>2, <3>1, <3>2, <3>3, <3>4
  <2>. QED
    BY <2>1, <2>2
<1>4. /\ kind[r] \in Posting => BalanceAt[kind[r]] \in Nat
      /\ WriteBalance(r) => pc'[r] > BalanceAt[kind[r]]
      /\ ~WriteBalance(r) /\ kind[r] \in Posting
           => (pc[r] > BalanceAt[kind[r]] <=> pc'[r] > BalanceAt[kind[r]])
      /\ kind[r] \in Posting \ {"account"} =>
           (pc[r] > SumAt[kind[r]] <=> pc'[r] > SumAt[kind[r]])
      /\ WriteMovement(r) => ~(pc'[r] > SumAt[kind[r]])
      /\ kind[r] = "account" => pc[r] > 1
  BY <1>2, <1>3 DEF Posting, SumAt, BalanceAt
<1>5. /\ "balance" \in DOMAIN own'[r] <=> kind[r] \in Posting /\ pc'[r] > BalanceAt[kind[r]]
      /\ "balance" \in DOMAIN own'[r] =>
           own'[r].balance = (IF kind[r] = "account" THEN seen'[r].balance ELSE sum'[r])
  BY <1>1, <1>3, <1>4 DEF CInv, BalanceColumn
<1>6. OnePoster /\ kind[r] = "account" => seen'[r].balance = db.balance
  BY <1>1, <1>4 DEF CInv, CacheKept
<1>7. ASSUME OnePoster, kind[r] \in Posting \ {"account"}, pc'[r] > SumAt[kind[r]]
      PROVE  sum'[r] = Total(ledger', Done \cup {NoRequest, r},
                             IF "amount" \in DOMAIN own'[r] THEN own'[r].amount
                             ELSE db.amount)
  <2>1. ~WriteMovement(r) /\ pc[r] > SumAt[kind[r]]
    BY <1>4, <1>7
  <2>2. (IF "amount" \in DOMAIN own'[r] THEN own'[r].amount ELSE db.amount)
          = (IF "amount" \in DOMAIN own[r] THEN own[r].amount ELSE db.amount)
    BY <1>1, <2>1
  <2>. QED
    BY <1>1, <1>7, <2>1, <2>2 DEF CInv, CacheKept
<1>8. \A q \in Requests \ {r} :
        /\ pc'[q] = pc[q] /\ own'[q] = own[q] /\ seen'[q] = seen[q] /\ sum'[q] = sum[q]
        /\ Finished(q)' <=> Finished(q)
  BY <1>1, <1>2
<1>. QED
  BY <1>1, <1>2, <1>5, <1>6, <1>7, <1>8, CacheStands

\* A COMMIT: the sum the poster has written is that of the rows it makes visible; a
\* request that is not the poster makes no row and no balance visible.
LEMMA CommitKeepsCache ==
  ASSUME CInv, NEW r \in Requests, Commit(r)
  PROVE  BalanceColumn' /\ CacheKept'
<1>1. /\ pc' = [pc EXCEPT ![r] = pc[r] + 1] /\ own' = [own EXCEPT ![r] = <<>>]
      /\ UNCHANGED <<kind, ledger, seen, sum>>
      /\ db' = View(r) /\ At(r, "commit") /\ ~Finished(r)
  BY DEF Commit, Advance, At
<1>2. /\ pc[r] = ProgramLen[kind[r]] /\ kind[r] \in Kinds
      /\ Len(Program[kind[r]]) = ProgramLen[kind[r]]
      /\ ProgramLen[kind[r]] \in Nat \ {0}
  <2>1. kind[r] \in Kinds /\ pc[r] = ProgramLen[kind[r]] /\ pc[r] \in Nat
    BY <1>1, Before, Statements DEF CInv
  <2>. QED
    BY <1>1, <2>1, Before DEF CInv, Finished, Failed
<1>3. /\ Committed(r)' /\ Finished(r)'
      /\ \A q \in Requests \ {r} :
           /\ pc'[q] = pc[q] /\ own'[q] = own[q]
           /\ Committed(q)' <=> Committed(q)
           /\ Finished(q)' <=> Finished(q)
  BY <1>1, <1>2 DEF CInv, IInv, Shape, Committed, Finished, Failed
<1>4. BalanceColumn'
  BY <1>1, <1>3 DEF CInv, BalanceColumn
<1>5. Done' = Done \cup {r}
  BY <1>3 DEF Done
<1>6. /\ db'.balance = IF "balance" \in DOMAIN own[r] THEN own[r].balance ELSE db.balance
      /\ db'.amount = IF "amount" \in DOMAIN own[r] THEN own[r].amount ELSE db.amount
  BY <1>1 DEF View, Columns
<1>7. /\ "balance" \in DOMAIN own[r] <=> kind[r] \in Posting
      /\ "amount" \in DOMAIN own[r] => kind[r] = "edit"
  BY <1>1, <1>2 DEF CInv, IInv, BalanceColumn, OwnColumns, ProgramLen, BalanceAt, Posting
<1>8. ASSUME kind[r] \notin Inserting, NEW writers
      PROVE  RowsOf(ledger, writers \cup {r}) = RowsOf(ledger, writers)
  <2>1. \A i \in DOMAIN ledger : ledger[i].by # r
    BY <1>8, ConcurrencyAssumption DEF CInv, IInv, RowsOfRequests, ConcurrencyAssumption
  <2>. QED
    BY <2>1 DEF RowsOf
<1>9. ASSUME OnePoster
      PROVE  db'.balance = Total(ledger, Done' \cup {NoRequest}, db'.amount)
  <2>1. CASE kind[r] \in Posting \ {"account"}
    <3>1. db'.balance = sum[r]
      BY <1>1, <1>6, <1>7, <2>1 DEF CInv, BalanceColumn
    <3>2. pc[r] > SumAt[kind[r]]
      BY <1>2, <2>1 DEF Posting, SumAt, ProgramLen
    <3>3. Done' \cup {NoRequest} = Done \cup {NoRequest, r}
      BY <1>5
    <3>. QED
      BY <1>1, <1>6, <1>9, <2>1, <3>1, <3>2, <3>3 DEF CInv, CacheKept
  <2>2. CASE kind[r] \notin Posting \ {"account"}
    <3>1. db'.amount = db.amount
      BY <1>6, <1>7, <2>2 DEF Posting
    <3>2. db'.balance = db.balance
      <4>1. CASE kind[r] = "account"
        <5>1. pc[r] > 1
          BY <1>2, <4>1 DEF ProgramLen
        <5>2. own[r].balance = seen[r].balance
          BY <1>1, <1>7, <4>1 DEF CInv, BalanceColumn, Posting
        <5>3. seen[r].balance = db.balance
          BY <1>1, <1>9, <4>1, <5>1 DEF CInv, CacheKept
        <5>. QED
          BY <1>6, <5>2, <5>3
      <4>2. CASE kind[r] # "account"
        BY <1>6, <1>7, <2>2, <4>2
      <4>. QED
        BY <4>1, <4>2
    <3>3. kind[r] \notin Inserting
      BY <2>2 DEF Inserting, Posting
    <3>4. Done' \cup {NoRequest} = (Done \cup {NoRequest}) \cup {r}
      BY <1>5
    <3>5. Total(ledger, Done' \cup {NoRequest}, db.amount)
            = Total(ledger, Done \cup {NoRequest}, db.amount)
      BY <1>8, <3>3, <3>4 DEF Total
    <3>. QED
      BY <1>9, <3>1, <3>2, <3>5 DEF CInv, CacheKept
  <2>. QED
    BY <2>1, <2>2
<1>10. ASSUME OnePoster, NEW q \in Requests, ~Finished(q)', kind[q] \in Posting
       PROVE  /\ kind[q] = "account" /\ pc'[q] > 1 => seen[q].balance = db'.balance
              /\ kind[q] # "account" /\ pc'[q] > SumAt[kind[q]]
                   => sum[q] = Total(ledger, Done' \cup {NoRequest, q},
                                     IF "amount" \in DOMAIN own'[q] THEN own'[q].amount
                                     ELSE db'.amount)
  <2>1. q # r /\ ~Finished(q) /\ pc'[q] = pc[q] /\ own'[q] = own[q]
    BY <1>3, <1>10
  <2>2. kind[r] \notin Posting
    BY <1>10, <2>1 DEF OnePoster
  <2>3. db'.balance = db.balance /\ db'.amount = db.amount
    BY <1>6, <1>7, <2>2 DEF Posting
  <2>4. Done' \cup {NoRequest, q} = (Done \cup {NoRequest, q}) \cup {r}
    BY <1>5
  <2>5. kind[r] \notin Inserting
    BY <2>2 DEF Inserting, Posting
  <2>6. RowsOf(ledger, Done' \cup {NoRequest, q}) = RowsOf(ledger, Done \cup {NoRequest, q})
    BY <1>8, <2>4, <2>5
  <2>7. \A a : Total(ledger, Done' \cup {NoRequest, q}, a)
                 = Total(ledger, Done \cup {NoRequest, q}, a)
    BY <2>6 DEF Total
  <2>8. /\ kind[q] = "account" /\ pc[q] > 1 => seen[q].balance = db.balance
        /\ kind[q] # "account" /\ pc[q] > SumAt[kind[q]]
             => sum[q] = Total(ledger, Done \cup {NoRequest, q},
                               IF "amount" \in DOMAIN own[q] THEN own[q].amount
                               ELSE db.amount)
    BY <1>10, <2>1 DEF CInv, CacheKept
  <2>. QED
    BY <2>1, <2>3, <2>7, <2>8
<1>11. CacheKept'
  <2>1. OnePoster' <=> OnePoster
    BY <1>1 DEF OnePoster
  <2>2. \A q \in Requests : Finished(q)' \in BOOLEAN
    BY DEF Finished
  <2>3. ASSUME OnePoster, NEW q \in Requests
        PROVE  /\ ~Finished(q)' /\ kind'[q] = "account" /\ pc'[q] > 1
                    => seen'[q].balance = db'.balance
               /\ ~Finished(q)' /\ kind'[q] \in Posting \ {"account"}
                      /\ pc'[q] > SumAt[kind'[q]]
                    => sum'[q] = Total(ledger', Done' \cup {NoRequest, q},
                                       IF "amount" \in DOMAIN own'[q] THEN own'[q].amount
                                       ELSE db'.amount)
    <3>1. "account" \in Posting
      BY DEF Posting
    <3>. QED
      BY <1>1, <1>10, <2>3, <3>1
  <2>. QED
    BY <1>1, <1>9, <2>1, <2>3 DEF CacheKept
<1>. QED
  BY <1>4, <1>11

\* Every step of every request keeps the cache.
LEMMA StepKeepsCache ==
  ASSUME CInv, NEW r \in Requests, Step(r)
  PROVE  CInv'
<1>1. IInv'
  BY StepKeeps DEF CInv
<1>2. CASE Fail(r)
  <2>1. ~Finished(r)
    BY DEF Step, Load, Check, Insert, Sum, WriteBalance, WriteDeposit, WritePayment,
           WriteMovement, InsertSettlement, Commit, AbortDeadlocked, Deadlocked, WaitsFor,
           Wanted, At
  <2>. QED
    BY <1>1, <1>2, <2>1, FailKeepsCache DEF CInv
<1>3. CASE ~Fail(r) /\ (Load(r) \/ Check(r) \/ Insert(r) \/ Sum(r))
  BY <1>1, <1>3, ReadsKeepCache DEF CInv
<1>4. CASE ~Fail(r) /\ (WriteBalance(r) \/ WriteDeposit(r) \/ WritePayment(r)
                          \/ WriteMovement(r) \/ InsertSettlement(r))
  BY <1>1, <1>4, UpdatesKeepCache DEF CInv
<1>5. CASE Commit(r)
  BY <1>1, <1>5, CommitKeepsCache DEF CInv
<1>. QED
  BY <1>2, <1>3, <1>4, <1>5 DEF Step, AbortDeadlocked

\* The cache starts as the sum of the two or three rows that are there.
LEMMA InitHasCache == Init => CInv
<1>. SUFFICES ASSUME Init PROVE CInv
  OBVIOUS
<1>1. IInv
  BY InitIsInvariant
<1>2. /\ pc = [r \in Requests |-> 1] /\ own = [r \in Requests |-> <<>>]
      /\ db.amount = Interest /\ kind \in [Requests -> Kinds]
  BY ConcurrencyAssumption DEF Init, ConcurrencyAssumption
<1>3. BalanceColumn
  <2>1. \A k \in Posting : BalanceAt[k] \in Nat /\ BalanceAt[k] > 1
    BY DEF Posting, BalanceAt
  <2>. QED
    BY <1>2, <2>1 DEF BalanceColumn
<1>4. Done = {}
  <2>1. \A r \in Requests : Len(Program[kind[r]]) = ProgramLen[kind[r]] /\ kind[r] \in Kinds
    BY <1>1, Before
  <2>2. \A k \in Kinds : ProgramLen[k] \in Nat /\ ProgramLen[k] > 1
    BY DEF Kinds, ProgramLen
  <2>. QED
    BY <1>2, <2>1, <2>2 DEF Done, Committed
<1>. DEFINE all == RowsOf(ledger, {NoRequest})
            f == [i \in all |-> Signed(ledger, i, Interest)]
<1>5. db.balance = SumFunction(f)
  <2>1. PICK paid \in BOOLEAN :
          /\ ledger = <<[by |-> NoRequest, type |-> "MANUAL", amount |-> Funds,
                         reverses |-> 0],
                        [by |-> NoRequest, type |-> "FD_OPENING", amount |-> -Principal,
                         reverses |-> 0]>>
                      \o (IF paid THEN <<[by |-> NoRequest, type |-> "FD_INTEREST",
                                          amount |-> Interest, reverses |-> 0]>>
                                  ELSE <<>>)
          /\ db.balance = Funds - Principal + (IF paid THEN Interest ELSE 0)
    BY DEF Init
  <2>2. /\ Len(ledger) = IF paid THEN 3 ELSE 2
        /\ ledger[1].by = NoRequest /\ ledger[1].amount = Funds
        /\ ledger[2].by = NoRequest /\ ledger[2].amount = -Principal
        /\ paid => ledger[3].by = NoRequest /\ ledger[3].amount = Interest
    <3>1. CASE paid
      BY <2>1, <3>1
    <3>2. CASE ~paid
      BY <2>1, <3>2
    <3>. QED
      BY <3>1, <3>2
  <2>3. DOMAIN ledger = IF paid THEN {1, 2, 3} ELSE {1, 2}
    <3>1. DOMAIN ledger = 1 .. Len(ledger)
      BY <1>1, LedgerRows
    <3>2. 1 .. 2 = {1, 2} /\ 1 .. 3 = {1, 2, 3}
      OBVIOUS
    <3>. QED
      BY <2>2, <3>1, <3>2
  <2>4. all = IF paid THEN {1, 2, 3} ELSE {1, 2}
    BY <2>2, <2>3 DEF RowsOf
  <2>5. /\ f[1] = Funds /\ f[2] = -Principal /\ (paid => f[3] = Interest)
        /\ DOMAIN f = all
    BY <2>2, <2>4 DEF Signed, InterestRow
  <2>6. Funds \in Int /\ Principal \in Int /\ Interest \in Int
    BY ConcurrencyAssumption DEF ConcurrencyAssumption
  <2>. HIDE DEF f, all
  <2>7. SumFunctionOnSet(f, {1, 2}) = Funds - Principal
    <3>1. /\ IsFiniteSet({}) /\ 1 \notin {} /\ \A y \in {} \cup {1} : f[y] \in Int
      BY <2>5, <2>6, FS_EmptySet
    <3>2. SumFunctionOnSet(f, {} \cup {1}) = SumFunctionOnSet(f, {}) + f[1]
      BY <3>1, SumAddOne
    <3>3. SumFunctionOnSet(f, {}) = 0
      BY <3>1, SumStep
    <3>4. IsFiniteSet({1}) /\ 2 \notin {1} /\ \A y \in {1} \cup {2} : f[y] \in Int
      <4>1. IsFiniteSet({1})
        BY FS_Singleton
      <4>2. 2 \notin {1} /\ \A y \in {1} \cup {2} : f[y] \in Int
        BY <2>5, <2>6
      <4>. QED
        BY <4>1, <4>2
    <3>5. SumFunctionOnSet(f, {1} \cup {2}) = SumFunctionOnSet(f, {1}) + f[2]
      BY <3>4, SumAddOne
    <3>6. {} \cup {1} = {1} /\ {1} \cup {2} = {1, 2}
      OBVIOUS
    <3>7. f[1] = Funds /\ f[2] = -Principal
      BY <2>5
    <3>8. SumFunctionOnSet(f, {1}) = 0 + Funds
      BY <3>2, <3>3, <3>6, <3>7
    <3>9. SumFunctionOnSet(f, {1, 2}) = (0 + Funds) + (-Principal)
      BY <3>5, <3>6, <3>7, <3>8
    <3>. QED
      BY <2>6, <3>9
  <2>8. CASE paid
    <3>1. IsFiniteSet({1, 2}) /\ 3 \notin {1, 2} /\ {1, 2} \cup {3} = {1, 2, 3}
      <4>1. IsFiniteSet({1}) /\ {1} \cup {2} = {1, 2}
        BY FS_Singleton
      <4>2. IsFiniteSet({1} \cup {2})
        BY <4>1, FS_AddElement
      <4>. QED
        BY <4>1, <4>2
    <3>2. \A y \in {1, 2} \cup {3} : f[y] \in Int
      BY <2>5, <2>6, <2>8
    <3>3. SumFunctionOnSet(f, {1, 2} \cup {3}) = SumFunctionOnSet(f, {1, 2}) + f[3]
      BY <3>1, <3>2, SumAddOne
    <3>4. SumFunctionOnSet(f, all) = Funds - Principal + Interest
      BY <2>4, <2>5, <2>7, <2>8, <3>1, <3>3
    <3>. QED
      BY <2>1, <2>5, <2>8, <3>4, SumOfFunction
  <2>9. CASE ~paid
    <3>1. SumFunctionOnSet(f, all) = Funds - Principal
      BY <2>4, <2>7, <2>9
    <3>2. db.balance = Funds - Principal
      BY <2>1, <2>6, <2>9
    <3>. QED
      BY <2>5, <3>1, <3>2, SumOfFunction
  <2>. QED
    BY <2>8, <2>9
<1>6. CacheKept
  <2>1. db.balance = Total(ledger, Done \cup {NoRequest}, db.amount)
    <3>1. Done \cup {NoRequest} = {NoRequest}
      BY <1>4
    <3>. QED
      BY <1>2, <1>5, <3>1 DEF Total
  <2>2. \A k \in Posting \ {"account"} : SumAt[k] \in Nat /\ SumAt[k] > 1
    BY DEF Posting, SumAt
  <2>. QED
    BY <1>2, <2>1, <2>2 DEF CacheKept
<1>. QED
  BY <1>1, <1>3, <1>6 DEF CInv

\* Only one request posts to the account, so what the others do to the deposit in
\* between cannot make it write a balance that is not the sum of the ledger.
THEOREM SolePosterKeepsItsCache == Spec => []SolePosterKeepsCache
<1>1. CInv /\ [Next]_vars => CInv'
  <2>. SUFFICES ASSUME CInv, [Next]_vars PROVE CInv'
    OBVIOUS
  <2>1. CASE Next
    BY <2>1, StepKeepsCache DEF Next
  <2>2. CASE UNCHANGED vars
    <3>1. IInv'
      BY <2>2 DEF CInv, vars, IInv, TypeOK, Shape, RowsOfRequests, OwnColumns, SettlementKey,
                  PaymentColumns, Finished, Failed, Committed
    <3>2. Done' = Done /\ (OnePoster' <=> OnePoster)
      BY <2>2 DEF vars, Done, Committed, OnePoster
    <3>3. \A q \in Requests : Finished(q)' <=> Finished(q)
      BY <2>2 DEF vars, Finished, Failed, Committed
    <3>4. BalanceColumn'
      BY <2>2, <3>3 DEF vars, CInv, BalanceColumn
    <3>5. CacheKept'
      BY <2>2, <3>2, <3>3 DEF vars, CInv, CacheKept
    <3>. QED
      BY <3>1, <3>4, <3>5 DEF CInv
  <2>. QED
    BY <2>1, <2>2
<1>2. CInv => SolePosterKeepsCache
  <2>. SUFFICES ASSUME CInv, Cardinality({r \in Requests : kind[r] \in Posting}) <= 1
                PROVE  db.balance = BalanceOf(CommittedRows, db.amount)
    BY DEF SolePosterKeepsCache
  <2>1. OnePoster
    <3>. SUFFICES ASSUME NEW q \in Requests, NEW r \in Requests, q # r,
                         kind[q] \in Posting, kind[r] \in Posting
                  PROVE  FALSE
      BY DEF OnePoster
    <3>. DEFINE Posters == {p \in Requests : kind[p] \in Posting}
    <3>1. IsFiniteSet(Posters)
      BY FS_Subset, ConcurrencyAssumption DEF ConcurrencyAssumption
    <3>2. {q, r} \subseteq Posters
      OBVIOUS
    <3>3. IsFiniteSet({q, r}) /\ Cardinality({q, r}) = 2
      <4>1. IsFiniteSet({q}) /\ Cardinality({q}) = 1
        BY FS_Singleton
      <4>2. Cardinality({q} \cup {r}) = Cardinality({q}) + 1 /\ IsFiniteSet({q} \cup {r})
        BY <4>1, FS_AddElement
      <4>3. {q} \cup {r} = {q, r}
        OBVIOUS
      <4>. QED
        BY <4>1, <4>2, <4>3
    <3>4. Cardinality({q, r}) <= Cardinality(Posters)
      BY <3>1, <3>2, FS_Subset
    <3>5. Cardinality(Posters) \in Nat
      BY <3>1, FS_CardinalityType
    <3>6. Cardinality(Posters) <= 1
      OBVIOUS
    <3>. HIDE DEF Posters
    <3>. QED
      BY <3>3, <3>4, <3>5, <3>6
  <2>2. db.balance = Total(ledger, Done \cup {NoRequest}, db.amount)
    BY <2>1 DEF CInv, CacheKept
  <2>. QED
    BY <2>2, TotalIsBalance DEF CInv
<1>. QED
  BY InitHasCache, <1>1, <1>2, PTL DEF Spec
=============================================================================
