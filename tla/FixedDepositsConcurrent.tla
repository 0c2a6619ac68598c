----------------------- MODULE FixedDepositsConcurrent -----------------------
(***************************************************************************)
(* The requests of FixedDeposits taken apart into the SQL statements they  *)
(* run, for one fixed deposit on one bank account, served by concurrent    *)
(* workers on PostgreSQL at READ COMMITTED.  The services take no explicit *)
(* lock (no select_for_update in src/backend/debt), so all that orders two *)
(* requests is the row lock an UPDATE holds until its transaction ends and *)
(* the unique index on the settlement of a deposit.                        *)
(*                                                                         *)
(* A request first loads its row with the joined rows in one SELECT, then  *)
(* validates, inserts and updates.  A statement sees what was committed    *)
(* when it started and what its own transaction wrote; the Python objects  *)
(* keep the values of the first SELECT.  Consecutive reads of a request    *)
(* that only test for the presence of rows are one step.  Everything       *)
(* happens on one day, and a settlement pays its principal leg only.       *)
(***************************************************************************)
EXTENDS Integers, Sequences, FiniteSets, Functions

CONSTANTS
  Requests,      \* the requests in flight
  NoRequest,     \* holder of a free lock, writer of the rows that were there
  RequestKinds,  \* what the requests may ask for
  Funds, Principal, Interest,   \* cash deposited, opening debit, interest paid
  NewInterest,   \* the amount an edit of the interest payment asks for
  Withdrawal     \* the amount of a manual withdrawal

Kinds == {"withdraw", "cancel", "settle", "record", "edit", "reverse", "put", "matured",
          "account"}

ASSUME ConcurrencyAssumption ==
  /\ IsFiniteSet(Requests) /\ NoRequest \notin Requests
  /\ RequestKinds \subseteq Kinds
  /\ {Funds, Principal, Interest, NewInterest, Withdrawal} \subseteq Nat \ {0}

VARIABLES
  kind,    \* what each request asks for
  pc,      \* the statement each request runs next; 0 once it has failed
  ledger,  \* cash_movements, with the request that inserted the row
  db,      \* the committed columns of the account, deposit, payment, movement
  own,     \* the columns the open transaction of a request has written
  seen,    \* the columns a request loaded, kept in its Python objects
  sum,     \* the balance a request has computed from the ledger
  locks    \* the request that holds each row

vars == <<kind, pc, ledger, db, own, seen, sum, locks>>

-----------------------------------------------------------------------------
\* The statements of each request, in the order its service runs them.
\* create_cash_movement inserts a row, sums the ledger and writes the balance.
Withdraw == <<"insert", "sum", "balance", "commit">>
Cancel == <<"load", "check", "insert", "sum", "balance", "deposit", "commit">>
Settle == <<"load", "check", "insert", "sum", "balance", "settlement", "deposit", "commit">>
Record == <<"load", "check", "insert", "sum", "balance", "commit">>
Edit == <<"load", "check", "payment", "movement", "sum", "balance", "commit">>
Reverse == <<"load", "check", "insert", "sum", "balance", "payment", "commit">>
Put == <<"load", "deposit", "commit">>
MarkMatured == <<"load", "check", "deposit", "commit">>
UpdateAccount == <<"load", "balance", "commit">>

Program == [withdraw |-> Withdraw, cancel |-> Cancel, settle |-> Settle, record |-> Record,
            edit |-> Edit, reverse |-> Reverse, put |-> Put, matured |-> MarkMatured,
            account |-> UpdateAccount]

Rows == {"account", "deposit", "settlement", "payment", "movement"}
Columns == {"balance", "status", "is_active", "settled", "net", "is_reversed", "amount"}
OpenStatuses == {"ACTIVE", "MATURED"}
SettledStatuses == {"CLOSED", "MATURED_SETTLED"}

OpeningRow == 2
InterestRow == 3     \* the movement of the interest payment that is edited or reversed
HasPayment == Len(ledger) >= InterestRow /\ ledger[InterestRow].by = NoRequest

Failed(r) == pc[r] = 0
Committed(r) == pc[r] > Len(Program[kind[r]])
Finished(r) == Failed(r) \/ Committed(r)
At(r, statement) == ~Finished(r) /\ Program[kind[r]][pc[r]] = statement

\* What a statement of r sees: the committed columns under its own writes.
View(r) == [c \in Columns |-> IF c \in DOMAIN own[r] THEN own[r][c] ELSE db[c]]

CommittedRows == {i \in DOMAIN ledger :
                    ledger[i].by = NoRequest \/ \E r \in Requests :
                                                  ledger[i].by = r /\ Committed(r)}
VisibleRows(r) == CommittedRows \cup {i \in DOMAIN ledger : ledger[i].by = r}

\* The signed amount of row i; `amount` is the one of the row that can be edited.
SignedAmount(i, amount) == IF HasPayment /\ i = InterestRow THEN amount ELSE ledger[i].amount
BalanceOf(rows, amount) == SumFunction([i \in rows |-> SignedAmount(i, amount)])
BalanceSeen(r) == BalanceOf(VisibleRows(r), View(r).amount)

Advance(r) == pc' = [pc EXCEPT ![r] = @ + 1]

ReleaseLocks(r) == [row \in Rows |-> IF locks[row] = r THEN NoRequest ELSE locks[row]]

\* The transaction is rolled back: its rows are never visible to anyone else.
Fail(r) ==
  /\ pc' = [pc EXCEPT ![r] = 0]
  /\ own' = [own EXCEPT ![r] = <<>>]
  /\ locks' = ReleaseLocks(r)
  /\ UNCHANGED <<kind, ledger, db, seen, sum>>

-----------------------------------------------------------------------------
(* The statements.                                                         *)

\* get_fixed_deposit, get_fixed_deposit_interest_payment or get_bank_account,
\* with the rows they join.
Load(r) ==
  /\ At(r, "load")
  /\ IF kind[r] \in {"edit", "reverse"} /\ ~HasPayment
     THEN Fail(r)
     ELSE /\ seen' = [seen EXCEPT ![r] = View(r)]
          /\ Advance(r)
          /\ UNCHANGED <<kind, ledger, db, own, sum, locks>>

IsReversedFor(r, i) == \E j \in VisibleRows(r) : ledger[j].reverses = i

\* The validations: loaded columns first, then queries on what is visible now.
MayProceed(r) ==
  CASE kind[r] = "cancel" ->
         /\ seen[r].is_active /\ seen[r].status \in OpenStatuses
         /\ ~View(r).settled
         /\ \A i \in VisibleRows(r) : ledger[i].type # "FD_INTEREST"
         /\ ~IsReversedFor(r, OpeningRow)
    [] kind[r] = "settle" ->
         /\ seen[r].is_active /\ seen[r].status \in OpenStatuses
         /\ ~View(r).settled
    [] kind[r] = "record" ->
         /\ seen[r].is_active /\ seen[r].status \notin SettledStatuses
    [] kind[r] = "edit" ->
         /\ ~seen[r].is_reversed
         /\ ~IsReversedFor(r, InterestRow)
    [] kind[r] = "reverse" ->
         /\ ~seen[r].is_reversed
         /\ seen[r].status # "CANCELLED"
         /\ ~View(r).settled
         /\ ~IsReversedFor(r, InterestRow)
    [] kind[r] = "matured" ->
         /\ seen[r].is_active /\ seen[r].status = "ACTIVE"

Check(r) ==
  /\ At(r, "check")
  /\ IF MayProceed(r)
     THEN Advance(r) /\ UNCHANGED <<kind, ledger, db, own, seen, sum, locks>>
     ELSE Fail(r)

\* Mutant: the reversal of a payment does not name the row it takes back.
NewRowWithoutReverses(r) ==
  CASE kind[r] = "withdraw" ->
         [by |-> r, type |-> "MANUAL", amount |-> -Withdrawal, reverses |-> 0]
    [] kind[r] = "cancel" ->
         [by |-> r, type |-> "FD_OPENING_REVERSAL", amount |-> -ledger[OpeningRow].amount,
          reverses |-> OpeningRow]
    [] kind[r] = "settle" ->
         [by |-> r, type |-> "FD_PRINCIPAL", amount |-> Principal, reverses |-> 0]
    [] kind[r] = "record" ->
         [by |-> r, type |-> "FD_INTEREST", amount |-> Interest, reverses |-> 0]
    [] kind[r] = "reverse" ->
         [by |-> r, type |-> "FD_INTEREST_REVERSAL", amount |-> -seen[r].net, reverses |-> 0]

\* The row create_cash_movement inserts for a request.  The payment a "record"
\* inserts next appears and disappears with its row, which stands for both.
NewRow(r) ==
  CASE kind[r] = "withdraw" ->
         [by |-> r, type |-> "MANUAL", amount |-> -Withdrawal, reverses |-> 0]
    [] kind[r] = "cancel" ->
         [by |-> r, type |-> "FD_OPENING_REVERSAL", amount |-> -ledger[OpeningRow].amount,
          reverses |-> OpeningRow]
    [] kind[r] = "settle" ->
         [by |-> r, type |-> "FD_PRINCIPAL", amount |-> Principal, reverses |-> 0]
    [] kind[r] = "record" ->
         [by |-> r, type |-> "FD_INTEREST", amount |-> Interest, reverses |-> 0]
    [] kind[r] = "reverse" ->
         [by |-> r, type |-> "FD_INTEREST_REVERSAL", amount |-> -seen[r].net,
          reverses |-> InterestRow]

\* The last validations of create_cash_movement and its INSERT.
Insert(r) ==
  /\ At(r, "insert")
  /\ LET row == NewRow(r) IN
     IF (row.reverses # 0 /\ IsReversedFor(r, row.reverses)) \/ BalanceSeen(r) + row.amount < 0
     THEN Fail(r)
     ELSE /\ ledger' = Append(ledger, row)
          /\ Advance(r)
          /\ UNCHANGED <<kind, db, own, seen, sum, locks>>

\* Mutant: the sum leaves out the row of the open transaction.
SumOfCommitted(r) ==
  /\ At(r, "sum")
  /\ sum' = [sum EXCEPT ![r] = BalanceOf(CommittedRows, View(r).amount)]
  /\ Advance(r)
  /\ UNCHANGED <<kind, ledger, db, own, seen, locks>>

\* compute_bank_account_balance, in refresh_bank_account_balance.
Sum(r) ==
  /\ At(r, "sum")
  /\ sum' = [sum EXCEPT ![r] = BalanceSeen(r)]
  /\ Advance(r)
  /\ UNCHANGED <<kind, ledger, db, own, seen, locks>>

\* UPDATE: waits for the row, keeps it until the transaction ends.
Write(r, row, columns) ==
  /\ locks[row] \in {NoRequest, r}
  /\ locks' = [locks EXCEPT ![row] = r]
  /\ own' = [own EXCEPT ![r] =
               [c \in DOMAIN @ \cup DOMAIN columns |->
                  IF c \in DOMAIN columns THEN columns[c] ELSE @[c]]]
  /\ Advance(r)
  /\ UNCHANGED <<kind, ledger, db, seen, sum>>

\* refresh_bank_account_balance writes the sum it computed; update_bank_account
\* saves every column, the balance as it was loaded among them.
WriteBalance(r) ==
  /\ At(r, "balance")
  /\ Write(r, "account",
           [balance |-> IF kind[r] = "account" THEN seen[r].balance ELSE sum[r]])

\* Only update_fixed_deposit saves every column of the deposit.
WriteDeposit(r) ==
  /\ At(r, "deposit")
  /\ CASE kind[r] = "cancel" ->
            Write(r, "deposit", [status |-> "CANCELLED", is_active |-> FALSE])
       [] kind[r] = "settle" -> Write(r, "deposit", [status |-> "CLOSED"])
       [] kind[r] = "matured" -> Write(r, "deposit", [status |-> "MATURED"])
       [] kind[r] = "put" ->
            IF seen[r].is_active
            THEN Write(r, "deposit",
                       [status |-> seen[r].status, is_active |-> seen[r].is_active])
            ELSE Fail(r)

\* Mutant: the edit saves every column of the payment, as it was loaded.
WritePaymentInFull(r) ==
  /\ At(r, "payment")
  /\ Write(r, "payment", IF kind[r] = "edit"
                         THEN [net |-> NewInterest, is_reversed |-> seen[r].is_reversed]
                         ELSE [is_reversed |-> TRUE])

WritePayment(r) ==
  /\ At(r, "payment")
  /\ Write(r, "payment", IF kind[r] = "edit" THEN [net |-> NewInterest]
                                             ELSE [is_reversed |-> TRUE])

WriteMovement(r) ==
  /\ At(r, "movement")
  /\ Write(r, "movement", [amount |-> NewInterest])

\* Mutant: a settlement is a row like any other, the key to the deposit not unique.
InsertAnySettlement(r) ==
  /\ At(r, "settlement")
  /\ Write(r, "settlement", [settled |-> TRUE])

\* Mutant: a settlement that comes second is tried again and again.
InsertSettlementRetrying(r) ==
  /\ At(r, "settlement")
  /\ locks["settlement"] \in {NoRequest, r}
  /\ ~db.settled
  /\ Write(r, "settlement", [settled |-> TRUE])

\* The one-to-one key makes a second INSERT wait for the first, then fail.
InsertSettlement(r) ==
  /\ At(r, "settlement")
  /\ locks["settlement"] \in {NoRequest, r}
  /\ IF db.settled THEN Fail(r) ELSE Write(r, "settlement", [settled |-> TRUE])

Commit(r) ==
  /\ At(r, "commit")
  /\ db' = View(r)
  /\ own' = [own EXCEPT ![r] = <<>>]
  /\ locks' = ReleaseLocks(r)
  /\ Advance(r)
  /\ UNCHANGED <<kind, ledger, seen, sum>>

\* The row an UPDATE or the unique INSERT of r needs next.
Wanted(r) ==
  CASE At(r, "balance") -> {"account"}
    [] At(r, "deposit") -> {"deposit"}
    [] At(r, "payment") -> {"payment"}
    [] At(r, "movement") -> {"movement"}
    [] At(r, "settlement") -> {"settlement"}
    [] OTHER -> {}

WaitsFor(r) == {locks[row] : row \in Wanted(r)} \ {NoRequest, r}

\* Requests that wait for each other in a circle; PostgreSQL aborts one.
Deadlocked(r) ==
  WaitsFor(r) # {} /\ \E S \in SUBSET Requests :
    r \in S /\ \A q \in S : WaitsFor(q) # {} /\ WaitsFor(q) \subseteq S

AbortDeadlocked(r) == Deadlocked(r) /\ Fail(r)

-----------------------------------------------------------------------------
(* The specification.                                                      *)

\* An open deposit, whose opening debit stands, with or without a payment.
Init ==
  /\ kind \in [Requests -> RequestKinds]
  /\ pc = [r \in Requests |-> 1]
  /\ \E paid \in BOOLEAN :
       /\ ledger = <<[by |-> NoRequest, type |-> "MANUAL", amount |-> Funds, reverses |-> 0],
                     [by |-> NoRequest, type |-> "FD_OPENING", amount |-> -Principal,
                      reverses |-> 0]>>
                   \o (IF paid THEN <<[by |-> NoRequest, type |-> "FD_INTEREST",
                                       amount |-> Interest, reverses |-> 0]>>
                               ELSE <<>>)
       /\ db = [balance |-> Funds - Principal + (IF paid THEN Interest ELSE 0),
                status |-> "ACTIVE", is_active |-> TRUE, settled |-> FALSE,
                net |-> Interest, is_reversed |-> FALSE, amount |-> Interest]
  /\ own = [r \in Requests |-> <<>>]
  /\ seen = [r \in Requests |-> db]
  /\ sum = [r \in Requests |-> 0]
  /\ locks = [row \in Rows |-> NoRequest]

Step(r) ==
  \/ Load(r) \/ Check(r) \/ Insert(r) \/ Sum(r)
  \/ WriteBalance(r) \/ WriteDeposit(r) \/ WritePayment(r) \/ WriteMovement(r)
  \/ InsertSettlement(r) \/ Commit(r) \/ AbortDeadlocked(r)

Next == \E r \in Requests : Step(r)

\* Some worker runs on as long as one can; every request has finitely many
\* statements, so no fairness between the workers is needed.
Spec == Init /\ [][Next]_vars /\ WF_vars(Next)

-----------------------------------------------------------------------------
(* Properties of the committed state, whatever the interleaving.           *)

Quiet == \A r \in Requests : Finished(r)

CommittedOfType(type) == {i \in CommittedRows : ledger[i].type = type}

\* The types of the variables; only an open transaction holds locks or has
\* uncommitted columns; a reversal names the row it takes back.
TypeOK ==
  /\ kind \in [Requests -> RequestKinds]
  /\ DOMAIN db = Columns /\ DOMAIN locks = Rows
  /\ \A r \in Requests :
       /\ pc[r] \in 0 .. Len(Program[kind[r]]) + 1
       /\ DOMAIN own[r] \subseteq Columns
       /\ Finished(r) => own[r] = <<>> /\ \A row \in Rows : locks[row] # r
  /\ \A i \in DOMAIN ledger :
       ledger[i].reverses = CASE ledger[i].type = "FD_OPENING_REVERSAL" -> OpeningRow
                              [] ledger[i].type = "FD_INTEREST_REVERSAL" -> InterestRow
                              [] OTHER -> 0

\* Of any number of settlements racing each other, one pays: the principal comes
\* back at most once, and exactly if the settlement is recorded.
SettledOnce ==
  Cardinality(CommittedOfType("FD_PRINCIPAL")) = (IF db.settled THEN 1 ELSE 0)

\* Edits and reversals racing on one payment leave it and its movement with the
\* same amount, and the mark is set exactly if some reversal was committed.
PaymentMatchesMovement ==
  HasPayment => /\ db.net = db.amount
                /\ db.is_reversed <=> CommittedOfType("FD_INTEREST_REVERSAL") # {}

Posting == {"withdraw", "cancel", "settle", "record", "edit", "reverse", "account"}

\* The cached balance survives every race in which only one request touches the
\* account, however the others write the deposit in between.
SolePosterKeepsCache ==
  Quiet /\ Cardinality({r \in Requests : kind[r] \in Posting}) <= 1
    => db.balance = BalanceOf(CommittedRows, db.amount)

\* No request hangs: it commits, fails its validation, or is aborted when the
\* order it takes its row locks in closes a circle.
AllFinish == \A r \in Requests : <>Finished(r)

-----------------------------------------------------------------------------
(* What the documentation promises and the code does not keep.             *)

\* "Cached snapshot - updated atomically with movement writes": once no request
\* is open, the cached balance is the sum of the ledger.
CacheIsFresh == Quiet => db.balance = BalanceOf(CommittedRows, db.amount)

\* "Cannot cancel a fixed deposit that has been settled" (nor one with interest
\* payments, nor one whose opening is reversed already): the opening debit is
\* refunded at most once, and only to a deposit that never paid anything else.
RefundIsFinal ==
  LET refunds == CommittedOfType("FD_OPENING_REVERSAL") IN
  /\ Cardinality(refunds) <= 1
  /\ refunds # {} => ~db.settled /\ CommittedOfType("FD_INTEREST") = {}
=============================================================================
