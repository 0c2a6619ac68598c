----------------------------- MODULE BankLedger -----------------------------
(***************************************************************************)
(* The bank cash ledger as data: what a row of `cash_movements` holds and  *)
(* what the pure balance helpers and the ledger queries answer about a     *)
(* ledger.  No state and no transition is declared here; FixedDeposits     *)
(* builds its actions from these operators.                                *)
(*                                                                         *)
(* A ledger is a sequence of rows.  The index of a row is its primary key: *)
(* rows are only ever inserted, so `order_by("id")` is the sequence order. *)
(* A movement that reverses nothing has reverses = 0; `is_reversal` and    *)
(* `reverses` are always set together by the code, so one field stands for *)
(* both.  The source (MANUAL or SYSTEM) follows from the type and is left  *)
(* out; so are descriptions, reasons and the currency of the account.      *)
(***************************************************************************)
EXTENDS Integers, Sequences, Functions

NoDeposit == 0          \* linked_fixed_deposit is null
NoMovement == 0         \* reverses is null, or a settlement leg was not paid

\* "MANUAL" stands for MANUAL_DEPOSIT, MANUAL_WITHDRAWAL and ADJUSTMENT: once the
\* direction is known, the code treats the three alike.
ReversibleManualTypes == {"MANUAL", "OPENING_BALANCE"}
ReversalTypes == {"REVERSAL", "FD_OPENING_REVERSAL", "FD_INTEREST_REVERSAL"}
SettlementLegTypes ==
  {"FD_MATURITY_PRINCIPAL", "FD_MATURITY_INTEREST",
   "FD_CLOSURE_PRINCIPAL", "FD_CLOSURE_INTEREST"}
MovementTypes ==
  ReversibleManualTypes \cup ReversalTypes \cup SettlementLegTypes
    \cup {"FD_OPENING", "FD_INTEREST"}
Directions == {"CREDIT", "DEBIT"}

OppositeDirection(dir) == IF dir = "CREDIT" THEN "DEBIT" ELSE "CREDIT"

\* CREDIT adds to the account, DEBIT takes from it.
SignedAmount(m) == IF m.direction = "CREDIT" THEN m.amount ELSE -m.amount

IsReversal(led, i) == led[i].reverses # NoMovement

\* Mutant: the query overlooks the reversals of manual rows.
IsReversedBySystem(led, i) ==
  \E j \in DOMAIN led : led[j].reverses = i /\ led[j].type # "REVERSAL"

\* movement_has_been_reversed: some row names row i in `reverses`.
IsReversed(led, i) == \E j \in DOMAIN led : led[j].reverses = i

RowsOf(led, acct) == {i \in DOMAIN led : led[i].account = acct}

RowsUpTo(led, rows, day) == {i \in rows : led[i].day <= day}

\* Mutant: reversed rows are left out, the reversals themselves are not.
NotReversedRows(led, rows) == {i \in rows : ~IsReversed(led, i)}

\* Rows that count for funding a deposit: neither a reversal nor reversed.
EffectiveRows(led, rows) ==
  {i \in rows : ~IsReversal(led, i) /\ ~IsReversed(led, i)}

\* The one sum behind every balance: the signed amounts of a set of rows.
Total(led, rows) == SumFunction([i \in rows |-> SignedAmount(led[i])])

\* bank_cash_balance: every row of the account, or those dated up to a day.
Balance(led, acct) == Total(led, RowsOf(led, acct))
BalanceAsOf(led, acct, day) == Total(led, RowsUpTo(led, RowsOf(led, acct), day))

\* bank_funding_balance, with the rows the caller asks to leave out.
FundingBalanceAsOf(led, acct, day, excluded) ==
  Total(led, RowsUpTo(led, EffectiveRows(led, RowsOf(led, acct)), day) \ excluded)

HasLedger(led, acct) == RowsOf(led, acct) # {}

\* The seed counts even once it is reversed: only the type is looked at.
OpeningBalanceIsSeeded(led, acct) ==
  \E i \in RowsOf(led, acct) : led[i].type = "OPENING_BALANCE"

OpeningsOf(led, f) == {i \in DOMAIN led : led[i].type = "FD_OPENING" /\ led[i].deposit = f}

\* The queries look at the opening with the smallest id only.
FirstOpening(led, f) ==
  CHOOSE i \in OpeningsOf(led, f) : \A j \in OpeningsOf(led, f) : i <= j

HasUnreversedOpening(led, f) ==
  /\ OpeningsOf(led, f) # {}
  /\ ~IsReversed(led, FirstOpening(led, f))
=============================================================================
