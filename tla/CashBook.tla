------------------------------ MODULE CashBook ------------------------------
(***************************************************************************)
(* The broker cash ledger as data: what a row of `cash_ledger_entries`     *)
(* holds, the pure balance helpers of finance/cash.py and the tests the    *)
(* write services put in front of a change.  No state and no transition is *)
(* declared here.                                                          *)
(*                                                                         *)
(* A book is a function from primary keys to rows.  A row carries a signed *)
(* amount.  The helpers of the code take the points of one portfolio and   *)
(* currency, leave out an edited row and add a proposed one; here the same *)
(* test is put to the book as the change would leave it.                   *)
(***************************************************************************)
EXTENDS Integers, Sequences, FiniteSetsExt, Functions

Null == 0    \* no linked transaction, no transfer group, reverses nothing

ManualTypes == {"CASH_DEPOSIT", "CASH_WITHDRAWAL"}
SettlementTypes == {"BUY_SETTLEMENT", "SELL_SETTLEMENT"}
PositiveTypes == {"CASH_DEPOSIT", "SELL_SETTLEMENT", "TRANSFER_IN"}
NegativeTypes == {"CASH_WITHDRAWAL", "BUY_SETTLEMENT", "TAX_WITHHELD", "TRANSFER_OUT"}
CashEntryTypes == PositiveTypes \cup NegativeTypes

\* validate_cash_entry_amount_sign: zero is refused whatever the type.
ValidAmountSign(type, amount) ==
  /\ type \in PositiveTypes => amount > 0
  /\ type \in NegativeTypes => amount < 0

Row(p, day, ccy, type, amount, text) ==
  [portfolio |-> p, day |-> day, currency |-> ccy, type |-> type, amount |-> amount,
   text |-> text, txn |-> Null, group |-> Null, reverses |-> Null]

NewId(table) == Max({0} \cup DOMAIN table) + 1

InsertRow(table, row) ==
  LET id == NewId(table)
  IN  [i \in DOMAIN table \cup {id} |-> IF i = id THEN row ELSE table[i]]

\* A sequence of rows inserted one after the other.
InsertRows(table, rows) ==
  [i \in DOMAIN table \cup {NewId(table) + k - 1 : k \in DOMAIN rows} |->
     IF i \in DOMAIN table THEN table[i] ELSE rows[i - NewId(table) + 1]]

\* A finite set as a sequence in which nothing comes after what it is before.
InOrder(S, before) ==
  CHOOSE seq \in [1 .. Cardinality(S) -> S] :
    /\ IsInjective(seq)
    /\ \A i, j \in 1 .. Cardinality(S) : <<seq[i], seq[j]>> \in before => i < j

RemoveRows(table, ids) == [i \in DOMAIN table \ ids |-> table[i]]

RowsFor(book, p, ccy) ==
  {i \in DOMAIN book : book[i].portfolio = p /\ book[i].currency = ccy}

DaysOf(book, ids) == {book[i].day : i \in ids}

\* cash_balance_by_currency, of the rows of one currency.
Total(book, ids) == SumFunction([i \in ids |-> book[i].amount])

\* cash_balance_on_date: the rows of the day count.
BalanceOn(book, p, ccy, day) ==
  Total(book, {i \in RowsFor(book, p, ccy) : book[i].day <= day})

\* Mutant: only the first day looked at is tested.
NegativeOnTheDay(book, p, ccy, from) ==
  /\ RowsFor(book, p, ccy) # {}
  /\ BalanceOn(book, p, ccy, from) < 0

\* analyze_future_cash_impact finds an impact: the running balance is below zero on
\* a day between `from` and the last row.  A book without rows has no such day.
GoesNegative(book, p, ccy, from) ==
  LET rows == RowsFor(book, p, ccy)
  IN  /\ rows # {}
      /\ \E day \in from .. Max(DaysOf(book, rows)) : BalanceOn(book, p, ccy, day) < 0

\* cash_balance_timeseries over every day that has a row.
GoesNegativeEver(book, p, ccy) ==
  \E day \in DaysOf(book, RowsFor(book, p, ccy)) : BalanceOn(book, p, ccy, day) < 0

\* assert_sufficient_cash_for_purchase and the same test in front of a withdrawal.
HasCash(book, p, ccy, required, day) ==
  required <= 0 \/ BalanceOn(book, p, ccy, day) >= required

\* cash_shortfall.
Shortfall(book, p, ccy, required, day) ==
  IF required <= 0 THEN 0 ELSE Max({0, required - BalanceOn(book, p, ccy, day)})

IsReversed(book, i) == \E j \in DOMAIN book : book[j].reverses = i

\* Mutant: an entry may be edited or reversed again after its reversal.
EditableIfManual(book, i) ==
  /\ book[i].type \in ManualTypes
  /\ book[i].txn = Null /\ book[i].group = Null
  /\ book[i].reverses = Null

\* Mutant: the legs of a transfer may be edited like other entries.
EditableIfUnreversed(book, i) ==
  book[i].txn = Null /\ book[i].reverses = Null /\ ~IsReversed(book, i)

\* is_manual_editable_entry, which is_reversible_manual_entry asks for as well.
ManualEditable(book, i) ==
  /\ book[i].type \in ManualTypes
  /\ book[i].txn = Null /\ book[i].group = Null
  /\ book[i].reverses = Null /\ ~IsReversed(book, i)

LinkedRows(book, t) == {i \in DOMAIN book : book[i].txn = t}
=============================================================================
