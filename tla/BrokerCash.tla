----------------------------- MODULE BrokerCash -----------------------------
(***************************************************************************)
(* The manual writes to the broker cash ledger (cash/services.py, bulk     *)
(* entries and reversals).  Every action is one API request served from    *)
(* start to end; a request whose validation fails is rolled back and is an *)
(* action that is not enabled.                                             *)
(***************************************************************************)
EXTENDS PortfolioRegistry

CONSTANTS
  Currencies,   \* SUPPORTED_CASH_CURRENCIES
  CashQuant,    \* 0.0001 in the unit amounts are counted in, which may be a finer one
  Amounts,      \* positive amounts a request may carry
  Texts,        \* source of funds and note of a manual row
  MaxDay,       \* days are 1..MaxDay
  Month,        \* days from one entry of a monthly schedule to the next
  MaxRows,      \* bound on the primary keys of the ledger
  MaxGroups     \* bound on the transfers

\* The amounts a row can hold: cash_ledger_entries.amount has four decimals.
LedgerAmounts == {amount \in Int : amount % CashQuant = 0}

ASSUME BrokerCashAssumption ==
  /\ CashQuant \in Nat \ {0}
  /\ Amounts \subseteq LedgerAmounts \cap (Nat \ {0})
  /\ MaxDay \in Nat \ {0} /\ Month \in Nat \ {0}
  /\ MaxRows \in Nat /\ MaxGroups \in Nat

VARIABLES
  cash,     \* cash_ledger_entries
  groups    \* cash_transfer_groups

cashVars == <<portfolios, cash, groups>>

Days == 1 .. MaxDay
NoText == "none"                \* note of rows the system writes
ReversalText == "reversal of"   \* note of a reversal, which names its entry

CashTypeOK ==
  /\ DOMAIN cash \subseteq Nat \ {0}
  /\ \A i \in DOMAIN cash :
       /\ cash[i].portfolio \in Portfolios /\ cash[i].day \in Days
       /\ cash[i].currency \in Currencies /\ cash[i].type \in CashEntryTypes
       /\ cash[i].amount \in LedgerAmounts
       /\ ValidAmountSign(cash[i].type, cash[i].amount)
       /\ cash[i].reverses \in DOMAIN cash \cup {Null}
       /\ cash[i].group \in DOMAIN groups \cup {Null}

Room(rows) == NewId(cash) + rows <= MaxRows + 1

CashInit == cash = <<>> /\ groups = <<>>

-----------------------------------------------------------------------------
(* Manual entries *)

\* create_cash_deposit
Deposit(p, day, ccy, amount, text) ==
  /\ Room(1)
  /\ IsActive(p)
  /\ cash' = InsertRow(cash, Row(p, day, ccy, "CASH_DEPOSIT", amount, text))
  /\ UNCHANGED <<portfolios, groups>>

\* create_cash_withdrawal: only the balance on its own day is looked at.
Withdraw(p, day, ccy, amount, text) ==
  /\ Room(1)
  /\ IsActive(p)
  /\ HasCash(cash, p, ccy, amount, day)
  /\ cash' = InsertRow(cash, Row(p, day, ccy, "CASH_WITHDRAWAL", -amount, text))
  /\ UNCHANGED <<portfolios, groups>>

\* Mutant: the sign of a withdrawal is forgotten when it is edited or scheduled.
AmountAsSent(type, amount) == amount

SignedAmountOf(type, amount) == IF type = "CASH_WITHDRAWAL" THEN -amount ELSE amount

\* Mutant: the days the entry leaves are not tested, only the ones it moves to.
UpdateTestsNewDayOnly(i, day, ccy, amount, text) ==
  LET old == cash[i]
      new == [old EXCEPT !.day = day, !.currency = ccy, !.text = text,
                         !.amount = SignedAmountOf(old.type, amount)]
      book == [cash EXCEPT ![i] = new]
  IN  /\ ManualEditable(cash, i)
      /\ old.type = "CASH_WITHDRAWAL" =>
           HasCash(RemoveRows(cash, {i}), old.portfolio, ccy, amount, day)
      /\ ~GoesNegative(book, old.portfolio, ccy, day)
      /\ cash' = book
      /\ UNCHANGED <<portfolios, groups>>

\* update_cash_ledger_entry: the portfolio and the type stay.
UpdateEntry(i, day, ccy, amount, text) ==
  LET old == cash[i]
      new == [old EXCEPT !.day = day, !.currency = ccy, !.text = text,
                         !.amount = SignedAmountOf(old.type, amount)]
      book == [cash EXCEPT ![i] = new]
  IN  /\ ManualEditable(cash, i)
      /\ old.type = "CASH_WITHDRAWAL" =>
           HasCash(RemoveRows(cash, {i}), old.portfolio, ccy, amount, day)
      /\ IF ccy = old.currency
         THEN ~GoesNegative(book, old.portfolio, ccy, Min({old.day, day}))
         ELSE /\ ~GoesNegative(book, old.portfolio, old.currency, old.day)
              /\ ~GoesNegative(book, old.portfolio, ccy, day)
      /\ cash' = book
      /\ UNCHANGED <<portfolios, groups>>

\* delete_cash_ledger_entry
DeleteEntry(i) ==
  LET book == RemoveRows(cash, {i})
  IN  /\ ManualEditable(cash, i)
      /\ ~GoesNegative(book, cash[i].portfolio, cash[i].currency, cash[i].day)
      /\ cash' = book
      /\ UNCHANGED <<portfolios, groups>>

OppositeType(type) ==
  IF type = "CASH_DEPOSIT" THEN "CASH_WITHDRAWAL" ELSE "CASH_DEPOSIT"

\* reverse_broker_cash_ledger_entry: a row of the opposite type on the day asked for.
ReverseEntry(i, day) ==
  LET entry == cash[i]
      row == [Row(entry.portfolio, day, entry.currency, OppositeType(entry.type),
                  -entry.amount, ReversalText) EXCEPT !.reverses = i]
      book == InsertRow(cash, row)
  IN  /\ Room(1)
      /\ ManualEditable(cash, i)
      /\ row.amount < 0 => HasCash(cash, row.portfolio, row.currency, entry.amount, day)
      /\ ~GoesNegative(book, row.portfolio, row.currency, day)
      /\ cash' = book
      /\ UNCHANGED <<portfolios, groups>>

-----------------------------------------------------------------------------
(* Transfers *)

Group(source, target, day, ccy, amount, to_ccy, to_amount) ==
  [source |-> source, target |-> target, day |-> day,
   source_currency |-> ccy, source_amount |-> amount,
   target_currency |-> to_ccy, target_amount |-> to_amount]

\* create_cash_transfer: the group and both legs are saved together.
Transfer(source, target, day, ccy, amount, to_ccy, to_amount) ==
  LET out == [Row(source, day, ccy, "TRANSFER_OUT", -amount, NoText)
                EXCEPT !.group = Len(groups) + 1]
      in == [Row(target, day, to_ccy, "TRANSFER_IN", to_amount, NoText)
                EXCEPT !.group = Len(groups) + 1]
  IN  /\ Room(2) /\ Len(groups) < MaxGroups
      /\ ccy = to_ccy => amount = to_amount
      /\ source # target /\ IsActive(source) /\ IsActive(target)
      /\ HasCash(cash, source, ccy, amount, day)
      /\ ~GoesNegative(InsertRow(cash, out), source, ccy, day)
      /\ groups' = Append(groups, Group(source, target, day, ccy, amount, to_ccy, to_amount))
      /\ cash' = InsertRow(InsertRow(cash, out), in)
      /\ UNCHANGED portfolios

-----------------------------------------------------------------------------
(* Bulk schedules *)

\* generate_schedule_dates: once, or monthly up to the end date.
ScheduleDays(start, end, frequency) ==
  IF frequency = "once" THEN {start}
  ELSE {day \in start .. end : (day - start) % Month = 0}

\* _find_existing_manual_entry: a reversed entry matches like any other.
HasManualEntry(book, p, day, ccy, type, amount, text) ==
  \E i \in RowsFor(book, p, ccy) :
    /\ book[i].day = day /\ book[i].type = type /\ book[i].amount = amount
    /\ book[i].text = text /\ book[i].txn = Null /\ book[i].group = Null

InsertDays(book, p, days, ccy, type, amount, text) ==
  LET listed == InOrder(days, {d \in days \X days : d[1] < d[2]})
  IN  InsertRows(book, [k \in DOMAIN listed |-> Row(p, listed[k], ccy, type, amount, text)])

\* Mutant: only the last withdrawal of a schedule is tested.
LastOfScheduleIsFunded(book, p, days, ccy, type, amount) ==
  type = "CASH_WITHDRAWAL" =>
    ~GoesNegativeEver(InsertDays(book, p, {Max(days)}, ccy, type, -amount, NoText), p, ccy)

\* _withdrawal_schedule_warning: all rows of the schedule are put in, the ones that
\* will be skipped as duplicates too, and every day is tested.
ScheduleIsFunded(book, p, days, ccy, type, amount) ==
  type = "CASH_WITHDRAWAL" =>
    ~GoesNegativeEver(InsertDays(book, p, days, ccy, type, -amount, NoText), p, ccy)

\* preview_bulk_cash_entries: the days without such an entry.
MissingDays(p, days, ccy, type, signed, text) ==
  {day \in days : ~HasManualEntry(cash, p, day, ccy, type, signed, text)}

\* apply_bulk_cash_entries
ApplySchedule(p, days, ccy, type, amount, text) ==
  LET signed == SignedAmountOf(type, amount)
      missing == MissingDays(p, days, ccy, type, signed, text)
  IN  /\ Room(Cardinality(missing)) /\ days \subseteq Days
      /\ IsActive(p)
      /\ ScheduleIsFunded(cash, p, days, ccy, type, amount)
      /\ cash' = InsertDays(cash, p, missing, ccy, type, signed, text)
      /\ UNCHANGED <<portfolios, groups>>

-----------------------------------------------------------------------------
DepositRequest ==
  \E p \in Portfolios, day \in Days, ccy \in Currencies, amount \in Amounts, text \in Texts :
    Deposit(p, day, ccy, amount, text)
WithdrawRequest ==
  \E p \in Portfolios, day \in Days, ccy \in Currencies, amount \in Amounts, text \in Texts :
    Withdraw(p, day, ccy, amount, text)
UpdateRequest ==
  \E i \in DOMAIN cash, day \in Days, ccy \in Currencies, amount \in Amounts, text \in Texts :
    UpdateEntry(i, day, ccy, amount, text)
DeleteRequest == \E i \in DOMAIN cash : DeleteEntry(i)
ReverseRequest == \E i \in DOMAIN cash, day \in Days : ReverseEntry(i, day)
TransferRequest ==
  \E source \in Portfolios, target \in Portfolios, day \in Days,
     ccy \in Currencies, to_ccy \in Currencies, amount \in Amounts, to_amount \in Amounts :
    Transfer(source, target, day, ccy, amount, to_ccy, to_amount)
Schedules ==
  {ScheduleDays(start, end, frequency) :
     start \in Days, end \in Days, frequency \in {"once", "monthly"}} \ {{}}
ScheduleRequest ==
  \E p \in Portfolios, days \in Schedules, ccy \in Currencies, type \in ManualTypes,
     amount \in Amounts, text \in Texts :
    ApplySchedule(p, days, ccy, type, amount, text)

CashNext ==
  \/ RegistryNext /\ UNCHANGED <<cash, groups>>
  \/ DepositRequest \/ WithdrawRequest \/ UpdateRequest \/ DeleteRequest
  \/ ReverseRequest \/ TransferRequest \/ ScheduleRequest

-----------------------------------------------------------------------------
(* Properties *)

\* An entry is reversed at most once, and from then on the entry and its reversal
\* stay as they are: same portfolio and currency, opposite amounts, so that the pair
\* adds nothing.  Guards against editing, deleting or reversing again either half.
ReversalsMirrorEntries ==
  \A j \in DOMAIN cash : cash[j].reverses # Null =>
    LET i == cash[j].reverses
    IN  /\ i \in DOMAIN cash /\ cash[i].reverses = Null
        /\ cash[i].portfolio = cash[j].portfolio /\ cash[i].currency = cash[j].currency
        /\ cash[i].amount = -cash[j].amount /\ cash[i].type = OppositeType(cash[j].type)
        /\ \A k \in DOMAIN cash : cash[k].reverses = i => k = j

\* Money moved between portfolios arrives: each transfer keeps exactly its two legs,
\* and they say what the transfer group says, whatever requests come later.
TransferLegsMatchGroup ==
  \A g \in DOMAIN groups :
    \E out, in \in DOMAIN cash :
      /\ {i \in DOMAIN cash : cash[i].group = g} = {out, in}
      /\ cash[out].type = "TRANSFER_OUT" /\ cash[in].type = "TRANSFER_IN"
      /\ cash[out].portfolio = groups[g].source /\ cash[in].portfolio = groups[g].target
      /\ cash[out].currency = groups[g].source_currency
      /\ cash[in].currency = groups[g].target_currency
      /\ cash[out].amount = -groups[g].source_amount
      /\ cash[in].amount = groups[g].target_amount
      /\ cash[out].day = groups[g].day /\ cash[in].day = groups[g].day

\* A portfolio and currency without an overdraft on any day gets none.
NeverOverdraws ==
  \A p \in Portfolios, ccy \in Currencies :
    \/ \A day \in Days : BalanceOn(cash', p, ccy, day) >= 0
    \/ \E day \in Days : BalanceOn(cash, p, ccy, day) < 0

\* The manual requests that are tested against the future balance.
TestedManualRequest ==
  UpdateRequest \/ DeleteRequest \/ ReverseRequest \/ TransferRequest \/ ScheduleRequest
=============================================================================
