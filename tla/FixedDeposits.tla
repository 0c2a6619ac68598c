---------------------------- MODULE FixedDeposits ----------------------------
(***************************************************************************)
(* The fixed-deposit lifecycle and the bank cash ledger it posts to        *)
(* (src/backend/debt).  Every action is one API request served from start  *)
(* to end: all the reads, validations and writes of its service function.  *)
(* A request whose validation fails is rolled back and changes nothing, so *)
(* it is an action that is not enabled.  FixedDepositsConcurrent takes the *)
(* same requests apart into the statements that other requests interleave  *)
(* with.                                                                   *)
(*                                                                         *)
(* Tables are sequences of rows, indexed by primary key.  Gross interest   *)
(* and tax withheld appear only as the net amount; maturity dates and the  *)
(* maturity estimates decide nothing here and are left out.                *)
(***************************************************************************)
EXTENDS BankLedger

CONSTANTS
  Accounts,       \* the user's bank accounts
  Portfolios,     \* the user's portfolios
  NoPortfolio,    \* portfolio of a movement that has none
  Amounts,        \* amounts a request may carry
  StatusInputs,   \* statuses a POST or PUT of a deposit may carry
  RenewalInputs,  \* deposits a POST or PUT may name in renewal_of
  MaxDay,         \* days are 1..MaxDay
  ManualBalances, \* balances typed in for accounts without a ledger
  MaxMovements,   \* bound on the rows of the ledger
  MaxDeposits,    \* bound on the fixed deposits
  MaxPayments     \* bound on the interest payments

ASSUME ConstantsAssumption ==
  /\ NoPortfolio \notin Portfolios
  /\ Amounts \subseteq Nat \ {0}
  /\ StatusInputs \subseteq {"ACTIVE", "MATURED", "MATURED_SETTLED", "CLOSED", "CANCELLED"}
  /\ RenewalInputs \subseteq Nat
  /\ ManualBalances \subseteq Int
  /\ MaxDay \in Nat \ {0}
  /\ MaxMovements \in Nat /\ MaxDeposits \in Nat /\ MaxPayments \in Nat

VARIABLES
  ledger,            \* cash_movements
  deposits,          \* fixed_deposits
  payments,          \* fixed_deposit_interest_payments
  settlements,       \* fixed_deposit_settlements with their renewal group
  current_balance,   \* BankAccount.current_balance
  active_accounts,   \* bank accounts with is_active
  active_portfolios  \* portfolios with is_active

vars == <<ledger, deposits, payments, settlements, current_balance,
          active_accounts, active_portfolios>>

-----------------------------------------------------------------------------
Days == 1 .. MaxDay

Statuses == {"ACTIVE", "MATURED", "MATURED_SETTLED", "CLOSED", "CANCELLED"}
OpenStatuses == {"ACTIVE", "MATURED"}             \* may be settled or cancelled
SettledStatuses == {"CLOSED", "MATURED_SETTLED"}  \* no interest any more
Kinds == {"MATURITY", "CLOSURE"}

CashMovement ==
  [account : Accounts, portfolio : Portfolios \cup {NoPortfolio},
   type : MovementTypes, direction : Directions, amount : Nat \ {0}, day : Days,
   deposit : Nat, reverses : Nat]

FixedDeposit ==
  [account : Accounts, portfolio : Portfolios, principal : Nat \ {0}, day : Days,
   status : Statuses, is_active : BOOLEAN, renewal_of : Nat]

InterestPayment ==
  [deposit : Nat \ {0}, account : Accounts, net : Nat \ {0}, day : Days,
   movement : Nat \ {0}, is_reversed : BOOLEAN]

\* principal is principal_returned, payout what the principal leg paid; renewed_as
\* and reinvested are the new deposit and the direct_reinvest_amount of the
\* renewal group, 0 without one.
Settlement ==
  [deposit : Nat \ {0}, account : Accounts, kind : Kinds, principal : Nat, net : Nat,
   principal_movement : Nat, interest_movement : Nat, payout : Nat,
   renewed_as : Nat, reinvested : Nat]

TypeOK ==
  /\ ledger \in Seq(CashMovement)
  /\ deposits \in Seq(FixedDeposit)
  /\ payments \in Seq(InterestPayment)
  /\ settlements \in Seq(Settlement)
  /\ DOMAIN current_balance = Accounts
  /\ active_accounts \subseteq Accounts
  /\ active_portfolios \subseteq Portfolios
  /\ \A p \in DOMAIN payments : /\ payments[p].deposit \in DOMAIN deposits
                                /\ payments[p].movement \in DOMAIN ledger

-----------------------------------------------------------------------------
(* What the service functions ask of the tables.                           *)

SettlementOf(f) == {s \in DOMAIN settlements : settlements[s].deposit = f}
IsSettled(f) == SettlementOf(f) # {}
IsRenewed(f) == \E g \in DOMAIN deposits : deposits[g].renewal_of = f
PaymentsOf(f) == {p \in DOMAIN payments : payments[p].deposit = f}

\* FixedDeposit.clean, run by every save of the row.
Clean(fd) == fd.account \in active_accounts /\ fd.portfolio \in active_portfolios

\* validate_no_overdraft looks at the day of the movement, not at later days.
Covered(led, m) ==
  LET available == IF m.type = "FD_OPENING"
                   THEN FundingBalanceAsOf(led, m.account, m.day, {})
                   ELSE BalanceAsOf(led, m.account, m.day)
  IN  available + SignedAmount(m) >= 0

\* The validations of create_cash_movement on the ledger it runs against.
Admissible(led, m) ==
  /\ Len(led) < MaxMovements
  /\ m.amount > 0
  /\ m.account \in active_accounts
  /\ m.portfolio # NoPortfolio => m.portfolio \in active_portfolios
  /\ m.type = "OPENING_BALANCE" => ~OpeningBalanceIsSeeded(led, m.account)
  /\ m.type = "FD_OPENING" => ~HasUnreversedOpening(led, m.deposit)
  /\ m.reverses # NoMovement => ~IsReversed(led, m.reverses)
  /\ Covered(led, m)

\* The ledger becomes led, and refresh_bank_account_balance recomputes the cache.
Refresh(led, acct) ==
  /\ ledger' = led
  /\ current_balance' = [current_balance EXCEPT ![acct] = Balance(led, acct)]

Post(m) == Admissible(ledger, m) /\ Refresh(Append(ledger, m), m.account)

\* A movement that belongs to no deposit.
AccountMovement(acct, type, dir, amt, day, reverses) ==
  [account |-> acct, portfolio |-> NoPortfolio, type |-> type, direction |-> dir,
   amount |-> amt, day |-> day, deposit |-> NoDeposit, reverses |-> reverses]

\* A SYSTEM movement on the account of deposit row fd, whose key is f.
DepositMovement(f, fd, type, dir, amt, day, reverses) ==
  [account |-> fd.account, portfolio |-> fd.portfolio, type |-> type,
   direction |-> dir, amount |-> amt, day |-> day, deposit |-> f,
   reverses |-> reverses]

-----------------------------------------------------------------------------
(* Bank accounts, portfolios and manual cash.                              *)

CreateManualMovement(acct, dir, amt, day) ==
  /\ Post(AccountMovement(acct, "MANUAL", dir, amt, day, NoMovement))
  /\ UNCHANGED <<deposits, payments, settlements, active_accounts, active_portfolios>>

\* The amount is BankAccount.opening_balance, which can be edited at any time.
SeedOpeningBalance(acct, amt, day) ==
  /\ Post(AccountMovement(acct, "OPENING_BALANCE", "CREDIT", amt, day, NoMovement))
  /\ UNCHANGED <<deposits, payments, settlements, active_accounts, active_portfolios>>

\* Mutant: a reversal always debits, as if only deposits were taken back.
ReverseCashMovementByDebit(i, day) ==
  LET m == ledger[i] IN
  /\ ~IsReversal(ledger, i)
  /\ ~IsReversed(ledger, i)
  /\ m.type \in ReversibleManualTypes
  /\ Post(AccountMovement(m.account, "REVERSAL", "DEBIT", m.amount, day, i))
  /\ UNCHANGED <<deposits, payments, settlements, active_accounts, active_portfolios>>

ReverseCashMovement(i, day) ==
  LET m == ledger[i] IN
  /\ ~IsReversal(ledger, i)
  /\ ~IsReversed(ledger, i)
  /\ m.type \in ReversibleManualTypes
  /\ Post(AccountMovement(m.account, "REVERSAL", OppositeDirection(m.direction),
                          m.amount, day, i))
  /\ UNCHANGED <<deposits, payments, settlements, active_accounts, active_portfolios>>

\* PUT of current_balance: refused once the account has a ledger.
EnterBalance(acct, balance) ==
  /\ acct \in active_accounts
  /\ ~HasLedger(ledger, acct)
  /\ current_balance' = [current_balance EXCEPT ![acct] = balance]
  /\ UNCHANGED <<ledger, deposits, payments, settlements, active_accounts,
                 active_portfolios>>

DeactivateBankAccount(acct) ==
  /\ acct \in active_accounts
  /\ active_accounts' = active_accounts \ {acct}
  /\ UNCHANGED <<ledger, deposits, payments, settlements, current_balance,
                 active_portfolios>>

\* Archiving or restoring a portfolio looks at none of its deposits.  The default
\* portfolio cannot be archived: Portfolios holds the others.  The limit on the
\* number of active portfolios is left out.
SetPortfolioActive(pf, active) ==
  /\ active_portfolios' = IF active THEN active_portfolios \cup {pf}
                                    ELSE active_portfolios \ {pf}
  /\ UNCHANGED <<ledger, deposits, payments, settlements, current_balance,
                 active_accounts>>

-----------------------------------------------------------------------------
(* Fixed deposits.                                                         *)

NewDeposit(acct, pf, principal, day, status, renewal_of) ==
  [account |-> acct, portfolio |-> pf, principal |-> principal, day |-> day,
   status |-> status, is_active |-> TRUE, renewal_of |-> renewal_of]

\* POST: the row and its opening debit are one transaction.
CreateFixedDeposit(acct, pf, principal, day, status, renewal_of) ==
  LET f == Len(deposits) + 1
      fd == NewDeposit(acct, pf, principal, day, status, renewal_of)
  IN  /\ f <= MaxDeposits
      /\ Clean(fd)
      /\ deposits' = Append(deposits, fd)
      /\ Post(DepositMovement(f, fd, "FD_OPENING", "DEBIT", principal, day, NoMovement))
      /\ UNCHANGED <<payments, settlements, active_accounts, active_portfolios>>

\* validate_fd_investment_date_correction
MayMoveOpening(f, fd) ==
  /\ \A p \in PaymentsOf(f) : payments[p].is_reversed \/ payments[p].day >= fd.day
  /\ FundingBalanceAsOf(ledger, fd.account, fd.day, {FirstOpening(ledger, f)})
       >= fd.principal

\* Mutant: the opening keeps its old date.
UpdateKeepingOpeningDay(f, fd) ==
  LET old == deposits[f]
      opened == HasUnreversedOpening(ledger, f)
  IN  /\ old.is_active /\ fd.is_active
      /\ opened => /\ fd.account = old.account
                   /\ fd.portfolio = old.portfolio
                   /\ fd.principal = old.principal
      /\ opened /\ fd.day # old.day => MayMoveOpening(f, fd)
      /\ Clean(fd)
      /\ deposits' = [deposits EXCEPT ![f] = fd]
      /\ UNCHANGED <<ledger, payments, settlements, current_balance, active_accounts,
                     active_portfolios>>

\* Mutant: an inactive deposit can be updated.
UpdateReviving(f, fd) ==
  /\ ~HasUnreversedOpening(ledger, f)
  /\ Clean(fd)
  /\ deposits' = [deposits EXCEPT ![f] = fd]
  /\ UNCHANGED <<ledger, payments, settlements, current_balance, active_accounts,
                 active_portfolios>>

\* PUT: any subset of the fields.  With an unreversed opening the account, the
\* portfolio and the principal are fixed, and the opening follows the new date.
UpdateFixedDeposit(f, fd) ==
  LET old == deposits[f]
      opened == HasUnreversedOpening(ledger, f)
      moved == opened /\ fd.day # old.day
  IN  /\ old.is_active /\ fd.is_active
      /\ opened => /\ fd.account = old.account
                   /\ fd.portfolio = old.portfolio
                   /\ fd.principal = old.principal
      /\ moved => MayMoveOpening(f, fd)
      /\ Clean(fd)
      /\ deposits' = [deposits EXCEPT ![f] = fd]
      /\ ledger' = IF moved
                   THEN [ledger EXCEPT ![FirstOpening(ledger, f)].day = fd.day]
                   ELSE ledger
      /\ UNCHANGED <<payments, settlements, current_balance, active_accounts,
                     active_portfolios>>

\* DELETE: refused while the opening debit stands.
DeactivateFixedDeposit(f) ==
  /\ deposits[f].is_active
  /\ ~HasUnreversedOpening(ledger, f)
  /\ Clean(deposits[f])
  /\ deposits' = [deposits EXCEPT ![f].is_active = FALSE]
  /\ UNCHANGED <<ledger, payments, settlements, current_balance, active_accounts,
                 active_portfolios>>

MarkMatured(f) ==
  /\ deposits[f].is_active
  /\ deposits[f].status = "ACTIVE"
  /\ Clean(deposits[f])
  /\ deposits' = [deposits EXCEPT ![f].status = "MATURED"]
  /\ UNCHANGED <<ledger, payments, settlements, current_balance, active_accounts,
                 active_portfolios>>

-----------------------------------------------------------------------------
(* Settlement and renewal.                                                 *)

PrincipalType(kind) ==
  IF kind = "MATURITY" THEN "FD_MATURITY_PRINCIPAL" ELSE "FD_CLOSURE_PRINCIPAL"
InterestType(kind) ==
  IF kind = "MATURITY" THEN "FD_MATURITY_INTEREST" ELSE "FD_CLOSURE_INTEREST"

PrincipalLeg(f, kind, amt, day) ==
  DepositMovement(f, deposits[f], PrincipalType(kind), "CREDIT", amt, day, NoMovement)
InterestLeg(f, kind, amt, day) ==
  DepositMovement(f, deposits[f], InterestType(kind), "CREDIT", amt, day, NoMovement)

\* A leg of amount 0 posts nothing.
WithLeg(led, m) == IF m.amount = 0 THEN led ELSE Append(led, m)
LegAdmissible(led, m) == m.amount = 0 \/ Admissible(led, m)
LegRow(led, m) == IF m.amount = 0 THEN NoMovement ELSE Len(led) + 1

\* Principal first, then net interest; the interest runs against the ledger
\* the principal has left.
PayOut(f, kind, principal, net, day) ==
  LET m1 == PrincipalLeg(f, kind, principal, day)
      m2 == InterestLeg(f, kind, net, day)
      led == WithLeg(ledger, m1)
  IN  /\ LegAdmissible(ledger, m1)
      /\ LegAdmissible(led, m2)
      /\ IF principal + net = 0 THEN UNCHANGED <<ledger, current_balance>>
         ELSE Refresh(WithLeg(led, m2), m1.account)

\* The row that records what PayOut(f, kind, paid, net, day) posts.
SettlementRow(f, kind, returned, paid, net, day, renewed_as, reinvested) ==
  LET m1 == PrincipalLeg(f, kind, paid, day)
      m2 == InterestLeg(f, kind, net, day)
  IN  [deposit |-> f, account |-> deposits[f].account, kind |-> kind,
       principal |-> returned, net |-> net,
       principal_movement |-> LegRow(ledger, m1),
       interest_movement |-> LegRow(WithLeg(ledger, m1), m2),
       payout |-> paid, renewed_as |-> renewed_as, reinvested |-> reinvested]

\* Mutant: an earlier settlement is not looked for.
MaySettleAgain(f) ==
  /\ deposits[f].is_active
  /\ deposits[f].status \in OpenStatuses
  /\ Clean(deposits[f])

\* Both flows end in a save of the row, so the owners must be active.
MaySettle(f) ==
  /\ deposits[f].is_active
  /\ deposits[f].status \in OpenStatuses
  /\ ~IsSettled(f)
  /\ Clean(deposits[f])

Settle(f, kind, principal, net, day) ==
  /\ MaySettle(f)
  /\ principal + net > 0
  /\ PayOut(f, kind, principal, net, day)
  /\ settlements' =
       Append(settlements,
              SettlementRow(f, kind, principal, principal, net, day, NoDeposit, 0))
  /\ deposits' = [deposits EXCEPT ![f].status =
                    IF kind = "MATURITY" THEN "MATURED_SETTLED" ELSE "CLOSED"]
  /\ UNCHANGED <<payments, active_accounts, active_portfolios>>

\* The old deposit is settled at maturity for its whole principal, but only the
\* payout and the interest reach the bank; the new deposit has no opening debit.
Renew(f, payout, net, new_principal, day, new_day) ==
  LET old == deposits[f]
      g == Len(deposits) + 1
      fd == NewDeposit(old.account, old.portfolio, new_principal, new_day, "ACTIVE", f)
  IN  /\ g <= MaxDeposits
      /\ MaySettle(f)
      /\ ~IsRenewed(f)
      /\ PayOut(f, "MATURITY", payout, net, day)
      /\ settlements' =
           Append(settlements, SettlementRow(f, "MATURITY", old.principal, payout, net, day,
                                             g, new_principal))
      /\ deposits' = Append([deposits EXCEPT ![f].status = "MATURED_SETTLED"], fd)
      /\ UNCHANGED <<payments, active_accounts, active_portfolios>>

-----------------------------------------------------------------------------
(* Cancellation, and the repair of deposits that were deactivated before   *)
(* cancellation existed.                                                   *)

Untouched(f) == ~IsSettled(f) /\ ~IsRenewed(f) /\ PaymentsOf(f) = {}

\* Mutant: the deposit is cancelled but stays active.
RefundStayingActive(f, day) ==
  /\ HasUnreversedOpening(ledger, f)
  /\ LET i == FirstOpening(ledger, f)
     IN  Post(DepositMovement(f, deposits[f], "FD_OPENING_REVERSAL", "CREDIT",
                              ledger[i].amount, day, i))
  /\ Clean(deposits[f])
  /\ deposits' = [deposits EXCEPT ![f].status = "CANCELLED"]
  /\ UNCHANGED <<payments, settlements, active_accounts, active_portfolios>>

\* The opening is credited back and the deposit is out of the books.
RefundOpening(f, day) ==
  /\ HasUnreversedOpening(ledger, f)
  /\ LET i == FirstOpening(ledger, f)
     IN  Post(DepositMovement(f, deposits[f], "FD_OPENING_REVERSAL", "CREDIT",
                              ledger[i].amount, day, i))
  /\ Clean(deposits[f])
  /\ deposits' = [deposits EXCEPT ![f].status = "CANCELLED", ![f].is_active = FALSE]
  /\ UNCHANGED <<payments, settlements, active_accounts, active_portfolios>>

CancelFixedDeposit(f, day) ==
  /\ deposits[f].is_active
  /\ deposits[f].status \in OpenStatuses
  /\ Untouched(f)
  /\ RefundOpening(f, day)

RepairDeactivatedOpening(f, day) ==
  /\ ~deposits[f].is_active
  /\ deposits[f].status \in OpenStatuses
  /\ Untouched(f)
  /\ RefundOpening(f, day)

-----------------------------------------------------------------------------
(* Interest payments.                                                      *)

\* Mutant: the payment is linked to the row before its own.
RecordInterestOnPreviousRow(f, net, day) ==
  LET fd == deposits[f] IN
  /\ Len(payments) < MaxPayments
  /\ fd.is_active
  /\ fd.status \notin SettledStatuses
  /\ Post(DepositMovement(f, fd, "FD_INTEREST", "CREDIT", net, day, NoMovement))
  /\ payments' = Append(payments,
       [deposit |-> f, account |-> fd.account, net |-> net, day |-> day,
        movement |-> Len(ledger), is_reversed |-> FALSE])
  /\ UNCHANGED <<deposits, settlements, active_accounts, active_portfolios>>

RecordInterest(f, net, day) ==
  LET fd == deposits[f] IN
  /\ Len(payments) < MaxPayments
  /\ fd.is_active
  /\ fd.status \notin SettledStatuses
  /\ Post(DepositMovement(f, fd, "FD_INTEREST", "CREDIT", net, day, NoMovement))
  /\ payments' = Append(payments,
       [deposit |-> f, account |-> fd.account, net |-> net, day |-> day,
        movement |-> Len(ledger) + 1, is_reversed |-> FALSE])
  /\ UNCHANGED <<deposits, settlements, active_accounts, active_portfolios>>

\* FixedDepositInterestPayment.clean, run by every save of the row.
PaymentClean(p) == payments[p].account = deposits[payments[p].deposit].account

\* Mutant: the date of the movement is not rewritten.
EditInterestAmountOnly(p, net, day) ==
  LET i == payments[p].movement IN
  /\ ~payments[p].is_reversed
  /\ ~IsReversed(ledger, i)
  /\ PaymentClean(p)
  /\ ledger[i].portfolio = deposits[payments[p].deposit].portfolio
  /\ payments' = [payments EXCEPT ![p].net = net, ![p].day = day]
  /\ Refresh([ledger EXCEPT ![i].amount = net], payments[p].account)
  /\ UNCHANGED <<deposits, settlements, active_accounts, active_portfolios>>

\* Mutant: a reversed payment can be edited.
EditInterestOfReversed(p, net, day) ==
  LET i == payments[p].movement IN
  /\ PaymentClean(p)
  /\ ledger[i].portfolio = deposits[payments[p].deposit].portfolio
  /\ payments' = [payments EXCEPT ![p].net = net, ![p].day = day]
  /\ Refresh([ledger EXCEPT ![i].amount = net, ![i].day = day], payments[p].account)
  /\ UNCHANGED <<deposits, settlements, active_accounts, active_portfolios>>

\* Mutant: the balance of the account is not refreshed.
EditInterestWithoutRefresh(p, net, day) ==
  LET i == payments[p].movement IN
  /\ ~payments[p].is_reversed
  /\ ~IsReversed(ledger, i)
  /\ PaymentClean(p)
  /\ ledger[i].portfolio = deposits[payments[p].deposit].portfolio
  /\ payments' = [payments EXCEPT ![p].net = net, ![p].day = day]
  /\ ledger' = [ledger EXCEPT ![i].amount = net, ![i].day = day]
  /\ UNCHANGED <<deposits, settlements, current_balance, active_accounts,
                 active_portfolios>>

\* PATCH: the payment and its movement are rewritten in place.  Neither the
\* overdraft nor the state of the deposit or of the account is looked at.
EditInterest(p, net, day) ==
  LET i == payments[p].movement IN
  /\ ~payments[p].is_reversed
  /\ ~IsReversed(ledger, i)
  /\ PaymentClean(p)
  /\ ledger[i].portfolio = deposits[payments[p].deposit].portfolio
  /\ payments' = [payments EXCEPT ![p].net = net, ![p].day = day]
  /\ Refresh([ledger EXCEPT ![i].amount = net, ![i].day = day], payments[p].account)
  /\ UNCHANGED <<deposits, settlements, active_accounts, active_portfolios>>

\* Mutant: the reversal pays the interest a second time.
ReverseInterestByCredit(p, day) ==
  LET pay == payments[p]
      fd == deposits[pay.deposit]
  IN  /\ ~pay.is_reversed
      /\ fd.status # "CANCELLED"
      /\ ~IsSettled(pay.deposit)
      /\ ~IsReversal(ledger, pay.movement)
      /\ Post([DepositMovement(pay.deposit, fd, "FD_INTEREST_REVERSAL", "CREDIT",
                               pay.net, day, pay.movement) EXCEPT !.account = pay.account])
      /\ PaymentClean(p)
      /\ payments' = [payments EXCEPT ![p].is_reversed = TRUE]
      /\ UNCHANGED <<deposits, settlements, active_accounts, active_portfolios>>

\* POST to reverse: the row is built from the payment, on the account it names.
ReverseInterest(p, day) ==
  LET pay == payments[p]
      fd == deposits[pay.deposit]
  IN  /\ ~pay.is_reversed
      /\ fd.status # "CANCELLED"
      /\ ~IsSettled(pay.deposit)
      /\ ~IsReversal(ledger, pay.movement)
      /\ Post([DepositMovement(pay.deposit, fd, "FD_INTEREST_REVERSAL", "DEBIT",
                               pay.net, day, pay.movement) EXCEPT !.account = pay.account])
      /\ PaymentClean(p)
      /\ payments' = [payments EXCEPT ![p].is_reversed = TRUE]
      /\ UNCHANGED <<deposits, settlements, active_accounts, active_portfolios>>

-----------------------------------------------------------------------------
(* The specification.                                                      *)

\* A deposit from before the ledger: no opening row, nothing else recorded.
LegacyDeposit(acct, pf, principal, is_active) ==
  [NewDeposit(acct, pf, principal, 1, "ACTIVE", NoDeposit) EXCEPT !.is_active = is_active]

\* A database is new, or holds a deposit from before the ledger, or one whose
\* opening debit was left behind when it was deactivated by an older release.
Init ==
  /\ payments = <<>> /\ settlements = <<>>
  /\ active_accounts = Accounts /\ active_portfolios = Portfolios
  /\ \E acct \in Accounts, pf \in Portfolios, amt \in Amounts :
       \/ ledger = <<>> /\ deposits = <<>>
       \/ ledger = <<>> /\ deposits = <<LegacyDeposit(acct, pf, amt, TRUE)>>
       \/ LET fd == LegacyDeposit(acct, pf, amt, FALSE) IN
          /\ deposits = <<fd>>
          /\ ledger = <<AccountMovement(acct, "MANUAL", "CREDIT", amt, 1, NoMovement),
                        DepositMovement(1, fd, "FD_OPENING", "DEBIT", amt, 1, NoMovement)>>
  /\ current_balance = [acct \in Accounts |-> Balance(ledger, acct)]

BankStep ==
  \/ \E acct \in Accounts, dir \in Directions, amt \in Amounts, day \in Days :
       CreateManualMovement(acct, dir, amt, day)
  \/ \E acct \in Accounts, amt \in Amounts, day \in Days : SeedOpeningBalance(acct, amt, day)
  \/ \E i \in DOMAIN ledger, day \in Days : ReverseCashMovement(i, day)
  \/ \E acct \in Accounts, balance \in ManualBalances : EnterBalance(acct, balance)
  \/ \E acct \in Accounts : DeactivateBankAccount(acct)
  \/ \E pf \in Portfolios, active \in BOOLEAN : SetPortfolioActive(pf, active)

RenewalTargets == {NoDeposit} \cup (RenewalInputs \cap DOMAIN deposits)

DepositStep ==
  \/ \E acct \in Accounts, pf \in Portfolios, amt \in Amounts, day \in Days,
        status \in StatusInputs, of \in RenewalTargets :
       CreateFixedDeposit(acct, pf, amt, day, status, of)
  \/ \E f \in DOMAIN deposits :
       \/ \E acct \in Accounts, pf \in Portfolios,
             amt \in Amounts \cup {deposits[f].principal}, day \in Days,
             status \in StatusInputs \cup {deposits[f].status},
             of \in RenewalTargets \cup {deposits[f].renewal_of} :
            UpdateFixedDeposit(f, NewDeposit(acct, pf, amt, day, status, of))
       \/ DeactivateFixedDeposit(f)
       \/ MarkMatured(f)
       \/ \E kind \in Kinds, principal, net \in {0} \cup Amounts, day \in Days :
            Settle(f, kind, principal, net, day)
       \/ \E payout, net \in {0} \cup Amounts, new \in Amounts, day, new_day \in Days :
            Renew(f, payout, net, new, day, new_day)
       \/ \E day \in Days : CancelFixedDeposit(f, day) \/ RepairDeactivatedOpening(f, day)

InterestStep ==
  \/ \E f \in DOMAIN deposits, net \in Amounts, day \in Days : RecordInterest(f, net, day)
  \/ \E p \in DOMAIN payments, net \in Amounts, day \in Days : EditInterest(p, net, day)
  \/ \E p \in DOMAIN payments, day \in Days : ReverseInterest(p, day)

Next == BankStep \/ DepositStep \/ InterestStep

Spec == Init /\ [][Next]_vars

-----------------------------------------------------------------------------
(* Properties.                                                             *)

\* The cached balance of an account with a ledger is the sum of its rows,
\* whichever service wrote last (refresh_bank_account_balance after every
\* insert and after an interest edit, and no manual balance from then on).
CacheIsLedgerSum ==
  \A acct \in Accounts :
    HasLedger(ledger, acct) => current_balance[acct] = Balance(ledger, acct)

Audit == INSTANCE AuditLedger

\* The deposits keep the promise of the ledger to its auditor: whatever a request
\* does, it adds rows or corrects one row that stands, and a reversal it adds
\* takes back one earlier row, exactly and for the first time.
AuditedLedger == Audit!Spec

\* No row of the ledger is taken back twice: by the reversal endpoints, by
\* cancellation or by the repair command, in any order.
OneReversalPerMovement == Audit!OneReversalPerMovement

\* A reversal undoes exactly what it names: an earlier row that is itself no
\* reversal, on the same account, for the same amount, the other way.  It holds
\* although the reversal is built from the deposit or the payment and not from
\* the original row, both of which may have been edited in between.
ReversalMirrorsOriginal == Audit!ReversalMirrorsOriginal

\* Whole-ledger consequence: leaving reversed rows and their reversals out of
\* the funding balance never changes what the account holds in all.
ReversalsCancelOut ==
  \A acct \in Accounts :
    FundingBalanceAsOf(ledger, acct, MaxDay, {}) = Balance(ledger, acct)

\* An opening debit that still stands agrees with its deposit on account,
\* portfolio, principal and date, through every later edit of the deposit.
OpeningMirrorsDeposit ==
  \A i \in DOMAIN ledger : ledger[i].type = "FD_OPENING" /\ ~IsReversed(ledger, i) =>
    LET f == ledger[i].deposit IN
    /\ f \in DOMAIN deposits
    /\ ledger[i].account = deposits[f].account
    /\ ledger[i].portfolio = deposits[f].portfolio
    /\ ledger[i].amount = deposits[f].principal
    /\ ledger[i].day = deposits[f].day

\* A payment and its own movement agree on account, amount and date, and the
\* payment is marked reversed exactly when its movement is reversed.
PaymentMirrorsMovement ==
  \A p \in DOMAIN payments :
    LET i == payments[p].movement IN
    /\ i \in DOMAIN ledger
    /\ ledger[i].type = "FD_INTEREST"
    /\ ledger[i].deposit = payments[p].deposit
    /\ ledger[i].account = payments[p].account
    /\ ledger[i].amount = payments[p].net
    /\ ledger[i].day = payments[p].day
    /\ payments[p].is_reversed <=> IsReversed(ledger, i)
    /\ \A q \in DOMAIN payments : payments[q].movement = i => q = p

\* A deposit whose opening was credited back never pays anything else: it is
\* cancelled for good, was never settled and never paid interest.
RefundIsFinal ==
  \A i \in DOMAIN ledger : ledger[i].type = "FD_OPENING" /\ IsReversed(ledger, i) =>
    LET f == ledger[i].deposit IN
    /\ deposits[f].status = "CANCELLED" /\ ~deposits[f].is_active
    /\ ~IsSettled(f)
    /\ PaymentsOf(f) = {}

\* A deposit is settled once, and every settlement leg in the ledger is the leg
\* of one settlement, for the deposit, the account and the amount it records.
SettlementOwnsItsLegs ==
  /\ \A s, t \in DOMAIN settlements :
       settlements[s].deposit = settlements[t].deposit => s = t
  /\ \A i \in DOMAIN ledger : ledger[i].type \in SettlementLegTypes =>
       \E s \in SettlementOf(ledger[i].deposit) :
         LET row == settlements[s] IN
         /\ ledger[i].account = row.account
         /\ \/ /\ i = row.principal_movement
               /\ ledger[i].type = PrincipalType(row.kind)
               /\ ledger[i].amount = row.payout
            \/ /\ i = row.interest_movement
               /\ ledger[i].type = InterestType(row.kind)
               /\ ledger[i].amount = row.net

\* The audit trail is frozen: no row ever leaves the ledger, and a reversal or
\* a reversed row is never rewritten, not even by the in-place edits of a
\* payment or of an investment date.
AuditTrailFrozen == Audit!AuditTrailFrozen

\* A deposit taken out of the books stays out: no request revives it, and its
\* terms and dates no longer change.
InactiveStaysInactive ==
  [][\A f \in DOMAIN deposits : ~deposits[f].is_active =>
       /\ ~deposits'[f].is_active
       /\ deposits'[f] = [deposits[f] EXCEPT !.status = deposits'[f].status]]_vars

-----------------------------------------------------------------------------
(* What the documentation promises and the code does not keep.             *)

\* "Negative bank balances are not allowed": no account with a ledger is ever
\* overdrawn, on no date (docs/fixed-deposits-accounting.md, principle 9).
NoOverdraft ==
  \A acct \in Accounts, day \in Days : BalanceAsOf(ledger, acct, day) >= 0

\* A deposit contributes to the portfolio value while it is ACTIVE or MATURED.
Contributes(f) == deposits[f].is_active /\ deposits[f].status \in OpenStatuses

\* "CLOSED and MATURED_SETTLED do not contribute after settlement is recorded":
\* once the money is back at the bank, the principal is not counted again.
SettledContributesNothing ==
  \A f \in DOMAIN deposits : IsSettled(f) => ~Contributes(f)

\* "direct_reinvest_amount + cash_payout_amount = settled principal": a renewal
\* neither creates nor loses principal.
RenewalConserves ==
  \A s \in DOMAIN settlements : settlements[s].renewed_as # NoDeposit =>
    settlements[s].reinvested + settlements[s].payout = settlements[s].principal
=============================================================================
