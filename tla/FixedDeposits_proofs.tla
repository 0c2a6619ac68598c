------------------------ MODULE FixedDeposits_proofs ------------------------
(***************************************************************************)
(* Theorems about FixedDeposits, for every set of accounts, portfolios and *)
(* amounts and for every bound: type correctness, the agreement of the     *)
(* cached balances with the ledger, and the integrity of reversals.        *)
(***************************************************************************)
EXTENDS FixedDeposits, TLAPS, SequenceTheorems, WellFoundedInduction

-----------------------------------------------------------------------------
(* Sequences as tables: inserting a row and rewriting a row.               *)

\* Inserting a row keeps the others and gives the new one the next key.
LEMMA Inserted ==
  ASSUME NEW S, NEW table \in Seq(S), NEW row \in S
  PROVE  /\ Append(table, row) \in Seq(S)
         /\ Len(table) \in Nat
         /\ DOMAIN table = 1 .. Len(table)
         /\ DOMAIN Append(table, row) = 1 .. Len(table) + 1
         /\ \A i \in 1 .. Len(table) : Append(table, row)[i] = table[i]
         /\ Append(table, row)[Len(table) + 1] = row
<1>1. Append(table, row) \in Seq(S) /\ Len(Append(table, row)) = Len(table) + 1
  BY AppendProperties
<1>2. DOMAIN Append(table, row) = 1 .. Len(Append(table, row))
  BY <1>1, LenProperties
<1> QED BY <1>1, <1>2, AppendProperties, LenProperties

\* Rewriting row i of a table keeps its keys and its other rows.
LEMMA Rewritten ==
  ASSUME NEW S, NEW table \in Seq(S), NEW i \in DOMAIN table, NEW row \in S
  PROVE  /\ [table EXCEPT ![i] = row] \in Seq(S)
         /\ DOMAIN [table EXCEPT ![i] = row] = DOMAIN table
         /\ \A j \in DOMAIN table :
              [table EXCEPT ![i] = row][j] = IF j = i THEN row ELSE table[j]
  BY ExceptSeq, LenProperties

\* The short tables a database may start with.
LEMMA ShortTables ==
  ASSUME NEW S, NEW a \in S, NEW b \in S
  PROVE  <<>> \in Seq(S) /\ <<a>> \in Seq(S) /\ <<a, b>> \in Seq(S)
  OBVIOUS

\* A set of numbers that is not empty has a least element.
LEMMA LeastExists ==
  ASSUME NEW S \in SUBSET Nat, S # {}
  PROVE  \E x \in S : \A y \in S : x <= y
<1>1. PICK R : /\ IsWellFoundedOn(R, Nat)
               /\ \A x, y \in Nat : <<y, x>> \in R <=> y < x
  BY NatLessThanWellFounded DEF OpToRel
<1>2. PICK x \in S : \A y \in S : ~ (<<y, x>> \in R)
  BY <1>1, WFMin
<1>3. ASSUME NEW y \in S PROVE x <= y
  <2>1. x \in Nat /\ y \in Nat
    OBVIOUS
  <2>2. ~ (y < x)
    BY <1>1, <1>2, <2>1, Zenon
  <2> QED BY <2>1, <2>2
<1> QED BY <1>3

\* The query for the opening of a deposit returns one of its openings.
LEMMA FirstOpeningIsOpening ==
  ASSUME NEW S, NEW led \in Seq(S), NEW f, OpeningsOf(led, f) # {}
  PROVE  /\ FirstOpening(led, f) \in OpeningsOf(led, f)
         /\ FirstOpening(led, f) \in DOMAIN led
<1>1. OpeningsOf(led, f) \in SUBSET Nat
  BY DEF OpeningsOf
<1>2. \E i \in OpeningsOf(led, f) : \A j \in OpeningsOf(led, f) : i <= j
  BY <1>1, LeastExists
<1> QED BY <1>2 DEF FirstOpening, OpeningsOf

-----------------------------------------------------------------------------
(* Type correctness.                                                       *)

\* A row that belongs to an account only.
LEMMA AccountMovementType ==
  ASSUME NEW acct \in Accounts, NEW type \in MovementTypes, NEW dir \in Directions,
         NEW amt \in Nat \ {0}, NEW day \in Days, NEW reverses \in Nat
  PROVE  AccountMovement(acct, type, dir, amt, day, reverses) \in CashMovement
  BY DEF AccountMovement, CashMovement, NoDeposit

\* A row posted for a deposit.
LEMMA DepositMovementType ==
  ASSUME NEW f \in Nat, NEW fd \in FixedDeposit, NEW type \in MovementTypes,
         NEW dir \in Directions, NEW amt \in Nat \ {0}, NEW day \in Days,
         NEW reverses \in Nat
  PROVE  DepositMovement(f, fd, type, dir, amt, day, reverses) \in CashMovement
  BY DEF DepositMovement, CashMovement, FixedDeposit

\* What posting one well-typed row does to the ledger and to the cache.
LEMMA PostType ==
  ASSUME TypeOK, NEW m \in CashMovement, Post(m)
  PROVE  /\ ledger' = Append(ledger, m)
         /\ ledger' \in Seq(CashMovement)
         /\ DOMAIN ledger \subseteq DOMAIN ledger'
         /\ DOMAIN current_balance' = Accounts
  BY Inserted DEF TypeOK, Post, Refresh

\* The legs of a settlement are well typed, so is the ledger they leave.
LEMMA PayOutType ==
  ASSUME TypeOK, NEW f \in DOMAIN deposits, NEW kind \in Kinds,
         NEW principal \in Nat, NEW net \in Nat, NEW day \in Days,
         PayOut(f, kind, principal, net, day)
  PROVE  /\ ledger' \in Seq(CashMovement)
         /\ DOMAIN ledger \subseteq DOMAIN ledger'
         /\ DOMAIN current_balance' = Accounts
<1> DEFINE m1 == PrincipalLeg(f, kind, principal, day)
           m2 == InterestLeg(f, kind, net, day)
           led == WithLeg(ledger, m1)
<1>1. deposits[f] \in FixedDeposit /\ f \in Nat
  BY LenProperties, ElementOfSeq DEF TypeOK
<1>2. m1.amount = principal /\ m2.amount = net
  BY DEF PrincipalLeg, InterestLeg, DepositMovement
<1>3. principal # 0 => m1 \in CashMovement
  BY <1>1, DepositMovementType
     DEF PrincipalLeg, PrincipalType, MovementTypes, SettlementLegTypes, Directions,
         NoMovement
<1>4. net # 0 => m2 \in CashMovement
  BY <1>1, DepositMovementType
     DEF InterestLeg, InterestType, MovementTypes, SettlementLegTypes, Directions,
         NoMovement
<1> HIDE DEF m1, m2
<1>5. led \in Seq(CashMovement) /\ DOMAIN ledger \subseteq DOMAIN led
  BY <1>2, <1>3, Inserted DEF WithLeg, TypeOK
<1>6. WithLeg(led, m2) \in Seq(CashMovement) /\ DOMAIN led \subseteq DOMAIN WithLeg(led, m2)
  BY <1>2, <1>4, <1>5, Inserted DEF WithLeg
<1> QED BY <1>5, <1>6 DEF PayOut, Refresh, TypeOK, m1, m2

\* The amounts, days and keys a request may carry are well typed.
LEMMA InputsType ==
  /\ \A amt \in Amounts : amt \in Nat \ {0}
  /\ \A amt \in {0} \cup Amounts : amt \in Nat
  /\ \A f \in RenewalTargets : f \in Nat
  /\ StatusInputs \subseteq Statuses
  /\ 1 \in Days
<1>1. \A amt \in Amounts : amt \in Nat \ {0}
  BY ConstantsAssumption
<1>2. \A f \in RenewalTargets : f \in Nat
  BY ConstantsAssumption DEF RenewalTargets, NoDeposit
<1>3. StatusInputs \subseteq Statuses
  BY ConstantsAssumption DEF Statuses
<1>4. 1 \in Days
  BY ConstantsAssumption DEF Days
<1> QED BY <1>1, <1>2, <1>3, <1>4

\* A new deposit is well typed.
LEMMA NewDepositType ==
  ASSUME NEW acct \in Accounts, NEW pf \in Portfolios, NEW amt \in Nat \ {0},
         NEW day \in Days, NEW status \in Statuses, NEW of \in Nat
  PROVE  NewDeposit(acct, pf, amt, day, status, of) \in FixedDeposit
  BY DEF NewDeposit, FixedDeposit

\* Changing the status of one deposit, and its presence, keeps the table typed.
LEMMA StatusType ==
  ASSUME deposits \in Seq(FixedDeposit), NEW f \in DOMAIN deposits,
         NEW status \in Statuses
  PROVE  /\ [deposits EXCEPT ![f].status = status] \in Seq(FixedDeposit)
         /\ [deposits EXCEPT ![f].is_active = FALSE] \in Seq(FixedDeposit)
         /\ [deposits EXCEPT ![f].status = status, ![f].is_active = FALSE]
              \in Seq(FixedDeposit)
         /\ DOMAIN [deposits EXCEPT ![f].status = status] = DOMAIN deposits
<1> DEFINE a == [deposits[f] EXCEPT !.status = status]
           b == [deposits[f] EXCEPT !.is_active = FALSE]
           c == [deposits[f] EXCEPT !.status = status, !.is_active = FALSE]
<1>1. deposits[f] \in FixedDeposit
  BY LenProperties, ElementOfSeq
<1>2. a \in FixedDeposit /\ b \in FixedDeposit /\ c \in FixedDeposit
  BY <1>1 DEF FixedDeposit
<1>3. [deposits EXCEPT ![f].status = status] = [deposits EXCEPT ![f] = a]
  OBVIOUS
<1>4. [deposits EXCEPT ![f].is_active = FALSE] = [deposits EXCEPT ![f] = b]
  OBVIOUS
<1>5. [deposits EXCEPT ![f].status = status, ![f].is_active = FALSE]
        = [deposits EXCEPT ![f] = c]
  OBVIOUS
<1> HIDE DEF a, b, c
<1> QED BY <1>2, <1>3, <1>4, <1>5, Rewritten

\* Every initial database is well typed.
LEMMA InitType == Init => TypeOK
<1> SUFFICES ASSUME Init PROVE TypeOK
  OBVIOUS
<1>1. PICK acct \in Accounts, pf \in Portfolios, amt \in Amounts :
        \/ ledger = <<>> /\ deposits = <<>>
        \/ ledger = <<>> /\ deposits = <<LegacyDeposit(acct, pf, amt, TRUE)>>
        \/ LET fd == LegacyDeposit(acct, pf, amt, FALSE) IN
           /\ deposits = <<fd>>
           /\ ledger = <<AccountMovement(acct, "MANUAL", "CREDIT", amt, 1, NoMovement),
                         DepositMovement(1, fd, "FD_OPENING", "DEBIT", amt, 1, NoMovement)>>
  BY DEF Init
<1>2. \A b \in BOOLEAN : LegacyDeposit(acct, pf, amt, b) \in FixedDeposit
  <2>1. NewDeposit(acct, pf, amt, 1, "ACTIVE", NoDeposit) \in FixedDeposit
    BY InputsType, NewDepositType DEF Statuses, NoDeposit
  <2> QED BY <2>1 DEF LegacyDeposit, FixedDeposit
<1>3. AccountMovement(acct, "MANUAL", "CREDIT", amt, 1, NoMovement) \in CashMovement
  BY InputsType, AccountMovementType
     DEF MovementTypes, ReversibleManualTypes, Directions, NoMovement
<1>4. DepositMovement(1, LegacyDeposit(acct, pf, amt, FALSE), "FD_OPENING", "DEBIT", amt, 1,
                      NoMovement) \in CashMovement
  BY <1>2, InputsType, DepositMovementType DEF MovementTypes, Directions, NoMovement
<1>5. deposits \in Seq(FixedDeposit)
  BY <1>1, <1>2, ShortTables
<1>6. ledger \in Seq(CashMovement)
  BY <1>1, <1>3, <1>4, ShortTables
<1> QED BY <1>5, <1>6 DEF Init, TypeOK

\* What the types say of the row and of the key a request names.
LEMMA RowTypes ==
  ASSUME TypeOK
  PROVE  /\ Len(ledger) \in Nat /\ DOMAIN ledger = 1 .. Len(ledger)
         /\ Len(deposits) \in Nat /\ DOMAIN deposits = 1 .. Len(deposits)
         /\ Len(payments) \in Nat /\ DOMAIN payments = 1 .. Len(payments)
         /\ Len(settlements) \in Nat /\ DOMAIN settlements = 1 .. Len(settlements)
         /\ \A i \in DOMAIN ledger : ledger[i] \in CashMovement
         /\ \A f \in DOMAIN deposits : deposits[f] \in FixedDeposit
         /\ \A p \in DOMAIN payments : payments[p] \in InterestPayment
         /\ \A s \in DOMAIN settlements : settlements[s] \in Settlement
  BY LenProperties, ElementOfSeq DEF TypeOK

\* Crediting an opening back keeps the tables typed.
LEMMA RefundType ==
  ASSUME TypeOK, NEW f \in DOMAIN deposits, NEW day \in Days, RefundOpening(f, day)
  PROVE  TypeOK'
<1> DEFINE i == FirstOpening(ledger, f)
           m == DepositMovement(f, deposits[f], "FD_OPENING_REVERSAL", "CREDIT",
                                ledger[i].amount, day, i)
<1>1. i \in DOMAIN ledger
  BY FirstOpeningIsOpening DEF RefundOpening, HasUnreversedOpening, TypeOK
<1>2. ledger[i].amount \in Nat \ {0} /\ i \in Nat /\ f \in Nat /\ deposits[f] \in FixedDeposit
  BY <1>1, RowTypes DEF CashMovement
<1>3. m \in CashMovement
  BY <1>2, DepositMovementType DEF MovementTypes, ReversalTypes, Directions
<1>4. Post(m)
  BY DEF RefundOpening
<1>5. /\ ledger' \in Seq(CashMovement) /\ DOMAIN current_balance' = Accounts
      /\ DOMAIN ledger \subseteq DOMAIN ledger'
  BY <1>3, <1>4, PostType
<1>6. deposits' \in Seq(FixedDeposit) /\ DOMAIN deposits' = DOMAIN deposits
  BY StatusType DEF RefundOpening, TypeOK, Statuses
<1> QED BY <1>5, <1>6 DEF RefundOpening, TypeOK

\* The row a settlement writes is well typed.
LEMMA SettlementRowType ==
  ASSUME TypeOK, NEW f \in DOMAIN deposits, NEW kind \in Kinds,
         NEW returned \in Nat, NEW paid \in Nat, NEW net \in Nat, NEW day \in Days,
         NEW renewed_as \in Nat, NEW reinvested \in Nat
  PROVE  SettlementRow(f, kind, returned, paid, net, day, renewed_as, reinvested)
           \in Settlement
<1> DEFINE m1 == PrincipalLeg(f, kind, paid, day)
           m2 == InterestLeg(f, kind, net, day)
<1>1. f \in Nat \ {0} /\ deposits[f].account \in Accounts
  BY RowTypes DEF FixedDeposit
<1>2. m1.amount = paid
  BY DEF PrincipalLeg, DepositMovement
<1>3. paid # 0 => m1 \in CashMovement
  BY <1>1, RowTypes, DepositMovementType
     DEF PrincipalLeg, PrincipalType, MovementTypes, SettlementLegTypes, Directions,
         NoMovement
<1> HIDE DEF m1, m2
<1>4. WithLeg(ledger, m1) \in Seq(CashMovement)
  BY <1>2, <1>3, Inserted DEF WithLeg, TypeOK
<1>5. LegRow(ledger, m1) \in Nat /\ LegRow(WithLeg(ledger, m1), m2) \in Nat
  BY <1>4, RowTypes, LenProperties DEF LegRow, NoMovement
<1> QED BY <1>1, <1>5 DEF SettlementRow, Settlement, m1, m2

\* The bank and portfolio requests keep the tables typed.
LEMMA BankStepType == TypeOK /\ BankStep => TypeOK'
<1> SUFFICES ASSUME TypeOK, BankStep PROVE TypeOK'
  OBVIOUS
<1>1. ASSUME NEW acct \in Accounts, NEW dir \in Directions, NEW amt \in Amounts,
             NEW day \in Days, CreateManualMovement(acct, dir, amt, day)
      PROVE  TypeOK'
  <2>1. AccountMovement(acct, "MANUAL", dir, amt, day, NoMovement) \in CashMovement
    BY AccountMovementType, InputsType
       DEF MovementTypes, ReversibleManualTypes, NoMovement
  <2> QED BY <1>1, <2>1, PostType DEF CreateManualMovement, TypeOK
<1>2. ASSUME NEW acct \in Accounts, NEW amt \in Amounts, NEW day \in Days,
             SeedOpeningBalance(acct, amt, day)
      PROVE  TypeOK'
  <2>1. AccountMovement(acct, "OPENING_BALANCE", "CREDIT", amt, day, NoMovement)
          \in CashMovement
    BY AccountMovementType, InputsType
       DEF MovementTypes, ReversibleManualTypes, Directions, NoMovement
  <2> QED BY <1>2, <2>1, PostType DEF SeedOpeningBalance, TypeOK
<1>3. ASSUME NEW i \in DOMAIN ledger, NEW day \in Days, ReverseCashMovement(i, day)
      PROVE  TypeOK'
  <2>1. ledger[i] \in CashMovement /\ i \in Nat
    BY RowTypes
  <2>2. /\ ledger[i].account \in Accounts
        /\ ledger[i].amount \in Nat \ {0}
        /\ OppositeDirection(ledger[i].direction) \in Directions
    BY <2>1 DEF CashMovement, Directions, OppositeDirection
  <2>3. AccountMovement(ledger[i].account, "REVERSAL",
                        OppositeDirection(ledger[i].direction), ledger[i].amount, day, i)
          \in CashMovement
    BY <2>1, <2>2, AccountMovementType DEF MovementTypes, ReversalTypes
  <2> QED BY <1>3, <2>3, PostType DEF ReverseCashMovement, TypeOK
<1>4. ASSUME NEW acct \in Accounts, NEW balance \in ManualBalances,
             EnterBalance(acct, balance)
      PROVE  TypeOK'
  BY <1>4 DEF EnterBalance, TypeOK
<1>5. ASSUME NEW acct \in Accounts, DeactivateBankAccount(acct)
      PROVE  TypeOK'
  BY <1>5 DEF DeactivateBankAccount, TypeOK
<1>6. ASSUME NEW pf \in Portfolios, NEW active \in BOOLEAN, SetPortfolioActive(pf, active)
      PROVE  TypeOK'
  BY <1>6 DEF SetPortfolioActive, TypeOK
<1> QED BY <1>1, <1>2, <1>3, <1>4, <1>5, <1>6 DEF BankStep

\* The requests on a deposit keep the tables typed.
LEMMA DepositStepType == TypeOK /\ DepositStep => TypeOK'
<1> SUFFICES ASSUME TypeOK, DepositStep PROVE TypeOK'
  OBVIOUS
<1>1. ASSUME NEW acct \in Accounts, NEW pf \in Portfolios, NEW amt \in Amounts,
             NEW day \in Days, NEW status \in StatusInputs, NEW of \in RenewalTargets,
             CreateFixedDeposit(acct, pf, amt, day, status, of)
      PROVE  TypeOK'
  <2> DEFINE f == Len(deposits) + 1
             fd == NewDeposit(acct, pf, amt, day, status, of)
  <2>1. f \in Nat /\ fd \in FixedDeposit /\ amt \in Nat \ {0}
    BY InputsType, NewDepositType, RowTypes
  <2>2. DepositMovement(f, fd, "FD_OPENING", "DEBIT", amt, day, NoMovement) \in CashMovement
    BY <2>1, DepositMovementType DEF MovementTypes, Directions, NoMovement
  <2>3. deposits' \in Seq(FixedDeposit) /\ DOMAIN deposits \subseteq DOMAIN deposits'
    BY <1>1, <2>1, Inserted DEF CreateFixedDeposit, TypeOK
  <2>4. Post(DepositMovement(f, fd, "FD_OPENING", "DEBIT", amt, day, NoMovement))
    BY <1>1 DEF CreateFixedDeposit
  <2>5. /\ ledger' \in Seq(CashMovement) /\ DOMAIN current_balance' = Accounts
        /\ DOMAIN ledger \subseteq DOMAIN ledger'
    BY <2>2, <2>4, PostType
  <2> QED BY <1>1, <2>3, <2>5 DEF CreateFixedDeposit, TypeOK
<1>2. ASSUME NEW f \in DOMAIN deposits, NEW acct \in Accounts, NEW pf \in Portfolios,
             NEW amt \in Amounts \cup {deposits[f].principal}, NEW day \in Days,
             NEW status \in StatusInputs \cup {deposits[f].status},
             NEW of \in RenewalTargets \cup {deposits[f].renewal_of},
             UpdateFixedDeposit(f, NewDeposit(acct, pf, amt, day, status, of))
      PROVE  TypeOK'
  <2> DEFINE fd == NewDeposit(acct, pf, amt, day, status, of)
             i == FirstOpening(ledger, f)
  <2>1. amt \in Nat \ {0} /\ status \in Statuses /\ of \in Nat
    BY InputsType, RowTypes DEF FixedDeposit
  <2>2. fd \in FixedDeposit /\ fd.day = day
    BY <2>1, NewDepositType DEF NewDeposit
  <2>3. deposits' \in Seq(FixedDeposit)
    BY <1>2, <2>2, Rewritten DEF UpdateFixedDeposit, TypeOK
  <2>4. ledger' \in Seq(CashMovement)
    <3>1. CASE ~ HasUnreversedOpening(ledger, f)
      BY <1>2, <3>1 DEF UpdateFixedDeposit, TypeOK
    <3>2. CASE HasUnreversedOpening(ledger, f)
      <4>1. i \in DOMAIN ledger
        BY <3>2, FirstOpeningIsOpening DEF HasUnreversedOpening, TypeOK
      <4>2. [ledger[i] EXCEPT !.day = day] \in CashMovement
        BY <4>1, RowTypes DEF CashMovement
      <4>3. [ledger EXCEPT ![i].day = day] \in Seq(CashMovement)
        BY <4>1, <4>2, Rewritten DEF TypeOK
      <4> QED BY <1>2, <2>2, <4>3 DEF UpdateFixedDeposit, TypeOK
    <3> QED BY <3>1, <3>2
  <2> QED BY <1>2, <2>3, <2>4 DEF UpdateFixedDeposit, TypeOK
<1>3. ASSUME NEW f \in DOMAIN deposits, DeactivateFixedDeposit(f)
      PROVE  TypeOK'
  BY <1>3, StatusType DEF DeactivateFixedDeposit, TypeOK, Statuses
<1>4. ASSUME NEW f \in DOMAIN deposits, MarkMatured(f)
      PROVE  TypeOK'
  BY <1>4, StatusType DEF MarkMatured, TypeOK, Statuses
<1>5. ASSUME NEW f \in DOMAIN deposits, NEW kind \in Kinds,
             NEW principal \in {0} \cup Amounts, NEW net \in {0} \cup Amounts,
             NEW day \in Days, Settle(f, kind, principal, net, day)
      PROVE  TypeOK'
  <2>1. principal \in Nat /\ net \in Nat
    BY InputsType
  <2>2. /\ ledger' \in Seq(CashMovement) /\ DOMAIN current_balance' = Accounts
        /\ DOMAIN ledger \subseteq DOMAIN ledger'
    BY <1>5, <2>1, PayOutType DEF Settle
  <2>3. SettlementRow(f, kind, principal, principal, net, day, NoDeposit, 0) \in Settlement
    BY <2>1, SettlementRowType DEF NoDeposit
  <2>4. settlements' \in Seq(Settlement)
    BY <1>5, <2>3, Inserted DEF Settle, TypeOK
  <2>5. deposits' \in Seq(FixedDeposit) /\ DOMAIN deposits' = DOMAIN deposits
    BY <1>5, StatusType DEF Settle, TypeOK, Statuses
  <2> QED BY <1>5, <2>2, <2>4, <2>5 DEF Settle, TypeOK
<1>6. ASSUME NEW f \in DOMAIN deposits, NEW payout \in {0} \cup Amounts,
             NEW net \in {0} \cup Amounts, NEW new \in Amounts, NEW day \in Days,
             NEW new_day \in Days, Renew(f, payout, net, new, day, new_day)
      PROVE  TypeOK'
  <2> DEFINE g == Len(deposits) + 1
             fd == NewDeposit(deposits[f].account, deposits[f].portfolio, new, new_day,
                              "ACTIVE", f)
  <2>1. payout \in Nat /\ net \in Nat /\ new \in Nat \ {0}
    BY InputsType
  <2>2. /\ deposits[f].account \in Accounts /\ deposits[f].portfolio \in Portfolios
        /\ deposits[f].principal \in Nat /\ f \in Nat /\ g \in Nat
    BY RowTypes DEF FixedDeposit
  <2>3. /\ ledger' \in Seq(CashMovement) /\ DOMAIN current_balance' = Accounts
        /\ DOMAIN ledger \subseteq DOMAIN ledger'
    BY <1>6, <2>1, PayOutType DEF Renew, Kinds
  <2>4. SettlementRow(f, "MATURITY", deposits[f].principal, payout, net, day, g, new)
          \in Settlement
    BY <2>1, <2>2, SettlementRowType DEF Kinds
  <2>5. settlements' \in Seq(Settlement)
    BY <1>6, <2>4, Inserted DEF Renew, TypeOK
  <2>6. fd \in FixedDeposit
    BY <2>1, <2>2, NewDepositType DEF Statuses
  <2>7. /\ [deposits EXCEPT ![f].status = "MATURED_SETTLED"] \in Seq(FixedDeposit)
        /\ DOMAIN [deposits EXCEPT ![f].status = "MATURED_SETTLED"] = DOMAIN deposits
    BY StatusType DEF TypeOK, Statuses
  <2>8. deposits' \in Seq(FixedDeposit) /\ DOMAIN deposits \subseteq DOMAIN deposits'
    BY <1>6, <2>6, <2>7, Inserted DEF Renew
  <2> QED BY <1>6, <2>3, <2>5, <2>8 DEF Renew, TypeOK
<1>7. ASSUME NEW f \in DOMAIN deposits, NEW day \in Days,
             CancelFixedDeposit(f, day) \/ RepairDeactivatedOpening(f, day)
      PROVE  TypeOK'
  BY <1>7, RefundType DEF CancelFixedDeposit, RepairDeactivatedOpening
<1> QED BY <1>1, <1>2, <1>3, <1>4, <1>5, <1>6, <1>7 DEF DepositStep

\* The interest requests keep the tables typed.
LEMMA InterestStepType == TypeOK /\ InterestStep => TypeOK'
<1> SUFFICES ASSUME TypeOK, InterestStep PROVE TypeOK'
  OBVIOUS
<1>1. ASSUME NEW f \in DOMAIN deposits, NEW net \in Amounts, NEW day \in Days,
             RecordInterest(f, net, day)
      PROVE  TypeOK'
  <2> DEFINE m == DepositMovement(f, deposits[f], "FD_INTEREST", "CREDIT", net, day,
                                  NoMovement)
             pay == [deposit |-> f, account |-> deposits[f].account, net |-> net,
                     day |-> day, movement |-> Len(ledger) + 1, is_reversed |-> FALSE]
  <2>1. /\ f \in Nat \ {0} /\ net \in Nat \ {0}
        /\ deposits[f] \in FixedDeposit /\ deposits[f].account \in Accounts
    BY InputsType, RowTypes DEF FixedDeposit
  <2>2. m \in CashMovement
    BY <2>1, DepositMovementType DEF MovementTypes, Directions, NoMovement
  <2>3. Post(m) /\ payments' = Append(payments, pay)
    BY <1>1 DEF RecordInterest
  <2>4. /\ ledger' \in Seq(CashMovement) /\ DOMAIN current_balance' = Accounts
        /\ ledger' = Append(ledger, m)
    BY <2>2, <2>3, PostType
  <2>5. pay \in InterestPayment
    BY <2>1, RowTypes DEF InterestPayment
  <2> HIDE DEF pay, m
  <2>6. payments' \in Seq(InterestPayment)
    BY <2>3, <2>5, Inserted DEF TypeOK
  <2>7. ASSUME NEW p \in DOMAIN payments'
        PROVE  payments'[p].deposit \in DOMAIN deposits /\ payments'[p].movement \in DOMAIN ledger'
    <3>1. DOMAIN ledger' = 1 .. Len(ledger) + 1
      BY <2>2, <2>4, Inserted DEF TypeOK
    <3>2. CASE p \in DOMAIN payments
      <4>1. payments'[p] = payments[p]
        BY <2>3, <2>5, <3>2, Inserted DEF TypeOK
      <4> QED BY <3>1, <3>2, <4>1, RowTypes DEF TypeOK
    <3>3. CASE p \notin DOMAIN payments
      <4>1. payments'[p] = pay
        BY <2>3, <2>5, <3>3, Inserted DEF TypeOK
      <4> QED BY <3>1, <4>1, RowTypes DEF pay
    <3> QED BY <3>2, <3>3
  <2> QED BY <1>1, <2>4, <2>6, <2>7 DEF RecordInterest, TypeOK
<1>2. ASSUME NEW p \in DOMAIN payments, NEW net \in Amounts, NEW day \in Days,
             EditInterest(p, net, day)
      PROVE  TypeOK'
  <2> DEFINE i == payments[p].movement
             row == [ledger[i] EXCEPT !.amount = net, !.day = day]
             pay == [payments[p] EXCEPT !.net = net, !.day = day]
  <2>1. i \in DOMAIN ledger /\ payments[p] \in InterestPayment /\ ledger[i] \in CashMovement
    BY RowTypes DEF TypeOK
  <2>2. row \in CashMovement /\ pay \in InterestPayment
    BY <2>1, InputsType DEF CashMovement, InterestPayment
  <2>3. ledger' = [ledger EXCEPT ![i] = row] /\ payments' = [payments EXCEPT ![p] = pay]
    BY <1>2 DEF EditInterest, Refresh
  <2>4. DOMAIN current_balance' = Accounts
    BY <1>2 DEF EditInterest, Refresh, TypeOK
  <2>5. pay.deposit = payments[p].deposit /\ pay.movement = payments[p].movement
    BY <2>1 DEF InterestPayment
  <2> HIDE DEF i, row, pay
  <2>6. ledger' \in Seq(CashMovement) /\ DOMAIN ledger' = DOMAIN ledger
    BY <2>1, <2>2, <2>3, Rewritten DEF TypeOK
  <2>7. /\ payments' \in Seq(InterestPayment) /\ DOMAIN payments' = DOMAIN payments
        /\ \A q \in DOMAIN payments : payments'[q] = IF q = p THEN pay ELSE payments[q]
    BY <2>2, <2>3, Rewritten DEF TypeOK
  <2> QED BY <1>2, <2>4, <2>5, <2>6, <2>7 DEF EditInterest, TypeOK
<1>3. ASSUME NEW p \in DOMAIN payments, NEW day \in Days, ReverseInterest(p, day)
      PROVE  TypeOK'
  <2> DEFINE f == payments[p].deposit
             d == DepositMovement(f, deposits[f], "FD_INTEREST_REVERSAL", "DEBIT",
                                  payments[p].net, day, payments[p].movement)
             m == [d EXCEPT !.account = payments[p].account]
             pay == [payments[p] EXCEPT !.is_reversed = TRUE]
  <2>1. f \in DOMAIN deposits /\ payments[p] \in InterestPayment
    BY RowTypes DEF TypeOK
  <2>2. /\ deposits[f] \in FixedDeposit /\ f \in Nat
        /\ payments[p].net \in Nat \ {0} /\ payments[p].movement \in Nat
        /\ payments[p].account \in Accounts
    BY <2>1, RowTypes DEF InterestPayment
  <2>3. d \in CashMovement
    BY <2>2, DepositMovementType DEF MovementTypes, ReversalTypes, Directions
  <2>4. m \in CashMovement /\ pay \in InterestPayment
    BY <2>1, <2>2, <2>3 DEF CashMovement, InterestPayment
  <2>5. Post(m) /\ payments' = [payments EXCEPT ![p] = pay]
    BY <1>3 DEF ReverseInterest
  <2>6. pay.deposit = payments[p].deposit /\ pay.movement = payments[p].movement
    BY <2>1 DEF InterestPayment
  <2> HIDE DEF f, m, pay
  <2>7. /\ ledger' \in Seq(CashMovement) /\ DOMAIN current_balance' = Accounts
        /\ DOMAIN ledger \subseteq DOMAIN ledger'
    BY <2>4, <2>5, PostType, Inserted, RowTypes DEF TypeOK
  <2>8. /\ payments' \in Seq(InterestPayment) /\ DOMAIN payments' = DOMAIN payments
        /\ \A q \in DOMAIN payments : payments'[q] = IF q = p THEN pay ELSE payments[q]
    BY <2>4, <2>5, Rewritten DEF TypeOK
  <2> QED BY <1>3, <2>6, <2>7, <2>8 DEF ReverseInterest, TypeOK
<1> QED BY <1>1, <1>2, <1>3 DEF InterestStep

\* No request makes a table ill typed, starting from any database.
THEOREM TypeCorrect == Spec => []TypeOK
<1>1. TypeOK /\ [Next]_vars => TypeOK'
  <2> SUFFICES ASSUME TypeOK, [Next]_vars PROVE TypeOK'
    OBVIOUS
  <2>1. CASE UNCHANGED vars
    BY <2>1 DEF vars, TypeOK
  <2> QED BY <2>1, BankStepType, DepositStepType, InterestStepType DEF Next
<1> QED BY <1>1, InitType, PTL DEF Spec

-----------------------------------------------------------------------------
(* The cached balances.                                                    *)

\* Two ledgers hold the same rows for every account but one.
SameElsewhere(led1, led2, acct) ==
  \A b \in Accounts \ {acct} :
    /\ RowsOf(led2, b) = RowsOf(led1, b)
    /\ \A i \in RowsOf(led1, b) : SignedAmount(led2[i]) = SignedAmount(led1[i])

\* A payment is recorded on the account of its movement.
PaymentsFollowLedger ==
  \A p \in DOMAIN payments : payments[p].account = ledger[payments[p].movement].account

\* The inductive invariant: an interest edit refreshes the account of the
\* payment, which is the account whose rows it changed.
CacheInv == TypeOK /\ PaymentsFollowLedger /\ CacheIsLedgerSum

\* The balance of an account depends on its rows only.
LEMMA SameRowsSameBalance ==
  ASSUME NEW led1, NEW led2, NEW acct,
         RowsOf(led2, acct) = RowsOf(led1, acct),
         \A i \in RowsOf(led1, acct) : SignedAmount(led2[i]) = SignedAmount(led1[i])
  PROVE  Balance(led2, acct) = Balance(led1, acct)
<1>1. [i \in RowsOf(led1, acct) |-> SignedAmount(led2[i])]
        = [i \in RowsOf(led1, acct) |-> SignedAmount(led1[i])]
  OBVIOUS
<1> QED BY <1>1 DEF Balance, Total

\* Refreshing the one account whose rows changed keeps every cache right.
LEMMA RefreshKeepsCache ==
  ASSUME CacheInv, NEW acct \in Accounts, NEW led, Refresh(led, acct),
         SameElsewhere(ledger, led, acct)
  PROVE  CacheIsLedgerSum'
<1> SUFFICES ASSUME NEW b \in Accounts, HasLedger(ledger', b)
             PROVE  current_balance'[b] = Balance(ledger', b)
  BY DEF CacheIsLedgerSum
<1>1. ledger' = led /\ current_balance' = [current_balance EXCEPT ![acct] = Balance(led, acct)]
  BY DEF Refresh
<1>2. CASE b = acct
  BY <1>1, <1>2 DEF CacheInv, TypeOK
<1>3. CASE b # acct
  <2>1. RowsOf(led, b) = RowsOf(ledger, b)
    BY <1>3 DEF SameElsewhere
  <2>2. Balance(led, b) = Balance(ledger, b)
    BY <1>3, <2>1, SameRowsSameBalance DEF SameElsewhere
  <2>3. current_balance'[b] = current_balance[b]
    BY <1>1, <1>3 DEF CacheInv, TypeOK
  <2>4. HasLedger(ledger, b)
    BY <1>1, <2>1 DEF HasLedger
  <2> QED BY <1>1, <2>2, <2>3, <2>4 DEF CacheInv, CacheIsLedgerSum
<1> QED BY <1>2, <1>3

\* Inserting a row disturbs its own account only.
LEMMA InsertedElsewhere ==
  ASSUME NEW led \in Seq(CashMovement), NEW m \in CashMovement
  PROVE  SameElsewhere(led, Append(led, m), m.account)
  BY Inserted DEF SameElsewhere, RowsOf

\* Posting a row keeps the caches, and leaves the other rows as they were.
LEMMA PostKeepsCache ==
  ASSUME CacheInv, NEW m \in CashMovement, Post(m)
  PROVE  /\ CacheIsLedgerSum'
         /\ \A i \in DOMAIN ledger : i \in DOMAIN ledger' /\ ledger'[i] = ledger[i]
         /\ Len(ledger) + 1 \in DOMAIN ledger' /\ ledger'[Len(ledger) + 1] = m
<1>1. ledger \in Seq(CashMovement) /\ m.account \in Accounts
  BY DEF CacheInv, TypeOK, CashMovement
<1>2. Refresh(Append(ledger, m), m.account) /\ ledger' = Append(ledger, m)
  BY DEF Post, Refresh
<1>3. CacheIsLedgerSum'
  BY <1>1, <1>2, InsertedElsewhere, RefreshKeepsCache
<1> QED BY <1>1, <1>2, <1>3, Inserted

\* A settlement posts on one account; both legs leave the other rows alone.
LEMMA PayOutKeepsCache ==
  ASSUME CacheInv, NEW f \in DOMAIN deposits, NEW kind \in Kinds,
         NEW principal \in Nat, NEW net \in Nat, NEW day \in Days,
         PayOut(f, kind, principal, net, day)
  PROVE  /\ CacheIsLedgerSum'
         /\ \A i \in DOMAIN ledger : i \in DOMAIN ledger' /\ ledger'[i] = ledger[i]
<1> DEFINE m1 == PrincipalLeg(f, kind, principal, day)
           m2 == InterestLeg(f, kind, net, day)
           led == WithLeg(ledger, m1)
           acct == deposits[f].account
<1>0. TypeOK /\ ledger \in Seq(CashMovement)
  BY DEF CacheInv, TypeOK
<1>1. acct \in Accounts /\ deposits[f] \in FixedDeposit /\ f \in Nat
  BY <1>0, RowTypes DEF FixedDeposit
<1>2. m1.amount = principal /\ m2.amount = net /\ m1.account = acct /\ m2.account = acct
  BY DEF PrincipalLeg, InterestLeg, DepositMovement
<1>3. principal # 0 => m1 \in CashMovement
  BY <1>1, DepositMovementType
     DEF PrincipalLeg, PrincipalType, MovementTypes, SettlementLegTypes, Directions,
         NoMovement
<1>4. net # 0 => m2 \in CashMovement
  BY <1>1, DepositMovementType
     DEF InterestLeg, InterestType, MovementTypes, SettlementLegTypes, Directions,
         NoMovement
<1>5. \/ UNCHANGED <<ledger, current_balance>>
      \/ Refresh(WithLeg(led, m2), acct)
  BY <1>2 DEF PayOut
<1> HIDE DEF m1, m2, acct
<1>6. /\ led \in Seq(CashMovement) /\ SameElsewhere(ledger, led, acct)
      /\ \A i \in DOMAIN ledger : i \in DOMAIN led /\ led[i] = ledger[i]
  <2>1. CASE principal = 0
    BY <1>0, <1>2, <2>1 DEF WithLeg, SameElsewhere
  <2>2. CASE principal # 0
    BY <1>0, <1>2, <1>3, <2>2, Inserted, InsertedElsewhere DEF WithLeg
  <2> QED BY <2>1, <2>2
<1> HIDE DEF led
<1>7. /\ SameElsewhere(led, WithLeg(led, m2), acct)
      /\ \A i \in DOMAIN led : i \in DOMAIN WithLeg(led, m2) /\ WithLeg(led, m2)[i] = led[i]
  <2>1. CASE net = 0
    BY <1>6, <1>2, <2>1 DEF WithLeg, SameElsewhere
  <2>2. CASE net # 0
    BY <1>6, <1>2, <1>4, <2>2, Inserted, InsertedElsewhere DEF WithLeg
  <2> QED BY <2>1, <2>2
<1>8. SameElsewhere(ledger, WithLeg(led, m2), acct)
  BY <1>6, <1>7 DEF SameElsewhere
<1>9. CASE UNCHANGED <<ledger, current_balance>>
  BY <1>9 DEF CacheInv, CacheIsLedgerSum
<1>10. CASE Refresh(WithLeg(led, m2), acct)
  BY <1>1, <1>6, <1>7, <1>8, <1>10, RefreshKeepsCache DEF Refresh
<1> QED BY <1>5, <1>9, <1>10

\* Payments follow the ledger while their rows stay and they stay themselves.
LEMMA PaymentsStillFollow ==
  ASSUME CacheInv, UNCHANGED payments,
         \A i \in DOMAIN ledger : ledger'[i].account = ledger[i].account
  PROVE  PaymentsFollowLedger'
  BY DEF CacheInv, TypeOK, PaymentsFollowLedger

\* A step that changes neither the ledger nor the caches nor the payments.
LEMMA NothingPosted ==
  ASSUME CacheInv, UNCHANGED <<ledger, current_balance, payments>>
  PROVE  PaymentsFollowLedger' /\ CacheIsLedgerSum'
  BY DEF CacheInv, PaymentsFollowLedger, CacheIsLedgerSum

\* A step that posts one row and leaves the payments alone.
LEMMA OnePosted ==
  ASSUME CacheInv, UNCHANGED payments, NEW m \in CashMovement, Post(m)
  PROVE  PaymentsFollowLedger' /\ CacheIsLedgerSum'
  BY PostKeepsCache, PaymentsStillFollow

\* Requests on bank accounts and portfolios keep the cached balances.
LEMMA BankStepCache == CacheInv /\ BankStep => PaymentsFollowLedger' /\ CacheIsLedgerSum'
<1> SUFFICES ASSUME CacheInv, BankStep PROVE PaymentsFollowLedger' /\ CacheIsLedgerSum'
  OBVIOUS
<1>0. TypeOK
  BY DEF CacheInv
<1>1. ASSUME NEW acct \in Accounts, NEW dir \in Directions, NEW amt \in Amounts,
             NEW day \in Days, CreateManualMovement(acct, dir, amt, day)
      PROVE  PaymentsFollowLedger' /\ CacheIsLedgerSum'
  <2>1. AccountMovement(acct, "MANUAL", dir, amt, day, NoMovement) \in CashMovement
    BY AccountMovementType, InputsType
       DEF MovementTypes, ReversibleManualTypes, NoMovement
  <2> QED BY <1>1, <2>1, OnePosted DEF CreateManualMovement
<1>2. ASSUME NEW acct \in Accounts, NEW amt \in Amounts, NEW day \in Days,
             SeedOpeningBalance(acct, amt, day)
      PROVE  PaymentsFollowLedger' /\ CacheIsLedgerSum'
  <2>1. AccountMovement(acct, "OPENING_BALANCE", "CREDIT", amt, day, NoMovement)
          \in CashMovement
    BY AccountMovementType, InputsType
       DEF MovementTypes, ReversibleManualTypes, Directions, NoMovement
  <2> QED BY <1>2, <2>1, OnePosted DEF SeedOpeningBalance
<1>3. ASSUME NEW i \in DOMAIN ledger, NEW day \in Days, ReverseCashMovement(i, day)
      PROVE  PaymentsFollowLedger' /\ CacheIsLedgerSum'
  <2>1. ledger[i] \in CashMovement /\ i \in Nat
    BY <1>0, RowTypes
  <2>2. /\ ledger[i].account \in Accounts
        /\ ledger[i].amount \in Nat \ {0}
        /\ OppositeDirection(ledger[i].direction) \in Directions
    BY <2>1 DEF CashMovement, Directions, OppositeDirection
  <2>3. AccountMovement(ledger[i].account, "REVERSAL",
                        OppositeDirection(ledger[i].direction), ledger[i].amount, day, i)
          \in CashMovement
    BY <2>1, <2>2, AccountMovementType DEF MovementTypes, ReversalTypes
  <2> QED BY <1>3, <2>3, OnePosted DEF ReverseCashMovement
<1>4. ASSUME NEW acct \in Accounts, NEW balance \in ManualBalances,
             EnterBalance(acct, balance)
      PROVE  PaymentsFollowLedger' /\ CacheIsLedgerSum'
  <2>1. PaymentsFollowLedger'
    BY <1>4 DEF EnterBalance, CacheInv, PaymentsFollowLedger
  <2>2. ASSUME NEW b \in Accounts, HasLedger(ledger', b)
        PROVE  current_balance'[b] = Balance(ledger', b)
    BY <1>4, <2>2, <1>0 DEF EnterBalance, CacheInv, CacheIsLedgerSum, TypeOK
  <2> QED BY <2>1, <2>2 DEF CacheIsLedgerSum
<1>5. ASSUME NEW acct \in Accounts, DeactivateBankAccount(acct)
      PROVE  PaymentsFollowLedger' /\ CacheIsLedgerSum'
  BY <1>5, NothingPosted DEF DeactivateBankAccount
<1>6. ASSUME NEW pf \in Portfolios, NEW active \in BOOLEAN, SetPortfolioActive(pf, active)
      PROVE  PaymentsFollowLedger' /\ CacheIsLedgerSum'
  BY <1>6, NothingPosted DEF SetPortfolioActive
<1> QED BY <1>1, <1>2, <1>3, <1>4, <1>5, <1>6 DEF BankStep

\* Requests on deposits keep the cached balances.
LEMMA DepositStepCache ==
  CacheInv /\ DepositStep => PaymentsFollowLedger' /\ CacheIsLedgerSum'
<1> SUFFICES ASSUME CacheInv, DepositStep PROVE PaymentsFollowLedger' /\ CacheIsLedgerSum'
  OBVIOUS
<1>0. TypeOK
  BY DEF CacheInv
<1>1. ASSUME NEW acct \in Accounts, NEW pf \in Portfolios, NEW amt \in Amounts,
             NEW day \in Days, NEW status \in StatusInputs, NEW of \in RenewalTargets,
             CreateFixedDeposit(acct, pf, amt, day, status, of)
      PROVE  PaymentsFollowLedger' /\ CacheIsLedgerSum'
  <2> DEFINE f == Len(deposits) + 1
             fd == NewDeposit(acct, pf, amt, day, status, of)
             m == DepositMovement(f, fd, "FD_OPENING", "DEBIT", amt, day, NoMovement)
  <2>1. f \in Nat /\ fd \in FixedDeposit /\ amt \in Nat \ {0}
    BY <1>0, InputsType, NewDepositType, RowTypes
  <2>2. m \in CashMovement
    BY <2>1, DepositMovementType DEF MovementTypes, Directions, NoMovement
  <2>3. Post(m) /\ UNCHANGED payments
    BY <1>1 DEF CreateFixedDeposit
  <2> QED BY <2>2, <2>3, OnePosted
<1>2. ASSUME NEW f \in DOMAIN deposits, NEW acct \in Accounts, NEW pf \in Portfolios,
             NEW amt \in Amounts \cup {deposits[f].principal}, NEW day \in Days,
             NEW status \in StatusInputs \cup {deposits[f].status},
             NEW of \in RenewalTargets \cup {deposits[f].renewal_of},
             UpdateFixedDeposit(f, NewDeposit(acct, pf, amt, day, status, of))
      PROVE  PaymentsFollowLedger' /\ CacheIsLedgerSum'
  <2> DEFINE i == FirstOpening(ledger, f)
             fd == NewDeposit(acct, pf, amt, day, status, of)
  <2>1. CASE UNCHANGED ledger
    BY <1>2, <2>1, NothingPosted DEF UpdateFixedDeposit
  <2>2. CASE /\ HasUnreversedOpening(ledger, f)
             /\ ledger' = [ledger EXCEPT ![i].day = fd.day]
    <3>1. i \in DOMAIN ledger /\ ledger[i] \in CashMovement
      BY <1>0, <2>2, FirstOpeningIsOpening, RowTypes DEF HasUnreversedOpening, TypeOK
    <3>2. DOMAIN ledger' = DOMAIN ledger
      BY <2>2
    <3>3. \A j \in DOMAIN ledger :
            /\ ledger'[j].account = ledger[j].account
            /\ ledger'[j].direction = ledger[j].direction
            /\ ledger'[j].amount = ledger[j].amount
      BY <1>0, <2>2, <3>1, RowTypes DEF CashMovement
    <3>4. ASSUME NEW b \in Accounts, HasLedger(ledger', b)
          PROVE  current_balance'[b] = Balance(ledger', b)
      <4>1. RowsOf(ledger', b) = RowsOf(ledger, b)
        BY <3>2, <3>3 DEF RowsOf
      <4>2. \A j \in RowsOf(ledger, b) : SignedAmount(ledger'[j]) = SignedAmount(ledger[j])
        BY <3>3 DEF RowsOf, SignedAmount
      <4>3. Balance(ledger', b) = Balance(ledger, b)
        BY <4>1, <4>2, SameRowsSameBalance
      <4> QED BY <1>2, <3>4, <4>1, <4>3
              DEF UpdateFixedDeposit, CacheInv, CacheIsLedgerSum, HasLedger
    <3>5. PaymentsFollowLedger'
      BY <1>2, <3>3, PaymentsStillFollow DEF UpdateFixedDeposit
    <3> QED BY <3>4, <3>5 DEF CacheIsLedgerSum
  <2> QED BY <1>2, <2>1, <2>2 DEF UpdateFixedDeposit
<1>3. ASSUME NEW f \in DOMAIN deposits, DeactivateFixedDeposit(f) \/ MarkMatured(f)
      PROVE  PaymentsFollowLedger' /\ CacheIsLedgerSum'
  BY <1>3, NothingPosted DEF DeactivateFixedDeposit, MarkMatured
<1>4. ASSUME NEW f \in DOMAIN deposits, NEW kind \in Kinds,
             NEW principal \in {0} \cup Amounts, NEW net \in {0} \cup Amounts,
             NEW day \in Days, Settle(f, kind, principal, net, day)
      PROVE  PaymentsFollowLedger' /\ CacheIsLedgerSum'
  BY <1>4, InputsType, PayOutKeepsCache, PaymentsStillFollow DEF Settle
<1>5. ASSUME NEW f \in DOMAIN deposits, NEW payout \in {0} \cup Amounts,
             NEW net \in {0} \cup Amounts, NEW new \in Amounts, NEW day \in Days,
             NEW new_day \in Days, Renew(f, payout, net, new, day, new_day)
      PROVE  PaymentsFollowLedger' /\ CacheIsLedgerSum'
  BY <1>5, InputsType, PayOutKeepsCache, PaymentsStillFollow DEF Renew, Kinds
<1>6. ASSUME NEW f \in DOMAIN deposits, NEW day \in Days, RefundOpening(f, day)
      PROVE  PaymentsFollowLedger' /\ CacheIsLedgerSum'
  <2> DEFINE i == FirstOpening(ledger, f)
             m == DepositMovement(f, deposits[f], "FD_OPENING_REVERSAL", "CREDIT",
                                  ledger[i].amount, day, i)
  <2>1. i \in DOMAIN ledger
    BY <1>0, <1>6, FirstOpeningIsOpening DEF RefundOpening, HasUnreversedOpening, TypeOK
  <2>2. /\ ledger[i].amount \in Nat \ {0} /\ i \in Nat /\ f \in Nat
        /\ deposits[f] \in FixedDeposit
    BY <1>0, <2>1, RowTypes DEF CashMovement
  <2>3. m \in CashMovement
    BY <2>2, DepositMovementType DEF MovementTypes, ReversalTypes, Directions
  <2>4. Post(m) /\ UNCHANGED payments
    BY <1>6 DEF RefundOpening
  <2> QED BY <2>3, <2>4, OnePosted
<1> QED BY <1>1, <1>2, <1>3, <1>4, <1>5, <1>6
        DEF DepositStep, CancelFixedDeposit, RepairDeactivatedOpening

\* Requests on interest payments keep the cached balances.
LEMMA InterestStepCache ==
  CacheInv /\ InterestStep => PaymentsFollowLedger' /\ CacheIsLedgerSum'
<1> SUFFICES ASSUME CacheInv, InterestStep PROVE PaymentsFollowLedger' /\ CacheIsLedgerSum'
  OBVIOUS
<1>0. TypeOK
  BY DEF CacheInv
<1>1. ASSUME NEW f \in DOMAIN deposits, NEW net \in Amounts, NEW day \in Days,
             RecordInterest(f, net, day)
      PROVE  PaymentsFollowLedger' /\ CacheIsLedgerSum'
  <2> DEFINE m == DepositMovement(f, deposits[f], "FD_INTEREST", "CREDIT", net, day,
                                  NoMovement)
             pay == [deposit |-> f, account |-> deposits[f].account, net |-> net,
                     day |-> day, movement |-> Len(ledger) + 1, is_reversed |-> FALSE]
  <2>1. /\ f \in Nat \ {0} /\ net \in Nat \ {0}
        /\ deposits[f] \in FixedDeposit /\ deposits[f].account \in Accounts
    BY <1>0, InputsType, RowTypes DEF FixedDeposit
  <2>2. m \in CashMovement /\ m.account = deposits[f].account
    BY <2>1, DepositMovementType DEF MovementTypes, Directions, NoMovement, DepositMovement
  <2>3. Post(m) /\ payments' = Append(payments, pay)
    BY <1>1 DEF RecordInterest
  <2>4. pay \in InterestPayment
    BY <1>0, <2>1, RowTypes DEF InterestPayment
  <2>5. /\ CacheIsLedgerSum'
        /\ \A i \in DOMAIN ledger : i \in DOMAIN ledger' /\ ledger'[i] = ledger[i]
        /\ Len(ledger) + 1 \in DOMAIN ledger' /\ ledger'[Len(ledger) + 1] = m
    BY <2>2, <2>3, PostKeepsCache
  <2> HIDE DEF m
  <2>6. ASSUME NEW p \in DOMAIN payments'
        PROVE  payments'[p].account = ledger'[payments'[p].movement].account
    <3>1. CASE p \in DOMAIN payments
      <4>1. payments'[p] = payments[p]
        BY <1>0, <2>3, <2>4, <3>1, Inserted DEF TypeOK
      <4> QED BY <1>0, <2>5, <3>1, <4>1 DEF CacheInv, PaymentsFollowLedger, TypeOK
    <3>2. CASE p \notin DOMAIN payments
      <4>1. payments'[p] = pay
        BY <1>0, <2>3, <2>4, <3>2, Inserted DEF TypeOK
      <4> QED BY <2>2, <2>5, <4>1
    <3> QED BY <3>1, <3>2
  <2> QED BY <2>5, <2>6 DEF PaymentsFollowLedger
<1>2. ASSUME NEW p \in DOMAIN payments, NEW net \in Amounts, NEW day \in Days,
             EditInterest(p, net, day)
      PROVE  PaymentsFollowLedger' /\ CacheIsLedgerSum'
  <2> DEFINE i == payments[p].movement
             row == [ledger[i] EXCEPT !.amount = net, !.day = day]
             pay == [payments[p] EXCEPT !.net = net, !.day = day]
             led == [ledger EXCEPT ![i].amount = net, ![i].day = day]
  <2>1. /\ i \in DOMAIN ledger /\ payments[p] \in InterestPayment
        /\ ledger[i] \in CashMovement /\ payments[p].account \in Accounts
        /\ ledger[i].account = payments[p].account
    BY <1>0, RowTypes DEF TypeOK, InterestPayment, CacheInv, PaymentsFollowLedger
  <2>2. row \in CashMovement /\ pay \in InterestPayment
    BY <2>1, InputsType DEF CashMovement, InterestPayment
  <2>3. /\ Refresh(led, payments[p].account) /\ ledger' = led
        /\ led = [ledger EXCEPT ![i] = row]
        /\ payments' = [payments EXCEPT ![p] = pay]
    BY <1>2 DEF EditInterest, Refresh
  <2>4. /\ row.account = ledger[i].account
        /\ pay.account = payments[p].account /\ pay.movement = payments[p].movement
    BY <2>1 DEF InterestPayment, CashMovement
  <2> HIDE DEF row, pay, led, i
  <2>5. /\ DOMAIN led = DOMAIN ledger
        /\ \A j \in DOMAIN ledger : led[j] = IF j = i THEN row ELSE ledger[j]
    BY <1>0, <2>1, <2>2, <2>3, Rewritten DEF TypeOK
  <2>6. SameElsewhere(ledger, led, payments[p].account)
    BY <2>1, <2>4, <2>5 DEF SameElsewhere, RowsOf
  <2>7. CacheIsLedgerSum'
    BY <2>1, <2>3, <2>6, RefreshKeepsCache
  <2>8. /\ DOMAIN payments' = DOMAIN payments
        /\ \A q \in DOMAIN payments : payments'[q] = IF q = p THEN pay ELSE payments[q]
    BY <1>0, <2>2, <2>3, Rewritten DEF TypeOK
  <2>9. \A j \in DOMAIN ledger : ledger'[j].account = ledger[j].account
    BY <2>3, <2>4, <2>5
  <2>10. ASSUME NEW q \in DOMAIN payments'
         PROVE  payments'[q].account = ledger'[payments'[q].movement].account
    <3>1. /\ q \in DOMAIN payments
          /\ payments'[q].account = payments[q].account
          /\ payments'[q].movement = payments[q].movement
      BY <2>4, <2>8
    <3>2. payments[q].movement \in DOMAIN ledger
      BY <1>0, <3>1 DEF TypeOK
    <3> QED BY <3>1, <3>2, <2>9 DEF CacheInv, PaymentsFollowLedger
  <2> QED BY <2>7, <2>10 DEF PaymentsFollowLedger
<1>3. ASSUME NEW p \in DOMAIN payments, NEW day \in Days, ReverseInterest(p, day)
      PROVE  PaymentsFollowLedger' /\ CacheIsLedgerSum'
  <2> DEFINE f == payments[p].deposit
             d == DepositMovement(f, deposits[f], "FD_INTEREST_REVERSAL", "DEBIT",
                                  payments[p].net, day, payments[p].movement)
             m == [d EXCEPT !.account = payments[p].account]
             pay == [payments[p] EXCEPT !.is_reversed = TRUE]
  <2>1. f \in DOMAIN deposits /\ payments[p] \in InterestPayment
    BY <1>0, RowTypes DEF TypeOK
  <2>2. /\ deposits[f] \in FixedDeposit /\ f \in Nat
        /\ payments[p].net \in Nat \ {0} /\ payments[p].movement \in Nat
        /\ payments[p].account \in Accounts
    BY <1>0, <2>1, RowTypes DEF InterestPayment
  <2>3. d \in CashMovement
    BY <2>2, DepositMovementType DEF MovementTypes, ReversalTypes, Directions
  <2>4. m \in CashMovement /\ pay \in InterestPayment
    BY <2>1, <2>2, <2>3 DEF CashMovement, InterestPayment
  <2>5. Post(m) /\ payments' = [payments EXCEPT ![p] = pay]
    BY <1>3 DEF ReverseInterest
  <2>6. pay.account = payments[p].account /\ pay.movement = payments[p].movement
    BY <2>1 DEF InterestPayment
  <2> HIDE DEF f, m, pay
  <2>7. /\ CacheIsLedgerSum'
        /\ \A i \in DOMAIN ledger : i \in DOMAIN ledger' /\ ledger'[i] = ledger[i]
    BY <2>4, <2>5, PostKeepsCache
  <2>8. /\ DOMAIN payments' = DOMAIN payments
        /\ \A q \in DOMAIN payments : payments'[q] = IF q = p THEN pay ELSE payments[q]
    BY <1>0, <2>4, <2>5, Rewritten DEF TypeOK
  <2>9. ASSUME NEW q \in DOMAIN payments'
         PROVE  payments'[q].account = ledger'[payments'[q].movement].account
    <3>1. /\ q \in DOMAIN payments
          /\ payments'[q].account = payments[q].account
          /\ payments'[q].movement = payments[q].movement
      BY <2>6, <2>8
    <3>2. payments[q].movement \in DOMAIN ledger
      BY <1>0, <3>1 DEF TypeOK
    <3> QED BY <3>1, <3>2, <2>7 DEF CacheInv, PaymentsFollowLedger
  <2> QED BY <2>7, <2>9 DEF PaymentsFollowLedger
<1> QED BY <1>1, <1>2, <1>3 DEF InterestStep

\* The cached balance of an account with a ledger is always the sum of its rows.
THEOREM CacheCorrect == Spec => []CacheIsLedgerSum
<1>1. Init => CacheInv
  <2>1. Init => PaymentsFollowLedger
    BY DEF Init, PaymentsFollowLedger
  <2>2. Init => CacheIsLedgerSum
    BY DEF Init, CacheIsLedgerSum
  <2> QED BY <2>1, <2>2, InitType DEF CacheInv
<1>2. CacheInv /\ [Next]_vars => CacheInv'
  <2> SUFFICES ASSUME CacheInv, [Next]_vars PROVE CacheInv'
    OBVIOUS
  <2>1. TypeOK'
    <3>1. TypeOK
      BY DEF CacheInv
    <3>2. CASE UNCHANGED vars
      BY <3>1, <3>2 DEF vars, TypeOK
    <3> QED BY <3>1, <3>2, BankStepType, DepositStepType, InterestStepType DEF Next
  <2>2. PaymentsFollowLedger' /\ CacheIsLedgerSum'
    <3>1. CASE UNCHANGED vars
      BY <3>1, NothingPosted DEF vars
    <3> QED BY <3>1, BankStepCache, DepositStepCache, InterestStepCache DEF Next
  <2> QED BY <2>1, <2>2 DEF CacheInv
<1>3. CacheInv => CacheIsLedgerSum
  BY DEF CacheInv
<1> QED BY <1>1, <1>2, <1>3, PTL DEF Spec
=============================================================================
