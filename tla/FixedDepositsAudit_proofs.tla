---------------------- MODULE FixedDepositsAudit_proofs ----------------------
(***************************************************************************)
(* FixedDeposits implements AuditLedger, for every value of the constants. *)
(* The invariant that carries the proof says what a row of each type looks *)
(* like, that a deposit has one opening at most, and that openings and     *)
(* interest rows agree with the deposit and the payment their reversals    *)
(* are built from. From it follows what becomes of a deposit: one taken    *)
(* out of the books stays out, a refund is final, a settlement owns the    *)
(* legs it paid, and reversed rows cancel out of every balance.            *)
(***************************************************************************)
EXTENDS FixedDeposits_proofs, FoldLemmas

\* What the type of a row says of its other columns.
Coherent(m) ==
  /\ m.reverses # NoMovement => m.type \in ReversalTypes
  /\ m.type \in ReversibleManualTypes => m.deposit = NoDeposit
  /\ m.type = "FD_OPENING" => m.direction = "DEBIT"
  /\ m.type = "FD_INTEREST" => m.direction = "CREDIT"

RowsCoherent ==
  \A i \in DOMAIN ledger :
    Coherent(ledger[i]) /\ ledger[i].reverses \in DOMAIN ledger \cup {NoMovement}

\* Every opening is the only one of an existing deposit.
OneOpening ==
  \A i \in DOMAIN ledger : ledger[i].type = "FD_OPENING" =>
    /\ ledger[i].deposit \in DOMAIN deposits
    /\ \A j \in OpeningsOf(ledger, ledger[i].deposit) : j = i

\* The inductive invariant.
AuditInv ==
  TypeOK /\ RowsCoherent /\ OneOpening /\ OpeningMirrorsDeposit /\ PaymentMirrorsMovement

\* What every step is shown to do, besides keeping the types.
Kept ==
  /\ RowsCoherent' /\ OneOpening' /\ OpeningMirrorsDeposit' /\ PaymentMirrorsMovement'
  /\ Audit!Next \/ UNCHANGED ledger

-----------------------------------------------------------------------------
(* Steps that add rows.                                                    *)

Added == DOMAIN ledger' \ DOMAIN ledger

LedgerGrows ==
  /\ DOMAIN ledger \subseteq DOMAIN ledger'
  /\ \A i \in DOMAIN ledger : ledger'[i] = ledger[i] /\ \A j \in Added : i < j

\* The deposits keep what their openings mirror.
SameTerms ==
  \A f \in DOMAIN deposits :
    /\ f \in DOMAIN deposits'
    /\ deposits'[f].account = deposits[f].account
    /\ deposits'[f].portfolio = deposits[f].portfolio
    /\ deposits'[f].principal = deposits[f].principal
    /\ deposits'[f].day = deposits[f].day

\* Posting one row adds it behind the others.
LEMMA PostGrows ==
  ASSUME TypeOK, NEW m \in CashMovement, Post(m)
  PROVE  LedgerGrows /\ Added = {Len(ledger) + 1} /\ ledger'[Len(ledger) + 1] = m
<1>1. ledger' = Append(ledger, m)
  BY PostType
<1>2. /\ Len(ledger) \in Nat
      /\ DOMAIN ledger = 1 .. Len(ledger) /\ DOMAIN ledger' = 1 .. Len(ledger) + 1
      /\ \A i \in 1 .. Len(ledger) : ledger'[i] = ledger[i]
      /\ ledger'[Len(ledger) + 1] = m
  BY <1>1, Inserted DEF TypeOK
<1>3. Added = {Len(ledger) + 1}
  BY <1>2 DEF Added
<1> QED BY <1>2, <1>3 DEF LedgerGrows

\* The legs of a settlement reverse nothing.
LEMMA PayOutGrows ==
  ASSUME TypeOK, NEW f \in DOMAIN deposits, NEW kind \in Kinds,
         NEW principal \in Nat, NEW net \in Nat, NEW day \in Days,
         PayOut(f, kind, principal, net, day)
  PROVE  /\ LedgerGrows
         /\ \A j \in Added : /\ ledger'[j].type \in SettlementLegTypes
                             /\ ledger'[j].reverses = NoMovement
<1> DEFINE m1 == PrincipalLeg(f, kind, principal, day)
           m2 == InterestLeg(f, kind, net, day)
           led == WithLeg(ledger, m1)
           Leg(m) == m.type \in SettlementLegTypes /\ m.reverses = NoMovement
<1>1. deposits[f] \in FixedDeposit /\ f \in Nat
  BY RowTypes
<1>2. m1.amount = principal /\ m2.amount = net /\ Leg(m1) /\ Leg(m2)
  BY DEF PrincipalLeg, InterestLeg, DepositMovement, PrincipalType, InterestType,
         SettlementLegTypes
<1>3. principal # 0 => m1 \in CashMovement
  BY <1>1, DepositMovementType
     DEF PrincipalLeg, PrincipalType, MovementTypes, SettlementLegTypes, Directions,
         NoMovement
<1>4. net # 0 => m2 \in CashMovement
  BY <1>1, DepositMovementType
     DEF InterestLeg, InterestType, MovementTypes, SettlementLegTypes, Directions,
         NoMovement
<1>5. ledger' = ledger \/ ledger' = WithLeg(led, m2)
  BY DEF PayOut, Refresh
<1> HIDE DEF m1, m2, Leg
<1>6. /\ led \in Seq(CashMovement) /\ Len(ledger) \in Nat /\ Len(led) \in Nat
      /\ DOMAIN ledger = 1 .. Len(ledger) /\ DOMAIN led = 1 .. Len(led)
      /\ Len(ledger) <= Len(led)
      /\ \A i \in DOMAIN led : IF i \in DOMAIN ledger THEN led[i] = ledger[i] ELSE Leg(led[i])
  <2>1. CASE principal = 0
    BY <1>2, <2>1, RowTypes DEF WithLeg, TypeOK
  <2>2. CASE principal # 0
    <3>1. led = Append(ledger, m1)
      BY <1>2, <2>2 DEF WithLeg
    <3>2. /\ led \in Seq(CashMovement) /\ Len(ledger) \in Nat
          /\ DOMAIN ledger = 1 .. Len(ledger) /\ DOMAIN led = 1 .. Len(ledger) + 1
          /\ \A i \in 1 .. Len(ledger) : led[i] = ledger[i]
          /\ led[Len(ledger) + 1] = m1
      BY <1>3, <2>2, <3>1, Inserted DEF TypeOK
    <3>3. Len(led) = Len(ledger) + 1
      BY <3>1, <3>2, <1>3, <2>2, AppendProperties DEF TypeOK
    <3> QED BY <1>2, <3>2, <3>3
  <2> QED BY <2>1, <2>2
<1> HIDE DEF led
<1>7. CASE ledger' = ledger
  BY <1>7 DEF LedgerGrows, Added
<1>8. CASE ledger' = WithLeg(led, m2)
  <2>1. /\ DOMAIN ledger' \in {1 .. Len(led), 1 .. Len(led) + 1}
        /\ \A i \in DOMAIN ledger' : IF i \in DOMAIN led THEN ledger'[i] = led[i]
                                                         ELSE Leg(ledger'[i])
    <3>1. CASE net = 0
      BY <1>2, <1>6, <1>8, <3>1 DEF WithLeg
    <3>2. CASE net # 0
      <4>1. ledger' = Append(led, m2)
        BY <1>2, <1>8, <3>2 DEF WithLeg
      <4>2. /\ DOMAIN led = 1 .. Len(led) /\ DOMAIN ledger' = 1 .. Len(led) + 1
            /\ \A i \in 1 .. Len(led) : ledger'[i] = led[i]
            /\ ledger'[Len(led) + 1] = m2
        BY <1>4, <1>6, <3>2, <4>1, Inserted
      <4> QED BY <1>2, <1>6, <4>2
    <3> QED BY <3>1, <3>2
  <2>2. /\ DOMAIN ledger \subseteq DOMAIN led /\ DOMAIN led \subseteq DOMAIN ledger'
        /\ \A i \in DOMAIN ledger, j \in DOMAIN ledger' \ DOMAIN ledger : i < j
    BY <1>6, <2>1
  <2>3. \A i \in DOMAIN ledger' : IF i \in DOMAIN ledger THEN ledger'[i] = ledger[i]
                                                         ELSE Leg(ledger'[i])
    BY <1>6, <2>1, <2>2
  <2> QED BY <2>2, <2>3 DEF LedgerGrows, Added, Leg
<1> QED BY <1>5, <1>7, <1>8

\* Rows that are no openings leave the openings and their deposits in agreement.
LEMMA OpeningsStay ==
  ASSUME AuditInv, LedgerGrows, SameTerms,
         \A j \in Added : /\ Coherent(ledger'[j]) /\ ledger'[j].type # "FD_OPENING"
                          /\ ledger'[j].reverses \in DOMAIN ledger \cup {NoMovement}
  PROVE  RowsCoherent' /\ OneOpening' /\ OpeningMirrorsDeposit'
<1>1. ASSUME NEW i \in DOMAIN ledger', ledger'[i].type = "FD_OPENING"
      PROVE  i \in DOMAIN ledger /\ ledger'[i] = ledger[i]
  BY <1>1 DEF LedgerGrows, Added
<1>2. RowsCoherent'
  BY DEF RowsCoherent, AuditInv, LedgerGrows, Added
<1>3. OneOpening'
  BY <1>1 DEF OneOpening, OpeningsOf, AuditInv, SameTerms
<1>4. ASSUME NEW i \in DOMAIN ledger', ledger'[i].type = "FD_OPENING",
             ~IsReversed(ledger', i)
      PROVE  LET f == ledger'[i].deposit IN
             /\ f \in DOMAIN deposits'
             /\ ledger'[i].account = deposits'[f].account
             /\ ledger'[i].portfolio = deposits'[f].portfolio
             /\ ledger'[i].amount = deposits'[f].principal
             /\ ledger'[i].day = deposits'[f].day
  <2>1. i \in DOMAIN ledger /\ ledger'[i] = ledger[i]
    BY <1>1, <1>4
  <2>2. ~IsReversed(ledger, i)
    BY <1>4, <2>1 DEF IsReversed, LedgerGrows
  <2> QED BY <1>4, <2>1, <2>2 DEF AuditInv, OpeningMirrorsDeposit, SameTerms
<1> QED BY <1>2, <1>3, <1>4 DEF OpeningMirrorsDeposit

\* Rows that reverse no interest leave the payments and their rows in agreement.
LEMMA PaymentsStay ==
  ASSUME AuditInv, LedgerGrows, UNCHANGED payments,
         \A j \in Added : \A p \in DOMAIN payments :
           ledger'[j].reverses # payments[p].movement
  PROVE  PaymentMirrorsMovement'
<1>1. ASSUME NEW p \in DOMAIN payments
      PROVE  LET i == payments[p].movement IN
             /\ i \in DOMAIN ledger /\ i \in DOMAIN ledger' /\ ledger'[i] = ledger[i]
             /\ IsReversed(ledger', i) <=> IsReversed(ledger, i)
  BY DEF AuditInv, TypeOK, LedgerGrows, Added, IsReversed
<1> QED BY <1>1 DEF AuditInv, PaymentMirrorsMovement

\* What the abstract specification asks of a step that adds rows.
LEMMA AddedIsInsert ==
  ASSUME LedgerGrows,
         \A j \in Added : ledger'[j].reverses # NoMovement =>
           LET r == ledger'[j].reverses IN
           /\ r \in DOMAIN ledger /\ ~IsReversal(ledger, r) /\ ~IsReversed(ledger, r)
           /\ Audit!Mirrors(ledger'[j], ledger[r])
           /\ \A k \in Added : ledger'[k].reverses = r => k = j
  PROVE  Audit!Next
  BY DEF Audit!Next, Audit!Insert, Audit!NewRows, Audit!Stands, Audit!IsReversal,
         Audit!IsReversed, IsReversal, IsReversed, Audit!NoMovement, NoMovement,
         LedgerGrows, Added

\* A step that posts one row which is no opening.
LEMMA OnePostedKept ==
  ASSUME AuditInv, NEW m \in CashMovement, Post(m), Coherent(m), m.type # "FD_OPENING",
         m.reverses # NoMovement =>
           /\ m.reverses \in DOMAIN ledger
           /\ ~IsReversal(ledger, m.reverses)
           /\ Audit!Mirrors(m, ledger[m.reverses]),
         SameTerms
  PROVE  /\ RowsCoherent' /\ OneOpening' /\ OpeningMirrorsDeposit' /\ Audit!Next
         /\ LedgerGrows
         /\ \A j \in Added : ledger'[j] = m
<1>1. LedgerGrows /\ Added = {Len(ledger) + 1} /\ ledger'[Len(ledger) + 1] = m
  BY PostGrows DEF AuditInv
<1>2. RowsCoherent' /\ OneOpening' /\ OpeningMirrorsDeposit'
  BY <1>1, OpeningsStay
<1>3. m.reverses # NoMovement => ~IsReversed(ledger, m.reverses)
  BY DEF Post, Admissible
<1>4. Audit!Next
  BY <1>1, <1>3, AddedIsInsert
<1> QED BY <1>1, <1>2, <1>4

\* A step that posts one row that takes back no interest.
LEMMA OtherPostedKept ==
  ASSUME AuditInv, NEW m \in CashMovement, Post(m), Coherent(m), m.type # "FD_OPENING",
         m.reverses # NoMovement =>
           /\ m.reverses \in DOMAIN ledger
           /\ ~IsReversal(ledger, m.reverses)
           /\ Audit!Mirrors(m, ledger[m.reverses])
           /\ ledger[m.reverses].type # "FD_INTEREST",
         SameTerms, UNCHANGED payments
  PROVE  Kept
<1>1. /\ RowsCoherent' /\ OneOpening' /\ OpeningMirrorsDeposit' /\ Audit!Next
      /\ LedgerGrows
      /\ \A j \in Added : ledger'[j] = m
  BY OnePostedKept
<1>2. \A p \in DOMAIN payments : m.reverses # payments[p].movement
  BY RowTypes DEF AuditInv, PaymentMirrorsMovement, NoMovement
<1>3. PaymentMirrorsMovement'
  BY <1>1, <1>2, PaymentsStay
<1> QED BY <1>1, <1>3 DEF Kept

\* A step that leaves ledger and payments alone.
LEMMA NothingPostedKept ==
  ASSUME AuditInv, UNCHANGED <<ledger, payments>>, SameTerms
  PROVE  Kept
<1>1. LedgerGrows /\ Added = {}
  BY DEF LedgerGrows, Added
<1> QED BY <1>1, OpeningsStay, PaymentsStay DEF Kept

\* A settlement or a renewal.
LEMMA PaidOutKept ==
  ASSUME AuditInv, NEW f \in DOMAIN deposits, NEW kind \in Kinds,
         NEW principal \in Nat, NEW net \in Nat, NEW day \in Days,
         PayOut(f, kind, principal, net, day), SameTerms, UNCHANGED payments
  PROVE  Kept
<1>1. /\ LedgerGrows
      /\ \A j \in Added : /\ ledger'[j].type \in SettlementLegTypes
                          /\ ledger'[j].reverses = NoMovement
  BY PayOutGrows DEF AuditInv
<1>2. \A j \in Added : Coherent(ledger'[j]) /\ ledger'[j].type # "FD_OPENING"
  BY <1>1 DEF Coherent, SettlementLegTypes, ReversibleManualTypes
<1>3. \A p \in DOMAIN payments : payments[p].movement # NoMovement
  BY RowTypes DEF AuditInv, InterestPayment, NoMovement
<1>4. PaymentMirrorsMovement'
  BY <1>1, <1>3, PaymentsStay
<1> QED BY <1>1, <1>2, <1>4, OpeningsStay, AddedIsInsert DEF Kept

\* Changing the status or the presence of a deposit keeps its terms.
TermsKeptBy(table) ==
  /\ table \in Seq(FixedDeposit)
  /\ DOMAIN table = DOMAIN deposits
  /\ \A g \in DOMAIN deposits :
       /\ table[g].account = deposits[g].account
       /\ table[g].portfolio = deposits[g].portfolio
       /\ table[g].principal = deposits[g].principal
       /\ table[g].day = deposits[g].day

\* A new status, or a deposit switched off, keeps the terms of every deposit.
LEMMA StatusKeepsTerms ==
  ASSUME TypeOK, NEW f \in DOMAIN deposits, NEW status \in Statuses
  PROVE  /\ TermsKeptBy([deposits EXCEPT ![f].status = status])
         /\ TermsKeptBy([deposits EXCEPT ![f].is_active = FALSE])
         /\ TermsKeptBy([deposits EXCEPT ![f].status = status, ![f].is_active = FALSE])
<1> DEFINE a == [deposits[f] EXCEPT !.status = status]
           b == [deposits[f] EXCEPT !.is_active = FALSE]
           c == [deposits[f] EXCEPT !.status = status, !.is_active = FALSE]
           Same(row) == /\ row \in FixedDeposit
                        /\ row.account = deposits[f].account
                        /\ row.portfolio = deposits[f].portfolio
                        /\ row.principal = deposits[f].principal
                        /\ row.day = deposits[f].day
<1>1. deposits[f] \in FixedDeposit
  BY RowTypes
<1>2. Same(a) /\ Same(b) /\ Same(c)
  BY <1>1 DEF FixedDeposit
<1>3. [deposits EXCEPT ![f].status = status] = [deposits EXCEPT ![f] = a]
  OBVIOUS
<1>4. [deposits EXCEPT ![f].is_active = FALSE] = [deposits EXCEPT ![f] = b]
  OBVIOUS
<1>5. [deposits EXCEPT ![f].status = status, ![f].is_active = FALSE]
        = [deposits EXCEPT ![f] = c]
  OBVIOUS
<1> HIDE DEF a, b, c
<1>6. ASSUME NEW row, Same(row) PROVE TermsKeptBy([deposits EXCEPT ![f] = row])
  BY <1>6, Rewritten DEF TypeOK, TermsKeptBy
<1> HIDE DEF Same
<1> QED BY <1>2, <1>3, <1>4, <1>5, <1>6

\* Such a table of deposits keeps the account, portfolio, principal and day of each.
LEMMA TermsKept == ASSUME TermsKeptBy(deposits') PROVE SameTerms
  BY DEF TermsKeptBy, SameTerms

-----------------------------------------------------------------------------
(* The requests.                                                           *)

\* Requests on bank accounts and portfolios.
LEMMA BankStepKept == AuditInv /\ BankStep => Kept
<1> SUFFICES ASSUME AuditInv, BankStep PROVE Kept
  OBVIOUS
<1>0. TypeOK
  BY DEF AuditInv
<1>1. ASSUME NEW acct \in Accounts, NEW dir \in Directions, NEW amt \in Amounts,
             NEW day \in Days, CreateManualMovement(acct, dir, amt, day)
      PROVE  Kept
  <2> DEFINE m == AccountMovement(acct, "MANUAL", dir, amt, day, NoMovement)
  <2>1. m \in CashMovement
    BY AccountMovementType, InputsType
       DEF MovementTypes, ReversibleManualTypes, NoMovement
  <2>2. Coherent(m) /\ m.type # "FD_OPENING" /\ m.reverses = NoMovement
    BY DEF Coherent, AccountMovement
  <2>3. Post(m) /\ SameTerms /\ UNCHANGED payments
    BY <1>1 DEF CreateManualMovement, SameTerms
  <2> HIDE DEF m
  <2> QED BY <2>1, <2>2, <2>3, OtherPostedKept
<1>2. ASSUME NEW acct \in Accounts, NEW amt \in Amounts, NEW day \in Days,
             SeedOpeningBalance(acct, amt, day)
      PROVE  Kept
  <2> DEFINE m == AccountMovement(acct, "OPENING_BALANCE", "CREDIT", amt, day, NoMovement)
  <2>1. m \in CashMovement
    BY AccountMovementType, InputsType
       DEF MovementTypes, ReversibleManualTypes, Directions, NoMovement
  <2>2. Coherent(m) /\ m.type # "FD_OPENING" /\ m.reverses = NoMovement
    BY DEF Coherent, AccountMovement
  <2>3. Post(m) /\ SameTerms /\ UNCHANGED payments
    BY <1>2 DEF SeedOpeningBalance, SameTerms
  <2> HIDE DEF m
  <2> QED BY <2>1, <2>2, <2>3, OtherPostedKept
<1>3. ASSUME NEW i \in DOMAIN ledger, NEW day \in Days, ReverseCashMovement(i, day)
      PROVE  Kept
  <2> DEFINE m == AccountMovement(ledger[i].account, "REVERSAL",
                                  OppositeDirection(ledger[i].direction),
                                  ledger[i].amount, day, i)
  <2>1. ledger[i] \in CashMovement /\ i \in Nat
    BY <1>0, RowTypes
  <2>2. /\ ledger[i].account \in Accounts
        /\ ledger[i].amount \in Nat \ {0}
        /\ OppositeDirection(ledger[i].direction) \in Directions
    BY <2>1 DEF CashMovement, Directions, OppositeDirection
  <2>3. m \in CashMovement
    BY <2>1, <2>2, AccountMovementType DEF MovementTypes, ReversalTypes
  <2>4. /\ Coherent(m) /\ m.type # "FD_OPENING" /\ m.reverses = i
        /\ ledger[i].type # "FD_INTEREST" /\ ~IsReversal(ledger, i)
    BY <1>3 DEF Coherent, AccountMovement, ReversalTypes, ReversibleManualTypes,
                ReverseCashMovement
  <2>5. Audit!Mirrors(m, ledger[i])
    <3>1. ledger[i].deposit = NoDeposit /\ ledger[i].type \in ReversibleManualTypes
      BY <1>3 DEF AuditInv, RowsCoherent, Coherent, ReverseCashMovement
    <3> QED BY <3>1 DEF Audit!Mirrors, Audit!ReversalFits, Audit!OppositeDirection,
                        Audit!ReversibleManualTypes, ReversibleManualTypes,
                        OppositeDirection, AccountMovement
  <2>6. Post(m) /\ SameTerms /\ UNCHANGED payments
    BY <1>3 DEF ReverseCashMovement, SameTerms
  <2> HIDE DEF m
  <2> QED BY <2>3, <2>4, <2>5, <2>6, OtherPostedKept
<1>4. ASSUME NEW acct \in Accounts, NEW balance \in ManualBalances,
             EnterBalance(acct, balance)
      PROVE  Kept
  BY <1>4, NothingPostedKept DEF EnterBalance, SameTerms
<1>5. ASSUME NEW acct \in Accounts, DeactivateBankAccount(acct)
      PROVE  Kept
  BY <1>5, NothingPostedKept DEF DeactivateBankAccount, SameTerms
<1>6. ASSUME NEW pf \in Portfolios, NEW active \in BOOLEAN, SetPortfolioActive(pf, active)
      PROVE  Kept
  BY <1>6, NothingPostedKept DEF SetPortfolioActive, SameTerms
<1> QED BY <1>1, <1>2, <1>3, <1>4, <1>5, <1>6 DEF BankStep

\* Crediting an opening back.
LEMMA RefundKept ==
  ASSUME AuditInv, NEW f \in DOMAIN deposits, NEW day \in Days, RefundOpening(f, day)
  PROVE  Kept
<1> DEFINE i == FirstOpening(ledger, f)
           m == DepositMovement(f, deposits[f], "FD_OPENING_REVERSAL", "CREDIT",
                                ledger[i].amount, day, i)
<1>0. TypeOK
  BY DEF AuditInv
<1>1. i \in DOMAIN ledger /\ i \in OpeningsOf(ledger, f) /\ ~IsReversed(ledger, i)
  BY <1>0, FirstOpeningIsOpening DEF RefundOpening, HasUnreversedOpening, TypeOK
<1>2. ledger[i].amount \in Nat \ {0} /\ i \in Nat /\ f \in Nat /\ deposits[f] \in FixedDeposit
  BY <1>0, <1>1, RowTypes DEF CashMovement
<1>3. m \in CashMovement
  BY <1>2, DepositMovementType DEF MovementTypes, ReversalTypes, Directions
<1>4. Post(m) /\ UNCHANGED payments
  BY DEF RefundOpening
<1>5. SameTerms
  <2>1. "CANCELLED" \in Statuses
    BY DEF Statuses
  <2>2. deposits' = [deposits EXCEPT ![f].status = "CANCELLED", ![f].is_active = FALSE]
    BY DEF RefundOpening
  <2> QED BY <1>0, <2>1, <2>2, StatusKeepsTerms, TermsKept
<1>6. ledger[i].type = "FD_OPENING" /\ ledger[i].deposit = f
  BY <1>1 DEF OpeningsOf
<1>7. /\ ledger[i].reverses = NoMovement
      /\ ledger[i].direction = "DEBIT"
      /\ ledger[i].account = deposits[f].account
  BY <1>1, <1>6 DEF AuditInv, RowsCoherent, Coherent, ReversalTypes, OpeningMirrorsDeposit
<1>8. Audit!Mirrors(m, ledger[i])
  BY <1>6, <1>7 DEF Audit!Mirrors, Audit!ReversalFits, Audit!OppositeDirection,
                    DepositMovement
<1>9. Coherent(m) /\ m.type # "FD_OPENING" /\ m.reverses = i
  BY DEF Coherent, DepositMovement, ReversalTypes, ReversibleManualTypes
<1>10. ~IsReversal(ledger, i)
  BY <1>7 DEF IsReversal
<1> HIDE DEF m, i
<1> QED BY <1>1, <1>3, <1>4, <1>5, <1>6, <1>8, <1>9, <1>10, OtherPostedKept

\* Requests on deposits: created, settled, renewed, cancelled, repaired.
LEMMA DepositStepKept == AuditInv /\ DepositStep => Kept
<1> SUFFICES ASSUME AuditInv, DepositStep PROVE Kept
  OBVIOUS
<1>0. TypeOK
  BY DEF AuditInv
<1>1. ASSUME NEW acct \in Accounts, NEW pf \in Portfolios, NEW amt \in Amounts,
             NEW day \in Days, NEW status \in StatusInputs, NEW of \in RenewalTargets,
             CreateFixedDeposit(acct, pf, amt, day, status, of)
      PROVE  Kept
  <2> DEFINE f == Len(deposits) + 1
             fd == NewDeposit(acct, pf, amt, day, status, of)
             m == DepositMovement(f, fd, "FD_OPENING", "DEBIT", amt, day, NoMovement)
             n == Len(ledger) + 1
  <2>1. f \in Nat /\ fd \in FixedDeposit /\ amt \in Nat \ {0}
    BY <1>0, InputsType, NewDepositType, RowTypes
  <2>2. m \in CashMovement
    BY <2>1, DepositMovementType DEF MovementTypes, Directions, NoMovement
  <2>3. Post(m) /\ deposits' = Append(deposits, fd) /\ UNCHANGED payments
    BY <1>1 DEF CreateFixedDeposit
  <2>4. /\ m.type = "FD_OPENING" /\ m.direction = "DEBIT" /\ m.reverses = NoMovement
        /\ m.deposit = f /\ m.account = fd.account /\ m.portfolio = fd.portfolio
        /\ m.amount = fd.principal /\ m.day = fd.day
    BY DEF DepositMovement, NewDeposit
  <2> HIDE DEF m, fd
  <2>5. LedgerGrows /\ Added = {n} /\ ledger'[n] = m
    BY <1>0, <2>2, <2>3, PostGrows
  <2>6. /\ DOMAIN deposits' = DOMAIN deposits \cup {f} /\ f \notin DOMAIN deposits
        /\ \A g \in DOMAIN deposits : deposits'[g] = deposits[g]
        /\ deposits'[f] = fd
    BY <1>0, <2>1, <2>3, Inserted, RowTypes DEF TypeOK
  <2>7. RowsCoherent'
    <3>1. Coherent(m)
      BY <2>4 DEF Coherent, ReversibleManualTypes
    <3> QED BY <2>4, <2>5, <3>1 DEF RowsCoherent, AuditInv, LedgerGrows, Added
  <2>8. ASSUME NEW i \in DOMAIN ledger, ledger[i].type = "FD_OPENING"
        PROVE  /\ ledger[i].deposit \in DOMAIN deposits
               /\ \A j \in OpeningsOf(ledger', ledger[i].deposit) : j = i
    <3>1. ledger[i].deposit \in DOMAIN deposits /\ ledger[i].deposit # f
      BY <2>6, <2>8 DEF AuditInv, OneOpening
    <3>2. \A j \in OpeningsOf(ledger', ledger[i].deposit) :
            j \in OpeningsOf(ledger, ledger[i].deposit)
      BY <2>4, <2>5, <3>1 DEF OpeningsOf, LedgerGrows, Added
    <3> QED BY <2>8, <3>1, <3>2 DEF AuditInv, OneOpening
  <2>9. \A j \in OpeningsOf(ledger', f) : j = n
    BY <2>5, <2>6 DEF AuditInv, OneOpening, OpeningsOf, LedgerGrows, Added
  <2>10. OneOpening'
    <3>1. ASSUME NEW i \in DOMAIN ledger', ledger'[i].type = "FD_OPENING"
          PROVE  /\ ledger'[i].deposit \in DOMAIN deposits'
                 /\ \A j \in OpeningsOf(ledger', ledger'[i].deposit) : j = i
      <4>1. CASE i \in DOMAIN ledger
        BY <2>5, <2>6, <2>8, <3>1, <4>1 DEF LedgerGrows
      <4>2. CASE i = n
        BY <2>4, <2>5, <2>6, <2>9, <4>2
      <4> QED BY <2>5, <3>1, <4>1, <4>2 DEF Added
    <3> QED BY <3>1 DEF OneOpening
  <2>11. OpeningMirrorsDeposit'
    <3>1. ASSUME NEW i \in DOMAIN ledger', ledger'[i].type = "FD_OPENING",
                 ~IsReversed(ledger', i)
          PROVE  LET g == ledger'[i].deposit IN
                 /\ g \in DOMAIN deposits'
                 /\ ledger'[i].account = deposits'[g].account
                 /\ ledger'[i].portfolio = deposits'[g].portfolio
                 /\ ledger'[i].amount = deposits'[g].principal
                 /\ ledger'[i].day = deposits'[g].day
      <4>1. CASE i \in DOMAIN ledger
        <5>1. ledger'[i] = ledger[i] /\ ~IsReversed(ledger, i)
          BY <2>5, <3>1, <4>1 DEF LedgerGrows, IsReversed
        <5> QED BY <2>6, <2>8, <3>1, <4>1, <5>1 DEF AuditInv, OpeningMirrorsDeposit
      <4>2. CASE i = n
        BY <2>4, <2>5, <2>6, <4>2
      <4> QED BY <2>5, <3>1, <4>1, <4>2 DEF Added
    <3> QED BY <3>1 DEF OpeningMirrorsDeposit
  <2>12. PaymentMirrorsMovement'
    <3>1. \A p \in DOMAIN payments : payments[p].movement # NoMovement
      BY <1>0, RowTypes DEF InterestPayment, NoMovement
    <3> QED BY <2>3, <2>4, <2>5, <3>1, PaymentsStay
  <2>13. Audit!Next
    BY <2>4, <2>5, AddedIsInsert
  <2> QED BY <2>7, <2>10, <2>11, <2>12, <2>13 DEF Kept
<1>2. ASSUME NEW f \in DOMAIN deposits, NEW acct \in Accounts, NEW pf \in Portfolios,
             NEW amt \in Amounts \cup {deposits[f].principal}, NEW day \in Days,
             NEW status \in StatusInputs \cup {deposits[f].status},
             NEW of \in RenewalTargets \cup {deposits[f].renewal_of},
             UpdateFixedDeposit(f, NewDeposit(acct, pf, amt, day, status, of))
      PROVE  Kept
  <2> DEFINE fd == NewDeposit(acct, pf, amt, day, status, of)
             o == FirstOpening(ledger, f)
             row == [ledger[o] EXCEPT !.day = fd.day]
  <2>1. fd \in FixedDeposit
    <3>1. amt \in Nat \ {0} /\ status \in Statuses /\ of \in Nat
      BY <1>0, InputsType, RowTypes DEF FixedDeposit
    <3> QED BY <3>1, NewDepositType
  <2>2. UNCHANGED payments /\ deposits' = [deposits EXCEPT ![f] = fd]
    BY <1>2 DEF UpdateFixedDeposit
  <2>3. HasUnreversedOpening(ledger, f) =>
          /\ fd.account = deposits[f].account
          /\ fd.portfolio = deposits[f].portfolio
          /\ fd.principal = deposits[f].principal
    BY <1>2 DEF UpdateFixedDeposit
  <2>4. ledger' = IF HasUnreversedOpening(ledger, f) /\ fd.day # deposits[f].day
                  THEN [ledger EXCEPT ![o] = row] ELSE ledger
    BY <1>2 DEF UpdateFixedDeposit
  <2> HIDE DEF fd
  <2>5. /\ DOMAIN deposits' = DOMAIN deposits
        /\ \A g \in DOMAIN deposits : deposits'[g] = IF g = f THEN fd ELSE deposits[g]
    BY <1>0, <2>1, <2>2, Rewritten DEF TypeOK
  <2>6. ASSUME NEW i \in DOMAIN ledger, ledger[i].type = "FD_OPENING",
               ledger[i].deposit = f, ~IsReversed(ledger, i)
        PROVE  HasUnreversedOpening(ledger, f) /\ o = i
    <3>1. i \in OpeningsOf(ledger, f)
      BY <2>6 DEF OpeningsOf
    <3>2. o \in OpeningsOf(ledger, f)
      BY <1>0, <3>1, FirstOpeningIsOpening DEF TypeOK
    <3> HIDE DEF o
    <3>3. o = i
      BY <2>6, <3>2 DEF AuditInv, OneOpening
    <3> QED BY <2>6, <3>1, <3>3 DEF HasUnreversedOpening, o
  <2>7. CASE ~(HasUnreversedOpening(ledger, f) /\ fd.day # deposits[f].day)
    <3>1. UNCHANGED ledger
      BY <2>4, <2>7
    <3>2. LedgerGrows /\ Added = {}
      BY <3>1 DEF LedgerGrows, Added
    <3>3. RowsCoherent' /\ OneOpening'
      BY <2>5, <3>1 DEF AuditInv, RowsCoherent, OneOpening, OpeningsOf
    <3>4. OpeningMirrorsDeposit'
      BY <2>3, <2>5, <2>6, <2>7, <3>1 DEF AuditInv, OpeningMirrorsDeposit, IsReversed
    <3> QED BY <2>2, <3>1, <3>2, <3>3, <3>4, PaymentsStay DEF Kept
  <2>8. CASE HasUnreversedOpening(ledger, f) /\ fd.day # deposits[f].day
    <3>1. /\ o \in DOMAIN ledger /\ o \in OpeningsOf(ledger, f)
          /\ ~IsReversed(ledger, o)
      BY <1>0, <2>8, FirstOpeningIsOpening DEF HasUnreversedOpening, TypeOK
    <3>2. /\ ledger[o].type = "FD_OPENING" /\ ledger[o].deposit = f
          /\ ledger[o].reverses = NoMovement
          /\ ledger[o] \in CashMovement
      BY <1>0, <3>1, RowTypes DEF OpeningsOf, AuditInv, RowsCoherent, Coherent, ReversalTypes
    <3>3. /\ row \in CashMovement /\ row.day = fd.day
          /\ row.type = ledger[o].type /\ row.direction = ledger[o].direction
          /\ row.account = ledger[o].account /\ row.portfolio = ledger[o].portfolio
          /\ row.deposit = ledger[o].deposit /\ row.reverses = ledger[o].reverses
          /\ row.amount = ledger[o].amount
      BY <2>1, <3>2 DEF CashMovement, FixedDeposit
    <3> HIDE DEF o, row
    <3>4. /\ DOMAIN ledger' = DOMAIN ledger
          /\ \A i \in DOMAIN ledger : ledger'[i] = IF i = o THEN row ELSE ledger[i]
      BY <1>0, <2>4, <2>8, <3>1, <3>3, Rewritten DEF TypeOK
    <3>5. \A i : IsReversed(ledger', i) <=> IsReversed(ledger, i)
      BY <3>3, <3>4 DEF IsReversed
    <3>6. RowsCoherent'
      BY <3>3, <3>4 DEF AuditInv, RowsCoherent, Coherent
    <3>7. OneOpening'
      <4>1. \A g : OpeningsOf(ledger', g) = OpeningsOf(ledger, g)
        BY <3>3, <3>4 DEF OpeningsOf
      <4> QED BY <2>5, <3>3, <3>4, <4>1 DEF AuditInv, OneOpening
    <3>8. OpeningMirrorsDeposit'
      BY <2>3, <2>5, <2>6, <2>8, <3>2, <3>3, <3>4, <3>5 DEF AuditInv, OpeningMirrorsDeposit
    <3>9. PaymentMirrorsMovement'
      <4>1. \A p \in DOMAIN payments : payments[p].movement # o
        BY <3>2 DEF AuditInv, PaymentMirrorsMovement
      <4> QED BY <2>2, <3>4, <3>5, <4>1 DEF AuditInv, PaymentMirrorsMovement
    <3>10. Audit!Correct
      BY <3>1, <3>2, <3>3, <3>4
         DEF Audit!Correct, Audit!Stands, Audit!SameMovement, Audit!IsReversal,
             Audit!IsReversed, IsReversed, Audit!NoMovement, NoMovement
    <3> QED BY <3>6, <3>7, <3>8, <3>9, <3>10 DEF Kept, Audit!Next
  <2> QED BY <2>7, <2>8
<1>3. ASSUME NEW f \in DOMAIN deposits, DeactivateFixedDeposit(f) \/ MarkMatured(f)
      PROVE  Kept
  <2>1. SameTerms
    <3>1. "MATURED" \in Statuses
      BY DEF Statuses
    <3>2. \/ deposits' = [deposits EXCEPT ![f].is_active = FALSE]
          \/ deposits' = [deposits EXCEPT ![f].status = "MATURED"]
      BY <1>3 DEF DeactivateFixedDeposit, MarkMatured
    <3> QED BY <1>0, <3>1, <3>2, StatusKeepsTerms, TermsKept
  <2> QED BY <1>3, <2>1, NothingPostedKept DEF DeactivateFixedDeposit, MarkMatured
<1>4. ASSUME NEW f \in DOMAIN deposits, NEW kind \in Kinds,
             NEW principal \in {0} \cup Amounts, NEW net \in {0} \cup Amounts,
             NEW day \in Days, Settle(f, kind, principal, net, day)
      PROVE  Kept
  <2>1. principal \in Nat /\ net \in Nat
    BY InputsType
  <2>2. SameTerms
    <3> DEFINE status == IF kind = "MATURITY" THEN "MATURED_SETTLED" ELSE "CLOSED"
    <3>1. status \in Statuses
      BY DEF Statuses
    <3>2. deposits' = [deposits EXCEPT ![f].status = status]
      BY <1>4 DEF Settle
    <3> HIDE DEF status
    <3> QED BY <1>0, <3>1, <3>2, StatusKeepsTerms, TermsKept
  <2> QED BY <1>4, <2>1, <2>2, PaidOutKept DEF Settle
<1>5. ASSUME NEW f \in DOMAIN deposits, NEW payout \in {0} \cup Amounts,
             NEW net \in {0} \cup Amounts, NEW new \in Amounts, NEW day \in Days,
             NEW new_day \in Days, Renew(f, payout, net, new, day, new_day)
      PROVE  Kept
  <2> DEFINE fd == NewDeposit(deposits[f].account, deposits[f].portfolio, new, new_day,
                              "ACTIVE", f)
             table == [deposits EXCEPT ![f].status = "MATURED_SETTLED"]
  <2>1. payout \in Nat /\ net \in Nat /\ new \in Nat \ {0}
    BY InputsType
  <2>2. fd \in FixedDeposit
    <3>1. /\ deposits[f].account \in Accounts /\ deposits[f].portfolio \in Portfolios
          /\ f \in Nat
      BY <1>0, RowTypes DEF FixedDeposit
    <3> QED BY <2>1, <3>1, NewDepositType DEF Statuses
  <2>3. TermsKeptBy(table)
    BY <1>0, StatusKeepsTerms DEF Statuses
  <2>4. deposits' = Append(table, fd)
    BY <1>5 DEF Renew
  <2> HIDE DEF fd, table
  <2>5. SameTerms
    BY <2>2, <2>3, <2>4, Inserted DEF SameTerms, TermsKeptBy
  <2> QED BY <1>5, <2>1, <2>5, PaidOutKept DEF Renew, Kinds
<1>6. ASSUME NEW f \in DOMAIN deposits, NEW day \in Days,
             CancelFixedDeposit(f, day) \/ RepairDeactivatedOpening(f, day)
      PROVE  Kept
  BY <1>6, RefundKept DEF CancelFixedDeposit, RepairDeactivatedOpening
<1> QED BY <1>1, <1>2, <1>3, <1>4, <1>5, <1>6 DEF DepositStep

\* Requests on interest payments.
LEMMA InterestStepKept == AuditInv /\ InterestStep => Kept
<1> SUFFICES ASSUME AuditInv, InterestStep PROVE Kept
  OBVIOUS
<1>0. TypeOK
  BY DEF AuditInv
<1>1. ASSUME NEW f \in DOMAIN deposits, NEW net \in Amounts, NEW day \in Days,
             RecordInterest(f, net, day)
      PROVE  Kept
  <2> DEFINE m == DepositMovement(f, deposits[f], "FD_INTEREST", "CREDIT", net, day,
                                  NoMovement)
             pay == [deposit |-> f, account |-> deposits[f].account, net |-> net,
                     day |-> day, movement |-> Len(ledger) + 1, is_reversed |-> FALSE]
             n == Len(ledger) + 1
  <2>1. /\ f \in Nat \ {0} /\ net \in Nat \ {0}
        /\ deposits[f] \in FixedDeposit /\ deposits[f].account \in Accounts
    BY <1>0, InputsType, RowTypes DEF FixedDeposit
  <2>2. m \in CashMovement
    BY <2>1, DepositMovementType DEF MovementTypes, Directions, NoMovement
  <2>3. Post(m) /\ payments' = Append(payments, pay) /\ SameTerms
    BY <1>1 DEF RecordInterest, SameTerms
  <2>4. /\ Coherent(m) /\ m.reverses = NoMovement
        /\ m.type = "FD_INTEREST" /\ m.deposit = f /\ m.account = deposits[f].account
        /\ m.amount = net /\ m.day = day
    BY DEF Coherent, DepositMovement, ReversibleManualTypes
  <2>5. /\ pay \in InterestPayment
        /\ pay.deposit = f /\ pay.account = deposits[f].account
        /\ pay.net = net /\ pay.day = day /\ pay.movement = n /\ pay.is_reversed = FALSE
    BY <1>0, <2>1, RowTypes DEF InterestPayment
  <2> HIDE DEF m, pay
  <2>6. /\ RowsCoherent' /\ OneOpening' /\ OpeningMirrorsDeposit' /\ Audit!Next
        /\ LedgerGrows
        /\ Added = {n} /\ ledger'[n] = m
    BY <1>0, <2>2, <2>3, <2>4, OnePostedKept, PostGrows
  <2>7. /\ n \notin DOMAIN ledger /\ n \in DOMAIN ledger'
        /\ DOMAIN ledger' = DOMAIN ledger \cup {n}
        /\ \A i \in DOMAIN ledger : ledger'[i] = ledger[i]
        /\ NoMovement \notin DOMAIN ledger'
    <3>1. n \notin DOMAIN ledger /\ NoMovement \notin DOMAIN ledger \cup {n}
      BY <1>0, RowTypes DEF NoMovement
    <3>2. DOMAIN ledger' = DOMAIN ledger \cup {n}
      BY <2>6 DEF LedgerGrows, Added
    <3>3. \A i \in DOMAIN ledger : ledger'[i] = ledger[i]
      BY <2>6 DEF LedgerGrows
    <3> QED BY <3>1, <3>2, <3>3
  <2>8. /\ DOMAIN payments' = 1 .. Len(payments) + 1 /\ DOMAIN payments = 1 .. Len(payments)
        /\ Len(payments) \in Nat
        /\ \A q \in DOMAIN payments : payments'[q] = payments[q]
        /\ payments'[Len(payments) + 1] = pay
    BY <1>0, <2>3, <2>5, Inserted DEF TypeOK
  <2>9. \A i \in DOMAIN ledger : IsReversed(ledger', i) <=> IsReversed(ledger, i)
    BY <2>4, <2>6, <2>7 DEF IsReversed
  <2>10. ~IsReversed(ledger', n)
    <3>1. \A j \in DOMAIN ledger : ledger[j].reverses # n
      BY <1>0, <2>7, RowTypes DEF AuditInv, RowsCoherent, NoMovement
    <3>2. n # NoMovement
      BY <1>0, RowTypes DEF NoMovement
    <3> QED BY <2>4, <2>6, <2>7, <3>1, <3>2 DEF IsReversed
  <2>11. PaymentMirrorsMovement'
    <3>1. ASSUME NEW p \in DOMAIN payments'
          PROVE  LET i == payments'[p].movement IN
                 /\ i \in DOMAIN ledger'
                 /\ ledger'[i].type = "FD_INTEREST"
                 /\ ledger'[i].deposit = payments'[p].deposit
                 /\ ledger'[i].account = payments'[p].account
                 /\ ledger'[i].amount = payments'[p].net
                 /\ ledger'[i].day = payments'[p].day
                 /\ payments'[p].is_reversed <=> IsReversed(ledger', i)
      <4>1. CASE p \in DOMAIN payments
        BY <2>7, <2>8, <2>9, <4>1 DEF AuditInv, PaymentMirrorsMovement
      <4>2. CASE p = Len(payments) + 1
        BY <2>4, <2>5, <2>6, <2>7, <2>8, <2>10, <4>2
      <4> QED BY <2>8, <3>1, <4>1, <4>2
    <3>2. ASSUME NEW p \in DOMAIN payments', NEW q \in DOMAIN payments',
                 payments'[q].movement = payments'[p].movement
          PROVE  q = p
      <4>1. \A r \in DOMAIN payments : /\ payments'[r].movement # n
                                       /\ payments'[r].movement = payments[r].movement
        BY <2>7, <2>8 DEF AuditInv, PaymentMirrorsMovement
      <4>2. payments'[Len(payments) + 1].movement = n
        BY <2>5, <2>8
      <4>3. CASE p \in DOMAIN payments /\ q \in DOMAIN payments
        BY <3>2, <4>1, <4>3 DEF AuditInv, PaymentMirrorsMovement
      <4>4. CASE ~(p \in DOMAIN payments /\ q \in DOMAIN payments)
        BY <2>8, <3>2, <4>1, <4>2, <4>4
      <4> QED BY <4>3, <4>4
    <3> QED BY <3>1, <3>2 DEF PaymentMirrorsMovement
  <2> QED BY <2>6, <2>11 DEF Kept
<1>2. ASSUME NEW p \in DOMAIN payments, NEW net \in Amounts, NEW day \in Days,
             EditInterest(p, net, day)
      PROVE  Kept
  <2> DEFINE i == payments[p].movement
             row == [ledger[i] EXCEPT !.amount = net, !.day = day]
             pay == [payments[p] EXCEPT !.net = net, !.day = day]
  <2>1. /\ i \in DOMAIN ledger /\ payments[p] \in InterestPayment
        /\ ledger[i] \in CashMovement
        /\ ledger[i].type = "FD_INTEREST" /\ ledger[i].reverses = NoMovement
        /\ ~IsReversed(ledger, i)
    BY <1>0, <1>2, RowTypes
       DEF AuditInv, PaymentMirrorsMovement, RowsCoherent, Coherent, ReversalTypes,
           EditInterest
  <2>2. ledger' = [ledger EXCEPT ![i] = row] /\ payments' = [payments EXCEPT ![p] = pay]
    BY <1>2 DEF EditInterest, Refresh
  <2>3. UNCHANGED deposits
    BY <1>2 DEF EditInterest
  <2>4. /\ row \in CashMovement /\ row.amount = net /\ row.day = day
        /\ row.type = ledger[i].type /\ row.direction = ledger[i].direction
        /\ row.account = ledger[i].account /\ row.portfolio = ledger[i].portfolio
        /\ row.deposit = ledger[i].deposit /\ row.reverses = ledger[i].reverses
    BY <2>1, InputsType DEF CashMovement
  <2>5. /\ pay \in InterestPayment /\ pay.net = net /\ pay.day = day
        /\ pay.deposit = payments[p].deposit /\ pay.account = payments[p].account
        /\ pay.movement = i /\ pay.is_reversed = payments[p].is_reversed
    BY <2>1, InputsType DEF InterestPayment
  <2> HIDE DEF row, pay
  <2>6. /\ DOMAIN ledger' = DOMAIN ledger
        /\ \A j \in DOMAIN ledger : ledger'[j] = IF j = i THEN row ELSE ledger[j]
    BY <1>0, <2>1, <2>2, <2>4, Rewritten DEF TypeOK
  <2>7. /\ DOMAIN payments' = DOMAIN payments
        /\ \A q \in DOMAIN payments : payments'[q] = IF q = p THEN pay ELSE payments[q]
    BY <1>0, <2>2, <2>5, Rewritten DEF TypeOK
  <2>8. \A j : IsReversed(ledger', j) <=> IsReversed(ledger, j)
    BY <2>4, <2>6 DEF IsReversed
  <2>9. RowsCoherent'
    BY <2>4, <2>6 DEF AuditInv, RowsCoherent, Coherent
  <2>10. OneOpening' /\ OpeningMirrorsDeposit'
    <3>1. \A f : OpeningsOf(ledger', f) = OpeningsOf(ledger, f)
      BY <2>4, <2>6 DEF OpeningsOf
    <3>2. \A j \in DOMAIN ledger : ledger[j].type = "FD_OPENING" => ledger'[j] = ledger[j]
      BY <2>1, <2>6
    <3>3. \A j \in DOMAIN ledger : ledger'[j].type = ledger[j].type
      BY <2>4, <2>6
    <3>4. OneOpening'
      BY <2>3, <2>6, <3>1, <3>2, <3>3 DEF AuditInv, OneOpening
    <3>5. OpeningMirrorsDeposit'
      BY <2>3, <2>6, <2>8, <3>2, <3>3 DEF AuditInv, OpeningMirrorsDeposit
    <3> QED BY <3>4, <3>5
  <2>11. PaymentMirrorsMovement'
    <3>1. \A q \in DOMAIN payments : payments'[q].movement = payments[q].movement
      BY <2>5, <2>7
    <3>2. \A q \in DOMAIN payments : q # p => payments[q].movement # i
      BY DEF AuditInv, PaymentMirrorsMovement
    <3>3. ASSUME NEW q \in DOMAIN payments
          PROVE  LET j == payments[q].movement IN
                 /\ j \in DOMAIN ledger
                 /\ ledger'[j].type = "FD_INTEREST"
                 /\ ledger'[j].deposit = payments'[q].deposit
                 /\ ledger'[j].account = payments'[q].account
                 /\ ledger'[j].amount = payments'[q].net
                 /\ ledger'[j].day = payments'[q].day
                 /\ payments'[q].is_reversed <=> IsReversed(ledger', j)
                 /\ \A r \in DOMAIN payments : payments[r].movement = j => r = q
      <4>1. CASE q = p
        BY <2>4, <2>5, <2>6, <2>7, <2>8, <4>1 DEF AuditInv, PaymentMirrorsMovement
      <4>2. CASE q # p
        BY <2>6, <2>7, <2>8, <3>2, <4>2 DEF AuditInv, PaymentMirrorsMovement
      <4> QED BY <4>1, <4>2
    <3> QED BY <2>6, <2>7, <3>1, <3>3 DEF PaymentMirrorsMovement
  <2>12. Audit!Correct
    BY <2>1, <2>4, <2>6
       DEF Audit!Correct, Audit!Stands, Audit!SameMovement, Audit!IsReversal,
           Audit!IsReversed, IsReversed, Audit!NoMovement, NoMovement
  <2> QED BY <2>9, <2>10, <2>11, <2>12 DEF Kept, Audit!Next
<1>3. ASSUME NEW p \in DOMAIN payments, NEW day \in Days, ReverseInterest(p, day)
      PROVE  Kept
  <2> DEFINE f == payments[p].deposit
             i == payments[p].movement
             d == DepositMovement(f, deposits[f], "FD_INTEREST_REVERSAL", "DEBIT",
                                  payments[p].net, day, i)
             m == [d EXCEPT !.account = payments[p].account]
             pay == [payments[p] EXCEPT !.is_reversed = TRUE]
             n == Len(ledger) + 1
  <2>1. f \in DOMAIN deposits /\ payments[p] \in InterestPayment
    BY <1>0, RowTypes DEF TypeOK
  <2>2. /\ deposits[f] \in FixedDeposit /\ f \in Nat
        /\ payments[p].net \in Nat \ {0} /\ i \in Nat \ {0}
        /\ payments[p].account \in Accounts
    BY <1>0, <2>1, RowTypes DEF InterestPayment
  <2>3. d \in CashMovement
    BY <2>2, DepositMovementType DEF MovementTypes, ReversalTypes, Directions
  <2>4. /\ i \in DOMAIN ledger /\ ledger[i].type = "FD_INTEREST"
        /\ ledger[i].deposit = f /\ ledger[i].account = payments[p].account
        /\ ledger[i].amount = payments[p].net /\ ledger[i].direction = "CREDIT"
        /\ ~IsReversal(ledger, i)
    BY <1>3 DEF AuditInv, PaymentMirrorsMovement, RowsCoherent, Coherent, ReverseInterest
  <2>5. /\ m.type = "FD_INTEREST_REVERSAL" /\ m.direction = "DEBIT" /\ m.deposit = f
        /\ m.amount = payments[p].net /\ m.reverses = i
        /\ m.account = payments[p].account
    BY DEF DepositMovement
  <2>6. m \in CashMovement
    BY <2>2, <2>3 DEF CashMovement
  <2>7. /\ pay \in InterestPayment /\ pay.is_reversed = TRUE /\ pay.movement = i
        /\ pay.deposit = f /\ pay.account = payments[p].account
        /\ pay.net = payments[p].net /\ pay.day = payments[p].day
    BY <2>1 DEF InterestPayment
  <2>8. Post(m) /\ payments' = [payments EXCEPT ![p] = pay] /\ SameTerms
    BY <1>3 DEF ReverseInterest, SameTerms
  <2> HIDE DEF m, pay
  <2>9. Coherent(m) /\ m.type # "FD_OPENING"
    BY <2>5 DEF Coherent, ReversibleManualTypes, ReversalTypes
  <2>10. Audit!Mirrors(m, ledger[i])
    BY <2>4, <2>5 DEF Audit!Mirrors, Audit!ReversalFits, Audit!OppositeDirection
  <2>11. /\ RowsCoherent' /\ OneOpening' /\ OpeningMirrorsDeposit' /\ Audit!Next
         /\ LedgerGrows /\ Added = {n} /\ ledger'[n] = m
    BY <1>0, <2>4, <2>5, <2>6, <2>8, <2>9, <2>10, OnePostedKept, PostGrows
  <2>12. /\ DOMAIN payments' = DOMAIN payments
         /\ \A q \in DOMAIN payments : payments'[q] = IF q = p THEN pay ELSE payments[q]
    BY <1>0, <2>7, <2>8, Rewritten DEF TypeOK
  <2>13. \A j \in DOMAIN ledger : IsReversed(ledger', j) <=> j = i \/ IsReversed(ledger, j)
    BY <2>5, <2>11 DEF IsReversed, LedgerGrows, Added
  <2>14. PaymentMirrorsMovement'
    <3>1. \A q \in DOMAIN payments : payments'[q].movement = payments[q].movement
      BY <2>7, <2>12
    <3>2. ASSUME NEW q \in DOMAIN payments
          PROVE  LET j == payments[q].movement IN
                 /\ j \in DOMAIN ledger' /\ ledger'[j].type = "FD_INTEREST"
                 /\ ledger'[j].deposit = payments'[q].deposit
                 /\ ledger'[j].account = payments'[q].account
                 /\ ledger'[j].amount = payments'[q].net
                 /\ ledger'[j].day = payments'[q].day
                 /\ payments'[q].is_reversed <=> IsReversed(ledger', j)
                 /\ \A r \in DOMAIN payments : payments[r].movement = j => r = q
      <4>1. CASE q = p
        BY <2>7, <2>11, <2>12, <2>13, <4>1
           DEF AuditInv, PaymentMirrorsMovement, LedgerGrows
      <4>2. CASE q # p
        BY <2>11, <2>12, <2>13, <4>2 DEF AuditInv, PaymentMirrorsMovement, LedgerGrows
      <4> QED BY <4>1, <4>2
    <3> QED BY <2>12, <3>1, <3>2 DEF PaymentMirrorsMovement
  <2> QED BY <2>11, <2>14 DEF Kept
<1> QED BY <1>1, <1>2, <1>3 DEF InterestStep

-----------------------------------------------------------------------------
(* The theorems.                                                           *)

\* The invariant, and the abstract initial states, at the start.
LEMMA AuditInit == Init => AuditInv /\ Audit!Init
<1> SUFFICES ASSUME Init PROVE AuditInv /\ Audit!Init
  OBVIOUS
<1>1. PICK acct \in Accounts, pf \in Portfolios, amt \in Amounts :
        \/ ledger = <<>>
        \/ LET fd == LegacyDeposit(acct, pf, amt, FALSE) IN
           /\ deposits = <<fd>>
           /\ ledger = <<AccountMovement(acct, "MANUAL", "CREDIT", amt, 1, NoMovement),
                         DepositMovement(1, fd, "FD_OPENING", "DEBIT", amt, 1, NoMovement)>>
  BY DEF Init
<1>2. PaymentMirrorsMovement
  BY DEF Init, PaymentMirrorsMovement
<1>3. CASE ledger = <<>>
  BY <1>2, <1>3, InitType
     DEF AuditInv, RowsCoherent, OneOpening, OpeningMirrorsDeposit, Audit!Init
<1>4. CASE ledger # <<>>
  <2> DEFINE fd == LegacyDeposit(acct, pf, amt, FALSE)
             a == AccountMovement(acct, "MANUAL", "CREDIT", amt, 1, NoMovement)
             b == DepositMovement(1, fd, "FD_OPENING", "DEBIT", amt, 1, NoMovement)
  <2>1. deposits = <<fd>> /\ ledger = <<a, b>>
    BY <1>1, <1>4
  <2>2. a.type = "MANUAL" /\ a.reverses = NoMovement /\ a.deposit = NoDeposit
    BY DEF AccountMovement
  <2>3. fd.principal = amt /\ fd.day = 1
    BY DEF LegacyDeposit, NewDeposit
  <2>4. /\ b.type = "FD_OPENING" /\ b.reverses = NoMovement /\ b.direction = "DEBIT"
        /\ b.deposit = 1 /\ b.account = fd.account /\ b.portfolio = fd.portfolio
        /\ b.amount = fd.principal /\ b.day = fd.day
    BY <2>3 DEF DepositMovement
  <2> HIDE DEF a, b, fd
  <2>5. /\ DOMAIN ledger = {1, 2} /\ ledger[1] = a /\ ledger[2] = b
        /\ DOMAIN deposits = {1} /\ deposits[1] = fd
    BY <2>1
  <2>6. RowsCoherent
    BY <2>2, <2>4, <2>5 DEF RowsCoherent, Coherent, ReversibleManualTypes
  <2>7. OneOpening
    BY <2>2, <2>4, <2>5 DEF OneOpening, OpeningsOf
  <2>8. OpeningMirrorsDeposit
    BY <2>2, <2>4, <2>5 DEF OpeningMirrorsDeposit
  <2>9. Audit!Init
    BY <2>2, <2>4, <2>5 DEF Audit!Init, Audit!IsReversal, Audit!NoMovement, NoMovement
  <2> QED BY <1>2, <2>6, <2>7, <2>8, <2>9, InitType DEF AuditInv
<1> QED BY <1>3, <1>4

\* Every step keeps the invariant and is a step of AuditLedger or leaves the ledger alone.
LEMMA AuditStep == AuditInv /\ [Next]_vars => AuditInv' /\ [Audit!Next]_ledger
<1> SUFFICES ASSUME AuditInv, [Next]_vars PROVE AuditInv' /\ [Audit!Next]_ledger
  OBVIOUS
<1>0. TypeOK
  BY DEF AuditInv
<1>1. CASE UNCHANGED vars
  <2>1. TypeOK'
    BY <1>0, <1>1 DEF TypeOK, vars
  <2>2. UNCHANGED <<ledger, payments>> /\ SameTerms
    BY <1>1 DEF vars, SameTerms
  <2> QED BY <2>1, <2>2, NothingPostedKept DEF Kept, AuditInv
<1>2. CASE Next
  <2>1. TypeOK'
    BY <1>0, <1>2, BankStepType, DepositStepType, InterestStepType DEF Next
  <2>2. Kept
    BY <1>2, BankStepKept, DepositStepKept, InterestStepKept DEF Next
  <2> QED BY <2>1, <2>2 DEF Kept, AuditInv
<1> QED BY <1>1, <1>2

\* The deposits implement the audited ledger: every request inserts rows or
\* corrects a standing one, as AuditLedger allows.
THEOREM DepositsAudited == Spec => AuditedLedger
  BY AuditInit, AuditStep, PTL DEF Spec, AuditedLedger, Audit!Spec

\* Hence no row is taken back twice,
THEOREM OneReversal == Spec => []OneReversalPerMovement
  BY DepositsAudited, Audit!AuditedAlways, PTL DEF AuditedLedger, OneReversalPerMovement

\* every reversal undoes exactly the row it names,
THEOREM ReversalMirrors == Spec => []ReversalMirrorsOriginal
  BY DepositsAudited, Audit!AuditedAlways, PTL DEF AuditedLedger, ReversalMirrorsOriginal

\* and reversals and reversed rows are never rewritten.
THEOREM AuditTrail == Spec => AuditTrailFrozen
  BY DepositsAudited, Audit!TrailFrozen, PTL DEF AuditedLedger, AuditTrailFrozen

\* An opening debit that still stands agrees with its deposit.
THEOREM OpeningMirrors == Spec => []OpeningMirrorsDeposit
<1>1. AuditInv => OpeningMirrorsDeposit
  BY DEF AuditInv
<1> QED BY <1>1, AuditInit, AuditStep, PTL DEF Spec

\* A payment and its movement agree, and are reversed together.
THEOREM PaymentMirrors == Spec => []PaymentMirrorsMovement
<1>1. AuditInv => PaymentMirrorsMovement
  BY DEF AuditInv
<1> QED BY <1>1, AuditInit, AuditStep, PTL DEF Spec

-----------------------------------------------------------------------------
(* What becomes of a deposit. The requests come in three shapes: those     *)
(* that settle a deposit, those that refund its opening, and the others.   *)

\* A deposit out of the books keeps its terms, and a cancelled one its status.
DepositsKept ==
  \A f \in DOMAIN deposits :
    /\ f \in DOMAIN deposits'
    /\ ~deposits[f].is_active =>
         /\ ~deposits'[f].is_active
         /\ deposits'[f] = [deposits[f] EXCEPT !.status = deposits'[f].status]
         /\ deposits[f].status = "CANCELLED" => deposits'[f].status = "CANCELLED"

\* Interest is recorded for a deposit in the books only.
PaymentsKept ==
  \A p \in DOMAIN payments' :
    \/ p \in DOMAIN payments /\ payments'[p].deposit = payments[p].deposit
    \/ deposits[payments'[p].deposit].is_active

\* Whatever is rewritten, the rows keep what the settlements and refunds read.
RowsKept ==
  \A i \in DOMAIN ledger :
    /\ i \in DOMAIN ledger'
    /\ ledger'[i].type = ledger[i].type
    /\ ledger'[i].account = ledger[i].account
    /\ ledger'[i].deposit = ledger[i].deposit
    /\ ledger'[i].reverses = ledger[i].reverses
    /\ ledger[i].type \in SettlementLegTypes => ledger'[i].amount = ledger[i].amount

\* A step that neither settles a deposit nor refunds an opening.
PlainStep ==
  /\ RowsKept
  /\ \A j \in Added :
       /\ ledger'[j].type \notin SettlementLegTypes
       /\ \/ ledger'[j].reverses = NoMovement
          \/ /\ ledger'[j].reverses \in DOMAIN ledger
             /\ ledger[ledger'[j].reverses].type # "FD_OPENING"
  /\ UNCHANGED settlements

\* A step that refunds the opening of deposit f.
RefundStep(f) ==
  /\ RowsKept
  /\ \A j \in Added : /\ ledger'[j].type \notin SettlementLegTypes
                      /\ ledger'[j].reverses \in OpeningsOf(ledger, f)
  /\ Untouched(f)
  /\ deposits'[f].status = "CANCELLED" /\ ~deposits'[f].is_active
  /\ UNCHANGED <<payments, settlements>>

\* Row m, at key j, is a leg the settlement row s paid.
LegOf(m, j, s) ==
  /\ m.deposit = s.deposit
  /\ m.account = s.account
  /\ \/ j = s.principal_movement /\ m.type = PrincipalType(s.kind) /\ m.amount = s.payout
     \/ j = s.interest_movement /\ m.type = InterestType(s.kind) /\ m.amount = s.net

\* A step that settles a deposit and records it as the settlement row s.
SettleStep(s) ==
  /\ RowsKept
  /\ \A j \in Added : LegOf(ledger'[j], j, s) /\ ledger'[j].reverses = NoMovement
  /\ s \in Settlement
  /\ s.deposit \in DOMAIN deposits
  /\ deposits[s.deposit].is_active
  /\ ~IsSettled(s.deposit)
  /\ settlements' = Append(settlements, s)

\* Every step of the deposits is shown to be one of the three.
Shaped ==
  /\ DepositsKept /\ PaymentsKept
  /\ PlainStep \/ (\E f \in DOMAIN deposits : RefundStep(f)) \/ (\E s : SettleStep(s))

-----------------------------------------------------------------------------
(* What gives a step its shape.                                            *)

\* Rows added behind the others rewrite none of them.
LEMMA GrowingKeepsRows == LedgerGrows => RowsKept
  BY DEF LedgerGrows, RowsKept

\* The payments are as they were.
LEMMA SamePayments == ASSUME UNCHANGED payments PROVE PaymentsKept
  BY DEF PaymentsKept

\* The deposits are as they were.
LEMMA SameDeposits == ASSUME TypeOK, UNCHANGED deposits PROVE DepositsKept
  BY RowTypes DEF DepositsKept, FixedDeposit

\* A step that posts one row which reverses no opening.
LEMMA PostIsPlain ==
  ASSUME TypeOK, NEW m \in CashMovement, Post(m), m.type \notin SettlementLegTypes,
         \/ m.reverses = NoMovement
         \/ m.reverses \in DOMAIN ledger /\ ledger[m.reverses].type # "FD_OPENING",
         UNCHANGED settlements
  PROVE  PlainStep
  BY PostGrows, GrowingKeepsRows DEF PlainStep

\* A step that leaves the ledger and the settlements alone.
LEMMA QuietIsPlain == ASSUME UNCHANGED <<ledger, settlements>> PROVE PlainStep
  BY DEF PlainStep, RowsKept, Added

\* A deposit in the books may get another status or be taken out of them.
LEMMA StatusKeepsDeposits ==
  ASSUME TypeOK, NEW f \in DOMAIN deposits, deposits[f].is_active, NEW row,
         deposits' = [deposits EXCEPT ![f] = row]
  PROVE  DepositsKept
  BY RowTypes DEF DepositsKept, FixedDeposit

\* A row put behind a ledger, or none for an amount of 0.
LEMMA LegAdded ==
  ASSUME NEW led \in Seq(CashMovement), NEW m, m.amount # 0 => m \in CashMovement
  PROVE  /\ WithLeg(led, m) \in Seq(CashMovement)
         /\ DOMAIN led \subseteq DOMAIN WithLeg(led, m)
         /\ \A i \in DOMAIN led : WithLeg(led, m)[i] = led[i]
         /\ \A j \in DOMAIN WithLeg(led, m) \ DOMAIN led :
              j = LegRow(led, m) /\ WithLeg(led, m)[j] = m
<1>1. CASE m.amount = 0
  BY <1>1 DEF WithLeg
<1>2. CASE m.amount # 0
  <2>1. WithLeg(led, m) = Append(led, m) /\ LegRow(led, m) = Len(led) + 1
    BY <1>2 DEF WithLeg, LegRow
  <2>2. /\ Append(led, m) \in Seq(CashMovement) /\ Len(led) \in Nat
        /\ DOMAIN led = 1 .. Len(led) /\ DOMAIN Append(led, m) = 1 .. Len(led) + 1
        /\ \A i \in 1 .. Len(led) : Append(led, m)[i] = led[i]
        /\ Append(led, m)[Len(led) + 1] = m
    BY <1>2, Inserted
  <2> QED BY <2>1, <2>2
<1> QED BY <1>1, <1>2

\* A step that pays the legs of settlement row s, of deposit f, and nothing else.
PaidAs(s, f) ==
  /\ RowsKept
  /\ \A j \in Added : LegOf(ledger'[j], j, s) /\ ledger'[j].reverses = NoMovement
  /\ s \in Settlement /\ s.deposit = f

\* A settlement pays the legs its row records.
LEMMA PayOutIsOwned ==
  ASSUME TypeOK, NEW f \in DOMAIN deposits, NEW kind \in Kinds,
         NEW returned \in Nat, NEW paid \in Nat, NEW net \in Nat, NEW day \in Days,
         NEW renewed_as \in Nat, NEW reinvested \in Nat,
         PayOut(f, kind, paid, net, day)
  PROVE  PaidAs(SettlementRow(f, kind, returned, paid, net, day, renewed_as, reinvested), f)
<1> DEFINE s == SettlementRow(f, kind, returned, paid, net, day, renewed_as, reinvested)
           m1 == PrincipalLeg(f, kind, paid, day)
           m2 == InterestLeg(f, kind, net, day)
           led == WithLeg(ledger, m1)
<1>1. deposits[f] \in FixedDeposit /\ f \in Nat
  BY RowTypes
<1>2. /\ m1.amount = paid /\ m1.type = PrincipalType(kind)
      /\ m1.deposit = f /\ m1.account = deposits[f].account /\ m1.reverses = NoMovement
  BY DEF PrincipalLeg, DepositMovement
<1>3. /\ m2.amount = net /\ m2.type = InterestType(kind)
      /\ m2.deposit = f /\ m2.account = deposits[f].account /\ m2.reverses = NoMovement
  BY DEF InterestLeg, DepositMovement
<1>4. paid # 0 => m1 \in CashMovement
  BY <1>1, DepositMovementType
     DEF PrincipalLeg, PrincipalType, MovementTypes, SettlementLegTypes, Directions,
         NoMovement
<1>5. net # 0 => m2 \in CashMovement
  BY <1>1, DepositMovementType
     DEF InterestLeg, InterestType, MovementTypes, SettlementLegTypes, Directions,
         NoMovement
<1>6. /\ s.deposit = f /\ s.account = deposits[f].account /\ s.kind = kind
      /\ s.principal_movement = LegRow(ledger, m1) /\ s.payout = paid
      /\ s.interest_movement = LegRow(led, m2) /\ s.net = net
  BY DEF SettlementRow
<1>7. s \in Settlement
  BY SettlementRowType
<1>8. ledger' = ledger \/ ledger' = WithLeg(led, m2)
  BY DEF PayOut, Refresh
<1> HIDE DEF s, m1, m2
<1>9. /\ led \in Seq(CashMovement)
      /\ DOMAIN ledger \subseteq DOMAIN led
      /\ \A i \in DOMAIN ledger : led[i] = ledger[i]
      /\ \A j \in DOMAIN led \ DOMAIN ledger : j = LegRow(ledger, m1) /\ led[j] = m1
  BY <1>2, <1>4, LegAdded DEF TypeOK
<1> HIDE DEF led
<1>10. /\ DOMAIN led \subseteq DOMAIN WithLeg(led, m2)
       /\ \A i \in DOMAIN led : WithLeg(led, m2)[i] = led[i]
       /\ \A j \in DOMAIN WithLeg(led, m2) \ DOMAIN led :
            j = LegRow(led, m2) /\ WithLeg(led, m2)[j] = m2
  BY <1>3, <1>5, <1>9, LegAdded
<1>11. RowsKept
  BY <1>8, <1>9, <1>10 DEF RowsKept
<1>12. ASSUME NEW j \in Added
       PROVE  LegOf(ledger'[j], j, s) /\ ledger'[j].reverses = NoMovement
  <2>1. ledger' = WithLeg(led, m2)
    BY <1>8, <1>12 DEF Added
  <2>2. CASE j \in DOMAIN led
    <3>1. j = LegRow(ledger, m1) /\ ledger'[j] = m1
      BY <1>9, <1>10, <1>12, <2>1, <2>2 DEF Added
    <3> QED BY <1>2, <1>6, <3>1 DEF LegOf
  <2>3. CASE j \notin DOMAIN led
    <3>1. j = LegRow(led, m2) /\ ledger'[j] = m2
      BY <1>10, <1>12, <2>1, <2>3 DEF Added
    <3> QED BY <1>3, <1>6, <3>1 DEF LegOf
  <2> QED BY <2>2, <2>3
<1> QED BY <1>6, <1>7, <1>11, <1>12 DEF s, PaidAs

-----------------------------------------------------------------------------
(* The requests.                                                           *)

\* Requests on bank accounts and portfolios are plain.
LEMMA BankStepShaped == AuditInv /\ BankStep => Shaped
<1> SUFFICES ASSUME AuditInv, BankStep PROVE Shaped
  OBVIOUS
<1>0. TypeOK
  BY DEF AuditInv
<1>1. DepositsKept /\ PaymentsKept
  <2>1. UNCHANGED <<deposits, payments>>
    BY DEF BankStep, CreateManualMovement, SeedOpeningBalance, ReverseCashMovement,
           EnterBalance, DeactivateBankAccount, SetPortfolioActive
  <2> QED BY <1>0, <2>1, SameDeposits, SamePayments
<1>2. ASSUME NEW acct \in Accounts, NEW dir \in Directions, NEW amt \in Amounts,
             NEW day \in Days, CreateManualMovement(acct, dir, amt, day)
      PROVE  PlainStep
  <2> DEFINE m == AccountMovement(acct, "MANUAL", dir, amt, day, NoMovement)
  <2>1. m \in CashMovement
    BY AccountMovementType, InputsType
       DEF MovementTypes, ReversibleManualTypes, NoMovement
  <2>2. m.type \notin SettlementLegTypes /\ m.reverses = NoMovement
    BY DEF AccountMovement, SettlementLegTypes
  <2>3. Post(m) /\ UNCHANGED settlements
    BY <1>2 DEF CreateManualMovement
  <2> HIDE DEF m
  <2> QED BY <1>0, <2>1, <2>2, <2>3, PostIsPlain
<1>3. ASSUME NEW acct \in Accounts, NEW amt \in Amounts, NEW day \in Days,
             SeedOpeningBalance(acct, amt, day)
      PROVE  PlainStep
  <2> DEFINE m == AccountMovement(acct, "OPENING_BALANCE", "CREDIT", amt, day, NoMovement)
  <2>1. m \in CashMovement
    BY AccountMovementType, InputsType
       DEF MovementTypes, ReversibleManualTypes, Directions, NoMovement
  <2>2. m.type \notin SettlementLegTypes /\ m.reverses = NoMovement
    BY DEF AccountMovement, SettlementLegTypes
  <2>3. Post(m) /\ UNCHANGED settlements
    BY <1>3 DEF SeedOpeningBalance
  <2> HIDE DEF m
  <2> QED BY <1>0, <2>1, <2>2, <2>3, PostIsPlain
<1>4. ASSUME NEW i \in DOMAIN ledger, NEW day \in Days, ReverseCashMovement(i, day)
      PROVE  PlainStep
  <2> DEFINE m == AccountMovement(ledger[i].account, "REVERSAL",
                                  OppositeDirection(ledger[i].direction),
                                  ledger[i].amount, day, i)
  <2>1. ledger[i] \in CashMovement /\ i \in Nat
    BY <1>0, RowTypes
  <2>2. /\ ledger[i].account \in Accounts
        /\ ledger[i].amount \in Nat \ {0}
        /\ OppositeDirection(ledger[i].direction) \in Directions
    BY <2>1 DEF CashMovement, Directions, OppositeDirection
  <2>3. m \in CashMovement
    BY <2>1, <2>2, AccountMovementType DEF MovementTypes, ReversalTypes
  <2>4. /\ m.type \notin SettlementLegTypes /\ m.reverses = i
        /\ ledger[i].type # "FD_OPENING"
    BY <1>4 DEF AccountMovement, SettlementLegTypes, ReverseCashMovement,
                ReversibleManualTypes
  <2>5. Post(m) /\ UNCHANGED settlements
    BY <1>4 DEF ReverseCashMovement
  <2> HIDE DEF m
  <2> QED BY <1>0, <2>3, <2>4, <2>5, PostIsPlain
<1>5. ASSUME \/ \E acct \in Accounts, balance \in ManualBalances :
                  EnterBalance(acct, balance)
             \/ \E acct \in Accounts : DeactivateBankAccount(acct)
             \/ \E pf \in Portfolios, active \in BOOLEAN : SetPortfolioActive(pf, active)
      PROVE  PlainStep
  BY <1>5, QuietIsPlain DEF EnterBalance, DeactivateBankAccount, SetPortfolioActive
<1> QED BY <1>1, <1>2, <1>3, <1>4, <1>5 DEF BankStep, Shaped

\* Cancelling a deposit, or repairing one deactivated earlier, refunds its opening.
LEMMA RefundShaped ==
  ASSUME AuditInv, NEW f \in DOMAIN deposits, NEW day \in Days, RefundOpening(f, day),
         deposits[f].status # "CANCELLED", Untouched(f)
  PROVE  Shaped
<1> DEFINE i == FirstOpening(ledger, f)
           m == DepositMovement(f, deposits[f], "FD_OPENING_REVERSAL", "CREDIT",
                                ledger[i].amount, day, i)
           row == [deposits[f] EXCEPT !.status = "CANCELLED", !.is_active = FALSE]
<1>0. TypeOK
  BY DEF AuditInv
<1>1. i \in DOMAIN ledger /\ i \in OpeningsOf(ledger, f)
  BY <1>0, FirstOpeningIsOpening DEF RefundOpening, HasUnreversedOpening, TypeOK
<1>2. /\ ledger[i].amount \in Nat \ {0} /\ i \in Nat /\ f \in Nat
      /\ deposits[f] \in FixedDeposit
  BY <1>0, <1>1, RowTypes DEF CashMovement
<1>3. m \in CashMovement
  BY <1>2, DepositMovementType DEF MovementTypes, ReversalTypes, Directions
<1>4. m.type \notin SettlementLegTypes /\ m.reverses = i
  BY DEF DepositMovement, SettlementLegTypes
<1>5. Post(m) /\ UNCHANGED <<payments, settlements>>
  BY DEF RefundOpening
<1>6. deposits' = [deposits EXCEPT ![f] = row]
  BY DEF RefundOpening
<1>7. row.status = "CANCELLED" /\ ~row.is_active /\ row \in FixedDeposit
  BY <1>2 DEF FixedDeposit, Statuses
<1>8. row = [deposits[f] EXCEPT !.status = row.status, !.is_active = FALSE]
  BY <1>2 DEF FixedDeposit
<1>9. ~deposits[f].is_active => row = [deposits[f] EXCEPT !.status = row.status]
  BY <1>2 DEF FixedDeposit
<1> HIDE DEF m, i, row
<1>10. RowsKept /\ \A j \in Added : ledger'[j] = m
  BY <1>0, <1>3, <1>5, PostGrows, GrowingKeepsRows
<1>11. /\ DOMAIN deposits' = DOMAIN deposits
       /\ \A g \in DOMAIN deposits : deposits'[g] = IF g = f THEN row ELSE deposits[g]
  BY <1>0, <1>6, <1>7, Rewritten DEF TypeOK
<1>12. RefundStep(f)
  BY <1>1, <1>4, <1>5, <1>7, <1>10, <1>11 DEF RefundStep
<1>13. DepositsKept
  <2>1. ASSUME NEW g \in DOMAIN deposits, ~deposits[g].is_active
        PROVE  /\ ~deposits'[g].is_active
               /\ deposits'[g] = [deposits[g] EXCEPT !.status = deposits'[g].status]
               /\ deposits[g].status = "CANCELLED" => deposits'[g].status = "CANCELLED"
    <3>1. CASE g = f
      BY <1>7, <1>9, <1>11, <2>1, <3>1
    <3>2. CASE g # f
      BY <1>0, <1>11, <2>1, <3>2, RowTypes DEF FixedDeposit
    <3> QED BY <3>1, <3>2
  <2> QED BY <1>11, <2>1 DEF DepositsKept
<1> QED BY <1>5, <1>12, <1>13, SamePayments DEF Shaped

\* Requests on deposits: settled, renewed, cancelled, repaired, or plain.
LEMMA DepositStepShaped == AuditInv /\ DepositStep => Shaped
<1> SUFFICES ASSUME AuditInv, DepositStep PROVE Shaped
  OBVIOUS
<1>0. TypeOK
  BY DEF AuditInv
<1>1. ASSUME NEW acct \in Accounts, NEW pf \in Portfolios, NEW amt \in Amounts,
             NEW day \in Days, NEW status \in StatusInputs, NEW of \in RenewalTargets,
             CreateFixedDeposit(acct, pf, amt, day, status, of)
      PROVE  Shaped
  <2> DEFINE f == Len(deposits) + 1
             fd == NewDeposit(acct, pf, amt, day, status, of)
             m == DepositMovement(f, fd, "FD_OPENING", "DEBIT", amt, day, NoMovement)
  <2>1. f \in Nat /\ fd \in FixedDeposit /\ amt \in Nat \ {0}
    BY <1>0, InputsType, NewDepositType, RowTypes
  <2>2. m \in CashMovement
    BY <2>1, DepositMovementType DEF MovementTypes, Directions, NoMovement
  <2>3. m.type \notin SettlementLegTypes /\ m.reverses = NoMovement
    BY DEF DepositMovement, SettlementLegTypes
  <2>4. Post(m) /\ deposits' = Append(deposits, fd) /\ UNCHANGED <<payments, settlements>>
    BY <1>1 DEF CreateFixedDeposit
  <2> HIDE DEF m, fd
  <2>5. PlainStep
    BY <1>0, <2>2, <2>3, <2>4, PostIsPlain
  <2>6. DepositsKept
    <3>1. \A g \in DOMAIN deposits : g \in DOMAIN deposits' /\ deposits'[g] = deposits[g]
      BY <1>0, <2>1, <2>4, Inserted, RowTypes DEF TypeOK
    <3> QED BY <1>0, <3>1, RowTypes DEF DepositsKept, FixedDeposit
  <2> QED BY <2>4, <2>5, <2>6, SamePayments DEF Shaped
<1>2. ASSUME NEW f \in DOMAIN deposits, NEW acct \in Accounts, NEW pf \in Portfolios,
             NEW amt \in Amounts \cup {deposits[f].principal}, NEW day \in Days,
             NEW status \in StatusInputs \cup {deposits[f].status},
             NEW of \in RenewalTargets \cup {deposits[f].renewal_of},
             UpdateFixedDeposit(f, NewDeposit(acct, pf, amt, day, status, of))
      PROVE  Shaped
  <2> DEFINE fd == NewDeposit(acct, pf, amt, day, status, of)
             o == FirstOpening(ledger, f)
             moved == HasUnreversedOpening(ledger, f) /\ fd.day # deposits[f].day
             row == [ledger[o] EXCEPT !.day = fd.day]
  <2>1. /\ deposits[f].is_active /\ deposits' = [deposits EXCEPT ![f] = fd]
        /\ UNCHANGED <<payments, settlements>>
        /\ ledger' = IF moved THEN [ledger EXCEPT ![o] = row] ELSE ledger
    BY <1>2 DEF UpdateFixedDeposit
  <2>2. DepositsKept /\ PaymentsKept
    BY <1>0, <2>1, StatusKeepsDeposits, SamePayments
  <2>3. fd.day \in Days
    BY DEF NewDeposit
  <2> HIDE DEF fd
  <2>4. CASE ~moved
    BY <2>1, <2>2, <2>4, QuietIsPlain DEF Shaped
  <2>5. CASE moved
    <3>1. o \in DOMAIN ledger
      BY <1>0, <2>5, FirstOpeningIsOpening DEF HasUnreversedOpening, TypeOK
    <3>2. ledger[o] \in CashMovement
      BY <1>0, <3>1, RowTypes
    <3>3. /\ row \in CashMovement /\ row.type = ledger[o].type
          /\ row.account = ledger[o].account /\ row.amount = ledger[o].amount
          /\ row.deposit = ledger[o].deposit /\ row.reverses = ledger[o].reverses
      BY <2>3, <3>2 DEF CashMovement
    <3> HIDE DEF o, row
    <3>4. /\ DOMAIN ledger' = DOMAIN ledger
          /\ \A i \in DOMAIN ledger : ledger'[i] = IF i = o THEN row ELSE ledger[i]
      BY <1>0, <2>1, <2>5, <3>1, <3>3, Rewritten DEF TypeOK
    <3>5. PlainStep
      BY <2>1, <3>3, <3>4 DEF PlainStep, RowsKept, Added
    <3> QED BY <2>2, <3>5 DEF Shaped
  <2> QED BY <2>4, <2>5
<1>3. ASSUME NEW f \in DOMAIN deposits, DeactivateFixedDeposit(f) \/ MarkMatured(f)
      PROVE  Shaped
  <2>1. /\ deposits[f].is_active
        /\ \/ deposits' = [deposits EXCEPT ![f] = [deposits[f] EXCEPT !.is_active = FALSE]]
           \/ deposits' = [deposits EXCEPT ![f] = [deposits[f] EXCEPT !.status = "MATURED"]]
        /\ UNCHANGED <<ledger, payments, settlements>>
    BY <1>3 DEF DeactivateFixedDeposit, MarkMatured
  <2>2. DepositsKept
    BY <1>0, <2>1, StatusKeepsDeposits
  <2> QED BY <2>1, <2>2, QuietIsPlain, SamePayments DEF Shaped
<1>4. ASSUME NEW f \in DOMAIN deposits, NEW kind \in Kinds,
             NEW principal \in {0} \cup Amounts, NEW net \in {0} \cup Amounts,
             NEW day \in Days, Settle(f, kind, principal, net, day)
      PROVE  Shaped
  <2> DEFINE s == SettlementRow(f, kind, principal, principal, net, day, NoDeposit, 0)
             row == [deposits[f] EXCEPT !.status =
                       IF kind = "MATURITY" THEN "MATURED_SETTLED" ELSE "CLOSED"]
  <2>1. /\ deposits[f].is_active /\ ~IsSettled(f)
        /\ PayOut(f, kind, principal, net, day)
        /\ settlements' = Append(settlements, s)
        /\ deposits' = [deposits EXCEPT ![f] = row]
        /\ UNCHANGED payments
    BY <1>4 DEF Settle, MaySettle
  <2>2. principal \in Nat /\ net \in Nat
    BY InputsType
  <2>3. PaidAs(s, f)
    BY <1>0, <2>1, <2>2, PayOutIsOwned DEF NoDeposit
  <2> HIDE DEF s, row
  <2>4. DepositsKept
    BY <1>0, <2>1, StatusKeepsDeposits
  <2>5. SettleStep(s)
    BY <2>1, <2>3 DEF SettleStep, PaidAs
  <2> QED BY <2>1, <2>4, <2>5, SamePayments DEF Shaped
<1>5. ASSUME NEW f \in DOMAIN deposits, NEW payout \in {0} \cup Amounts,
             NEW net \in {0} \cup Amounts, NEW new \in Amounts, NEW day \in Days,
             NEW new_day \in Days, Renew(f, payout, net, new, day, new_day)
      PROVE  Shaped
  <2> DEFINE g == Len(deposits) + 1
             s == SettlementRow(f, "MATURITY", deposits[f].principal, payout, net, day, g, new)
             fd == NewDeposit(deposits[f].account, deposits[f].portfolio, new, new_day,
                              "ACTIVE", f)
             row == [deposits[f] EXCEPT !.status = "MATURED_SETTLED"]
  <2>1. /\ deposits[f].is_active /\ ~IsSettled(f)
        /\ PayOut(f, "MATURITY", payout, net, day)
        /\ settlements' = Append(settlements, s)
        /\ deposits' = Append([deposits EXCEPT ![f] = row], fd)
        /\ UNCHANGED payments
    BY <1>5 DEF Renew, MaySettle
  <2>2. /\ payout \in Nat /\ net \in Nat /\ new \in Nat \ {0} /\ g \in Nat /\ f \in Nat
        /\ deposits[f] \in FixedDeposit /\ deposits[f].principal \in Nat
        /\ deposits[f].account \in Accounts /\ deposits[f].portfolio \in Portfolios
    BY <1>0, InputsType, RowTypes DEF FixedDeposit
  <2>3. fd \in FixedDeposit /\ row \in FixedDeposit
    <3>1. fd \in FixedDeposit
      BY <2>2, NewDepositType DEF Statuses
    <3>2. row \in FixedDeposit
      BY <2>2 DEF FixedDeposit, Statuses
    <3> QED BY <3>1, <3>2
  <2>4. PaidAs(s, f)
    BY <1>0, <2>1, <2>2, PayOutIsOwned DEF Kinds
  <2> HIDE DEF s, row, fd
  <2>5. DepositsKept
    <3> DEFINE table == [deposits EXCEPT ![f] = row]
    <3>1. /\ table \in Seq(FixedDeposit) /\ DOMAIN table = DOMAIN deposits
          /\ \A h \in DOMAIN deposits : table[h] = IF h = f THEN row ELSE deposits[h]
      BY <1>0, <2>3, Rewritten DEF TypeOK
    <3>2. deposits' = Append(table, fd)
      BY <2>1
    <3> HIDE DEF table
    <3>3. \A h \in DOMAIN deposits :
            h \in DOMAIN deposits' /\ deposits'[h] = IF h = f THEN row ELSE deposits[h]
      BY <2>3, <3>1, <3>2, Inserted
    <3> QED BY <1>0, <2>1, <3>3, RowTypes DEF DepositsKept, FixedDeposit
  <2>6. SettleStep(s)
    BY <2>1, <2>4 DEF SettleStep, PaidAs
  <2> QED BY <2>1, <2>5, <2>6, SamePayments DEF Shaped
<1>6. ASSUME NEW f \in DOMAIN deposits, NEW day \in Days,
             CancelFixedDeposit(f, day) \/ RepairDeactivatedOpening(f, day)
      PROVE  Shaped
  BY <1>6, RefundShaped DEF CancelFixedDeposit, RepairDeactivatedOpening, OpenStatuses
<1> QED BY <1>1, <1>2, <1>3, <1>4, <1>5, <1>6 DEF DepositStep

\* Requests on interest payments are plain.
LEMMA InterestStepShaped == AuditInv /\ InterestStep => Shaped
<1> SUFFICES ASSUME AuditInv, InterestStep PROVE Shaped
  OBVIOUS
<1>0. TypeOK
  BY DEF AuditInv
<1>1. DepositsKept /\ UNCHANGED settlements
  <2>1. UNCHANGED <<deposits, settlements>>
    BY DEF InterestStep, RecordInterest, EditInterest, ReverseInterest
  <2> QED BY <1>0, <2>1, SameDeposits
<1>2. ASSUME NEW f \in DOMAIN deposits, NEW net \in Amounts, NEW day \in Days,
             RecordInterest(f, net, day)
      PROVE  PaymentsKept /\ PlainStep
  <2> DEFINE m == DepositMovement(f, deposits[f], "FD_INTEREST", "CREDIT", net, day,
                                  NoMovement)
             pay == [deposit |-> f, account |-> deposits[f].account, net |-> net,
                     day |-> day, movement |-> Len(ledger) + 1, is_reversed |-> FALSE]
  <2>1. f \in Nat \ {0} /\ net \in Nat \ {0} /\ deposits[f] \in FixedDeposit
    BY <1>0, InputsType, RowTypes
  <2>2. m \in CashMovement
    BY <2>1, DepositMovementType DEF MovementTypes, Directions, NoMovement
  <2>3. m.type \notin SettlementLegTypes /\ m.reverses = NoMovement
    BY DEF DepositMovement, SettlementLegTypes
  <2>4. /\ Post(m) /\ payments' = Append(payments, pay) /\ deposits[f].is_active
    BY <1>2 DEF RecordInterest
  <2>5. pay \in InterestPayment /\ pay.deposit = f
    BY <1>0, <2>1, RowTypes DEF InterestPayment, FixedDeposit
  <2> HIDE DEF m, pay
  <2>6. PlainStep
    BY <1>0, <1>1, <2>2, <2>3, <2>4, PostIsPlain
  <2>7. /\ DOMAIN payments' = 1 .. Len(payments) + 1 /\ DOMAIN payments = 1 .. Len(payments)
        /\ Len(payments) \in Nat
        /\ \A p \in DOMAIN payments : payments'[p] = payments[p]
        /\ payments'[Len(payments) + 1] = pay
    BY <1>0, <2>4, <2>5, Inserted DEF TypeOK
  <2>8. PaymentsKept
    BY <2>4, <2>5, <2>7 DEF PaymentsKept
  <2> QED BY <2>6, <2>8
<1>3. ASSUME NEW p \in DOMAIN payments, NEW net \in Amounts, NEW day \in Days,
             EditInterest(p, net, day)
      PROVE  PaymentsKept /\ PlainStep
  <2> DEFINE i == payments[p].movement
             row == [ledger[i] EXCEPT !.amount = net, !.day = day]
             pay == [payments[p] EXCEPT !.net = net, !.day = day]
  <2>1. /\ i \in DOMAIN ledger /\ payments[p] \in InterestPayment
        /\ ledger[i] \in CashMovement /\ ledger[i].type = "FD_INTEREST"
    BY <1>0, RowTypes DEF AuditInv, PaymentMirrorsMovement
  <2>2. ledger' = [ledger EXCEPT ![i] = row] /\ payments' = [payments EXCEPT ![p] = pay]
    BY <1>3 DEF EditInterest, Refresh
  <2>3. /\ row \in CashMovement /\ row.type = ledger[i].type
        /\ row.account = ledger[i].account
        /\ row.deposit = ledger[i].deposit /\ row.reverses = ledger[i].reverses
    BY <2>1, InputsType DEF CashMovement
  <2>4. pay \in InterestPayment /\ pay.deposit = payments[p].deposit
    BY <2>1, InputsType DEF InterestPayment
  <2> HIDE DEF row, pay, i
  <2>5. /\ DOMAIN ledger' = DOMAIN ledger
        /\ \A j \in DOMAIN ledger : ledger'[j] = IF j = i THEN row ELSE ledger[j]
    BY <1>0, <2>1, <2>2, <2>3, Rewritten DEF TypeOK
  <2>6. /\ DOMAIN payments' = DOMAIN payments
        /\ \A q \in DOMAIN payments : payments'[q] = IF q = p THEN pay ELSE payments[q]
    BY <1>0, <2>2, <2>4, Rewritten DEF TypeOK
  <2>7. PlainStep
    BY <1>1, <2>1, <2>3, <2>5 DEF PlainStep, RowsKept, Added, SettlementLegTypes
  <2> QED BY <2>4, <2>6, <2>7 DEF PaymentsKept
<1>4. ASSUME NEW p \in DOMAIN payments, NEW day \in Days, ReverseInterest(p, day)
      PROVE  PaymentsKept /\ PlainStep
  <2> DEFINE f == payments[p].deposit
             i == payments[p].movement
             d == DepositMovement(f, deposits[f], "FD_INTEREST_REVERSAL", "DEBIT",
                                  payments[p].net, day, i)
             m == [d EXCEPT !.account = payments[p].account]
             pay == [payments[p] EXCEPT !.is_reversed = TRUE]
  <2>1. f \in DOMAIN deposits /\ payments[p] \in InterestPayment
    BY <1>0, RowTypes DEF TypeOK
  <2>2. /\ deposits[f] \in FixedDeposit /\ f \in Nat
        /\ payments[p].net \in Nat \ {0} /\ i \in Nat \ {0}
        /\ payments[p].account \in Accounts
    BY <1>0, <2>1, RowTypes DEF InterestPayment
  <2>3. d \in CashMovement
    BY <2>2, DepositMovementType DEF MovementTypes, ReversalTypes, Directions
  <2>4. i \in DOMAIN ledger /\ ledger[i].type = "FD_INTEREST"
    BY DEF AuditInv, PaymentMirrorsMovement
  <2>5. m.type \notin SettlementLegTypes /\ m.reverses = i
    BY DEF DepositMovement, SettlementLegTypes
  <2>6. m \in CashMovement
    BY <2>2, <2>3 DEF CashMovement
  <2>7. pay \in InterestPayment /\ pay.deposit = f
    BY <2>1 DEF InterestPayment
  <2>8. Post(m) /\ payments' = [payments EXCEPT ![p] = pay]
    BY <1>4 DEF ReverseInterest
  <2> HIDE DEF m, pay
  <2>9. PlainStep
    BY <1>0, <1>1, <2>4, <2>5, <2>6, <2>8, PostIsPlain
  <2>10. /\ DOMAIN payments' = DOMAIN payments
         /\ \A q \in DOMAIN payments : payments'[q] = IF q = p THEN pay ELSE payments[q]
    BY <1>0, <2>7, <2>8, Rewritten DEF TypeOK
  <2> QED BY <2>7, <2>9, <2>10 DEF PaymentsKept
<1> QED BY <1>1, <1>2, <1>3, <1>4 DEF InterestStep, Shaped

\* Every step has one of the three shapes.
LEMMA StepShaped == AuditInv /\ [Next]_vars => Shaped
<1> SUFFICES ASSUME AuditInv, [Next]_vars PROVE Shaped
  OBVIOUS
<1>1. CASE UNCHANGED vars
  <2>1. UNCHANGED <<ledger, deposits, payments, settlements>> /\ TypeOK
    BY <1>1 DEF vars, AuditInv
  <2> QED BY <2>1, QuietIsPlain, SameDeposits, SamePayments DEF Shaped
<1> QED BY <1>1, BankStepShaped, DepositStepShaped, InterestStepShaped DEF Next

-----------------------------------------------------------------------------
(* A deposit taken out of the books stays out.                             *)

\* No request revives a deposit that is out of the books, or changes its terms.
THEOREM InactiveForGood == Spec => InactiveStaysInactive
<1>1. Shaped => \A f \in DOMAIN deposits : ~deposits[f].is_active =>
                  /\ ~deposits'[f].is_active
                  /\ deposits'[f] = [deposits[f] EXCEPT !.status = deposits'[f].status]
  BY DEF Shaped, DepositsKept
<1> QED BY <1>1, AuditInit, AuditStep, StepShaped, PTL DEF Spec, InactiveStaysInactive

-----------------------------------------------------------------------------
(* A refund is final, and a settlement owns its legs.                      *)

\* The inductive invariant.  A refund is final because the deposit is left
\* cancelled and out of the books, which every request that pays looks at, and
\* because no reversal but the refund names an opening.
OutcomeInv == AuditInv /\ RefundIsFinal /\ SettlementOwnsItsLegs

\* Deposit f is cancelled, out of the books, not settled and without payments.
Refunded(f) ==
  /\ deposits[f].status = "CANCELLED" /\ ~deposits[f].is_active
  /\ ~IsSettled(f)
  /\ PaymentsOf(f) = {}

\* A cancelled deposit out of the books gets no settlement and no payment.
LEMMA RefundedStays ==
  ASSUME AuditInv, Shaped, NEW f \in DOMAIN deposits, Refunded(f)
  PROVE  Refunded(f)'
<1>0. /\ deposits[f].status = "CANCELLED" /\ ~deposits[f].is_active
      /\ ~IsSettled(f) /\ PaymentsOf(f) = {}
  BY DEF Refunded
<1>1. deposits'[f].status = "CANCELLED" /\ ~deposits'[f].is_active
  BY <1>0 DEF Shaped, DepositsKept
<1>2. PaymentsOf(f)' = {}
  BY <1>0 DEF Shaped, PaymentsKept, PaymentsOf
<1>3. ~IsSettled(f)'
  <2>1. CASE UNCHANGED settlements
    BY <1>0, <2>1 DEF IsSettled, SettlementOf
  <2>2. CASE \E s : SettleStep(s)
    <3>1. PICK s : SettleStep(s)
      BY <2>2
    <3>2. s \in Settlement /\ settlements' = Append(settlements, s) /\ s.deposit # f
      BY <1>0, <3>1 DEF SettleStep
    <3>3. /\ DOMAIN settlements' = 1 .. Len(settlements) + 1 /\ Len(settlements) \in Nat
          /\ DOMAIN settlements = 1 .. Len(settlements)
          /\ \A t \in DOMAIN settlements : settlements'[t] = settlements[t]
          /\ settlements'[Len(settlements) + 1] = s
      BY <3>2, Inserted DEF AuditInv, TypeOK
    <3> QED BY <1>0, <3>2, <3>3 DEF IsSettled, SettlementOf
  <2> QED BY <2>1, <2>2 DEF Shaped, PlainStep, RefundStep
<1> QED BY <1>1, <1>2, <1>3 DEF Refunded

\* Every step keeps refunds final.
LEMMA RefundStaysFinal ==
  AuditInv /\ AuditInv' /\ RefundIsFinal /\ Shaped => RefundIsFinal'
<1> SUFFICES ASSUME AuditInv, AuditInv', RefundIsFinal, Shaped,
                    NEW i \in DOMAIN ledger', ledger'[i].type = "FD_OPENING",
                    IsReversed(ledger', i)
             PROVE  \E f \in DOMAIN deposits : ledger'[i].deposit = f /\ Refunded(f)'
  BY DEF RefundIsFinal, Refunded
<1>1. PICK j \in DOMAIN ledger' : ledger'[j].reverses = i
  BY DEF IsReversed
<1>2. RowsKept
  BY DEF Shaped, PlainStep, RefundStep, SettleStep
<1>3. NoMovement \notin DOMAIN ledger /\ NoMovement \notin DOMAIN ledger'
  <2>1. ledger \in Seq(CashMovement) /\ ledger' \in Seq(CashMovement)
    BY DEF AuditInv, TypeOK
  <2> QED BY <2>1, LenProperties DEF NoMovement
<1>4. CASE j \in DOMAIN ledger
  <2>1. ledger[j].reverses = i
    BY <1>1, <1>2, <1>4 DEF RowsKept
  <2>2. i \in DOMAIN ledger /\ IsReversed(ledger, i)
    BY <1>3, <1>4, <2>1 DEF AuditInv, RowsCoherent, IsReversed
  <2>3. ledger[i].type = "FD_OPENING" /\ ledger'[i].deposit = ledger[i].deposit
    BY <1>2, <2>2 DEF RowsKept
  <2>4. ledger[i].deposit \in DOMAIN deposits
    BY <2>2, <2>3 DEF AuditInv, OneOpening
  <2>5. Refunded(ledger[i].deposit)
    BY <2>2, <2>3 DEF RefundIsFinal, Refunded
  <2>6. PICK f \in DOMAIN deposits : f = ledger[i].deposit
    BY <2>4
  <2>7. Refunded(f)'
    BY <2>5, <2>6, RefundedStays
  <2> QED BY <2>3, <2>6, <2>7
<1>5. CASE j \in Added
  <2>1. PICK f \in DOMAIN deposits : RefundStep(f)
    <3>1. ~PlainStep
      BY <1>1, <1>2, <1>3, <1>5 DEF PlainStep, RowsKept
    <3>2. ~ \E s : SettleStep(s)
      BY <1>1, <1>3, <1>5 DEF SettleStep
    <3> QED BY <3>1, <3>2 DEF Shaped
  <2>2. i \in OpeningsOf(ledger, f)
    BY <1>1, <1>5, <2>1 DEF RefundStep
  <2>3. ledger'[i].deposit = f
    BY <1>2, <2>2 DEF OpeningsOf, RowsKept
  <2>4. Refunded(f)'
    BY <2>1 DEF RefundStep, Untouched, Refunded, IsSettled, SettlementOf, PaymentsOf
  <2> QED BY <2>3, <2>4
<1> QED BY <1>4, <1>5 DEF Added

\* Every step keeps the settlements and their legs together.
LEMMA LegsStayOwned == AuditInv /\ SettlementOwnsItsLegs /\ Shaped => SettlementOwnsItsLegs'
<1> SUFFICES ASSUME AuditInv, SettlementOwnsItsLegs, Shaped PROVE SettlementOwnsItsLegs'
  OBVIOUS
<1> DEFINE Owned(m, i, table) == \E s \in DOMAIN table :
                                   table[s].deposit = m.deposit /\ LegOf(m, i, table[s])
<1>1. ASSUME NEW i \in DOMAIN ledger, ledger[i].type \in SettlementLegTypes
      PROVE  Owned(ledger[i], i, settlements)
  BY <1>1 DEF SettlementOwnsItsLegs, SettlementOf, LegOf
<1>2. RowsKept
  BY DEF Shaped, PlainStep, RefundStep, SettleStep
<1>3. ASSUME NEW i \in DOMAIN ledger, ledger'[i].type \in SettlementLegTypes
      PROVE  Owned(ledger'[i], i, settlements)
  <2>1. ledger[i].type \in SettlementLegTypes
    BY <1>2, <1>3 DEF RowsKept
  <2>2. PICK s \in DOMAIN settlements : /\ settlements[s].deposit = ledger[i].deposit
                                        /\ LegOf(ledger[i], i, settlements[s])
    BY <1>1, <2>1
  <2>3. LegOf(ledger'[i], i, settlements[s]) /\ settlements[s].deposit = ledger'[i].deposit
    BY <1>2, <2>1, <2>2 DEF RowsKept, LegOf
  <2> QED BY <2>3
<1>4. ASSUME \A s, t \in DOMAIN settlements' :
               settlements'[s].deposit = settlements'[t].deposit => s = t,
             \A i \in DOMAIN ledger' : ledger'[i].type \in SettlementLegTypes =>
               Owned(ledger'[i], i, settlements')
      PROVE  SettlementOwnsItsLegs'
  BY <1>4 DEF SettlementOwnsItsLegs, SettlementOf, LegOf
<1>5. CASE UNCHANGED settlements /\ \A j \in Added : ledger'[j].type \notin SettlementLegTypes
  <2>1. \A s, t \in DOMAIN settlements' :
          settlements'[s].deposit = settlements'[t].deposit => s = t
    BY <1>5 DEF SettlementOwnsItsLegs
  <2>2. \A i \in DOMAIN ledger' : ledger'[i].type \in SettlementLegTypes =>
          Owned(ledger'[i], i, settlements')
    BY <1>3, <1>5 DEF Added
  <2> QED BY <1>4, <2>1, <2>2
<1>6. CASE \E s : SettleStep(s)
  <2>1. PICK s : SettleStep(s)
    BY <1>6
  <2>2. s \in Settlement /\ settlements' = Append(settlements, s) /\ ~IsSettled(s.deposit)
    BY <2>1 DEF SettleStep
  <2>3. /\ DOMAIN settlements' = 1 .. Len(settlements) + 1 /\ Len(settlements) \in Nat
        /\ DOMAIN settlements = 1 .. Len(settlements)
        /\ \A t \in DOMAIN settlements : settlements'[t] = settlements[t]
        /\ settlements'[Len(settlements) + 1] = s
    BY <2>2, Inserted DEF AuditInv, TypeOK
  <2>4. \A t \in DOMAIN settlements : settlements[t].deposit # s.deposit
    BY <2>2 DEF IsSettled, SettlementOf
  <2>5. \A t, u \in DOMAIN settlements' :
          settlements'[t].deposit = settlements'[u].deposit => t = u
    BY <2>3, <2>4 DEF SettlementOwnsItsLegs
  <2>6. ASSUME NEW i \in DOMAIN ledger', ledger'[i].type \in SettlementLegTypes
        PROVE  Owned(ledger'[i], i, settlements')
    <3>1. CASE i \in DOMAIN ledger
      BY <1>3, <2>3, <2>6, <3>1
    <3>2. CASE i \in Added
      <4>1. LegOf(ledger'[i], i, s) /\ Len(settlements) + 1 \in DOMAIN settlements'
        BY <2>1, <2>3, <3>2 DEF SettleStep
      <4>2. s.deposit = ledger'[i].deposit
        BY <4>1 DEF LegOf
      <4> QED BY <2>3, <4>1, <4>2
    <3> QED BY <3>1, <3>2 DEF Added
  <2> QED BY <1>4, <2>5, <2>6
<1> QED BY <1>5, <1>6 DEF Shaped, PlainStep, RefundStep

\* At the start nothing is settled, and no opening is taken back.
LEMMA OutcomeInit == Init => OutcomeInv
<1> SUFFICES ASSUME Init PROVE OutcomeInv
  OBVIOUS
<1>1. AuditInv /\ \A i \in DOMAIN ledger : ledger[i].reverses = NoMovement
  BY AuditInit DEF Audit!Init, Audit!IsReversal, Audit!NoMovement, NoMovement
<1>2. RefundIsFinal
  <2>1. NoMovement \notin DOMAIN ledger
    BY <1>1, RowTypes DEF AuditInv, NoMovement
  <2> QED BY <1>1, <2>1 DEF RefundIsFinal, IsReversed
<1>3. SettlementOwnsItsLegs
  <2>1. \A i \in DOMAIN ledger : ledger[i].type \notin SettlementLegTypes
    <3>1. PICK acct \in Accounts, pf \in Portfolios, amt \in Amounts :
            \/ ledger = <<>>
            \/ ledger = <<AccountMovement(acct, "MANUAL", "CREDIT", amt, 1, NoMovement),
                          DepositMovement(1, LegacyDeposit(acct, pf, amt, FALSE), "FD_OPENING",
                                          "DEBIT", amt, 1, NoMovement)>>
      BY DEF Init
    <3> DEFINE a == AccountMovement(acct, "MANUAL", "CREDIT", amt, 1, NoMovement)
               b == DepositMovement(1, LegacyDeposit(acct, pf, amt, FALSE), "FD_OPENING",
                                    "DEBIT", amt, 1, NoMovement)
    <3>2. a.type = "MANUAL" /\ b.type = "FD_OPENING"
      BY DEF AccountMovement, DepositMovement
    <3>3. ledger = <<>> \/ ledger = <<a, b>>
      BY <3>1
    <3> HIDE DEF a, b
    <3>4. \A i \in DOMAIN ledger : ledger[i] = a \/ ledger[i] = b
      BY <3>3
    <3> QED BY <3>2, <3>4 DEF SettlementLegTypes
  <2> QED BY <2>1 DEF Init, SettlementOwnsItsLegs
<1> QED BY <1>1, <1>2, <1>3 DEF OutcomeInv

\* Every step keeps the invariant.
LEMMA OutcomeStep == OutcomeInv /\ [Next]_vars => OutcomeInv'
  BY AuditStep, StepShaped, RefundStaysFinal, LegsStayOwned DEF OutcomeInv

\* A deposit whose opening was credited back is cancelled for good, was never
\* settled and never paid interest.
THEOREM RefundsAreFinal == Spec => []RefundIsFinal
<1>1. OutcomeInv => RefundIsFinal
  BY DEF OutcomeInv
<1> QED BY <1>1, OutcomeInit, OutcomeStep, PTL DEF Spec

\* A deposit is settled once, and every settlement leg in the ledger is the leg of
\* one settlement, for the deposit, the account and the amount it records.
THEOREM SettlementsOwnTheirLegs == Spec => []SettlementOwnsItsLegs
<1>1. OutcomeInv => SettlementOwnsItsLegs
  BY DEF OutcomeInv
<1> QED BY <1>1, OutcomeInit, OutcomeStep, PTL DEF Spec

-----------------------------------------------------------------------------
(* Reversed rows and their reversals cancel out.                           *)

\* The total of some rows of a ledger is the sum of their signed amounts, whatever
\* other rows the signed amounts are listed for.
LEMMA TotalOfRows ==
  ASSUME NEW led, NEW R, IsFiniteSet(R), NEW rows \in SUBSET R,
         \A i \in R : SignedAmount(led[i]) \in Int
  PROVE  Total(led, rows) = SumFunctionOnSet([i \in R |-> SignedAmount(led[i])], rows)
<1> DEFINE f == [i \in R |-> SignedAmount(led[i])]
           g == [i \in rows |-> SignedAmount(led[i])]
<1>1. IsFiniteSet(rows) /\ DOMAIN g = rows
  BY FS_Subset
<1>2. (\A i \in rows : f[i] \in Int) /\ \A i \in rows : g[i] = f[i]
  OBVIOUS
<1>3. Total(led, rows) = SumFunction(g)
  BY DEF Total
<1> HIDE DEF f, g
<1>4. SumFunction(g) = SumFunctionOnSet(g, rows)
  BY <1>1, SumOfFunction
<1>5. SumFunctionOnSet(g, rows) = SumFunctionOnSet(f, rows)
  BY <1>1, <1>2, SumSame
<1> QED BY <1>3, <1>4, <1>5 DEF f

\* Leaving reversed rows and their reversals out never changes a whole balance.
LEMMA ReversedRowsCancel ==
  TypeOK /\ OneReversalPerMovement /\ ReversalMirrorsOriginal => ReversalsCancelOut
<1> SUFFICES ASSUME TypeOK, OneReversalPerMovement, ReversalMirrorsOriginal,
                    NEW acct \in Accounts
             PROVE  FundingBalanceAsOf(ledger, acct, MaxDay, {}) = Balance(ledger, acct)
  BY DEF ReversalsCancelOut
<1> DEFINE R == RowsOf(ledger, acct)
           E == EffectiveRows(ledger, R)
           V == {i \in R : IsReversal(ledger, i)}
           mate == [i \in V |-> ledger[i].reverses]
           O == {mate[i] : i \in V}
           f == [i \in R |-> SignedAmount(ledger[i])]
<1>1. /\ IsFiniteSet(R) /\ V \in SUBSET R /\ E \in SUBSET R
      /\ \A i \in R : ledger[i] \in CashMovement /\ i \in Nat \ {0}
  <2>1. IsFiniteSet(DOMAIN ledger) /\ R \in SUBSET DOMAIN ledger
    BY RowTypes, FS_Interval DEF RowsOf
  <2>2. IsFiniteSet(R)
    <3> HIDE DEF R
    <3> QED BY <2>1, FS_Subset
  <2> QED BY <2>2, RowTypes DEF RowsOf, EffectiveRows
<1>2. ASSUME NEW i \in R
      PROVE  SignedAmount(ledger[i]) \in Int /\ ledger[i].day <= MaxDay
  BY <1>1, ConstantsAssumption DEF SignedAmount, CashMovement, Days
<1>3. ASSUME NEW i \in V
      PROVE  /\ mate[i] \in R /\ mate[i] \notin V
             /\ IsReversed(ledger, mate[i])
             /\ SignedAmount(ledger[mate[i]]) = -SignedAmount(ledger[i])
  <2>1. /\ mate[i] \in DOMAIN ledger /\ ~IsReversal(ledger, mate[i])
        /\ ledger[i].account = ledger[mate[i]].account
        /\ ledger[i].amount = ledger[mate[i]].amount
        /\ ledger[i].direction = OppositeDirection(ledger[mate[i]].direction)
    BY DEF ReversalMirrorsOriginal, Audit!ReversalMirrorsOriginal, Audit!Mirrors, RowsOf,
           Audit!IsReversal, IsReversal, Audit!NoMovement, NoMovement,
           Audit!OppositeDirection, OppositeDirection
  <2>2. mate[i] \in R /\ IsReversed(ledger, mate[i])
    BY <2>1 DEF RowsOf, IsReversed
  <2>3. ledger[mate[i]] \in CashMovement
    BY <2>1, RowTypes
  <2>4. SignedAmount(ledger[mate[i]]) = -SignedAmount(ledger[i])
    BY <2>1, <2>3 DEF SignedAmount, OppositeDirection, CashMovement, Directions
  <2> QED BY <2>1, <2>2, <2>4
<1>4. ASSUME NEW i \in V, NEW j \in V, mate[i] = mate[j]
      PROVE  i = j
  BY <1>4 DEF OneReversalPerMovement, Audit!OneReversalPerMovement, RowsOf,
              Audit!IsReversal, IsReversal, Audit!NoMovement, NoMovement
<1>5. ASSUME NEW i \in R, IsReversed(ledger, i)
      PROVE  i \in O
  <2>1. PICK j \in DOMAIN ledger : ledger[j].reverses = i
    BY <1>5 DEF IsReversed
  <2>2. IsReversal(ledger, j)
    BY <1>1, <2>1 DEF IsReversal, NoMovement
  <2>3. ledger[j].account = ledger[i].account
    BY <2>1, <2>2 DEF ReversalMirrorsOriginal, Audit!ReversalMirrorsOriginal, Audit!Mirrors,
                      Audit!IsReversal, IsReversal, Audit!NoMovement, NoMovement
  <2>4. j \in V
    BY <2>2, <2>3 DEF RowsOf
  <2>5. mate[j] = i
    BY <2>1, <2>4
  <2> QED BY <2>4, <2>5
<1>6. RowsUpTo(ledger, E, MaxDay) \ {} = E
  BY <1>1, <1>2 DEF RowsUpTo
<1>7. R = E \cup (V \cup O) /\ E \cap (V \cup O) = {}
  BY <1>3, <1>5 DEF EffectiveRows
<1>8. /\ FundingBalanceAsOf(ledger, acct, MaxDay, {}) = Total(ledger, E)
      /\ Balance(ledger, acct) = Total(ledger, R)
  BY <1>6 DEF FundingBalanceAsOf, Balance
<1>9. /\ \A i \in R : f[i] \in Int
      /\ \A i \in V : mate[i] \in R /\ f[mate[i]] = -f[i]
  BY <1>2, <1>3
<1>10. Total(ledger, E) = SumFunctionOnSet(f, E) /\ Total(ledger, R) = SumFunctionOnSet(f, R)
  <2>1. R \in SUBSET R
    OBVIOUS
  <2> HIDE DEF R, E
  <2> QED BY <1>1, <1>2, <2>1, TotalOfRows
<1>11. IsFiniteSet(E) /\ IsFiniteSet(V) /\ IsFiniteSet(V \cup O)
  <2>1. V \cup O \in SUBSET R
    BY <1>7
  <2> HIDE DEF R, E, V, O
  <2> QED BY <1>1, <2>1, FS_Subset
<1>12. SumFunctionOnSet(f, V \cup O) = 0
  <2>1. \A i, j \in V : mate[i] # j
    BY <1>3
  <2>2. \A i \in V : f[i] \in Int /\ f[mate[i]] = -f[i]
    BY <1>1, <1>9
  <2> HIDE DEF f, V, mate
  <2> QED BY <1>4, <1>11, <2>1, <2>2, SumCancels
<1>13. SumFunctionOnSet(f, E \cup (V \cup O))
         = SumFunctionOnSet(f, E) + SumFunctionOnSet(f, V \cup O)
  <2> DEFINE C == V \cup O
  <2>1. E \cap C = {} /\ IsFiniteSet(C) /\ \A i \in E \cup C : f[i] \in Int
    BY <1>7, <1>9, <1>11
  <2> HIDE DEF f, E, C
  <2> QED BY <1>11, <2>1, SumUnion DEF C
<1>14. SumFunctionOnSet(f, E) \in Int
  <2>1. \A i \in E : f[i] \in Int
    BY <1>1, <1>9
  <2> HIDE DEF f, E
  <2> QED BY <1>11, <2>1, SumStep
<1> HIDE DEF f, E, V, O, R
<1> QED BY <1>7, <1>8, <1>10, <1>12, <1>13, <1>14

\* The funding balance of an account, which leaves reversed rows and their
\* reversals out, is in the end what the account holds.
THEOREM ReversalsCancel == Spec => []ReversalsCancelOut
  BY TypeCorrect, OneReversal, ReversalMirrors, ReversedRowsCancel, PTL
=============================================================================
