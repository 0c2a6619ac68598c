-------------------------- MODULE Settlement_proofs --------------------------
(***************************************************************************)
(* Proofs about Settlement, for any portfolios, trades, files and bounds:  *)
(* the registry keeps one active default portfolio and its limit, the      *)
(* three kinds of rows of the broker ledger (manual, transferred, linked   *)
(* to a trade) never turn into one another, and each kind keeps the        *)
(* relation it has to reversals, transfer groups and trades.  From that    *)
(* invariant follow the refinement of SettlementContract, that a backfill  *)
(* is complete, that the requests which test later days overdraw nothing,  *)
(* and that an import goes through when its preview has been funded.       *)
(***************************************************************************)
EXTENDS Settlement, FoldLemmas

-----------------------------------------------------------------------------
(* The registry *)

\* One default portfolio, active, and no more active portfolios than the limit.
RegistryInv == RegistryTypeOK /\ ActiveWithinLimit

PortfolioRow == [name : Names \cup Renames \cup {DefaultName}, is_default : BOOLEAN,
                 is_active : BOOLEAN, cash_aware : BOOLEAN]

\* The indices of a table of portfolios.
LEMMA PortfoliosAre ==
  ASSUME RegistryTypeOK
  PROVE  /\ Len(portfolios) \in Nat /\ Portfolios = 1 .. Len(portfolios)
         /\ \A p \in Portfolios : portfolios[p] \in PortfolioRow
         /\ IsFiniteSet(Portfolios) /\ IsFiniteSet(ActivePortfolios)
         /\ Cardinality(ActivePortfolios) \in Nat
<1>1. portfolios \in Seq(PortfolioRow)
  BY DEF RegistryTypeOK, PortfolioRow
<1>2. Len(portfolios) \in Nat /\ Portfolios = 1 .. Len(portfolios)
  BY <1>1 DEF Portfolios
<1>3. \A p \in Portfolios : portfolios[p] \in PortfolioRow
  BY <1>1, <1>2
<1>4. IsFiniteSet(Portfolios)
  BY <1>2, FS_Interval
<1>5. IsFiniteSet(ActivePortfolios)
  BY <1>4, FS_Subset DEF ActivePortfolios
<1>. QED
  BY <1>2, <1>3, <1>4, <1>5, FS_CardinalityType

\* Registration leaves one active default portfolio.
LEMMA RegistryInitInv == RegistryInit => RegistryInv
<1>. SUFFICES ASSUME RegistryInit PROVE RegistryInv
  OBVIOUS
<1>1. portfolios \in Seq(PortfolioRow) /\ Len(portfolios) = 1
      /\ portfolios[1].is_default /\ portfolios[1].is_active
  BY DEF RegistryInit, PortfolioRow
<1>2. RegistryTypeOK
  BY <1>1 DEF RegistryTypeOK, PortfolioRow
<1>3. Portfolios = {1}
  BY <1>2, <1>1, PortfoliosAre
<1>4. ActivePortfolios = {1}
  BY <1>1, <1>3 DEF ActivePortfolios, IsActive
<1>5. Cardinality(ActivePortfolios) <= MaxActive
  BY <1>4, FS_Singleton, RegistryAssumption
<1>. QED
  BY <1>1, <1>2, <1>3, <1>4, <1>5 DEF RegistryInv, ActiveWithinLimit

\* A created portfolio is one more active row, and not the default.
LEMMA CreateKeeps ==
  ASSUME RegistryInv, NEW name \in Names, NEW aware \in BOOLEAN, CreatePortfolio(name, aware)
  PROVE  RegistryInv' /\ Portfolios \subseteq Portfolios'
<1>. DEFINE row == [name |-> name, is_default |-> FALSE, is_active |-> TRUE, cash_aware |-> aware]
            n == Len(portfolios)
<1>0. RegistryTypeOK
  BY DEF RegistryInv
<1>1. portfolios \in Seq(PortfolioRow) /\ row \in PortfolioRow /\ n \in Nat
  BY <1>0 DEF RegistryTypeOK, PortfolioRow
<1>2. portfolios' = Append(portfolios, row)
  BY DEF CreatePortfolio
<1>3. portfolios' \in Seq(PortfolioRow)
  BY <1>1, <1>2
<1>4. RegistryTypeOK'
  BY <1>3 DEF RegistryTypeOK, PortfolioRow
<1>5. Portfolios = 1 .. n /\ Portfolios' = 1 .. (n + 1)
  BY <1>1, <1>2 DEF Portfolios
<1>6. \A p \in Portfolios : portfolios'[p] = portfolios[p]
  BY <1>1, <1>2, <1>5
<1>7. portfolios'[n + 1] = row
  BY <1>1, <1>2
<1>8. ActivePortfolios' = ActivePortfolios \cup {n + 1}
  <2>1. Portfolios' = Portfolios \cup {n + 1}
    BY <1>1, <1>5
  <2>2. \A p : IsActive(p)' <=> portfolios'[p].is_active
    BY DEF IsActive
  <2>3. ActivePortfolios' = {p \in Portfolios' : portfolios'[p].is_active}
    BY <2>2 DEF ActivePortfolios
  <2>. QED
    BY <1>6, <1>7, <2>1, <2>3 DEF ActivePortfolios, IsActive
<1>9. n + 1 \notin ActivePortfolios
  BY <1>1, <1>5 DEF ActivePortfolios
<1>10. Cardinality(ActivePortfolios') <= MaxActive
  <2>1. Cardinality(ActivePortfolios) < MaxActive
    BY DEF CreatePortfolio, RoomForActive
  <2>2. Cardinality(ActivePortfolios \cup {n + 1}) = Cardinality(ActivePortfolios) + 1
    BY <1>0, <1>9, PortfoliosAre, FS_AddElement
  <2>. QED
    BY <1>0, <1>8, <2>1, <2>2, PortfoliosAre, RegistryAssumption
<1>11. PICK p \in ActivePortfolios : \A q \in Portfolios : portfolios[q].is_default <=> q = p
  BY DEF RegistryInv, ActiveWithinLimit
<1>12. p \in ActivePortfolios' /\ p # n + 1
  BY <1>8, <1>9
<1>13. \A q \in Portfolios' : portfolios'[q].is_default <=> q = p
  <2>1. \A q \in Portfolios' : q \in Portfolios \/ q = n + 1
    BY <1>1, <1>5
  <2>. QED
    BY <1>6, <1>7, <1>11, <1>12, <2>1
<1>14. ActiveWithinLimit'
  BY <1>10, <1>12, <1>13 DEF ActiveWithinLimit
<1>. QED
  BY <1>1, <1>4, <1>5, <1>14 DEF RegistryInv

\* A row written over keeps the default where it was, and is counted when it comes back.
LEMMA RewriteKeeps ==
  ASSUME RegistryInv, NEW p \in Portfolios, NEW row \in PortfolioRow,
         row.is_default = portfolios[p].is_default,
         ~row.is_active => ~portfolios[p].is_default,
         row.is_active /\ ~IsActive(p) => RoomForActive,
         portfolios' = [portfolios EXCEPT ![p] = row]
  PROVE  RegistryInv' /\ Portfolios' = Portfolios
<1>0. RegistryTypeOK
  BY DEF RegistryInv
<1>1. portfolios \in Seq(PortfolioRow) /\ Portfolios = 1 .. Len(portfolios)
  BY <1>0, PortfoliosAre DEF RegistryTypeOK, PortfolioRow
<1>2. portfolios' \in Seq(PortfolioRow) /\ Len(portfolios') = Len(portfolios)
  BY <1>1
<1>3. RegistryTypeOK'
  BY <1>2 DEF RegistryTypeOK, PortfolioRow
<1>4. Portfolios' = Portfolios
  BY <1>1, <1>2 DEF Portfolios
<1>5. portfolios'[p] = row /\ \A q \in Portfolios : q # p => portfolios'[q] = portfolios[q]
  BY <1>1
<1>6. ActivePortfolios' = {q \in Portfolios : portfolios'[q].is_active}
  <2>1. \A q : IsActive(q)' <=> portfolios'[q].is_active
    BY DEF IsActive
  <2>. QED
    BY <1>4, <2>1 DEF ActivePortfolios
<1>7. Cardinality(ActivePortfolios) <= MaxActive /\ IsFiniteSet(ActivePortfolios)
      /\ Cardinality(ActivePortfolios) \in Nat /\ MaxActive \in Nat
  BY <1>0, PortfoliosAre, RegistryAssumption DEF RegistryInv, ActiveWithinLimit
<1>8. Cardinality(ActivePortfolios') <= MaxActive
  <2>1. CASE row.is_active /\ ~IsActive(p)
    <3>1. ActivePortfolios' = ActivePortfolios \cup {p} /\ p \notin ActivePortfolios
      BY <1>5, <1>6, <2>1 DEF ActivePortfolios, IsActive
    <3>2. Cardinality(ActivePortfolios) < MaxActive
      BY <2>1 DEF RoomForActive
    <3>3. Cardinality(ActivePortfolios \cup {p}) = Cardinality(ActivePortfolios) + 1
      BY <1>7, <3>1, FS_AddElement
    <3>. QED
      BY <1>7, <3>1, <3>2, <3>3
  <2>2. CASE ~(row.is_active /\ ~IsActive(p))
    <3>1. ActivePortfolios' \subseteq ActivePortfolios
      BY <1>5, <1>6, <2>2 DEF ActivePortfolios, IsActive
    <3>2. Cardinality(ActivePortfolios') <= Cardinality(ActivePortfolios)
          /\ Cardinality(ActivePortfolios') \in Nat
      BY <1>7, <3>1, FS_Subset, FS_CardinalityType
    <3>. QED
      BY <1>7, <3>2
  <2>. QED
    BY <2>1, <2>2
<1>9. PICK d \in ActivePortfolios : \A q \in Portfolios : portfolios[q].is_default <=> q = d
  BY DEF RegistryInv, ActiveWithinLimit
<1>10. d \in ActivePortfolios'
  BY <1>5, <1>6, <1>9 DEF ActivePortfolios, IsActive
<1>11. \A q \in Portfolios : portfolios'[q].is_default <=> q = d
  BY <1>5, <1>9
<1>12. ActiveWithinLimit'
  BY <1>4, <1>8, <1>10, <1>11 DEF ActiveWithinLimit
<1>. QED
  BY <1>3, <1>4, <1>12 DEF RegistryInv

\* Every request on portfolios keeps the registry as it should be, and drops no row.
LEMMA RegistryStep ==
  ASSUME RegistryInv, RegistryNext
  PROVE  RegistryInv' /\ Portfolios \subseteq Portfolios'
<1>0. RegistryTypeOK
  BY DEF RegistryInv
<1>1. ASSUME NEW name \in Names, NEW aware \in BOOLEAN, CreatePortfolio(name, aware)
      PROVE  RegistryInv' /\ Portfolios \subseteq Portfolios'
  BY <1>1, CreateKeeps
<1>2. ASSUME NEW p \in Portfolios, NEW active \in BOOLEAN, NEW aware \in BOOLEAN,
             NEW names \in {{}} \cup {{name} : name \in Renames},
             UpdatePortfolio(p, names, active, aware)
      PROVE  RegistryInv' /\ Portfolios \subseteq Portfolios'
  <2>. DEFINE old == portfolios[p]
              new == IF names = {} THEN old.name ELSE CHOOSE name \in names : TRUE
              row == [name |-> new, is_default |-> old.is_default,
                      is_active |-> active, cash_aware |-> aware]
  <2>1. old \in PortfolioRow
    BY <1>0, PortfoliosAre
  <2>2. new \in Names \cup Renames \cup {DefaultName}
    BY <2>1 DEF PortfolioRow
  <2>3. row \in PortfolioRow
    BY <2>1, <2>2 DEF PortfolioRow
  <2>4. portfolios' = [portfolios EXCEPT ![p] = row]
    <3>1. [old EXCEPT !.name = new, !.is_active = active, !.cash_aware = aware] = row
      <4>. DEFINE one == [old EXCEPT !.name = new]
                  two == [one EXCEPT !.is_active = active]
                  three == [two EXCEPT !.cash_aware = aware]
      <4>1. one \in PortfolioRow /\ one.name = new /\ one.is_default = old.is_default
        BY <2>1, <2>2 DEF PortfolioRow
      <4>. HIDE DEF one
      <4>2. two \in PortfolioRow /\ two.name = new /\ two.is_default = old.is_default
            /\ two.is_active = active
        BY <4>1 DEF PortfolioRow
      <4>. HIDE DEF two
      <4>3. three \in PortfolioRow /\ three.name = new /\ three.is_default = old.is_default
            /\ three.is_active = active /\ three.cash_aware = aware
        BY <4>2 DEF PortfolioRow
      <4>. HIDE DEF three
      <4>4. three = row
        BY <4>3, <2>3 DEF PortfolioRow
      <4>5. [old EXCEPT !.name = new, !.is_active = active, !.cash_aware = aware] = three
        BY DEF one, two, three
      <4>. QED
        BY <4>4, <4>5
    <3>. QED
      BY <1>2, <3>1 DEF UpdatePortfolio
  <2>5. /\ row.is_default = portfolios[p].is_default
        /\ ~row.is_active => ~portfolios[p].is_default
        /\ row.is_active /\ ~IsActive(p) => RoomForActive
    BY <1>2 DEF UpdatePortfolio
  <2>. HIDE DEF row
  <2>. QED
    BY <2>3, <2>4, <2>5, RewriteKeeps
<1>3. ASSUME NEW p \in Portfolios, DeactivatePortfolio(p)
      PROVE  RegistryInv' /\ Portfolios \subseteq Portfolios'
  <2>. DEFINE old == portfolios[p]
              row == [old EXCEPT !.is_active = FALSE]
  <2>1. old \in PortfolioRow
    BY <1>0, PortfoliosAre
  <2>2. row \in PortfolioRow /\ row.is_default = old.is_default /\ ~row.is_active
    BY <2>1 DEF PortfolioRow
  <2>3. portfolios' = [portfolios EXCEPT ![p] = row] /\ ~old.is_default
    BY <1>3 DEF DeactivatePortfolio
  <2>. HIDE DEF row
  <2>. QED
    BY <2>2, <2>3, RewriteKeeps
<1>. QED
  BY <1>1, <1>2, <1>3 DEF RegistryNext

-----------------------------------------------------------------------------
(* Tables and the rows of the broker ledger *)

IsTable(table) == DOMAIN table \in SUBSET (Nat \ {0}) /\ IsFiniteSet(DOMAIN table)

\* A new primary key is greater than the ones in use.
LEMMA FreshId ==
  ASSUME NEW table, IsTable(table)
  PROVE  NewId(table) \in Nat \ {0} /\ \A i \in DOMAIN table : i < NewId(table)
<1>1. {0} \cup DOMAIN table \in SUBSET Int /\ {0} \cup DOMAIN table # {}
  BY DEF IsTable
<1>2. IsFiniteSet({0} \cup DOMAIN table)
  BY FS_Singleton, FS_Union DEF IsTable
<1>3. Max({0} \cup DOMAIN table) \in {0} \cup DOMAIN table
      /\ \A i \in {0} \cup DOMAIN table : i <= Max({0} \cup DOMAIN table)
  BY <1>1, <1>2, MaxMin
<1>. QED
  BY <1>3 DEF NewId, IsTable

\* One row more.
Inserted(table, row, id, result) ==
  /\ IsTable(result) /\ DOMAIN result = DOMAIN table \cup {id} /\ id \notin DOMAIN table
  /\ result[id] = row /\ \A i \in DOMAIN table : result[i] = table[i]

\* Inserting a row adds it under a new key and leaves the others.
LEMMA OneInserted ==
  ASSUME NEW table, IsTable(table), NEW row
  PROVE  Inserted(table, row, NewId(table), InsertRow(table, row))
<1>. DEFINE id == NewId(table)
<1>1. id \in Nat \ {0} /\ \A i \in DOMAIN table : i < id
  BY FreshId
<1>2. id \notin DOMAIN table
  BY <1>1 DEF IsTable
<1>3. IsFiniteSet(DOMAIN table \cup {id})
  BY FS_AddElement DEF IsTable
<1>. QED
  BY <1>1, <1>2, <1>3 DEF InsertRow, IsTable, Inserted

\* Several rows more, with keys of their own.
LEMMA SomeInserted ==
  ASSUME NEW table, IsTable(table), NEW n \in Nat, NEW rows, DOMAIN rows = 1 .. n,
         NEW result, result = InsertRows(table, rows), NEW id, id = NewId(table)
  PROVE  /\ IsTable(result)
         /\ DOMAIN table \subseteq DOMAIN result
         /\ \A i \in DOMAIN table : result[i] = table[i]
         /\ \A i \in DOMAIN result \ DOMAIN table :
              i - id + 1 \in 1 .. n /\ result[i] = rows[i - id + 1]
         /\ \A k \in 1 .. n : id + k - 1 \in DOMAIN result \ DOMAIN table
<1>1. id \in Nat \ {0} /\ \A i \in DOMAIN table : i < id
  BY FreshId
<1>. DEFINE new == {id + k - 1 : k \in 1 .. n}
<1>2. result = [i \in DOMAIN table \cup new |->
                  IF i \in DOMAIN table THEN table[i] ELSE rows[i - id + 1]]
  BY DEF InsertRows
<1>3. DOMAIN result = DOMAIN table \cup new
  BY <1>2
<1>4. \A k \in 1 .. n : id + k - 1 \in Nat \ {0} /\ id + k - 1 \notin DOMAIN table
  <2>. SUFFICES ASSUME NEW k \in 1 .. n
                PROVE  id + k - 1 \in Nat \ {0} /\ id + k - 1 \notin DOMAIN table
    OBVIOUS
  <2>1. id + k - 1 \in Nat \ {0} /\ ~(id + k - 1 < id)
    BY <1>1
  <2>. QED
    BY <1>1, <2>1
<1>5. IsFiniteSet(new)
  <2>1. \A k \in 1 .. n : id + k - 1 \in id .. (id + n)
    BY <1>1
  <2>2. new \subseteq id .. (id + n)
    BY <2>1
  <2>3. IsFiniteSet(id .. (id + n))
    BY <1>1, FS_Interval
  <2>. QED
    BY <2>2, <2>3, FS_Subset
<1>6. IsFiniteSet(DOMAIN table \cup new)
  BY <1>5, FS_Union DEF IsTable
<1>7. IsTable(result)
  BY <1>3, <1>4, <1>6 DEF IsTable
<1>8. ASSUME NEW i \in DOMAIN result \ DOMAIN table
      PROVE  i - id + 1 \in 1 .. n /\ result[i] = rows[i - id + 1]
  <2>1. PICK k \in 1 .. n : i = id + k - 1
    BY <1>3, <1>8
  <2>2. i - id + 1 = k
    BY <1>1, <2>1
  <2>. QED
    BY <1>2, <1>3, <1>8, <2>2
<1>. QED
  BY <1>2, <1>3, <1>4, <1>7, <1>8

\* Rows taken out.
LEMMA Removed ==
  ASSUME NEW table, IsTable(table), NEW ids
  PROVE  /\ IsTable(RemoveRows(table, ids))
         /\ DOMAIN RemoveRows(table, ids) = DOMAIN table \ ids
         /\ \A i \in DOMAIN table \ ids : RemoveRows(table, ids)[i] = table[i]
BY FS_Subset DEF RemoveRows, IsTable

\* A set listed in the order of its elements has a place for each of them.
LEMMA Listed ==
  ASSUME NEW S, IsFiniteSet(S), NEW before,
         \A x \in S : <<x, x>> \notin before,
         \A x, y, z \in S : <<x, y>> \in before /\ <<y, z>> \in before => <<x, z>> \in before,
         NEW listed, listed = InOrder(S, before)
  PROVE  /\ Cardinality(S) \in Nat /\ DOMAIN listed = 1 .. Cardinality(S)
         /\ \A k \in DOMAIN listed : listed[k] \in S
         /\ \A k, l \in DOMAIN listed : listed[k] = listed[l] => k = l
         /\ \A x \in S : \E k \in DOMAIN listed : listed[k] = x
<1>. DEFINE Orders(seq) == /\ IsInjective(seq)
                           /\ \A i, j \in 1..Cardinality(S) : <<seq[i], seq[j]>> \in before => i < j
<1>1. \E seq \in [1..Cardinality(S) -> S] : Orders(seq)
  BY OrderExists
<1>2. listed = CHOOSE seq \in [1..Cardinality(S) -> S] : Orders(seq)
  BY DEF InOrder
<1>3. listed \in [1..Cardinality(S) -> S] /\ Orders(listed)
  <2>. HIDE DEF Orders
  <2>. QED
    BY <1>1, <1>2
<1>4. Cardinality(S) \in Nat
  BY FS_CardinalityType
<1>5. \A x \in S : \E k \in 1..Cardinality(S) : listed[k] = x
  <2>1. listed \in Injection(1..Cardinality(S), S)
    BY <1>3 DEF Injection
  <2>2. Cardinality(1..Cardinality(S)) = Cardinality(S)
    BY <1>4, FS_Interval
  <2>3. listed \in Surjection(1..Cardinality(S), S)
    BY <2>1, <2>2, FS_Injection
  <2>. QED
    BY <2>3 DEF Surjection
<1>. QED
  BY <1>3, <1>4, <1>5 DEF IsInjective

(* Amounts of the ledger *)

\* An amount is so many quanta and a rest.
LEMMA QuantaAndRest ==
  ASSUME NEW x \in Int
  PROVE  \E n \in Int : \E r \in 0 .. CashQuant - 1 : r = x % CashQuant /\ x = n * CashQuant + r
<1>1. x % CashQuant \in 0 .. CashQuant - 1
  BY BrokerCashAssumption
<1>2. x = CashQuant * (x \div CashQuant) + (x % CashQuant) /\ x \div CashQuant \in Int
  BY BrokerCashAssumption
<1>3. CashQuant * (x \div CashQuant) = (x \div CashQuant) * CashQuant
  BY <1>2, BrokerCashAssumption
<1>. QED
  BY <1>1, <1>2, <1>3

\* The multiples of the quantum are the amounts of the ledger.
LEMMA MultiplesAreAmounts ==
  ASSUME NEW k \in Int
  PROVE  k * CashQuant \in LedgerAmounts
<1>1. k * CashQuant \in Int /\ CashQuant \in Nat \ {0}
  BY BrokerCashAssumption
<1>2. PICK n \in Int : \E r \in 0 .. CashQuant - 1 :
        r = (k * CashQuant) % CashQuant /\ k * CashQuant = n * CashQuant + r
  BY <1>1, QuantaAndRest
<1>3. PICK r \in 0 .. CashQuant - 1 :
        r = (k * CashQuant) % CashQuant /\ k * CashQuant = n * CashQuant + r
  BY <1>2
<1>4. (k - n) * CashQuant = r
  BY <1>1, <1>3
<1>5. CASE k - n >= 1
  <2>1. (k - n) * CashQuant >= CashQuant
    BY <1>1, <1>5
  <2>. QED
    BY <1>1, <1>3, <1>4, <2>1
<1>6. CASE k - n <= -1
  <2>1. (k - n) * CashQuant <= -CashQuant
    BY <1>1, <1>6
  <2>. QED
    BY <1>1, <1>3, <1>4, <2>1
<1>7. CASE k - n = 0
  BY <1>1, <1>3, <1>4, <1>7 DEF LedgerAmounts
<1>. QED
  BY <1>5, <1>6, <1>7

\* The amounts of the ledger are the multiples of 0.0001.
LEMMA AmountsAreMultiples ==
  ASSUME NEW x \in LedgerAmounts
  PROVE  x \in Int /\ \E k \in Int : x = k * CashQuant
<1>1. x \in Int /\ x % CashQuant = 0
  BY DEF LedgerAmounts
<1>2. PICK n \in Int : \E r \in 0 .. CashQuant - 1 : r = x % CashQuant /\ x = n * CashQuant + r
  BY <1>1, QuantaAndRest
<1>3. x = n * CashQuant
  BY <1>1, <1>2, BrokerCashAssumption
<1>. QED
  BY <1>1, <1>3

\* They can be added and subtracted, and zero is one of them.
LEMMA AmountsAddUp ==
  ASSUME NEW x \in LedgerAmounts, NEW y \in LedgerAmounts
  PROVE  /\ x + y \in LedgerAmounts /\ x - y \in LedgerAmounts /\ -x \in LedgerAmounts
         /\ 0 \in LedgerAmounts
<1>1. PICK k \in Int : x = k * CashQuant
  BY AmountsAreMultiples
<1>2. PICK l \in Int : y = l * CashQuant
  BY AmountsAreMultiples
<1>3. /\ x + y = (k + l) * CashQuant /\ x - y = (k - l) * CashQuant /\ -x = (-k) * CashQuant
      /\ 0 = 0 * CashQuant
  BY <1>1, <1>2, BrokerCashAssumption
<1>4. k + l \in Int /\ k - l \in Int /\ -k \in Int
  OBVIOUS
<1>. QED
  BY <1>3, <1>4, MultiplesAreAmounts

\* Rounding gives an amount of the ledger.
LEMMA QuantizedIs ==
  ASSUME NEW x \in Int
  PROVE  Quantized(x) \in LedgerAmounts /\ Quantized(x) \in Int
<1>1. PICK n \in Int : \E r \in 0 .. CashQuant - 1 : r = x % CashQuant /\ x = n * CashQuant + r
  BY QuantaAndRest
<1>2. x % CashQuant \in Int /\ x - (x % CashQuant) = n * CashQuant
  BY <1>1, BrokerCashAssumption
<1>3. x - (x % CashQuant) \in LedgerAmounts
  BY <1>2, MultiplesAreAmounts
<1>4. CashQuant \in LedgerAmounts
  <2>1. 1 * CashQuant = CashQuant
    BY BrokerCashAssumption
  <2>. QED
    BY <2>1, MultiplesAreAmounts
<1>5. x - (x % CashQuant) + CashQuant \in LedgerAmounts
  BY <1>3, <1>4, AmountsAddUp
<1>6. x - (x % CashQuant) + 0 = x - (x % CashQuant)
  BY <1>2
<1>7. Quantized(x) \in LedgerAmounts
  BY <1>3, <1>5, <1>6 DEF Quantized
<1>. QED
  BY <1>7 DEF LedgerAmounts

\* An amount of the ledger stays as it is.
LEMMA AmountsStay ==
  ASSUME NEW x \in LedgerAmounts
  PROVE  Quantized(x) = x
BY BrokerCashAssumption DEF Quantized, LedgerAmounts

\* Rounding does not go below an amount of the ledger.
LEMMA RoundsNotBelow ==
  ASSUME NEW x \in Int, NEW a \in LedgerAmounts, a <= x
  PROVE  a <= Quantized(x)
<1>1. PICK n \in Int : \E r \in 0 .. CashQuant - 1 : r = x % CashQuant /\ x = n * CashQuant + r
  BY QuantaAndRest
<1>2. a \in Int /\ \E k \in Int : a = k * CashQuant
  BY AmountsAreMultiples
<1>6. PICK k \in Int : a = k * CashQuant
  BY <1>2
<1>3. x % CashQuant \in 0 .. CashQuant - 1 /\ CashQuant \in Nat \ {0}
  BY BrokerCashAssumption
<1>4. CASE k >= n + 1
  <2>1. k * CashQuant >= (n + 1) * CashQuant
    BY <1>3, <1>4
  <2>2. (n + 1) * CashQuant = n * CashQuant + CashQuant
    BY <1>3
  <2>. QED
    BY <1>1, <1>2, <1>6, <1>3, <2>1, <2>2
<1>5. CASE k <= n
  <2>1. k * CashQuant <= n * CashQuant /\ n * CashQuant \in Int /\ k * CashQuant \in Int
    BY <1>3, <1>5
  <2>2. n * CashQuant = x - (x % CashQuant)
    BY <1>1, <1>3
  <2>3. a <= x - (x % CashQuant)
    BY <1>1, <1>2, <1>6, <2>1, <2>2
  <2>. QED
    BY <1>2, <1>3, <2>3 DEF Quantized
<1>. QED
  BY <1>4, <1>5

\* What a row is: entered by hand, linked to a trade, or a leg of a transfer.
IsManual(row) == row.type \in ManualTypes /\ row.txn = Null /\ row.group = Null
IsLinked(row) == /\ row.type \in SettlementTypes \cup {"TAX_WITHHELD"} /\ row.txn # Null
                 /\ row.group = Null /\ row.reverses = Null
IsLeg(row) == /\ row.type \in {"TRANSFER_IN", "TRANSFER_OUT"} /\ row.group # Null
              /\ row.txn = Null /\ row.reverses = Null

Rows(ps, gs) ==
  [portfolio : ps, day : Days, currency : Currencies, type : CashEntryTypes, amount : Int,
   text : Texts \cup {NoText, ReversalText}, txn : Nat, group : Nat, reverses : Nat]

RowOK(row, ps, gs) ==
  /\ row \in Rows(ps, gs) /\ ValidAmountSign(row.type, row.amount)
  /\ row.amount \in LedgerAmounts
  /\ row.group \in gs \cup {Null}
  /\ IsManual(row) \/ IsLinked(row) \/ IsLeg(row)

BookOK(book, ps, gs) == IsTable(book) /\ \A i \in DOMAIN book : RowOK(book[i], ps, gs)

\* The properties of the ledger, of any book.
Mirrors(book) ==
  \A j \in DOMAIN book : book[j].reverses # Null =>
    LET i == book[j].reverses
    IN  /\ i \in DOMAIN book /\ book[i].reverses = Null
        /\ book[i].portfolio = book[j].portfolio /\ book[i].currency = book[j].currency
        /\ book[i].amount = -book[j].amount /\ book[i].type = OppositeType(book[j].type)
        /\ \A k \in DOMAIN book : book[k].reverses = i => k = j

LegsMatch(book, g, group) ==
  \E out, in \in DOMAIN book :
    /\ {i \in DOMAIN book : book[i].group = g} = {out, in}
    /\ book[out].type = "TRANSFER_OUT" /\ book[in].type = "TRANSFER_IN"
    /\ book[out].portfolio = group.source /\ book[in].portfolio = group.target
    /\ book[out].currency = group.source_currency
    /\ book[in].currency = group.target_currency
    /\ book[out].amount = -group.source_amount
    /\ book[in].amount = group.target_amount
    /\ book[out].day = group.day /\ book[in].day = group.day
Legs(book, gs) == \A g \in DOMAIN gs : LegsMatch(book, g, gs[g])

\* The rows of a trade: none, a buy or a sale, or a sale with its tax.
Alike(row, other) ==
  row.portfolio = other.portfolio /\ row.day = other.day /\ row.currency = other.currency
Settled(book, t) ==
  \/ LinkedRows(book, t) = {}
  \/ \E k \in DOMAIN book :
       LinkedRows(book, t) = {k} /\ book[k].type \in SettlementTypes
  \/ \E k, x \in DOMAIN book :
       /\ LinkedRows(book, t) = {k, x} /\ Alike(book[x], book[k])
       /\ book[k].type = "SELL_SETTLEMENT" /\ book[x].type = "TAX_WITHHELD"
AllSettled(book, trs) ==
  /\ \A i \in DOMAIN book : book[i].txn # Null => book[i].txn \in DOMAIN trs
  /\ \A t \in DOMAIN trs : Settled(book, t)

\* The invariant of the ledger.
LedgerOK(book, trs, ps, gs) ==
  BookOK(book, ps, DOMAIN gs) /\ Mirrors(book) /\ Legs(book, gs) /\ AllSettled(book, trs)

\* Two books with the same reversals and reversed rows, the same legs of transfers, the
\* same linked rows.
SamePairs(b, n) ==
  /\ \A i \in DOMAIN b : b[i].reverses # Null \/ IsReversed(b, i) =>
       i \in DOMAIN n /\ n[i] = b[i]
  /\ \A i \in DOMAIN n : n[i].reverses # Null => i \in DOMAIN b /\ b[i] = n[i]
SameLegs(b, n) ==
  /\ \A i \in DOMAIN b : b[i].group # Null => i \in DOMAIN n /\ n[i] = b[i]
  /\ \A i \in DOMAIN n : n[i].group # Null => i \in DOMAIN b /\ b[i] = n[i]
SameLinked(b, n) ==
  /\ \A i \in DOMAIN b : b[i].txn # Null => i \in DOMAIN n /\ n[i] = b[i]
  /\ \A i \in DOMAIN n : n[i].txn # Null => i \in DOMAIN b /\ b[i] = n[i]
SameBut(b, n, t) ==
  /\ \A i \in DOMAIN b : b[i].txn # t => i \in DOMAIN n /\ n[i] = b[i]
  /\ \A i \in DOMAIN n : n[i].txn # t => i \in DOMAIN b /\ b[i] = n[i]

\* Reversals stay true as long as neither half of a pair is touched.
LEMMA PairsKept ==
  ASSUME NEW b, NEW n, Mirrors(b), SamePairs(b, n)
  PROVE  Mirrors(n)
<1>. SUFFICES ASSUME NEW j \in DOMAIN n, n[j].reverses # Null, NEW i, i = n[j].reverses
              PROVE  /\ i \in DOMAIN n /\ n[i].reverses = Null
                     /\ n[i].portfolio = n[j].portfolio /\ n[i].currency = n[j].currency
                     /\ n[i].amount = -n[j].amount /\ n[i].type = OppositeType(n[j].type)
                     /\ \A k \in DOMAIN n : n[k].reverses = i => k = j
  BY DEF Mirrors
<1>1. j \in DOMAIN b /\ b[j] = n[j]
  BY DEF SamePairs
<1>2. /\ i \in DOMAIN b /\ b[i].reverses = Null
      /\ b[i].portfolio = b[j].portfolio /\ b[i].currency = b[j].currency
      /\ b[i].amount = -b[j].amount /\ b[i].type = OppositeType(b[j].type)
      /\ \A k \in DOMAIN b : b[k].reverses = i => k = j
  BY <1>1 DEF Mirrors
<1>3. IsReversed(b, i)
  BY <1>1 DEF IsReversed
<1>4. i \in DOMAIN n /\ n[i] = b[i]
  BY <1>2, <1>3 DEF SamePairs
<1>5. ASSUME NEW k \in DOMAIN n, n[k].reverses = i
      PROVE  k = j
  <2>1. n[k].reverses # Null
    BY <1>5
  <2>2. k \in DOMAIN b /\ b[k] = n[k]
    BY <2>1 DEF SamePairs
  <2>. QED
    BY <1>2, <1>5, <2>2
<1>. QED
  BY <1>1, <1>2, <1>4, <1>5

\* Transfers keep their legs as long as no leg is touched.
LEMMA LegsKept ==
  ASSUME NEW b, NEW n, NEW gs, \A g \in DOMAIN gs : g # Null, Legs(b, gs), SameLegs(b, n)
  PROVE  Legs(n, gs)
<1>. SUFFICES ASSUME NEW g \in DOMAIN gs PROVE LegsMatch(n, g, gs[g])
  BY DEF Legs
<1>1. PICK out, in \in DOMAIN b :
    /\ {i \in DOMAIN b : b[i].group = g} = {out, in}
    /\ b[out].type = "TRANSFER_OUT" /\ b[in].type = "TRANSFER_IN"
    /\ b[out].portfolio = gs[g].source /\ b[in].portfolio = gs[g].target
    /\ b[out].currency = gs[g].source_currency
    /\ b[in].currency = gs[g].target_currency
    /\ b[out].amount = -gs[g].source_amount
    /\ b[in].amount = gs[g].target_amount
    /\ b[out].day = gs[g].day /\ b[in].day = gs[g].day
  BY DEF Legs, LegsMatch
<1>2. b[out].group = g /\ b[in].group = g
  BY <1>1
<1>3. out \in DOMAIN n /\ n[out] = b[out] /\ in \in DOMAIN n /\ n[in] = b[in]
  BY <1>2 DEF SameLegs
<1>4. {i \in DOMAIN n : n[i].group = g} = {i \in DOMAIN b : b[i].group = g}
  BY DEF SameLegs
<1>. QED
  BY <1>1, <1>3, <1>4 DEF LegsMatch

\* The rows of a trade stay what they are if no row of it is touched.
LEMMA SettledKept ==
  ASSUME NEW b, NEW n, NEW t,
         \A i \in DOMAIN b : b[i].txn = t => i \in DOMAIN n /\ n[i] = b[i],
         \A i \in DOMAIN n : n[i].txn = t => i \in DOMAIN b /\ b[i] = n[i],
         Settled(b, t)
  PROVE  Settled(n, t)
<1>1. LinkedRows(n, t) = LinkedRows(b, t)
  BY DEF LinkedRows
<1>2. \A i \in LinkedRows(b, t) : i \in DOMAIN n /\ n[i] = b[i]
  BY DEF LinkedRows
<1>3. CASE LinkedRows(b, t) = {}
  BY <1>1, <1>3 DEF Settled
<1>4. CASE \E k \in DOMAIN b : LinkedRows(b, t) = {k} /\ b[k].type \in SettlementTypes
  <2>1. PICK k \in DOMAIN b : LinkedRows(b, t) = {k} /\ b[k].type \in SettlementTypes
    BY <1>4
  <2>2. k \in DOMAIN n /\ n[k] = b[k]
    BY <1>2, <2>1
  <2>. QED
    BY <1>1, <2>1, <2>2 DEF Settled
<1>5. CASE \E k, x \in DOMAIN b :
             /\ LinkedRows(b, t) = {k, x} /\ Alike(b[x], b[k])
             /\ b[k].type = "SELL_SETTLEMENT" /\ b[x].type = "TAX_WITHHELD"
  <2>1. PICK k, x \in DOMAIN b :
             /\ LinkedRows(b, t) = {k, x} /\ Alike(b[x], b[k])
             /\ b[k].type = "SELL_SETTLEMENT" /\ b[x].type = "TAX_WITHHELD"
    BY <1>5
  <2>2. k \in DOMAIN n /\ n[k] = b[k] /\ x \in DOMAIN n /\ n[x] = b[x]
    BY <1>2, <2>1
  <2>3. /\ LinkedRows(n, t) = {k, x} /\ Alike(n[x], n[k])
        /\ n[k].type = "SELL_SETTLEMENT" /\ n[x].type = "TAX_WITHHELD"
    BY <1>1, <2>1, <2>2
  <2>. QED
    BY <2>2, <2>3 DEF Settled
<1>. QED
  BY <1>3, <1>4, <1>5 DEF Settled

\* No manual request touches a linked row.
LEMMA LinkedKept ==
  ASSUME NEW b, NEW n, NEW trs, AllSettled(b, trs), SameLinked(b, n),
         \A t \in DOMAIN trs : t # Null
  PROVE  AllSettled(n, trs)
<1>1. \A i \in DOMAIN n : n[i].txn # Null => n[i].txn \in DOMAIN trs
  BY DEF AllSettled, SameLinked
<1>2. ASSUME NEW t \in DOMAIN trs
      PROVE  Settled(n, t)
  <2>1. Settled(b, t)
    BY DEF AllSettled
  <2>2. \A i \in DOMAIN b : b[i].txn = t => i \in DOMAIN n /\ n[i] = b[i]
    BY DEF SameLinked
  <2>3. \A i \in DOMAIN n : n[i].txn = t => i \in DOMAIN b /\ b[i] = n[i]
    BY DEF SameLinked
  <2>. QED
    BY <2>1, <2>2, <2>3, SettledKept
<1>. QED
  BY <1>1, <1>2 DEF AllSettled

\* What the rows with a reversal, a group or a trade look like.
LEMMA RowsAre ==
  ASSUME NEW book, NEW ps, NEW gs, BookOK(book, ps, gs), NEW i \in DOMAIN book
  PROVE  /\ i \in Nat \ {0} /\ book[i] \in Rows(ps, gs)
         /\ book[i].reverses # Null => IsManual(book[i])
         /\ book[i].group # Null => IsLeg(book[i])
         /\ book[i].txn # Null => IsLinked(book[i])
         /\ IsManual(book[i]) => book[i].txn = Null /\ book[i].group = Null
<1>1. RowOK(book[i], ps, gs) /\ i \in Nat \ {0}
  BY DEF BookOK, IsTable
<1>. QED
  BY <1>1 DEF RowOK, IsManual, IsLinked, IsLeg

\* A row that was reversed was entered by hand.
LEMMA ReversedIsManual ==
  ASSUME NEW book, NEW ps, NEW gs, BookOK(book, ps, gs), Mirrors(book),
         NEW i \in DOMAIN book, IsReversed(book, i)
  PROVE  IsManual(book[i])
<1>1. PICK j \in DOMAIN book : book[j].reverses = i
  BY DEF IsReversed
<1>2. i # Null
  BY RowsAre DEF Null
<1>3. book[i].type = OppositeType(book[j].type)
  BY <1>1, <1>2 DEF Mirrors
<1>4. RowOK(book[i], ps, gs)
  BY DEF BookOK
<1>. QED
  BY <1>3, <1>4 DEF RowOK, OppositeType, IsManual, IsLinked, IsLeg, SettlementTypes

\* The settlement of one trade leaves reversals and transfers alone.
LEMMA SettlingKeeps ==
  ASSUME NEW b, NEW n, NEW trs, NEW ps, NEW gs, NEW t, t # Null,
         \A g \in DOMAIN gs : g # Null,
         LedgerOK(b, trs, ps, gs), BookOK(n, ps, DOMAIN gs), SameBut(b, n, t)
  PROVE  Mirrors(n) /\ Legs(n, gs)
<1>1. BookOK(b, ps, DOMAIN gs) /\ Mirrors(b) /\ Legs(b, gs)
  BY DEF LedgerOK
<1>2. SamePairs(b, n)
  <2>1. \A i \in DOMAIN b : b[i].reverses # Null \/ IsReversed(b, i) => b[i].txn # t
    BY <1>1, RowsAre, ReversedIsManual
  <2>2. \A i \in DOMAIN n : n[i].reverses # Null => n[i].txn # t
    BY RowsAre
  <2>. QED
    BY <2>1, <2>2 DEF SamePairs, SameBut
<1>3. SameLegs(b, n)
  <2>1. \A i \in DOMAIN b : b[i].group # Null => b[i].txn # t
    BY <1>1, RowsAre DEF IsLeg
  <2>2. \A i \in DOMAIN n : n[i].group # Null => n[i].txn # t
    BY RowsAre DEF IsLeg
  <2>. QED
    BY <2>1, <2>2 DEF SameLegs, SameBut
<1>. QED
  BY <1>1, <1>2, <1>3, PairsKept, LegsKept

\* And the rows of the other trades.
LEMMA OthersKept ==
  ASSUME NEW b, NEW n, NEW trs, NEW ps, NEW gs, NEW t, t # Null,
         \A g \in DOMAIN gs : g # Null,
         LedgerOK(b, trs, ps, gs), BookOK(n, ps, DOMAIN gs), SameBut(b, n, t),
         NEW trs2, DOMAIN trs \ {t} \subseteq DOMAIN trs2,
         \A u \in DOMAIN trs2 : u \in DOMAIN trs \/ u = t,
         t \in DOMAIN trs2 \/ LinkedRows(n, t) = {}, Settled(n, t)
  PROVE  LedgerOK(n, trs2, ps, gs)
<1>1. Mirrors(n) /\ Legs(n, gs)
  BY SettlingKeeps
<1>2. AllSettled(b, trs)
  BY DEF LedgerOK
<1>3. ASSUME NEW i \in DOMAIN n, n[i].txn # Null
      PROVE  n[i].txn \in DOMAIN trs2
  <2>1. CASE n[i].txn = t
    BY <2>1 DEF LinkedRows
  <2>2. CASE n[i].txn # t
    <3>1. i \in DOMAIN b /\ b[i] = n[i]
      BY <2>2 DEF SameBut
    <3>2. n[i].txn \in DOMAIN trs
      BY <1>2, <1>3, <3>1 DEF AllSettled
    <3>. QED
      BY <2>2, <3>2
  <2>. QED
    BY <2>1, <2>2
<1>4. ASSUME NEW u \in DOMAIN trs2
      PROVE  Settled(n, u)
  <2>1. CASE u = t
    BY <2>1
  <2>2. CASE u # t
    <3>1. Settled(b, u)
      BY <1>2, <2>2 DEF AllSettled
    <3>2. /\ \A i \in DOMAIN b : b[i].txn = u => i \in DOMAIN n /\ n[i] = b[i]
          /\ \A i \in DOMAIN n : n[i].txn = u => i \in DOMAIN b /\ b[i] = n[i]
      BY <2>2 DEF SameBut
    <3>. QED
      BY <3>1, <3>2, SettledKept
  <2>. QED
    BY <2>1, <2>2
<1>. QED
  BY <1>1, <1>3, <1>4 DEF LedgerOK, AllSettled

-----------------------------------------------------------------------------
(* Entries made by hand *)

\* A change that touches only entries which are neither reversed nor a reversal.
LEMMA ManualChange ==
  ASSUME NEW b, NEW n, NEW trs, NEW ps, NEW gs,
         \A g \in DOMAIN gs : g # Null, \A t \in DOMAIN trs : t # Null,
         LedgerOK(b, trs, ps, gs), BookOK(n, ps, DOMAIN gs),
         SamePairs(b, n), SameLegs(b, n), SameLinked(b, n)
  PROVE  LedgerOK(n, trs, ps, gs)
<1>1. BookOK(b, ps, DOMAIN gs) /\ Mirrors(b) /\ Legs(b, gs) /\ AllSettled(b, trs)
  BY DEF LedgerOK
<1>2. Mirrors(n) /\ Legs(n, gs) /\ AllSettled(n, trs)
  BY <1>1, PairsKept, LegsKept, LinkedKept
<1>. QED
  BY <1>2 DEF LedgerOK

\* A row linked to no trade leaves the rows of the trades.
LEMMA UnlinkedInserted ==
  ASSUME NEW b, IsTable(b), NEW row, row.txn = Null
  PROVE  IsTable(InsertRow(b, row)) /\ SameLinked(b, InsertRow(b, row))
<1>1. PICK n : n = InsertRow(b, row)
  OBVIOUS
<1>2. Inserted(b, row, NewId(b), n)
  BY <1>1, OneInserted
<1>. QED
  BY <1>1, <1>2 DEF Inserted, SameLinked

\* Entries that are added.
LEMMA ManualInserted ==
  ASSUME NEW b, NEW trs, NEW ps, NEW gs,
         \A g \in DOMAIN gs : g # Null, \A t \in DOMAIN trs : t # Null,
         LedgerOK(b, trs, ps, gs),
         NEW n \in Nat, NEW rows, DOMAIN rows = 1 .. n,
         \A k \in 1 .. n : /\ RowOK(rows[k], ps, DOMAIN gs)
                           /\ IsManual(rows[k]) /\ rows[k].reverses = Null,
         NEW result, result = InsertRows(b, rows)
  PROVE  LedgerOK(result, trs, ps, gs) /\ SameLinked(b, result)
<1>1. BookOK(b, ps, DOMAIN gs)
  BY DEF LedgerOK
<1>2. PICK id : id = NewId(b)
  OBVIOUS
<1>3. /\ IsTable(result)
      /\ DOMAIN b \subseteq DOMAIN result
      /\ \A i \in DOMAIN b : result[i] = b[i]
      /\ \A i \in DOMAIN result \ DOMAIN b :
           i - id + 1 \in 1 .. n /\ result[i] = rows[i - id + 1]
  BY <1>1, <1>2, SomeInserted DEF BookOK
<1>4. \A i \in DOMAIN result \ DOMAIN b :
        /\ RowOK(result[i], ps, DOMAIN gs) /\ IsManual(result[i]) /\ result[i].reverses = Null
  BY <1>3
<1>5. BookOK(result, ps, DOMAIN gs)
  BY <1>1, <1>3, <1>4 DEF BookOK
<1>6. SamePairs(b, result)
  BY <1>3, <1>4 DEF SamePairs
<1>7. SameLegs(b, result) /\ SameLinked(b, result)
  BY <1>3, <1>4 DEF SameLegs, SameLinked, IsManual
<1>. QED
  BY <1>5, <1>6, <1>7, ManualChange

\* One entry more.
LEMMA ManualRowInserted ==
  ASSUME NEW b, NEW trs, NEW ps, NEW gs,
         \A g \in DOMAIN gs : g # Null, \A t \in DOMAIN trs : t # Null,
         LedgerOK(b, trs, ps, gs),
         NEW row, RowOK(row, ps, DOMAIN gs), IsManual(row), row.reverses = Null,
         NEW n, n = InsertRow(b, row)
  PROVE  LedgerOK(n, trs, ps, gs) /\ SameLinked(b, n)
<1>1. BookOK(b, ps, DOMAIN gs)
  BY DEF LedgerOK
<1>2. PICK id : id = NewId(b)
  OBVIOUS
<1>3. /\ IsTable(n) /\ DOMAIN n = DOMAIN b \cup {id} /\ id \notin DOMAIN b /\ n[id] = row
      /\ \A i \in DOMAIN b : n[i] = b[i]
  <2>1. IsTable(b)
    BY <1>1 DEF BookOK
  <2>2. Inserted(b, row, id, n)
    BY <1>2, <2>1, OneInserted
  <2>. QED
    BY <2>2 DEF Inserted
<1>4. BookOK(n, ps, DOMAIN gs)
  BY <1>1, <1>3 DEF BookOK
<1>5. SamePairs(b, n)
  BY <1>3 DEF SamePairs
<1>6. SameLegs(b, n) /\ SameLinked(b, n)
  BY <1>3 DEF SameLegs, SameLinked, IsManual
<1>. QED
  BY <1>4, <1>5, <1>6, ManualChange

\* An entry that is edited, or deleted.
LEMMA ManualTouched ==
  ASSUME NEW b, NEW trs, NEW ps, NEW gs,
         \A g \in DOMAIN gs : g # Null, \A t \in DOMAIN trs : t # Null,
         LedgerOK(b, trs, ps, gs), NEW i \in DOMAIN b, ManualEditable(b, i),
         NEW n, IsTable(n), DOMAIN n \subseteq DOMAIN b,
         \A j \in DOMAIN b : j # i => j \in DOMAIN n /\ n[j] = b[j],
         i \in DOMAIN n => /\ RowOK(n[i], ps, DOMAIN gs)
                           /\ IsManual(n[i]) /\ n[i].reverses = Null
  PROVE  LedgerOK(n, trs, ps, gs) /\ SameLinked(b, n)
<1>1. BookOK(b, ps, DOMAIN gs)
  BY DEF LedgerOK
<1>2. b[i].txn = Null /\ b[i].group = Null /\ b[i].reverses = Null /\ ~IsReversed(b, i)
  BY DEF ManualEditable
<1>3. BookOK(n, ps, DOMAIN gs)
  <2>1. \A j \in DOMAIN n : RowOK(n[j], ps, DOMAIN gs)
    BY <1>1 DEF BookOK
  <2>. QED
    BY <2>1 DEF BookOK
<1>4. SamePairs(b, n)
  BY <1>2 DEF SamePairs
<1>5. SameLegs(b, n) /\ SameLinked(b, n)
  BY <1>2 DEF SameLegs, SameLinked, IsManual
<1>. QED
  BY <1>3, <1>4, <1>5, ManualChange

\* An entry that gets its reversal.
LEMMA ManualReversed ==
  ASSUME NEW b, NEW trs, NEW ps, NEW gs,
         \A g \in DOMAIN gs : g # Null, \A t \in DOMAIN trs : t # Null,
         LedgerOK(b, trs, ps, gs), NEW i \in DOMAIN b, ManualEditable(b, i),
         NEW row, RowOK(row, ps, DOMAIN gs), IsManual(row), row.reverses = i,
         row.portfolio = b[i].portfolio, row.currency = b[i].currency,
         b[i].amount = -row.amount, b[i].type = OppositeType(row.type),
         NEW n, n = InsertRow(b, row)
  PROVE  LedgerOK(n, trs, ps, gs) /\ SameLinked(b, n)
<1>1. BookOK(b, ps, DOMAIN gs) /\ Mirrors(b) /\ Legs(b, gs) /\ AllSettled(b, trs)
  BY DEF LedgerOK
<1>2. PICK id : id = NewId(b)
  OBVIOUS
<1>3. /\ IsTable(n) /\ DOMAIN n = DOMAIN b \cup {id} /\ id \notin DOMAIN b /\ n[id] = row
      /\ \A j \in DOMAIN b : n[j] = b[j]
  <2>1. IsTable(b)
    BY <1>1 DEF BookOK
  <2>2. Inserted(b, row, id, n)
    BY <1>2, <2>1, OneInserted
  <2>. QED
    BY <2>2 DEF Inserted
<1>4. BookOK(n, ps, DOMAIN gs)
  BY <1>1, <1>3 DEF BookOK
<1>5. SameLegs(b, n) /\ SameLinked(b, n)
  BY <1>3 DEF SameLegs, SameLinked, IsManual
<1>6. Legs(n, gs) /\ AllSettled(n, trs)
  BY <1>1, <1>5, LegsKept, LinkedKept
<1>7. b[i].reverses = Null /\ ~IsReversed(b, i)
  BY DEF ManualEditable
<1>8. ASSUME NEW j \in DOMAIN n, n[j].reverses # Null, NEW e, e = n[j].reverses
      PROVE  /\ e \in DOMAIN n /\ n[e].reverses = Null
             /\ n[e].portfolio = n[j].portfolio /\ n[e].currency = n[j].currency
             /\ n[e].amount = -n[j].amount /\ n[e].type = OppositeType(n[j].type)
             /\ \A k \in DOMAIN n : n[k].reverses = e => k = j
  <2>1. CASE j = id
    <3>1. e = i /\ n[e] = b[i]
      BY <1>3, <1>8, <2>1
    <3>2. \A k \in DOMAIN n : n[k].reverses = i => k = id
      BY <1>3, <1>7 DEF IsReversed
    <3>. QED
      BY <1>3, <1>7, <2>1, <3>1, <3>2
  <2>2. CASE j \in DOMAIN b
    <3>1. n[j] = b[j] /\ e = b[j].reverses
      BY <1>3, <1>8, <2>2
    <3>2. /\ e \in DOMAIN b /\ b[e].reverses = Null
          /\ b[e].portfolio = b[j].portfolio /\ b[e].currency = b[j].currency
          /\ b[e].amount = -b[j].amount /\ b[e].type = OppositeType(b[j].type)
          /\ \A k \in DOMAIN b : b[k].reverses = e => k = j
      BY <1>1, <1>8, <2>2, <3>1 DEF Mirrors
    <3>3. e # i
      BY <1>7, <2>2, <3>1 DEF IsReversed
    <3>4. \A k \in DOMAIN n : n[k].reverses = e => k = j
      BY <1>3, <3>2, <3>3
    <3>. QED
      BY <1>3, <3>1, <3>2, <3>4
  <2>. QED
    BY <1>3, <2>1, <2>2
<1>9. Mirrors(n)
  BY <1>8 DEF Mirrors
<1>. QED
  BY <1>4, <1>5, <1>6, <1>9 DEF LedgerOK

\* More portfolios, and more transfer groups, change nothing for the rows there are.
LEMMA RowsStillOK ==
  ASSUME NEW book, NEW ps, NEW gs, BookOK(book, ps, gs),
         NEW ps2, ps \subseteq ps2, NEW gs2, gs \subseteq gs2
  PROVE  BookOK(book, ps2, gs2)
<1>. SUFFICES ASSUME NEW i \in DOMAIN book PROVE RowOK(book[i], ps2, gs2)
  BY DEF BookOK
<1>1. RowOK(book[i], ps, gs)
  BY DEF BookOK
<1>2. book[i] \in Rows(ps, gs) => book[i] \in Rows(ps2, gs2)
  BY DEF Rows
<1>. QED
  BY <1>1, <1>2 DEF RowOK

\* A transfer adds a group and its two legs.
LEMMA TransferInserted ==
  ASSUME NEW b, NEW trs, NEW ps, NEW gs, NEW gs2, NEW g, g # Null,
         DOMAIN gs2 = DOMAIN gs \cup {g}, g \notin DOMAIN gs,
         \A h \in DOMAIN gs : h # Null /\ gs2[h] = gs[h],
         \A t \in DOMAIN trs : t # Null, LedgerOK(b, trs, ps, gs),
         NEW out, RowOK(out, ps, {g}), IsLeg(out), out.type = "TRANSFER_OUT",
         NEW in, RowOK(in, ps, {g}), IsLeg(in), in.type = "TRANSFER_IN",
         out.portfolio = gs2[g].source, in.portfolio = gs2[g].target,
         out.currency = gs2[g].source_currency, in.currency = gs2[g].target_currency,
         out.amount = -gs2[g].source_amount, in.amount = gs2[g].target_amount,
         out.day = gs2[g].day, in.day = gs2[g].day,
         NEW n, n = InsertRow(InsertRow(b, out), in)
  PROVE  LedgerOK(n, trs, ps, gs2)
<1>1. BookOK(b, ps, DOMAIN gs) /\ Mirrors(b) /\ Legs(b, gs) /\ AllSettled(b, trs)
  BY DEF LedgerOK
<1>2. PICK m : m = InsertRow(b, out)
  OBVIOUS
<1>3. PICK x, y : x = NewId(b) /\ y = NewId(m)
  OBVIOUS
<1>4. /\ IsTable(m) /\ DOMAIN m = DOMAIN b \cup {x} /\ x \notin DOMAIN b /\ m[x] = out
      /\ \A i \in DOMAIN b : m[i] = b[i]
  <2>1. IsTable(b)
    BY <1>1 DEF BookOK
  <2>2. Inserted(b, out, x, m)
    BY <2>1, <1>2, <1>3, OneInserted
  <2>. QED
    BY <2>2 DEF Inserted
<1>5. /\ IsTable(n) /\ DOMAIN n = DOMAIN m \cup {y} /\ y \notin DOMAIN m /\ n[y] = in
      /\ \A i \in DOMAIN m : n[i] = m[i]
  <2>1. n = InsertRow(m, in)
    BY <1>2
  <2>2. Inserted(m, in, y, n)
    BY <2>1, <1>3, <1>4, OneInserted
  <2>. QED
    BY <2>2 DEF Inserted
<1>6. /\ DOMAIN n = DOMAIN b \cup {x, y} /\ x \notin DOMAIN b /\ y \notin DOMAIN b
      /\ n[x] = out /\ n[y] = in /\ \A i \in DOMAIN b : n[i] = b[i]
  BY <1>4, <1>5
<1>7. out.group = g /\ in.group = g
  BY DEF RowOK, IsLeg
<1>8. BookOK(n, ps, DOMAIN gs2)
  <2>1. BookOK(b, ps, DOMAIN gs2)
    BY <1>1, RowsStillOK
  <2>2. RowOK(out, ps, DOMAIN gs2) /\ RowOK(in, ps, DOMAIN gs2)
    BY DEF RowOK, Rows
  <2>. QED
    BY <1>5, <1>6, <2>1, <2>2 DEF BookOK
<1>9. SamePairs(b, n)
  BY <1>6 DEF SamePairs, IsLeg
<1>10. SameLinked(b, n)
  BY <1>6 DEF SameLinked, IsLeg
<1>11. ASSUME NEW h \in DOMAIN gs
       PROVE  LegsMatch(n, h, gs2[h])
  <2>1. PICK o, e \in DOMAIN b :
      /\ {i \in DOMAIN b : b[i].group = h} = {o, e}
      /\ b[o].type = "TRANSFER_OUT" /\ b[e].type = "TRANSFER_IN"
      /\ b[o].portfolio = gs[h].source /\ b[e].portfolio = gs[h].target
      /\ b[o].currency = gs[h].source_currency
      /\ b[e].currency = gs[h].target_currency
      /\ b[o].amount = -gs[h].source_amount
      /\ b[e].amount = gs[h].target_amount
      /\ b[o].day = gs[h].day /\ b[e].day = gs[h].day
    BY <1>1 DEF Legs, LegsMatch
  <2>2. {i \in DOMAIN n : n[i].group = h} = {i \in DOMAIN b : b[i].group = h}
    BY <1>6, <1>7
  <2>3. n[o] = b[o] /\ n[e] = b[e] /\ o \in DOMAIN n /\ e \in DOMAIN n /\ gs2[h] = gs[h]
    BY <1>6
  <2>. QED
    BY <2>1, <2>2, <2>3 DEF LegsMatch
<1>12. LegsMatch(n, g, gs2[g])
  <2>1. \A i \in DOMAIN b : b[i].group # g
    BY <1>1 DEF BookOK, RowOK
  <2>2. {i \in DOMAIN n : n[i].group = g} = {x, y}
    BY <1>6, <1>7, <2>1
  <2>. QED
    BY <1>6, <2>2 DEF LegsMatch
<1>13. Legs(n, gs2)
  BY <1>11, <1>12 DEF Legs
<1>. QED
  BY <1>1, <1>8, <1>9, <1>10, <1>13, PairsKept, LinkedKept DEF LedgerOK

-----------------------------------------------------------------------------
(* The invariant, and the requests of the broker ledger *)

GroupRow == [source : Nat, target : Nat, day : Days, source_currency : Currencies,
             source_amount : Amounts, target_currency : Currencies, target_amount : Amounts]

TradeOK(trade, ps) ==
  \E p \in ps, kind \in Kinds : \E input \in TradeInputs(kind) : trade = InPortfolio(input, p)
TradesOK(trs, ps) == IsTable(trs) /\ \A t \in DOMAIN trs : TradeOK(trs[t], ps)

LInv ==
  /\ RegistryInv /\ groups \in Seq(GroupRow)
  /\ TradesOK(trades, Portfolios)
  /\ LedgerOK(cash, trades, Portfolios, groups)

\* What the invariant says of the keys, and of the types of what is stored.
LEMMA Keys ==
  ASSUME LInv
  PROVE  /\ \A g \in DOMAIN groups : g # Null
         /\ \A t \in DOMAIN trades : t # Null
         /\ Len(groups) \in Nat /\ DOMAIN groups = 1 .. Len(groups)
         /\ Portfolios = 1 .. Len(portfolios) /\ Len(portfolios) \in Nat
         /\ IsTable(trades) /\ BookOK(cash, Portfolios, DOMAIN groups) /\ IsTable(cash)
         /\ LedgerOK(cash, trades, Portfolios, groups)
<1>1. Len(groups) \in Nat /\ DOMAIN groups = 1 .. Len(groups)
  BY DEF LInv
<1>2. \A g \in DOMAIN groups : g # Null
  BY <1>1 DEF Null
<1>3. IsTable(trades) /\ \A t \in DOMAIN trades : t # Null
  BY DEF LInv, TradesOK, IsTable, Null
<1>4. Portfolios = 1 .. Len(portfolios) /\ Len(portfolios) \in Nat
  BY PortfoliosAre DEF LInv, RegistryInv
<1>5. BookOK(cash, Portfolios, DOMAIN groups) /\ LedgerOK(cash, trades, Portfolios, groups)
  BY DEF LInv, LedgerOK
<1>. QED
  BY <1>1, <1>2, <1>3, <1>4, <1>5 DEF BookOK

\* A step that changes the ledger only.
LEMMA LedgerStep ==
  ASSUME LInv, LedgerOK(cash', trades, Portfolios, groups), UNCHANGED <<portfolios, groups, trades>>
  PROVE  LInv'
<1>1. RegistryInv' /\ Portfolios' = Portfolios
  BY DEF LInv, RegistryInv, RegistryTypeOK, ActiveWithinLimit, ActivePortfolios, IsActive,
         Portfolios
<1>. QED
  BY <1>1 DEF LInv

\* A row entered by hand.
LEMMA ManualRow ==
  ASSUME NEW ps, NEW gs, NEW p \in ps, NEW day \in Days, NEW ccy \in Currencies,
         NEW type \in ManualTypes, NEW amount \in LedgerAmounts, ValidAmountSign(type, amount),
         NEW text \in Texts \cup {NoText, ReversalText},
         NEW row, row = Row(p, day, ccy, type, amount, text)
  PROVE  RowOK(row, ps, gs) /\ IsManual(row) /\ row.reverses = Null
BY DEF Row, RowOK, Rows, IsManual, Null, ManualTypes, CashEntryTypes, PositiveTypes, NegativeTypes,
       LedgerAmounts

\* The signed amount of a manual entry has the sign of its type.
LEMMA SignedAmount ==
  ASSUME NEW type \in ManualTypes, NEW amount \in Amounts
  PROVE  /\ SignedAmountOf(type, amount) \in Int /\ SignedAmountOf(type, amount) \in LedgerAmounts
         /\ ValidAmountSign(type, SignedAmountOf(type, amount))
<1>1. amount \in Nat /\ amount > 0 /\ amount \in LedgerAmounts
  BY BrokerCashAssumption
<1>2. -amount \in LedgerAmounts
  BY <1>1, AmountsAddUp
<1>. QED
  BY <1>1, <1>2 DEF SignedAmountOf, ValidAmountSign, ManualTypes, PositiveTypes, NegativeTypes

\* A deposit keeps the invariant.
LEMMA DepositKeeps ==
  ASSUME LInv, NEW p \in Portfolios, NEW day \in Days, NEW ccy \in Currencies,
         NEW amount \in Amounts, NEW text \in Texts, Deposit(p, day, ccy, amount, text),
         UNCHANGED trades
  PROVE  LInv' /\ SameLinked(cash, cash')
<1>1. PICK row : row = Row(p, day, ccy, "CASH_DEPOSIT", amount, text)
  OBVIOUS
<1>2. amount \in LedgerAmounts /\ ValidAmountSign("CASH_DEPOSIT", amount)
  BY SignedAmount DEF SignedAmountOf, ManualTypes
<1>3. RowOK(row, Portfolios, DOMAIN groups) /\ IsManual(row) /\ row.reverses = Null
  <2>1. "CASH_DEPOSIT" \in ManualTypes /\ text \in Texts \cup {NoText, ReversalText}
    BY DEF ManualTypes
  <2>. QED
    BY <1>1, <1>2, <2>1, ManualRow
<1>4. cash' = InsertRow(cash, row) /\ UNCHANGED <<portfolios, groups>>
  BY <1>1 DEF Deposit
<1>5. LedgerOK(cash', trades, Portfolios, groups) /\ SameLinked(cash, cash')
  BY <1>3, <1>4, Keys, ManualRowInserted
<1>. QED
  BY <1>4, <1>5, LedgerStep

\* A withdrawal keeps the invariant.
LEMMA WithdrawKeeps ==
  ASSUME LInv, NEW p \in Portfolios, NEW day \in Days, NEW ccy \in Currencies,
         NEW amount \in Amounts, NEW text \in Texts, Withdraw(p, day, ccy, amount, text),
         UNCHANGED trades
  PROVE  LInv' /\ SameLinked(cash, cash')
<1>1. PICK row : row = Row(p, day, ccy, "CASH_WITHDRAWAL", -amount, text)
  OBVIOUS
<1>2. -amount \in LedgerAmounts /\ ValidAmountSign("CASH_WITHDRAWAL", -amount)
  BY SignedAmount DEF SignedAmountOf, ManualTypes
<1>3. RowOK(row, Portfolios, DOMAIN groups) /\ IsManual(row) /\ row.reverses = Null
  <2>1. "CASH_WITHDRAWAL" \in ManualTypes /\ text \in Texts \cup {NoText, ReversalText}
    BY DEF ManualTypes
  <2>. QED
    BY <1>1, <1>2, <2>1, ManualRow
<1>4. cash' = InsertRow(cash, row) /\ UNCHANGED <<portfolios, groups>>
  BY <1>1 DEF Withdraw
<1>5. LedgerOK(cash', trades, Portfolios, groups) /\ SameLinked(cash, cash')
  BY <1>3, <1>4, Keys, ManualRowInserted
<1>. QED
  BY <1>4, <1>5, LedgerStep

\* An edited entry stays a manual entry.
LEMMA UpdateKeeps ==
  ASSUME LInv, NEW i \in DOMAIN cash, NEW day \in Days, NEW ccy \in Currencies,
         NEW amount \in Amounts, NEW text \in Texts, UpdateEntry(i, day, ccy, amount, text),
         UNCHANGED trades
  PROVE  LInv' /\ SameLinked(cash, cash')
<1>. DEFINE old == cash[i]
            signed == SignedAmountOf(old.type, amount)
<1>1. PICK new : new = [old EXCEPT !.day = day, !.currency = ccy, !.text = text,
                                   !.amount = signed]
  OBVIOUS
<1>2. cash' = [cash EXCEPT ![i] = new] /\ ManualEditable(cash, i)
      /\ UNCHANGED <<portfolios, groups>>
  BY <1>1 DEF UpdateEntry
<1>3. old \in Rows(Portfolios, DOMAIN groups) /\ RowOK(old, Portfolios, DOMAIN groups)
  BY Keys DEF BookOK, RowOK
<1>4. old.type \in ManualTypes /\ old.txn = Null /\ old.group = Null /\ old.reverses = Null
  BY <1>2 DEF ManualEditable
<1>5. signed \in Int /\ signed \in LedgerAmounts /\ ValidAmountSign(old.type, signed)
  BY <1>4, SignedAmount
<1>. HIDE DEF signed
<1>6. /\ new \in Rows(Portfolios, DOMAIN groups) /\ new.type = old.type /\ new.txn = old.txn
      /\ new.group = old.group /\ new.reverses = old.reverses /\ new.amount = signed
  BY <1>1, <1>3, <1>5 DEF Rows
<1>7. RowOK(new, Portfolios, DOMAIN groups) /\ IsManual(new) /\ new.reverses = Null
  BY <1>4, <1>5, <1>6 DEF RowOK, IsManual
<1>8. DOMAIN cash' = DOMAIN cash /\ cash'[i] = new /\ \A j \in DOMAIN cash : j # i => cash'[j] = cash[j]
  BY <1>2
<1>9. IsTable(cash')
  BY <1>8, Keys DEF IsTable
<1>10. LedgerOK(cash', trades, Portfolios, groups) /\ SameLinked(cash, cash')
  <2>1. PICK n : n = cash'
    OBVIOUS
  <2>2. /\ IsTable(n) /\ DOMAIN n = DOMAIN cash /\ RowOK(n[i], Portfolios, DOMAIN groups)
        /\ IsManual(n[i]) /\ n[i].reverses = Null /\ \A j \in DOMAIN cash : j # i => n[j] = cash[j]
    BY <1>7, <1>8, <1>9, <2>1
  <2>3. LedgerOK(n, trades, Portfolios, groups) /\ SameLinked(cash, n)
    BY ONLY <1>2, <2>2, Keys, LInv, ManualTouched
  <2>. QED
    BY <2>1, <2>3
<1>. QED
  BY <1>2, <1>10, LedgerStep

\* A deleted entry was in no pair.
LEMMA DeleteKeeps ==
  ASSUME LInv, NEW i \in DOMAIN cash, DeleteEntry(i), UNCHANGED trades
  PROVE  LInv' /\ SameLinked(cash, cash')
<1>1. cash' = RemoveRows(cash, {i}) /\ ManualEditable(cash, i) /\ UNCHANGED <<portfolios, groups>>
  BY DEF DeleteEntry
<1>2. /\ IsTable(cash') /\ DOMAIN cash' = DOMAIN cash \ {i}
      /\ \A j \in DOMAIN cash \ {i} : cash'[j] = cash[j]
  BY <1>1, Keys, Removed
<1>3. LedgerOK(cash', trades, Portfolios, groups) /\ SameLinked(cash, cash')
  BY <1>1, <1>2, Keys, ManualTouched
<1>. QED
  BY <1>1, <1>3, LedgerStep

\* A reversal makes a pair of two entries.
LEMMA ReverseKeeps ==
  ASSUME LInv, NEW i \in DOMAIN cash, NEW day \in Days, ReverseEntry(i, day), UNCHANGED trades
  PROVE  LInv' /\ SameLinked(cash, cash')
<1>. DEFINE entry == cash[i]
            plain == Row(entry.portfolio, day, entry.currency, OppositeType(entry.type),
                         -entry.amount, ReversalText)
<1>1. PICK row : row = [plain EXCEPT !.reverses = i]
  OBVIOUS
<1>2. cash' = InsertRow(cash, row) /\ ManualEditable(cash, i) /\ UNCHANGED <<portfolios, groups>>
  BY <1>1 DEF ReverseEntry
<1>3. /\ entry \in Rows(Portfolios, DOMAIN groups) /\ RowOK(entry, Portfolios, DOMAIN groups)
      /\ i \in Nat
  BY Keys DEF BookOK, RowOK, IsTable
<1>4. entry.type \in ManualTypes
  BY <1>2 DEF ManualEditable
<1>5. /\ entry.amount \in Int /\ entry.portfolio \in Portfolios /\ entry.currency \in Currencies
      /\ entry.amount \in LedgerAmounts
  BY <1>3 DEF Rows, RowOK
<1>13. -entry.amount \in LedgerAmounts
  BY <1>5, AmountsAddUp
<1>6. /\ OppositeType(entry.type) \in ManualTypes /\ entry.type = OppositeType(OppositeType(entry.type))
      /\ -entry.amount \in Int /\ ValidAmountSign(OppositeType(entry.type), -entry.amount)
  BY <1>3, <1>4, <1>5 DEF RowOK, ValidAmountSign, OppositeType, ManualTypes, PositiveTypes,
                          NegativeTypes
<1>7. RowOK(plain, Portfolios, DOMAIN groups) /\ IsManual(plain)
  BY <1>5, <1>6, <1>13, ManualRow
<1>8. /\ plain.portfolio = entry.portfolio /\ plain.currency = entry.currency
      /\ plain.amount = -entry.amount /\ plain.type = OppositeType(entry.type)
      /\ plain \in Rows(Portfolios, DOMAIN groups)
  BY <1>7 DEF Row, RowOK
<1>. HIDE DEF plain
<1>9. /\ row \in Rows(Portfolios, DOMAIN groups) /\ row.type = plain.type /\ row.txn = plain.txn
      /\ row.group = plain.group /\ row.reverses = i /\ row.amount = plain.amount
      /\ row.portfolio = plain.portfolio /\ row.currency = plain.currency
  BY <1>1, <1>3, <1>8 DEF Rows
<1>10. RowOK(row, Portfolios, DOMAIN groups) /\ IsManual(row)
  BY <1>7, <1>9 DEF RowOK, IsManual
<1>11. /\ row.portfolio = entry.portfolio /\ row.currency = entry.currency
       /\ entry.amount = -row.amount /\ entry.type = OppositeType(row.type)
  BY <1>5, <1>6, <1>8, <1>9
<1>12. LedgerOK(cash', trades, Portfolios, groups) /\ SameLinked(cash, cash')
  BY <1>2, <1>9, <1>10, <1>11, Keys, ManualReversed
<1>. QED
  BY <1>2, <1>12, LedgerStep

\* A transfer between two portfolios.
LEMMA TransferKeeps ==
  ASSUME LInv, NEW source \in Portfolios, NEW target \in Portfolios, NEW day \in Days,
         NEW ccy \in Currencies, NEW to_ccy \in Currencies, NEW amount \in Amounts,
         NEW to_amount \in Amounts,
         Transfer(source, target, day, ccy, amount, to_ccy, to_amount), UNCHANGED trades
  PROVE  LInv' /\ SameLinked(cash, cash')
<1>1. PICK g : g = Len(groups) + 1
  OBVIOUS
<1>2. PICK group : group = Group(source, target, day, ccy, amount, to_ccy, to_amount)
  OBVIOUS
<1>3. PICK out : out = [Row(source, day, ccy, "TRANSFER_OUT", -amount, NoText) EXCEPT !.group = g]
  OBVIOUS
<1>4. PICK in : in = [Row(target, day, to_ccy, "TRANSFER_IN", to_amount, NoText) EXCEPT !.group = g]
  OBVIOUS
<1>5. /\ groups' = Append(groups, group) /\ cash' = InsertRow(InsertRow(cash, out), in)
      /\ UNCHANGED portfolios
  BY <1>1, <1>2, <1>3, <1>4 DEF Transfer
<1>6. groups \in Seq(GroupRow) /\ g \in Nat /\ g # Null /\ g \notin DOMAIN groups
  BY <1>1, Keys DEF LInv, Null
<1>7. source \in Nat /\ target \in Nat
  BY Keys
<1>8. amount \in Nat /\ amount > 0 /\ to_amount \in Nat /\ to_amount > 0
  BY BrokerCashAssumption
<1>9. group \in GroupRow
  BY <1>2, <1>7 DEF Group, GroupRow
<1>10. /\ groups' \in Seq(GroupRow) /\ DOMAIN groups' = DOMAIN groups \cup {g} /\ groups'[g] = group
       /\ \A h \in DOMAIN groups : groups'[h] = groups[h]
  BY <1>1, <1>5, <1>6, <1>9, Keys
<1>20. to_amount \in LedgerAmounts /\ -amount \in LedgerAmounts
  BY BrokerCashAssumption, AmountsAddUp
<1>11. RowOK(out, Portfolios, {g}) /\ IsLeg(out)
  BY <1>3, <1>6, <1>8, <1>20 DEF Row, RowOK, Rows, IsLeg, ValidAmountSign, PositiveTypes, NegativeTypes,
                          CashEntryTypes, Null
<1>12. RowOK(in, Portfolios, {g}) /\ IsLeg(in)
  BY <1>4, <1>6, <1>8, <1>20 DEF Row, RowOK, Rows, IsLeg, ValidAmountSign, PositiveTypes, NegativeTypes,
                          CashEntryTypes, Null
<1>13. /\ out.type = "TRANSFER_OUT" /\ out.portfolio = group.source
       /\ out.currency = group.source_currency /\ out.amount = -group.source_amount
       /\ out.day = group.day
  BY <1>2, <1>3 DEF Row, Group
<1>14. /\ in.type = "TRANSFER_IN" /\ in.portfolio = group.target
       /\ in.currency = group.target_currency /\ in.amount = group.target_amount
       /\ in.day = group.day
  BY <1>2, <1>4 DEF Row, Group
<1>15. \A h \in DOMAIN groups : h # Null /\ groups'[h] = groups[h]
  BY <1>10, Keys
<1>16. (\A t \in DOMAIN trades : t # Null) /\ LedgerOK(cash, trades, Portfolios, groups)
  BY Keys
<1>17. LedgerOK(cash', trades, Portfolios, groups')
  BY <1>5, <1>6, <1>10, <1>11, <1>12, <1>13, <1>14, <1>15, <1>16, TransferInserted
<1>18. RegistryInv' /\ Portfolios' = Portfolios
  BY <1>5 DEF LInv, RegistryInv, RegistryTypeOK, ActiveWithinLimit, ActivePortfolios, IsActive,
              Portfolios
<1>19. SameLinked(cash, cash')
  <2>1. PICK m : m = InsertRow(cash, out)
    OBVIOUS
  <2>2. IsTable(m) /\ SameLinked(cash, m)
    BY <1>11, <2>1, Keys, UnlinkedInserted DEF IsLeg
  <2>3. SameLinked(m, cash')
    BY <1>5, <1>12, <2>1, <2>2, UnlinkedInserted DEF IsLeg
  <2>. QED
    BY <2>2, <2>3 DEF SameLinked
<1>. QED
  BY <1>10, <1>17, <1>18, <1>19 DEF LInv

\* The days of a schedule are listed once each.
LEMMA DaysInserted ==
  ASSUME LInv, NEW p \in Portfolios, NEW days \in SUBSET Days, NEW ccy \in Currencies,
         NEW type \in ManualTypes, NEW signed \in LedgerAmounts, ValidAmountSign(type, signed),
         NEW text \in Texts \cup {NoText, ReversalText}
  PROVE  /\ LedgerOK(InsertDays(cash, p, days, ccy, type, signed, text), trades, Portfolios, groups)
         /\ SameLinked(cash, InsertDays(cash, p, days, ccy, type, signed, text))
<1>1. IsFiniteSet(days)
  <2>1. IsFiniteSet(Days)
    BY BrokerCashAssumption, FS_Interval DEF Days
  <2>. QED
    BY <2>1, FS_Subset
<1>2. PICK before : before = {d \in days \X days : d[1] < d[2]}
  OBVIOUS
<1>3. \A x, y \in days : <<x, y>> \in before <=> x < y
  BY <1>2
<1>4. \A x \in days : x \in Int
  BY BrokerCashAssumption DEF Days
<1>5. PICK listed : listed = InOrder(days, before)
  OBVIOUS
<1>6. /\ Cardinality(days) \in Nat /\ DOMAIN listed = 1 .. Cardinality(days)
      /\ \A k \in DOMAIN listed : listed[k] \in days
  <2>1. \A x \in days : <<x, x>> \notin before
    BY <1>3, <1>4
  <2>2. \A x, y, z \in days : <<x, y>> \in before /\ <<y, z>> \in before => <<x, z>> \in before
    BY <1>3, <1>4
  <2>. QED
    BY <1>1, <1>5, <2>1, <2>2, Listed
<1>7. PICK rows : rows = [k \in DOMAIN listed |-> Row(p, listed[k], ccy, type, signed, text)]
  OBVIOUS
<1>8. \A k \in 1 .. Cardinality(days) : /\ RowOK(rows[k], Portfolios, DOMAIN groups)
                                        /\ IsManual(rows[k]) /\ rows[k].reverses = Null
  <2>. SUFFICES ASSUME NEW k \in 1 .. Cardinality(days)
                PROVE  /\ RowOK(rows[k], Portfolios, DOMAIN groups)
                       /\ IsManual(rows[k]) /\ rows[k].reverses = Null
    OBVIOUS
  <2>1. rows[k] = Row(p, listed[k], ccy, type, signed, text) /\ listed[k] \in Days
    BY <1>6, <1>7
  <2>2. PICK d \in Days : d = listed[k]
    BY <2>1
  <2>3. PICK row : row = Row(p, d, ccy, type, signed, text)
    OBVIOUS
  <2>4. rows[k] = row
    BY <2>1, <2>2, <2>3
  <2>5. RowOK(row, Portfolios, DOMAIN groups) /\ IsManual(row) /\ row.reverses = Null
    BY <2>3 DEF Row, RowOK, Rows, IsManual, Null, ManualTypes, CashEntryTypes, PositiveTypes,
                NegativeTypes, LedgerAmounts
  <2>. QED
    BY <2>4, <2>5
<1>9. PICK result : result = InsertRows(cash, rows)
  OBVIOUS
<1>10. InsertDays(cash, p, days, ccy, type, signed, text) = result
  BY <1>2, <1>5, <1>7, <1>9 DEF InsertDays
<1>11. DOMAIN rows = 1 .. Cardinality(days)
  BY <1>6, <1>7
<1>12. LedgerOK(result, trades, Portfolios, groups) /\ SameLinked(cash, result)
  BY <1>6, <1>8, <1>9, <1>11, Keys, ManualInserted
<1>. QED
  BY <1>10, <1>12

\* A schedule adds the days it does not find.
LEMMA ScheduleKeeps ==
  ASSUME LInv, NEW p \in Portfolios, NEW days, NEW ccy \in Currencies, NEW type \in ManualTypes,
         NEW amount \in Amounts, NEW text \in Texts,
         ApplySchedule(p, days, ccy, type, amount, text), UNCHANGED trades
  PROVE  LInv' /\ SameLinked(cash, cash')
<1>1. PICK signed : signed = SignedAmountOf(type, amount)
  OBVIOUS
<1>2. PICK missing : missing = MissingDays(p, days, ccy, type, signed, text)
  OBVIOUS
<1>3. /\ cash' = InsertDays(cash, p, missing, ccy, type, signed, text) /\ days \subseteq Days
      /\ UNCHANGED <<portfolios, groups>>
  BY <1>1, <1>2 DEF ApplySchedule
<1>4. missing \in SUBSET Days
  BY <1>2, <1>3 DEF MissingDays
<1>5. signed \in LedgerAmounts /\ ValidAmountSign(type, signed)
  BY <1>1, SignedAmount
<1>6. LedgerOK(cash', trades, Portfolios, groups) /\ SameLinked(cash, cash')
  BY <1>3, <1>4, <1>5, DaysInserted
<1>. QED
  BY <1>3, <1>6, LedgerStep

\* The registry may gain a portfolio; the ledger and the trades stay what they are.
LEMMA RegistryKeeps ==
  ASSUME LInv, RegistryNext, UNCHANGED <<cash, groups, trades>>
  PROVE  LInv'
<1>1. RegistryInv' /\ Portfolios \subseteq Portfolios'
  BY RegistryStep DEF LInv
<1>2. PICK ps : ps = Portfolios'
  OBVIOUS
<1>3. TradesOK(trades, ps)
  <2>1. ASSUME NEW t \in DOMAIN trades
        PROVE  TradeOK(trades[t], ps)
    <3>1. TradeOK(trades[t], Portfolios)
      BY DEF LInv, TradesOK
    <3>. QED
      BY <1>1, <1>2, <3>1 DEF TradeOK
  <2>. QED
    BY <2>1 DEF LInv, TradesOK
<1>4. LedgerOK(cash, trades, ps, groups)
  <2>1. BookOK(cash, ps, DOMAIN groups)
    BY <1>1, <1>2, Keys, RowsStillOK
  <2>. QED
    BY <2>1 DEF LInv, LedgerOK
<1>5. TradesOK(trades', Portfolios') /\ LedgerOK(cash', trades', Portfolios', groups')
  BY <1>2, <1>3, <1>4
<1>. QED
  BY <1>1, <1>5 DEF LInv

\* Every request on portfolios and the broker ledger keeps the invariant.
LEMMA CashStep == LInv /\ CashNext /\ UNCHANGED trades => LInv' /\ SameLinked(cash, cash')
<1>. SUFFICES ASSUME LInv, CashNext, UNCHANGED trades PROVE LInv' /\ SameLinked(cash, cash')
  OBVIOUS
<1>1. CASE RegistryNext /\ UNCHANGED <<cash, groups>>
  BY <1>1, RegistryKeeps DEF SameLinked
<1>2. CASE DepositRequest
  BY <1>2, DepositKeeps DEF DepositRequest
<1>3. CASE WithdrawRequest
  BY <1>3, WithdrawKeeps DEF WithdrawRequest
<1>4. CASE UpdateRequest
  BY <1>4, UpdateKeeps DEF UpdateRequest
<1>5. CASE DeleteRequest
  BY <1>5, DeleteKeeps DEF DeleteRequest
<1>6. CASE ReverseRequest
  BY <1>6, ReverseKeeps DEF ReverseRequest
<1>7. CASE TransferRequest
  BY <1>7, TransferKeeps DEF TransferRequest
<1>8. CASE ScheduleRequest
  BY <1>8, ScheduleKeeps DEF ScheduleRequest
<1>. QED
  BY <1>1, <1>2, <1>3, <1>4, <1>5, <1>6, <1>7, <1>8 DEF CashNext

-----------------------------------------------------------------------------
(* Bringing the linked rows in line *)

\* The three recursions of the model: over the rows a trade asks for, over a file as it
\* is previewed, over a file as it is imported.
RunStep(run, a, state, k) ==
  CASE run = "sync"    -> SyncSpec(a.book, a.t, state, a.specs[k])
    [] run = "preview" -> SimulateRow(state, a.p, a.file[Chronological(a.file)[k]])
    [] run = "import"  -> Created(state, TradeOf(a.p, a.kind, a.file[k]))
Follows(after, run, a, first, n) ==
  after = [k \in 0 .. n |-> IF k = 0 THEN first ELSE RunStep(run, a, after[k - 1], k)]

\* Each of them defines its states, from the first to the last.
LEMMA RunExists ==
  ASSUME NEW run, NEW a, NEW first, NEW n \in Nat
  PROVE  \E after : Follows(after, run, a, first, n)
<1>. DEFINE Step(state, k) == RunStep(run, a, state, k)
            Upto(f, m) == f = [k \in 0 .. m |-> IF k = 0 THEN first ELSE Step(f[k - 1], k)]
            T == {m \in Nat : \E f : Upto(f, m)}
<1>. HIDE DEF Step
<1>1. 0 \in T
  <2>1. PICK f : f = [k \in 0 .. 0 |-> first]
    OBVIOUS
  <2>2. f = [k \in 0 .. 0 |-> IF k = 0 THEN first ELSE Step(f[k - 1], k)]
    BY <2>1
  <2>. QED
    BY <2>2
<1>2. ASSUME NEW m \in Nat, m \in T
      PROVE  m + 1 \in T
  <2>1. PICK f : f = [k \in 0 .. m |-> IF k = 0 THEN first ELSE Step(f[k - 1], k)]
    BY <1>2
  <2>2. PICK g : g = [k \in 0 .. (m + 1) |-> IF k = m + 1 THEN Step(f[m], m + 1) ELSE f[k]]
    OBVIOUS
  <2>3. ASSUME NEW k \in 0 .. (m + 1)
        PROVE  g[k] = IF k = 0 THEN first ELSE Step(g[k - 1], k)
    <3>1. CASE k = m + 1
      <4>1. k # 0 /\ k - 1 = m /\ m \in 0 .. (m + 1) /\ m # m + 1
        BY <3>1
      <4>2. g[m] = f[m] /\ g[k] = Step(f[m], m + 1)
        BY <2>2, <3>1, <4>1
      <4>. QED
        BY <3>1, <4>1, <4>2
    <3>2. CASE k = 0
      BY <2>1, <2>2, <3>2
    <3>3. CASE k # m + 1 /\ k # 0
      <4>1. k \in 0 .. m /\ k - 1 \in 0 .. (m + 1) /\ k - 1 # m + 1
        BY <3>3
      <4>2. g[k] = f[k] /\ g[k - 1] = f[k - 1]
        BY <2>2, <3>3, <4>1
      <4>3. f[k] = Step(f[k - 1], k)
        BY <2>1, <3>3, <4>1
      <4>. QED
        BY <3>3, <4>2, <4>3
    <3>. QED
      BY <3>1, <3>2, <3>3
  <2>4. g = [k \in 0 .. (m + 1) |-> IF k = 0 THEN first ELSE Step(g[k - 1], k)]
    BY <2>2, <2>3
  <2>. QED
    BY <2>4
<1>3. n \in T
  <2>. HIDE DEF T
  <2>. QED
    BY <1>1, <1>2, NumberInduction
<1>. QED
  BY <1>3 DEF Follows, Step

\* A settlement is the last of them, with the spare row gone.
SyncRun(after, end, book, t, specs) ==
  /\ after[0] = BeginSync(book, t, specs)
  /\ \A k \in 1 .. Len(specs) : after[k] = SyncSpec(book, t, after[k - 1], specs[k])
  /\ end = DeleteSurplus(after[Len(specs)], {after[Len(specs)].spare} \ {Null})
  /\ Sync(book, t, specs) = [book |-> end.book, ok |-> end.ok]

\* Every settlement is such a run.
LEMMA SyncIs ==
  ASSUME NEW book, NEW t, NEW specs, Len(specs) \in Nat
  PROVE  \E after, end : SyncRun(after, end, book, t, specs)
<1>. DEFINE n == Len(specs)
            first == BeginSync(book, t, specs)
            IsRun(f) == f = [k \in 0 .. Len(specs) |->
                               IF k = 0 THEN BeginSync(book, t, specs)
                               ELSE SyncSpec(book, t, f[k - 1], specs[k])]
<1>0. PICK a : a = [book |-> book, t |-> t, specs |-> specs]
  OBVIOUS
<1>1. \A f, k : RunStep("sync", a, f[k - 1], k) = SyncSpec(book, t, f[k - 1], specs[k])
  BY <1>0 DEF RunStep
<1>2. \E f : IsRun(f)
  <2>1. PICK f : Follows(f, "sync", a, first, n)
    BY RunExists
  <2>2. f = [k \in 0 .. n |-> IF k = 0 THEN first ELSE RunStep("sync", a, f[k - 1], k)]
    BY <2>1 DEF Follows
  <2>3. f = [k \in 0 .. n |-> IF k = 0 THEN first ELSE SyncSpec(book, t, f[k - 1], specs[k])]
    <3>. HIDE DEF n, first
    <3>. QED
      BY <1>1, <2>2
  <2>. QED
    BY <2>3
<1>3. PICK after : IsRun(after) /\ after = CHOOSE f : IsRun(f)
  <2>. HIDE DEF IsRun
  <2>. QED
    BY <1>2
<1>4. after[0] = BeginSync(book, t, specs)
  BY <1>3
<1>5. \A k \in 1 .. Len(specs) : after[k] = SyncSpec(book, t, after[k - 1], specs[k])
  <2>. SUFFICES ASSUME NEW k \in 1 .. Len(specs)
                PROVE  after[k] = SyncSpec(book, t, after[k - 1], specs[k])
    OBVIOUS
  <2>1. k \in 0 .. Len(specs) /\ k # 0
    OBVIOUS
  <2>. QED
    BY <1>3, <2>1
<1>6. PICK end : end = DeleteSurplus(after[Len(specs)], {after[Len(specs)].spare} \ {Null})
  OBVIOUS
<1>7. Sync(book, t, specs) = [book |-> end.book, ok |-> end.ok]
  BY <1>3, <1>6 DEF Sync
<1>. QED
  BY <1>4, <1>5, <1>6, <1>7 DEF SyncRun

\* The record a settlement works on, and what its steps make of it.
IsState(s) == s = [book |-> s.book, ok |-> s.ok, spare |-> s.spare]

LinkedRow(spec, t) ==
  [Row(spec.portfolio, spec.day, spec.currency, spec.type, spec.amount, NoText) EXCEPT !.txn = t]

Written(book, at, row) == IF at = Null THEN InsertRow(book, row) ELSE [book EXCEPT ![at] = row]

\* Rows deleted as surplus.
LEMMA SurplusDeleted ==
  ASSUME NEW s, IsState(s), NEW ids, NEW r, r = DeleteSurplus(s, ids)
  PROVE  IsState(r) /\ r.book = RemoveRows(s.book, ids) /\ r.spare = s.spare /\ (r.ok => s.ok)
<1>. DEFINE ok == s.ok /\ MayDelete(s.book, {i \in ids : s.book[i].type = "SELL_SETTLEMENT"})
            rest == RemoveRows(s.book, ids)
<1>0. ok => s.ok
  OBVIOUS
<1>1. r = [s EXCEPT !.ok = ok, !.book = rest]
  BY DEF DeleteSurplus
<1>. HIDE DEF ok, rest
<1>2. r = [book |-> rest, ok |-> ok, spare |-> s.spare]
  <2>1. PICK b, o, e : s = [book |-> b, ok |-> o, spare |-> e]
    BY DEF IsState
  <2>2. PICK m : m = [s EXCEPT !.ok = ok]
    OBVIOUS
  <2>3. m = [book |-> b, ok |-> ok, spare |-> e]
    BY <2>1, <2>2
  <2>4. r = [m EXCEPT !.book = rest]
    BY <1>1, <2>2
  <2>. QED
    BY <2>1, <2>3, <2>4
<1>. QED
  BY <1>0, <1>2 DEF IsState, rest

\* One row written over or inserted.
LEMMA SpecApplied ==
  ASSUME NEW s, IsState(s), NEW t, NEW spec, NEW at, NEW r, r = ApplySpec(s, t, spec, at)
  PROVE  /\ IsState(r) /\ r.book = Written(s.book, at, LinkedRow(spec, t)) /\ r.spare = s.spare
         /\ r.ok => s.ok /\ ValidAmountSign(spec.type, spec.amount)
<1>. DEFINE others == RemoveRows(s.book, {at})
            ok == /\ s.ok
                  /\ spec.type = "BUY_SETTLEMENT" =>
                       HasCash(others, spec.portfolio, spec.currency, -spec.amount, spec.day)
                  /\ at # Null =>
                       \/ s.book[at].type # "SELL_SETTLEMENT"
                       \/ spec.type = "SELL_SETTLEMENT"
                       \/ MayDelete(s.book, {at})
                  /\ ValidAmountSign(spec.type, spec.amount)
            book == Written(s.book, at, LinkedRow(spec, t))
<1>1. r = [s EXCEPT !.ok = ok, !.book = book]
  BY DEF ApplySpec, Written, LinkedRow
<1>2. ok => s.ok /\ ValidAmountSign(spec.type, spec.amount)
  OBVIOUS
<1>. HIDE DEF ok, book
<1>3. r = [book |-> book, ok |-> ok, spare |-> s.spare]
  <2>1. PICK b, o, e : s = [book |-> b, ok |-> o, spare |-> e]
    BY DEF IsState
  <2>2. PICK m : m = [s EXCEPT !.ok = ok]
    OBVIOUS
  <2>3. m = [book |-> b, ok |-> ok, spare |-> e]
    BY <2>1, <2>2
  <2>4. r = [m EXCEPT !.book = book]
    BY <1>1, <2>2
  <2>. QED
    BY <2>1, <2>3, <2>4
<1>. QED
  BY <1>2, <1>3 DEF IsState, book

\* One row asked for, which takes the spare row when it must.
TakenBy(s, t, spec, at, r) ==
  /\ IsState(r) /\ r.book = Written(s.book, at, LinkedRow(spec, t))
  /\ r.spare = IF at = s.spare THEN Null ELSE s.spare
  /\ r.ok => s.ok /\ ValidAmountSign(spec.type, spec.amount)
PlaceFor(book, t, s, spec) ==
  IF RowsOfType(book, t, spec.type) = {} THEN s.spare ELSE Max(RowsOfType(book, t, spec.type))

\* A row asked for is written over one of its type, else the spare one, else inserted.
LEMMA SpecSynced ==
  ASSUME NEW book, NEW s, IsState(s), NEW t, NEW spec
  PROVE  TakenBy(s, t, spec, PlaceFor(book, t, s, spec), SyncSpec(book, t, s, spec))
<1>0. PICK at, r : at = PlaceFor(book, t, s, spec) /\ r = SyncSpec(book, t, s, spec)
  OBVIOUS
<1>1. PICK m : m = ApplySpec(s, t, spec, at)
  OBVIOUS
<1>2. /\ IsState(m) /\ m.book = Written(s.book, at, LinkedRow(spec, t)) /\ m.spare = s.spare
      /\ m.ok => s.ok /\ ValidAmountSign(spec.type, spec.amount)
  BY <1>1, SpecApplied
<1>3. r = [m EXCEPT !.spare = IF at = m.spare THEN Null ELSE m.spare]
  BY <1>0, <1>1 DEF SyncSpec, PlaceFor
<1>4. TakenBy(s, t, spec, at, r)
  BY <1>2, <1>3 DEF IsState, TakenBy
<1>. QED
  BY <1>0, <1>4

\* The rows a trade asks for: none, a buy or a sale, or a sale with its tax.
SpecSet(ps) == [portfolio : ps, day : Days, currency : Currencies,
                type : SettlementTypes \cup {"TAX_WITHHELD"}, amount : LedgerAmounts]
SpecsOK(specs, ps) ==
  /\ specs \in Seq(SpecSet(ps))
  /\ \/ Len(specs) = 0
     \/ Len(specs) = 1 /\ specs[1].type \in SettlementTypes
     \/ /\ Len(specs) = 2 /\ Alike(specs[2], specs[1])
        /\ specs[1].type = "SELL_SETTLEMENT" /\ specs[2].type = "TAX_WITHHELD"

\* The rows of a trade after its settlement: one for each row it asks for.
Rewritten(book, n, t, specs) ==
  /\ IsTable(n) /\ SameBut(book, n, t)
  /\ \A i \in LinkedRows(n, t) : \E l \in 1 .. Len(specs) : n[i] = LinkedRow(specs[l], t)
  /\ \A i, j \in LinkedRows(n, t) : n[i].type = n[j].type => i = j
  /\ \A l \in 1 .. Len(specs) : \E i \in LinkedRows(n, t) : n[i] = LinkedRow(specs[l], t)

\* What a row linked to a trade says.
LEMMA LinkedRowIs ==
  ASSUME NEW spec, NEW t
  PROVE  /\ LinkedRow(spec, t).txn = t /\ LinkedRow(spec, t).type = spec.type
         /\ LinkedRow(spec, t).portfolio = spec.portfolio /\ LinkedRow(spec, t).day = spec.day
         /\ LinkedRow(spec, t).currency = spec.currency /\ LinkedRow(spec, t).amount = spec.amount
         /\ LinkedRow(spec, t).group = Null /\ LinkedRow(spec, t).reverses = Null
         /\ LinkedRow(spec, t).text = NoText
BY DEF LinkedRow, Row

\* A settled trade has at most one row of each type.
LEMMA OneOfEachType ==
  ASSUME NEW book, NEW t, Settled(book, t)
  PROVE  \A i, j \in LinkedRows(book, t) : book[i].type = book[j].type => i = j
BY DEF Settled

\* What is still to be written over after k rows: the rows of the types to come, and the
\* spare one.
StillOld(book, t, specs, k, spare) ==
  {i \in LinkedRows(book, t) : \E l \in (k + 1) .. Len(specs) : book[i].type = specs[l].type}
    \cup ({spare} \ {Null})

SyncInv(book, t, specs, k, s) ==
  LET old == StillOld(book, t, specs, k, s.spare)
      new == LinkedRows(s.book, t) \ old
  IN  /\ IsState(s) /\ IsTable(s.book) /\ SameBut(book, s.book, t)
      /\ \/ s.spare = Null
         \/ /\ s.spare \in LinkedRows(book, t)
            /\ \A l \in 1 .. Len(specs) : book[s.spare].type # specs[l].type
      /\ \A i \in old : i \in DOMAIN s.book /\ s.book[i] = book[i]
      /\ \A i \in new : \E l \in 1 .. k : s.book[i] = LinkedRow(specs[l], t)
      /\ \A i, j \in new : s.book[i].type = s.book[j].type => i = j
      /\ \A l \in 1 .. k : \E i \in new : s.book[i] = LinkedRow(specs[l], t)
      /\ s.ok => \A l \in 1 .. k : ValidAmountSign(specs[l].type, specs[l].amount)

\* Before the first row: the surplus is gone but for the spare row.
LEMMA SyncBegins ==
  ASSUME NEW book, IsTable(book), NEW t, NEW specs, Len(specs) \in Nat, DOMAIN specs = 1 .. Len(specs)
  PROVE  SyncInv(book, t, specs, 0, BeginSync(book, t, specs))
<1>. DEFINE surplus == Surplus(book, t, specs)
            start(spare) == [book |-> book, ok |-> TRUE, spare |-> spare]
<1>1. PICK spare : spare = IF specs = <<>> \/ surplus = {} THEN Null ELSE Min(surplus)
  OBVIOUS
<1>2. PICK s : s = BeginSync(book, t, specs)
  OBVIOUS
<1>3. s = DeleteSurplus(start(spare), surplus \ {spare})
  BY <1>1, <1>2 DEF BeginSync
<1>4. IsState(start(spare))
  BY DEF IsState
<1>5. IsState(s) /\ s.book = RemoveRows(book, surplus \ {spare}) /\ s.spare = spare
  <2>1. IsState(s) /\ s.book = RemoveRows(start(spare).book, surplus \ {spare})
        /\ s.spare = start(spare).spare
    BY <1>3, <1>4, SurplusDeleted
  <2>. QED
    BY <2>1
<1>6. surplus \subseteq LinkedRows(book, t)
  BY DEF Surplus
<1>7. \A i \in LinkedRows(book, t) :
        i \in surplus <=> \A l \in 1 .. Len(specs) : book[i].type # specs[l].type
  BY DEF Surplus
<1>8. LinkedRows(book, t) \subseteq DOMAIN book /\ DOMAIN book \subseteq Nat \ {0}
      /\ IsFiniteSet(DOMAIN book)
  BY DEF LinkedRows, IsTable
<1>9. spare = Null \/ spare \in surplus
  <2>1. surplus # {} => Min(surplus) \in surplus
    <3>1. surplus \subseteq DOMAIN book
      BY <1>6, <1>8
    <3>2. surplus \in SUBSET Int /\ IsFiniteSet(surplus)
      BY <1>8, <3>1, FS_Subset
    <3>. QED
      BY <3>2, MaxMin
  <2>. QED
    BY <1>1, <2>1
<1>. HIDE DEF surplus
<1>10. /\ IsTable(s.book) /\ DOMAIN s.book = DOMAIN book \ (surplus \ {spare})
       /\ \A i \in DOMAIN s.book : s.book[i] = book[i]
  <2>1. PICK gone : gone = surplus \ {spare}
    OBVIOUS
  <2>2. /\ IsTable(RemoveRows(book, gone)) /\ DOMAIN RemoveRows(book, gone) = DOMAIN book \ gone
        /\ \A i \in DOMAIN book \ gone : RemoveRows(book, gone)[i] = book[i]
    BY Removed
  <2>. QED
    BY <1>5, <2>1, <2>2
<1>11. SameBut(book, s.book, t)
  <2>1. \A i \in surplus : book[i].txn = t
    BY <1>6 DEF LinkedRows
  <2>. QED
    BY <1>10, <2>1 DEF SameBut
<1>12. LinkedRows(s.book, t) = LinkedRows(book, t) \ (surplus \ {spare})
  BY <1>10 DEF LinkedRows
<1>13. PICK old : old = StillOld(book, t, specs, 0, s.spare)
  OBVIOUS
<1>14. \A i \in LinkedRows(book, t) :
         i \in surplus \/ \E l \in (0 + 1) .. Len(specs) : book[i].type = specs[l].type
  BY <1>7
<1>15. LinkedRows(s.book, t) \ old = {}
  BY <1>5, <1>8, <1>9, <1>12, <1>13, <1>14 DEF StillOld, Null
<1>16. \A i \in old : i \in LinkedRows(s.book, t)
  <2>. SUFFICES ASSUME NEW i \in old PROVE i \in LinkedRows(s.book, t)
    OBVIOUS
  <2>1. CASE i = spare /\ spare # Null
    BY <1>6, <1>9, <1>12, <2>1
  <2>2. CASE i \in LinkedRows(book, t) /\ \E l \in (0 + 1) .. Len(specs) : book[i].type = specs[l].type
    BY <1>7, <1>12, <2>2
  <2>. QED
    BY <1>5, <1>13, <2>1, <2>2 DEF StillOld
<1>17. \A i \in old : i \in DOMAIN s.book /\ s.book[i] = book[i]
  BY <1>10, <1>16 DEF LinkedRows
<1>18. \/ s.spare = Null
       \/ /\ s.spare \in LinkedRows(book, t)
          /\ \A l \in 1 .. Len(specs) : book[s.spare].type # specs[l].type
  BY <1>5, <1>6, <1>7, <1>9
<1>19. 1 .. 0 = {}
  OBVIOUS
<1>20. SyncInv(book, t, specs, 0, s)
  BY <1>5, <1>10, <1>11, <1>13, <1>15, <1>17, <1>18, <1>19 DEF SyncInv
<1>. QED
  BY <1>2, <1>20

\* One more row: it takes the place of an old one, or a place of its own.
LEMMA SyncContinues ==
  ASSUME NEW book, IsTable(book), NEW t, Settled(book, t),
         NEW specs, Len(specs) \in Nat,
         \A l, m \in 1 .. Len(specs) : specs[l].type = specs[m].type => l = m,
         NEW k \in Nat, k + 1 <= Len(specs), NEW s, SyncInv(book, t, specs, k, s),
         NEW r, r = SyncSpec(book, t, s, specs[k + 1])
  PROVE  SyncInv(book, t, specs, k + 1, r)
<1>. DEFINE n == Len(specs)
            linked == LinkedRows(book, t)
            ofType == RowsOfType(book, t, specs[k + 1].type)
<1>1. PICK spec, row : spec = specs[k + 1] /\ row = LinkedRow(spec, t)
  OBVIOUS
<1>2. PICK old, new : old = StillOld(book, t, specs, k, s.spare) /\ new = LinkedRows(s.book, t) \ old
  OBVIOUS
<1>3. /\ IsState(s) /\ IsTable(s.book) /\ SameBut(book, s.book, t)
      /\ \/ s.spare = Null
         \/ /\ s.spare \in linked
            /\ \A l \in 1 .. n : book[s.spare].type # specs[l].type
      /\ \A i \in old : i \in DOMAIN s.book /\ s.book[i] = book[i]
      /\ \A i \in new : \E l \in 1 .. k : s.book[i] = LinkedRow(specs[l], t)
      /\ \A i, j \in new : s.book[i].type = s.book[j].type => i = j
      /\ \A l \in 1 .. k : \E i \in new : s.book[i] = LinkedRow(specs[l], t)
      /\ s.ok => \A l \in 1 .. k : ValidAmountSign(specs[l].type, specs[l].amount)
  BY <1>2 DEF SyncInv
<1>4. PICK at : at = IF ofType = {} THEN s.spare ELSE Max(ofType)
  OBVIOUS
<1>5. /\ IsState(r) /\ r.book = Written(s.book, at, row)
      /\ r.spare = IF at = s.spare THEN Null ELSE s.spare
      /\ r.ok => s.ok /\ ValidAmountSign(spec.type, spec.amount)
  <2>1. r = SyncSpec(book, t, s, spec) /\ IsState(s)
    BY <1>1, <1>3
  <2>2. at = PlaceFor(book, t, s, spec)
    BY <1>1, <1>4 DEF PlaceFor
  <2>3. TakenBy(s, t, spec, at, r)
    BY <2>1, <2>2, SpecSynced
  <2>. QED
    BY <1>1, <2>3 DEF TakenBy
<1>6. ofType = {i \in linked : book[i].type = spec.type}
  BY <1>1 DEF RowsOfType
<1>7. linked \subseteq DOMAIN book /\ Null \notin linked
  BY DEF LinkedRows, IsTable, Null
<1>8. \A i, j \in ofType : i = j
  BY <1>6, OneOfEachType
<1>9. ofType # {} => at \in ofType
  <2>1. ofType \in SUBSET Int /\ IsFiniteSet(ofType)
    BY <1>6, <1>7, FS_Subset DEF IsTable
  <2>. HIDE DEF ofType
  <2>. QED
    BY <1>4, <2>1, MaxMin
<1>. HIDE DEF ofType
<1>10. k + 1 \in 1 .. n /\ 1 .. (k + 1) = 1 .. k \cup {k + 1}
       /\ (k + 1) .. n = {k + 1} \cup (k + 2) .. n /\ k + 1 \notin (k + 2) .. n
       /\ (k + 2) .. n \subseteq 1 .. n /\ 1 .. k \subseteq 1 .. n /\ k + 1 \notin 1 .. k
  OBVIOUS
<1>11. old = {i \in linked : \E l \in (k + 1) .. n : book[i].type = specs[l].type}
               \cup ({s.spare} \ {Null})
  BY <1>2 DEF StillOld
<1>12. ofType \subseteq old
  BY <1>1, <1>6, <1>10, <1>11
<1>13. \A i \in linked : (\E l \in (k + 1) .. n : book[i].type = specs[l].type) <=>
                         (i \in ofType \/ \E l \in (k + 2) .. n : book[i].type = specs[l].type)
  BY <1>1, <1>6, <1>10
<1>14. \A i \in ofType : ~ \E l \in (k + 2) .. n : book[i].type = specs[l].type
  BY <1>1, <1>6, <1>10
<1>15. PICK rest : rest = StillOld(book, t, specs, k + 1, r.spare)
  OBVIOUS
<1>16. rest = {i \in linked : \E l \in (k + 2) .. n : book[i].type = specs[l].type}
                \cup ({r.spare} \ {Null})
  <2>1. (k + 1) + 1 = k + 2
    OBVIOUS
  <2>. QED
    BY <1>15, <2>1 DEF StillOld
\* The place of the row, and what else is there.
<1>17. \E w : /\ IsTable(r.book) /\ DOMAIN r.book = DOMAIN s.book \cup {w} /\ r.book[w] = row
              /\ \A i \in DOMAIN s.book : i # w => r.book[i] = s.book[i]
              /\ rest = old \ {w}
              /\ w \in old \/ w \notin DOMAIN s.book
              /\ r.spare = Null \/ r.spare = s.spare
  <2>1. CASE at # Null
    <3>1. at \in old
      BY <1>4, <1>9, <1>11, <1>12, <2>1
    <3>2. r.book = [s.book EXCEPT ![at] = row]
      BY <1>5, <2>1 DEF Written
    <3>3. at \in DOMAIN s.book
      BY <1>3, <3>1
    <3>4. /\ DOMAIN r.book = DOMAIN s.book \cup {at} /\ r.book[at] = row
          /\ \A i \in DOMAIN s.book : i # at => r.book[i] = s.book[i]
      BY <3>2, <3>3
    <3>5. IsTable(r.book)
      <4>1. DOMAIN r.book = DOMAIN s.book
        BY <3>2
      <4>. QED
        BY <1>3, <4>1 DEF IsTable
    <3>6. rest = old \ {at}
      <4>1. CASE ofType = {}
        <5>1. at = s.spare /\ r.spare = Null
          BY <1>4, <1>5, <4>1
        <5>2. rest = {i \in linked : \E l \in (k + 2) .. n : book[i].type = specs[l].type}
          BY <1>16, <5>1
        <5>3. \A i \in linked : (\E l \in (k + 1) .. n : book[i].type = specs[l].type) <=>
                                \E l \in (k + 2) .. n : book[i].type = specs[l].type
          BY <1>13, <4>1
        <5>4. old = rest \cup {at}
          BY <1>11, <2>1, <5>1, <5>2, <5>3
        <5>5. at \notin rest
          BY <1>3, <1>10, <2>1, <5>1, <5>2
        <5>. QED
          BY <5>4, <5>5
      <4>2. CASE ofType # {}
        <5>1. ofType = {at}
          BY <1>8, <1>9, <4>2
        <5>2. at # s.spare
          BY <1>1, <1>3, <1>6, <1>9, <1>10, <2>1, <4>2
        <5>3. r.spare = s.spare
          BY <1>5, <5>2
        <5>. QED
          BY <1>11, <1>13, <1>14, <1>16, <5>1, <5>2, <5>3
      <4>. QED
        BY <4>1, <4>2
    <3>. QED
      BY <1>5, <3>1, <3>4, <3>5, <3>6
  <2>2. CASE at = Null
    <3>1. ofType = {} /\ s.spare = Null /\ r.spare = Null
      BY <1>4, <1>5, <1>6, <1>7, <1>9, <2>2
    <3>2. r.book = InsertRow(s.book, row)
      BY <1>5, <2>2 DEF Written
    <3>3. PICK w : w = NewId(s.book)
      OBVIOUS
    <3>4. Inserted(s.book, row, w, r.book)
      BY <1>3, <3>2, <3>3, OneInserted
    <3>5. rest = old
      BY <1>11, <1>13, <1>16, <3>1
    <3>6. w \notin old
      BY <1>3, <3>4 DEF Inserted
    <3>7. rest = old \ {w}
      BY <3>5, <3>6
    <3>. QED
      BY <3>1, <3>4, <3>7 DEF Inserted
  <2>. QED
    BY <2>1, <2>2
<1>18. PICK w : /\ IsTable(r.book) /\ DOMAIN r.book = DOMAIN s.book \cup {w} /\ r.book[w] = row
                /\ \A i \in DOMAIN s.book : i # w => r.book[i] = s.book[i]
                /\ rest = old \ {w}
                /\ w \in old \/ w \notin DOMAIN s.book
                /\ r.spare = Null \/ r.spare = s.spare
  BY <1>17
<1>19. row.txn = t /\ row.type = spec.type
  BY <1>1, LinkedRowIs
<1>20. LinkedRows(r.book, t) = LinkedRows(s.book, t) \cup {w}
  BY <1>18, <1>19 DEF LinkedRows
<1>21. w \notin new /\ w \notin rest
  BY <1>2, <1>18 DEF LinkedRows
<1>22. PICK new2 : new2 = LinkedRows(r.book, t) \ rest
  OBVIOUS
<1>23. new2 = new \cup {w}
  BY <1>2, <1>18, <1>20, <1>21, <1>22
<1>24. new \subseteq DOMAIN s.book /\ \A i \in new : r.book[i] = s.book[i]
  BY <1>2, <1>18, <1>21 DEF LinkedRows
<1>25. \A i \in new : r.book[i].type # row.type
  <2>. SUFFICES ASSUME NEW i \in new PROVE r.book[i].type # row.type
    OBVIOUS
  <2>1. PICK l \in 1 .. k : s.book[i] = LinkedRow(specs[l], t)
    BY <1>3
  <2>2. r.book[i].type = specs[l].type
    BY <1>24, <2>1, LinkedRowIs
  <2>3. specs[l].type # specs[k + 1].type
    BY <1>10
  <2>. QED
    BY <1>1, <1>19, <2>2, <2>3
<1>26. SameBut(book, r.book, t)
  <2>1. ASSUME NEW i \in DOMAIN book, book[i].txn # t
        PROVE  i \in DOMAIN r.book /\ r.book[i] = book[i]
    <3>1. i \in DOMAIN s.book /\ s.book[i] = book[i]
      BY <1>3, <2>1 DEF SameBut
    <3>2. i \notin old
      BY <1>3, <1>11, <2>1 DEF LinkedRows
    <3>. QED
      BY <1>18, <3>1, <3>2
  <2>2. ASSUME NEW i \in DOMAIN r.book, r.book[i].txn # t
        PROVE  i \in DOMAIN book /\ book[i] = r.book[i]
    <3>1. i # w
      BY <1>18, <1>19, <2>2
    <3>2. i \in DOMAIN s.book /\ r.book[i] = s.book[i]
      BY <1>18, <3>1
    <3>. QED
      BY <1>3, <2>2, <3>2 DEF SameBut
  <2>. QED
    BY <2>1, <2>2 DEF SameBut
<1>27. \A i \in rest : i \in DOMAIN r.book /\ r.book[i] = book[i]
  BY <1>3, <1>18
<1>28. \A i \in new2 : \E l \in 1 .. (k + 1) : r.book[i] = LinkedRow(specs[l], t)
  <2>1. \A i \in new : \E l \in 1 .. (k + 1) : r.book[i] = LinkedRow(specs[l], t)
    BY <1>3, <1>10, <1>24
  <2>2. r.book[w] = LinkedRow(specs[k + 1], t) /\ k + 1 \in 1 .. (k + 1)
    BY <1>1, <1>18
  <2>. QED
    BY <1>23, <2>1, <2>2
<1>29. \A i, j \in new2 : r.book[i].type = r.book[j].type => i = j
  BY <1>3, <1>18, <1>23, <1>24, <1>25
<1>30. \A l \in 1 .. (k + 1) : \E i \in new2 : r.book[i] = LinkedRow(specs[l], t)
  <2>1. \A l \in 1 .. k : \E i \in new2 : r.book[i] = LinkedRow(specs[l], t)
    BY <1>3, <1>23, <1>24
  <2>2. w \in new2 /\ r.book[w] = LinkedRow(specs[k + 1], t)
    BY <1>1, <1>18, <1>23
  <2>. QED
    BY <1>10, <2>1, <2>2
<1>31. r.ok => \A l \in 1 .. (k + 1) : ValidAmountSign(specs[l].type, specs[l].amount)
  BY <1>1, <1>3, <1>5, <1>10
<1>32. \/ r.spare = Null
       \/ /\ r.spare \in linked
          /\ \A l \in 1 .. n : book[r.spare].type # specs[l].type
  BY <1>3, <1>18
<1>. QED
  <2>1. IsState(r) /\ IsTable(r.book)
    BY <1>5, <1>18
  <2>2. /\ \A i \in LinkedRows(r.book, t) \ rest :
             \E l \in 1 .. (k + 1) : r.book[i] = LinkedRow(specs[l], t)
        /\ \A i, j \in LinkedRows(r.book, t) \ rest : r.book[i].type = r.book[j].type => i = j
        /\ \A l \in 1 .. (k + 1) : \E i \in LinkedRows(r.book, t) \ rest :
             r.book[i] = LinkedRow(specs[l], t)
    BY <1>22, <1>28, <1>29, <1>30
  <2>. QED
    BY ONLY <2>1, <2>2, <1>15, <1>26, <1>27, <1>31, <1>32 DEF SyncInv

\* After a settlement the rows of the trade are exactly the ones it asks for, and no
\* other row was touched.
LEMMA SyncRewrites ==
  ASSUME NEW book, IsTable(book), NEW t, Settled(book, t),
         NEW specs, Len(specs) \in Nat, DOMAIN specs = 1 .. Len(specs),
         \A l, m \in 1 .. Len(specs) : specs[l].type = specs[m].type => l = m,
         NEW synced, synced = Sync(book, t, specs)
  PROVE  /\ Rewritten(book, synced.book, t, specs)
         /\ synced.ok => \A l \in 1 .. Len(specs) : ValidAmountSign(specs[l].type, specs[l].amount)
<1>. DEFINE n == Len(specs)
<1>0. PICK after, end : SyncRun(after, end, book, t, specs)
  BY SyncIs
<1>1. /\ after[0] = BeginSync(book, t, specs)
      /\ \A k \in 1 .. n : after[k] = SyncSpec(book, t, after[k - 1], specs[k])
      /\ end = DeleteSurplus(after[n], {after[n].spare} \ {Null})
      /\ Sync(book, t, specs) = [book |-> end.book, ok |-> end.ok]
  BY <1>0 DEF SyncRun
<1>. DEFINE T == {k \in Nat : k <= n => SyncInv(book, t, specs, k, after[k])}
<1>2. 0 \in T
  BY <1>1, SyncBegins
<1>3. ASSUME NEW k \in Nat, k \in T
      PROVE  k + 1 \in T
  <2>. SUFFICES ASSUME k + 1 <= n PROVE SyncInv(book, t, specs, k + 1, after[k + 1])
    OBVIOUS
  <2>1. SyncInv(book, t, specs, k, after[k])
    BY <1>3
  <2>2. k + 1 \in 1 .. n /\ (k + 1) - 1 = k
    OBVIOUS
  <2>3. after[k + 1] = SyncSpec(book, t, after[k], specs[k + 1])
    BY <1>1, <2>2
  <2>. QED
    BY <2>1, <2>3, SyncContinues
<1>4. n \in T
  <2>. HIDE DEF T
  <2>. QED
    BY <1>2, <1>3, NumberInduction
<1>5. PICK s, gone : s = after[n] /\ gone = {s.spare} \ {Null}
  OBVIOUS
<1>6. SyncInv(book, t, specs, n, s)
  BY <1>4, <1>5
<1>7. IsState(s) /\ IsTable(s.book)
  BY <1>6 DEF SyncInv
<1>8. end.book = RemoveRows(s.book, gone) /\ (end.ok => s.ok)
  BY <1>1, <1>5, <1>7, SurplusDeleted
<1>9. /\ IsTable(end.book) /\ DOMAIN end.book = DOMAIN s.book \ gone
      /\ \A i \in DOMAIN s.book \ gone : end.book[i] = s.book[i]
  <2>1. /\ IsTable(RemoveRows(s.book, gone)) /\ DOMAIN RemoveRows(s.book, gone) = DOMAIN s.book \ gone
        /\ \A i \in DOMAIN s.book \ gone : RemoveRows(s.book, gone)[i] = s.book[i]
    BY <1>7, Removed
  <2>. QED
    BY <1>8, <2>1
<1>10. StillOld(book, t, specs, n, s.spare) = gone
  <2>1. (n + 1) .. n = {}
    OBVIOUS
  <2>. QED
    BY <1>5, <2>1 DEF StillOld
<1>11. PICK new : new = LinkedRows(s.book, t) \ gone
  OBVIOUS
<1>12. LinkedRows(end.book, t) = new
  BY <1>9, <1>11 DEF LinkedRows
<1>13. /\ SameBut(book, s.book, t)
       /\ s.spare = Null \/ s.spare \in LinkedRows(book, t)
       /\ \A i \in gone : i \in DOMAIN s.book /\ s.book[i] = book[i]
       /\ \A i \in new : \E l \in 1 .. n : s.book[i] = LinkedRow(specs[l], t)
       /\ \A i, j \in new : s.book[i].type = s.book[j].type => i = j
       /\ \A l \in 1 .. n : \E i \in new : s.book[i] = LinkedRow(specs[l], t)
       /\ s.ok => \A l \in 1 .. n : ValidAmountSign(specs[l].type, specs[l].amount)
  BY <1>6, <1>10, <1>11 DEF SyncInv
<1>14. \A i \in new : end.book[i] = s.book[i]
  BY <1>9, <1>11 DEF LinkedRows
<1>15. SameBut(book, end.book, t)
  <2>1. \A i \in gone : i \in DOMAIN book /\ book[i].txn = t
    BY <1>5, <1>13 DEF LinkedRows
  <2>. QED
    BY <1>9, <1>13, <2>1 DEF SameBut
<1>16. Rewritten(book, end.book, t, specs)
  <2>1. \A i \in new : \E l \in 1 .. n : end.book[i] = LinkedRow(specs[l], t)
    BY <1>13, <1>14
  <2>2. \A i, j \in new : end.book[i].type = end.book[j].type => i = j
    BY <1>13, <1>14
  <2>3. \A l \in 1 .. n : \E i \in new : end.book[i] = LinkedRow(specs[l], t)
    BY <1>13, <1>14
  <2>. QED
    BY <1>9, <1>12, <1>15, <2>1, <2>2, <2>3 DEF Rewritten
<1>17. synced.book = end.book /\ synced.ok = end.ok
  BY <1>1
<1>. QED
  BY <1>8, <1>13, <1>16, <1>17

\* The rows of a settled trade make a ledger that is as it should be.
LEMMA RewrittenIsSettled ==
  ASSUME NEW book, NEW n, NEW t \in Nat, t # Null, NEW ps, NEW gs, BookOK(book, ps, gs),
         NEW specs, SpecsOK(specs, ps), Rewritten(book, n, t, specs),
         \A l \in 1 .. Len(specs) : ValidAmountSign(specs[l].type, specs[l].amount)
  PROVE  BookOK(n, ps, gs) /\ SameBut(book, n, t) /\ Settled(n, t)
<1>1. /\ IsTable(n) /\ SameBut(book, n, t)
      /\ \A i \in LinkedRows(n, t) : \E l \in 1 .. Len(specs) : n[i] = LinkedRow(specs[l], t)
      /\ \A i, j \in LinkedRows(n, t) : n[i].type = n[j].type => i = j
      /\ \A l \in 1 .. Len(specs) : \E i \in LinkedRows(n, t) : n[i] = LinkedRow(specs[l], t)
  BY DEF Rewritten
<1>2. Len(specs) \in Nat /\ \A l \in 1 .. Len(specs) : specs[l] \in SpecSet(ps)
  BY DEF SpecsOK
<1>3. ASSUME NEW l \in 1 .. Len(specs)
      PROVE  RowOK(LinkedRow(specs[l], t), ps, gs)
  <2>1. PICK spec \in SpecSet(ps) : spec = specs[l] /\ ValidAmountSign(spec.type, spec.amount)
    BY <1>2
  <2>2. LinkedRow(spec, t) \in Rows(ps, gs)
    BY <2>1 DEF LinkedRow, Row, Rows, SpecSet, CashEntryTypes, PositiveTypes, NegativeTypes,
                SettlementTypes, Null, LedgerAmounts
  <2>3. IsLinked(LinkedRow(spec, t)) /\ ValidAmountSign(LinkedRow(spec, t).type, LinkedRow(spec, t).amount)
    BY <2>1, LinkedRowIs DEF IsLinked, SpecSet
  <2>4. LinkedRow(spec, t).amount \in LedgerAmounts
    BY <2>1, LinkedRowIs DEF SpecSet
  <2>. QED
    BY <2>1, <2>2, <2>3, <2>4 DEF RowOK, IsLinked
<1>4. BookOK(n, ps, gs)
  <2>1. ASSUME NEW i \in DOMAIN n
        PROVE  RowOK(n[i], ps, gs)
    <3>1. CASE n[i].txn = t
      BY <1>1, <1>3, <3>1 DEF LinkedRows
    <3>2. CASE n[i].txn # t
      BY <1>1, <3>2 DEF SameBut, BookOK
    <3>. QED
      BY <3>1, <3>2
  <2>. QED
    BY <1>1, <2>1 DEF BookOK
<1>5. CASE Len(specs) = 0
  <2>1. 1 .. Len(specs) = {}
    BY <1>5
  <2>2. LinkedRows(n, t) = {}
    BY <1>1, <2>1
  <2>. QED
    BY <1>1, <1>4, <2>2 DEF Settled
<1>6. CASE Len(specs) = 1 /\ specs[1].type \in SettlementTypes
  <2>1. 1 .. Len(specs) = {1}
    BY <1>6
  <2>2. PICK k \in LinkedRows(n, t) : n[k] = LinkedRow(specs[1], t)
    BY <1>1, <2>1
  <2>3. \A i \in LinkedRows(n, t) : i = k
    <3>1. \A i \in LinkedRows(n, t) : n[i] = n[k]
      BY <1>1, <2>1, <2>2
    <3>. QED
      BY <1>1, <3>1
  <2>4. LinkedRows(n, t) = {k} /\ n[k].type \in SettlementTypes /\ k \in DOMAIN n
    BY <1>6, <2>2, <2>3, LinkedRowIs DEF LinkedRows
  <2>. QED
    BY <1>1, <1>4, <2>4 DEF Settled
<1>7. CASE /\ Len(specs) = 2 /\ Alike(specs[2], specs[1])
           /\ specs[1].type = "SELL_SETTLEMENT" /\ specs[2].type = "TAX_WITHHELD"
  <2>1. 1 .. Len(specs) = {1, 2}
    BY <1>7
  <2>2. PICK k \in LinkedRows(n, t) : n[k] = LinkedRow(specs[1], t)
    BY <1>1, <2>1
  <2>3. PICK x \in LinkedRows(n, t) : n[x] = LinkedRow(specs[2], t)
    BY <1>1, <2>1
  <2>4. \A i \in LinkedRows(n, t) : i = k \/ i = x
    <3>1. \A i \in LinkedRows(n, t) : n[i] = n[k] \/ n[i] = n[x]
      BY <1>1, <2>1, <2>2, <2>3
    <3>. QED
      BY <1>1, <3>1
  <2>5. LinkedRows(n, t) = {k, x} /\ k \in DOMAIN n /\ x \in DOMAIN n
    BY <2>4 DEF LinkedRows
  <2>6. /\ n[k].type = "SELL_SETTLEMENT" /\ n[x].type = "TAX_WITHHELD" /\ Alike(n[x], n[k])
    BY <1>7, <2>2, <2>3, LinkedRowIs DEF Alike
  <2>. QED
    BY <1>1, <1>4, <2>5, <2>6 DEF Settled
<1>. QED
  BY <1>5, <1>6, <1>7 DEF SpecsOK

-----------------------------------------------------------------------------
(* What trades ask for *)

\* What a trade holds.
LEMMA TradeFields ==
  ASSUME NEW ps, NEW trade, TradeOK(trade, ps)
  PROVE  /\ trade.portfolio \in ps /\ trade.day \in Days /\ trade.currency \in Currencies
         /\ trade.gross \in Int /\ trade.actual \in Int
         /\ trade.type \in {"BUY", "SELL", "DIVIDEND"} /\ trade.actual \in LedgerAmounts
         /\ Quantized(trade.gross) \in LedgerAmounts /\ Quantized(trade.gross) \in Int
<1>0. PICK p \in ps, kind \in Kinds :
        \E input \in TradeInputs(kind) : trade = InPortfolio(input, p)
  BY DEF TradeOK
<1>1. PICK input \in TradeInputs(kind) : trade = InPortfolio(input, p)
  BY <1>0
<1>2. /\ input.day \in Days /\ input.currency \in Currencies /\ input.gross \in Gross
      /\ input.actual \in Amounts \cup {0} /\ input.type \in TradeTypes(kind)
  BY DEF TradeInputs
<1>3. input.gross \in Int /\ input.actual \in Int /\ input.actual \in LedgerAmounts
  <2>1. Gross \subseteq Int
    BY SettlementAssumption
  <2>2. Amounts \subseteq Nat \ {0}
    BY BrokerCashAssumption
  <2>3. input.gross \in Int
    BY ONLY <1>2, <2>1
  <2>4. input.actual \in Int
    <3>1. \A a \in Amounts : a \in Int
      BY <2>2
    <3>2. input.actual \in Amounts \/ input.actual = 0
      BY <1>2
    <3>. QED
      BY <3>1, <3>2
  <2>5. input.actual \in LedgerAmounts
    <3>1. \A a \in Amounts : a \in LedgerAmounts
      BY BrokerCashAssumption
    <3>2. 0 \in LedgerAmounts
      <4>1. 0 * CashQuant = 0
        BY BrokerCashAssumption
      <4>. QED
        BY <4>1, MultiplesAreAmounts
    <3>. QED
      BY <1>2, <3>1, <3>2
  <2>. QED
    BY <2>3, <2>4, <2>5
<1>4. trade.gross = input.gross /\ trade.actual = input.actual /\ trade.type = input.type
      /\ trade.portfolio = p /\ trade.day = input.day /\ trade.currency = input.currency
  BY <1>1 DEF InPortfolio
<1>5. Quantized(trade.gross) \in LedgerAmounts /\ Quantized(trade.gross) \in Int
  BY <1>3, <1>4, QuantizedIs
<1>. QED
  BY <1>2, <1>3, <1>4, <1>5 DEF TradeTypes

\* A sequence of one followed by another.
LEMMA OneThenOne ==
  ASSUME NEW x, NEW y
  PROVE  /\ <<x>> \o <<y>> \in Seq({x, y}) /\ Len(<<x>> \o <<y>>) = 2
         /\ (<<x>> \o <<y>>)[1] = x /\ (<<x>> \o <<y>>)[2] = y
<1>1. PICK T, one, two : T = {x, y} /\ one = <<x>> /\ two = <<y>>
  OBVIOUS
<1>2. \A v, w \in Seq(T) : /\ v \o w \in Seq(T) /\ Len(v \o w) = Len(v) + Len(w)
                           /\ \A i \in 1 .. Len(v) : (v \o w)[i] = v[i]
                           /\ \A i \in 1 .. Len(w) : (v \o w)[i + Len(v)] = w[i]
  OBVIOUS
<1>3. /\ one \in Seq(T) /\ Len(one) = 1 /\ one[1] = x
      /\ two \in Seq(T) /\ Len(two) = 1 /\ two[1] = y
  BY <1>1
<1>4. PICK both : both = one \o two
  OBVIOUS
<1>5. /\ both \in Seq(T) /\ Len(both) = Len(one) + Len(two)
      /\ \A i \in 1 .. Len(one) : both[i] = one[i]
      /\ \A i \in 1 .. Len(two) : both[i + Len(one)] = two[i]
  BY ONLY <1>2, <1>3, <1>4
<1>6. Len(both) = 2 /\ both[1] = x
  BY ONLY <1>3, <1>5
<1>7. both[2] = y
  <2>1. 1 \in 1 .. Len(two) /\ 1 + Len(one) = 2
    BY <1>3
  <2>. QED
    BY ONLY <1>3, <1>5, <2>1
<1>. QED
  BY <1>1, <1>4, <1>5, <1>6, <1>7

\* What a trade asks for is one of the three.
LEMMA SpecsOfTrade ==
  ASSUME NEW ps, NEW trade, TradeOK(trade, ps)
  PROVE  SpecsOK(SettlementSpecs(trade), ps)
<1>1. PICK buy, sale, tax :
        /\ buy = SpecRow(trade, "BUY_SETTLEMENT", -Quantized(trade.gross))
        /\ sale = SpecRow(trade, "SELL_SETTLEMENT", Quantized(trade.gross))
        /\ tax = SpecRow(trade, "TAX_WITHHELD", -Withheld(trade))
  OBVIOUS
<1>2. Withheld(trade) \in LedgerAmounts
  BY TradeFields, AmountsAddUp DEF Withheld
<1>9. -Withheld(trade) \in LedgerAmounts /\ -Quantized(trade.gross) \in LedgerAmounts
  BY <1>2, TradeFields, AmountsAddUp
<1>3. buy \in SpecSet(ps) /\ sale \in SpecSet(ps) /\ tax \in SpecSet(ps)
  BY <1>1, <1>9, TradeFields DEF SpecRow, SpecSet, SettlementTypes
<1>4. /\ buy.type = "BUY_SETTLEMENT" /\ sale.type = "SELL_SETTLEMENT" /\ tax.type = "TAX_WITHHELD"
      /\ Alike(tax, sale)
  BY <1>1 DEF SpecRow, Alike
<1>5. CASE trade.type = "BUY"
  <2>1. SettlementSpecs(trade) = <<buy>>
    BY <1>1, <1>5 DEF SettlementSpecs
  <2>. QED
    BY <1>3, <1>4, <2>1 DEF SpecsOK, SettlementTypes
<1>6. CASE trade.type = "SELL" /\ Withheld(trade) > 0
  <2>1. PICK specs : specs = <<sale>> \o <<tax>>
    OBVIOUS
  <2>2. SettlementSpecs(trade) = specs
    BY <1>1, <1>6, <2>1 DEF SettlementSpecs, SaleSpecs
  <2>3. specs \in Seq({sale, tax}) /\ Len(specs) = 2 /\ specs[1] = sale /\ specs[2] = tax
    BY <2>1, OneThenOne
  <2>4. specs \in Seq(SpecSet(ps))
    BY <1>3, <2>3
  <2>. QED
    BY <1>4, <2>2, <2>3, <2>4 DEF SpecsOK
<1>7. CASE trade.type = "SELL" /\ ~(Withheld(trade) > 0)
  <2>1. SettlementSpecs(trade) = <<sale>> \o <<>>
    BY <1>1, <1>7 DEF SettlementSpecs, SaleSpecs
  <2>2. <<sale>> \o <<>> = <<sale>>
    OBVIOUS
  <2>. QED
    BY <1>3, <1>4, <2>1, <2>2 DEF SpecsOK, SettlementTypes
<1>8. CASE trade.type \notin {"BUY", "SELL"}
  <2>1. SettlementSpecs(trade) = <<>>
    BY <1>8 DEF SettlementSpecs
  <2>. QED
    BY <2>1 DEF SpecsOK
<1>. QED
  BY <1>5, <1>6, <1>7, <1>8

\* The rows asked for have types of their own.
LEMMA SpecsDiffer ==
  ASSUME NEW ps, NEW specs, SpecsOK(specs, ps)
  PROVE  /\ Len(specs) \in Nat /\ DOMAIN specs = 1 .. Len(specs)
         /\ \A l, m \in 1 .. Len(specs) : specs[l].type = specs[m].type => l = m
<1>1. Len(specs) \in Nat /\ DOMAIN specs = 1 .. Len(specs)
  BY DEF SpecsOK
<1>2. CASE Len(specs) = 0
  BY <1>1, <1>2
<1>3. CASE Len(specs) = 1
  BY <1>1, <1>3
<1>4. CASE Len(specs) = 2 /\ specs[1].type = "SELL_SETTLEMENT" /\ specs[2].type = "TAX_WITHHELD"
  BY <1>1, <1>4
<1>. QED
  BY <1>1, <1>2, <1>3, <1>4 DEF SpecsOK

-----------------------------------------------------------------------------
(* The bookings of the trades *)

\* What the rows of a trade in a book amount to.
BookedIn(book, t) ==
  IF LinkedRows(book, t) = {} THEN [net |-> 0]
  ELSE LET row == book[Min(LinkedRows(book, t))]
       IN  [portfolio |-> row.portfolio, day |-> row.day, currency |-> row.currency,
            net |-> Total(book, LinkedRows(book, t))]

\* What a trade that is written gets booked.
NewBooking(trade) ==
  IF IsCashAware(trade.portfolio) THEN Contract!ProperBooking(trade) ELSE Contract!Nothing

\* Trades and book with more trades, each booked; those there were are untouched.
Extended(trs, b, trs2, b2) ==
  /\ DOMAIN trs \subseteq DOMAIN trs2
  /\ \A u \in DOMAIN trs : trs2[u] = trs[u] /\ BookedIn(b2, u) = BookedIn(b, u)
  /\ \A u \in DOMAIN trs2 \ DOMAIN trs : BookedIn(b2, u) = NewBooking(trs2[u])

\* The total of one row.
LEMMA TotalOfOne ==
  ASSUME NEW book, NEW k, book[k].amount \in Int
  PROVE  Total(book, {k}) = book[k].amount
<1>1. PICK f : f = [i \in {k} |-> book[i].amount]
  OBVIOUS
<1>2. DOMAIN f = {k} /\ f[k] \in Int /\ f[k] = book[k].amount
  BY <1>1
<1>3. SumFunctionOnSet(f, {}) = 0
  BY <1>2, FS_EmptySet, SumStep
<1>4. SumFunctionOnSet(f, {} \cup {k}) = SumFunctionOnSet(f, {}) + f[k]
  <2>1. IsFiniteSet({}) /\ k \notin {} /\ \A y \in {} \cup {k} : f[y] \in Int
    BY <1>2, FS_EmptySet
  <2>. QED
    BY <2>1, SumAddOne
<1>5. {} \cup {k} = {k}
  OBVIOUS
<1>6. SumFunctionOnSet(f, {k}) = book[k].amount
  BY <1>2, <1>3, <1>4, <1>5
<1>. QED
  BY <1>1, <1>2, <1>6, SumOfFunction DEF Total

\* And of two.
LEMMA TotalOfTwo ==
  ASSUME NEW book, NEW k, NEW x, k # x, book[k].amount \in Int, book[x].amount \in Int
  PROVE  Total(book, {k, x}) = book[k].amount + book[x].amount
<1>1. PICK f : f = [i \in {k, x} |-> book[i].amount]
  OBVIOUS
<1>2. /\ DOMAIN f = {k, x} /\ f[k] \in Int /\ f[k] = book[k].amount
      /\ f[x] \in Int /\ f[x] = book[x].amount
  BY <1>1
<1>3. SumFunctionOnSet(f, {}) = 0
  BY <1>2, FS_EmptySet, SumStep
<1>4. SumFunctionOnSet(f, {k}) = book[k].amount
  <2>1. IsFiniteSet({}) /\ k \notin {} /\ \A y \in {} \cup {k} : f[y] \in Int
    BY <1>2, FS_EmptySet
  <2>2. SumFunctionOnSet(f, {} \cup {k}) = SumFunctionOnSet(f, {}) + f[k]
    BY <2>1, SumAddOne
  <2>3. {} \cup {k} = {k}
    OBVIOUS
  <2>4. SumFunctionOnSet(f, {k}) = 0 + f[k]
    BY ONLY <2>2, <2>3, <1>3
  <2>. QED
    BY ONLY <2>4, <1>2
<1>5. SumFunctionOnSet(f, {k, x}) = book[k].amount + book[x].amount
  <2>1. IsFiniteSet({k}) /\ x \notin {k} /\ \A y \in {k} \cup {x} : f[y] \in Int
    BY <1>2, FS_Singleton
  <2>2. SumFunctionOnSet(f, {k} \cup {x}) = SumFunctionOnSet(f, {k}) + f[x]
    BY <2>1, SumAddOne
  <2>3. {k} \cup {x} = {k, x}
    OBVIOUS
  <2>. QED
    BY ONLY <2>2, <2>3, <1>4, <1>2
<1>. QED
  BY <1>1, <1>2, <1>5, SumOfFunction DEF Total

\* A trade whose rows are untouched has the same booking.
LEMMA BookingKept ==
  ASSUME NEW b, NEW n, NEW t,
         \A i \in DOMAIN b : b[i].txn = t => i \in DOMAIN n /\ n[i] = b[i],
         \A i \in DOMAIN n : n[i].txn = t => i \in DOMAIN b /\ b[i] = n[i],
         IsTable(b)
  PROVE  BookedIn(n, t) = BookedIn(b, t)
<1>1. PICK L : L = LinkedRows(b, t)
  OBVIOUS
<1>2. LinkedRows(n, t) = L /\ L \subseteq DOMAIN b
  BY <1>1 DEF LinkedRows
<1>3. \A i \in L : n[i] = b[i]
  BY <1>1 DEF LinkedRows
<1>4. Total(n, L) = Total(b, L)
  <2>1. [i \in L |-> n[i].amount] = [i \in L |-> b[i].amount]
    BY <1>3
  <2>. QED
    BY <2>1 DEF Total
<1>5. L # {} => Min(L) \in L
  <2>1. L \in SUBSET Int /\ IsFiniteSet(L)
    BY <1>2, FS_Subset DEF IsTable
  <2>. QED
    BY <2>1, MaxMin
<1>6. L # {} => n[Min(L)] = b[Min(L)]
  BY <1>3, <1>5
<1>. QED
  BY <1>1, <1>2, <1>4, <1>6 DEF BookedIn

\* A change to the rows of one trade leaves the bookings of the others.
LEMMA OtherBookingsKept ==
  ASSUME NEW b, NEW n, IsTable(b), NEW t, SameBut(b, n, t), NEW u, u # t
  PROVE  BookedIn(n, u) = BookedIn(b, u)
<1>1. /\ \A i \in DOMAIN b : b[i].txn = u => i \in DOMAIN n /\ n[i] = b[i]
      /\ \A i \in DOMAIN n : n[i].txn = u => i \in DOMAIN b /\ b[i] = n[i]
  BY DEF SameBut
<1>. QED
  BY <1>1, BookingKept

\* Requests that leave the linked rows alone leave the bookings.
LEMMA UnlinkedKeepBookings ==
  ASSUME NEW b, NEW n, IsTable(b), SameLinked(b, n), NEW t, t # Null
  PROVE  BookedIn(n, t) = BookedIn(b, t)
<1>1. /\ \A i \in DOMAIN b : b[i].txn = t => i \in DOMAIN n /\ n[i] = b[i]
      /\ \A i \in DOMAIN n : n[i].txn = t => i \in DOMAIN b /\ b[i] = n[i]
  BY DEF SameLinked
<1>. QED
  BY <1>1, BookingKept

\* The booking of a trade with one row, and with two that are alike.
LEMMA BookingOfRows ==
  ASSUME NEW book, IsTable(book), NEW t, NEW k \in DOMAIN book, NEW x \in DOMAIN book,
         LinkedRows(book, t) = {k, x}, Alike(book[x], book[k]),
         book[k].amount \in Int, book[x].amount \in Int
  PROVE  BookedIn(book, t) =
           [portfolio |-> book[k].portfolio, day |-> book[k].day, currency |-> book[k].currency,
            net |-> IF k = x THEN book[k].amount ELSE book[k].amount + book[x].amount]
<1>1. PICK L, m : L = {k, x} /\ m = Min(L)
  OBVIOUS
<1>2. m = k \/ m = x
  <2>1. L \in SUBSET Int /\ IsFiniteSet(L) /\ L # {}
    BY <1>1, FS_Subset DEF IsTable
  <2>. QED
    BY <1>1, <2>1, MaxMin
<1>3. /\ book[m].portfolio = book[k].portfolio /\ book[m].day = book[k].day
      /\ book[m].currency = book[k].currency
  BY <1>2 DEF Alike
<1>4. Total(book, L) = IF k = x THEN book[k].amount ELSE book[k].amount + book[x].amount
  <2>1. CASE k = x
    <3>1. L = {k}
      BY <1>1, <2>1
    <3>. QED
      BY <2>1, <3>1, TotalOfOne
  <2>2. CASE k # x
    BY <1>1, <2>2, TotalOfTwo
  <2>. QED
    BY <2>1, <2>2
<1>. QED
  BY <1>1, <1>3, <1>4 DEF BookedIn

\* A buy takes its cost, a sale brings its proceeds without the tax withheld.
LEMMA CashOfTrade ==
  ASSUME NEW ps, NEW trade, TradeOK(trade, ps)
  PROVE  /\ trade.type = "BUY" => Contract!NetCash(trade) = -Quantized(trade.gross)
         /\ trade.type = "SELL" /\ Withheld(trade) > 0
              => Contract!NetCash(trade) = Quantized(trade.gross) - Withheld(trade)
         /\ trade.type = "SELL" /\ ~(Withheld(trade) > 0)
              => Contract!NetCash(trade) = Quantized(trade.gross)
         /\ Withheld(trade) \in Int /\ Quantized(trade.gross) \in Int
<1>1. /\ trade.gross \in Int /\ trade.actual \in Int /\ trade.actual \in LedgerAmounts
      /\ Quantized(trade.gross) \in Int
  BY TradeFields
<1>2. trade.actual # 0 => trade.actual <= trade.gross
  <2>1. PICK p \in ps, kind \in Kinds : \E input \in TradeInputs(kind) : trade = InPortfolio(input, p)
    BY DEF TradeOK
  <2>2. PICK input \in TradeInputs(kind) : trade = InPortfolio(input, p)
    BY <2>1
  <2>3. ValidActual(input.type, input.gross, input.actual)
    BY DEF TradeInputs
  <2>. QED
    BY <2>2, <2>3 DEF InPortfolio, ValidActual
<1>3. trade.actual # 0 => trade.actual <= Quantized(trade.gross)
  BY <1>1, <1>2, RoundsNotBelow
<1>. QED
  BY <1>1, <1>3 DEF Contract!NetCash, Withheld

\* The rows a trade asks for are booked as the contract says.
LEMMA ProperlyBooked ==
  ASSUME NEW b, NEW n, NEW t, NEW ps, NEW trade, TradeOK(trade, ps),
         Rewritten(b, n, t, SettlementSpecs(trade))
  PROVE  BookedIn(n, t) = Contract!ProperBooking(trade)
<1>1. PICK specs, L : specs = SettlementSpecs(trade) /\ L = LinkedRows(n, t)
  OBVIOUS
<1>2. /\ IsTable(n) /\ L \subseteq DOMAIN n
      /\ \A i \in L : \E l \in 1 .. Len(specs) : n[i] = LinkedRow(specs[l], t)
      /\ \A i, j \in L : n[i].type = n[j].type => i = j
      /\ \A l \in 1 .. Len(specs) : \E i \in L : n[i] = LinkedRow(specs[l], t)
  BY <1>1 DEF Rewritten, LinkedRows
<1>3. PICK buy, sale, tax :
        /\ buy = SpecRow(trade, "BUY_SETTLEMENT", -Quantized(trade.gross))
        /\ sale = SpecRow(trade, "SELL_SETTLEMENT", Quantized(trade.gross))
        /\ tax = SpecRow(trade, "TAX_WITHHELD", -Withheld(trade))
  OBVIOUS
<1>4. /\ buy.type = "BUY_SETTLEMENT" /\ sale.type = "SELL_SETTLEMENT" /\ tax.type = "TAX_WITHHELD"
      /\ Alike(buy, trade) /\ Alike(sale, trade) /\ Alike(tax, trade)
      /\ buy.amount = -Quantized(trade.gross) /\ sale.amount = Quantized(trade.gross)
      /\ tax.amount = -Withheld(trade)
  BY <1>3 DEF SpecRow, Alike
<1>5. Withheld(trade) \in Int /\ Quantized(trade.gross) \in Int
  BY CashOfTrade
<1>6. CASE trade.type \notin {"BUY", "SELL"}
  <2>1. specs = <<>>
    BY <1>1, <1>6 DEF SettlementSpecs
  <2>2. L = {}
    BY <1>2, <2>1
  <2>. QED
    BY <1>1, <1>6, <2>2 DEF BookedIn, Contract!ProperBooking, Contract!Settles, Contract!Nothing
<1>7. ASSUME NEW spec, specs = <<spec>>, Alike(spec, trade), spec.amount \in Int,
             spec.amount = Contract!NetCash(trade), Contract!Settles(trade)
      PROVE  BookedIn(n, t) = Contract!ProperBooking(trade)
  <2>1. Len(specs) = 1 /\ specs[1] = spec
    BY <1>7
  <2>2. PICK k \in L : n[k] = LinkedRow(spec, t)
    BY <1>2, <2>1
  <2>3. L = {k, k}
    BY <1>2, <2>1, <2>2
  <2>4. n[k].amount = spec.amount /\ Alike(n[k], spec)
    BY <2>2, LinkedRowIs DEF Alike
  <2>5. Alike(n[k], n[k])
    BY DEF Alike
  <2>6. BookedIn(n, t) =
          [portfolio |-> n[k].portfolio, day |-> n[k].day, currency |-> n[k].currency,
           net |-> IF k = k THEN n[k].amount ELSE n[k].amount + n[k].amount]
    <3>1. IsTable(n) /\ k \in DOMAIN n /\ LinkedRows(n, t) = {k, k} /\ n[k].amount \in Int
      BY <1>1, <1>2, <1>7, <2>3, <2>4
    <3>. QED
      BY ONLY <2>5, <3>1, BookingOfRows
  <2>. QED
    BY <1>7, <2>4, <2>6 DEF Alike, Contract!ProperBooking, Contract!Booking
<1>8. CASE trade.type = "BUY"
  <2>1. specs = <<buy>>
    BY <1>1, <1>3, <1>8 DEF SettlementSpecs
  <2>. QED
    BY <1>4, <1>5, <1>7, <1>8, <2>1, CashOfTrade DEF Contract!Settles
<1>9. CASE trade.type = "SELL" /\ ~(Withheld(trade) > 0)
  <2>1. specs = <<sale>> \o <<>>
    BY <1>1, <1>3, <1>9 DEF SettlementSpecs, SaleSpecs
  <2>2. <<sale>> \o <<>> = <<sale>>
    OBVIOUS
  <2>. QED
    BY <1>4, <1>5, <1>7, <1>9, <2>1, <2>2, CashOfTrade DEF Contract!Settles
<1>10. CASE trade.type = "SELL" /\ Withheld(trade) > 0
  <2>1. specs = <<sale>> \o <<tax>>
    BY <1>1, <1>3, <1>10 DEF SettlementSpecs, SaleSpecs
  <2>2. Len(specs) = 2 /\ specs[1] = sale /\ specs[2] = tax
    BY <2>1, OneThenOne
  <2>3. PICK k \in L : n[k] = LinkedRow(sale, t)
    BY <1>2, <2>2
  <2>4. PICK x \in L : n[x] = LinkedRow(tax, t)
    BY <1>2, <2>2
  <2>5. /\ n[k].amount = Quantized(trade.gross) /\ n[k].type = "SELL_SETTLEMENT" /\ Alike(n[k], trade)
        /\ n[x].amount = -Withheld(trade) /\ n[x].type = "TAX_WITHHELD" /\ Alike(n[x], trade)
    BY <1>4, <2>3, <2>4, LinkedRowIs DEF Alike
  <2>6. \A i \in L : n[i] = LinkedRow(sale, t) \/ n[i] = LinkedRow(tax, t)
    BY <1>2, <2>2
  <2>7. L = {k, x} /\ k # x /\ Alike(n[x], n[k])
    <3>1. \A i \in L : n[i].type = n[k].type \/ n[i].type = n[x].type
      BY <2>3, <2>4, <2>6
    <3>2. L = {k, x}
      BY <1>2, <3>1
    <3>. QED
      BY <2>5, <3>2 DEF Alike
  <2>8. BookedIn(n, t) =
          [portfolio |-> n[k].portfolio, day |-> n[k].day, currency |-> n[k].currency,
           net |-> IF k = x THEN n[k].amount ELSE n[k].amount + n[x].amount]
    <3>1. /\ n[k].amount \in Int /\ n[x].amount \in Int /\ k \in DOMAIN n /\ x \in DOMAIN n
          /\ IsTable(n) /\ LinkedRows(n, t) = {k, x}
      BY <1>1, <1>2, <1>5, <2>5, <2>7
    <3>. QED
      BY ONLY <2>7, <3>1, BookingOfRows
  <2>9. n[k].amount + n[x].amount = Contract!NetCash(trade)
    BY <1>5, <1>10, <2>5, CashOfTrade
  <2>. QED
    BY <1>10, <2>5, <2>7, <2>8, <2>9 DEF Alike, Contract!ProperBooking, Contract!Booking, Contract!Settles
<1>. QED
  BY <1>6, <1>8, <1>9, <1>10

-----------------------------------------------------------------------------
(* Trades *)

\* A trade that is not there yet has no rows.
LEMMA NewTradeSettled ==
  ASSUME NEW book, NEW trs, AllSettled(book, trs), NEW t, t \notin DOMAIN trs, t # Null
  PROVE  Settled(book, t)
BY DEF AllSettled, Settled, LinkedRows

\* A settlement that goes through leaves the ledger as it should be: the trade is booked
\* if its portfolio is cash aware, and the rows of no other trade are touched.
LEMMA SyncKeeps ==
  ASSUME NEW b, NEW trs, NEW ps, NEW gs, LedgerOK(b, trs, ps, gs),
         \A g \in DOMAIN gs : g # Null, \A u \in DOMAIN trs : u # Null,
         NEW t \in Nat, t # Null, NEW trade, TradeOK(trade, ps),
         NEW synced, synced = SyncTrade(b, t, trade), synced.ok,
         NEW trs2, DOMAIN trs2 = DOMAIN trs \cup {t}
  PROVE  /\ LedgerOK(synced.book, trs2, ps, gs)
         /\ SameBut(b, synced.book, t)
         /\ BookedIn(synced.book, t) = IF IsCashAware(trade.portfolio)
                                       THEN Contract!ProperBooking(trade) ELSE BookedIn(b, t)
<1>1. BookOK(b, ps, DOMAIN gs) /\ AllSettled(b, trs) /\ IsTable(b)
  BY DEF LedgerOK, BookOK
<1>2. Settled(b, t)
  <2>1. CASE t \in DOMAIN trs
    BY <1>1, <2>1 DEF AllSettled
  <2>2. CASE t \notin DOMAIN trs
    BY <1>1, <2>2, NewTradeSettled
  <2>. QED
    BY <2>1, <2>2
<1>3. PICK specs : specs = SettlementSpecs(trade)
  OBVIOUS
<1>4. SpecsOK(specs, ps)
  BY <1>3, SpecsOfTrade
<1>5. /\ BookOK(synced.book, ps, DOMAIN gs) /\ SameBut(b, synced.book, t)
      /\ Settled(synced.book, t)
      /\ BookedIn(synced.book, t) = IF IsCashAware(trade.portfolio)
                                    THEN Contract!ProperBooking(trade) ELSE BookedIn(b, t)
  <2>1. CASE ~IsCashAware(trade.portfolio)
    <3>1. synced.book = b
      BY <2>1 DEF SyncTrade
    <3>. QED
      BY <1>1, <1>2, <2>1, <3>1 DEF SameBut
  <2>2. CASE IsCashAware(trade.portfolio)
    <3>1. synced = Sync(b, t, specs)
      BY <1>3, <2>2 DEF SyncTrade
    <3>2. /\ Len(specs) \in Nat /\ DOMAIN specs = 1 .. Len(specs)
          /\ \A l, m \in 1 .. Len(specs) : specs[l].type = specs[m].type => l = m
      BY <1>4, SpecsDiffer
    <3>3. /\ Rewritten(b, synced.book, t, specs)
          /\ \A l \in 1 .. Len(specs) : ValidAmountSign(specs[l].type, specs[l].amount)
      BY <1>1, <1>2, <3>1, <3>2, SyncRewrites
    <3>4. /\ BookOK(synced.book, ps, DOMAIN gs) /\ SameBut(b, synced.book, t)
          /\ Settled(synced.book, t)
      BY <1>1, <1>4, <3>3, RewrittenIsSettled
    <3>5. BookedIn(synced.book, t) = Contract!ProperBooking(trade)
      BY <1>3, <3>3, ProperlyBooked
    <3>. QED
      BY <2>2, <3>4, <3>5
  <2>. QED
    BY <2>1, <2>2
<1>6. LedgerOK(synced.book, trs2, ps, gs)
  BY <1>5, OthersKept
<1>. QED
  BY <1>5, <1>6

\* A trade that is made, and settled.
StateOK(state, ps, gs) == TradesOK(state.trades, ps) /\ LedgerOK(state.book, state.trades, ps, gs)

\* A trade made in tables that are as they should be leaves them so, is booked, and
\* touches no other booking.
LEMMA CreatedKeeps ==
  ASSUME NEW state, NEW ps, NEW gs, \A g \in DOMAIN gs : g # Null, StateOK(state, ps, gs),
         NEW trade, TradeOK(trade, ps), Created(state, trade).ok
  PROVE  /\ state.ok /\ StateOK(Created(state, trade), ps, gs)
         /\ Extended(state.trades, state.book, Created(state, trade).trades, Created(state, trade).book)
<1>1. PICK t, synced, r : /\ t = NewId(state.trades) /\ synced = SyncTrade(state.book, t, trade)
                          /\ r = Created(state, trade)
  OBVIOUS
<1>2. r.trades = InsertRow(state.trades, trade) /\ r.book = synced.book /\ state.ok /\ synced.ok
  BY <1>1 DEF Created
<1>3. IsTable(state.trades) /\ \A u \in DOMAIN state.trades : TradeOK(state.trades[u], ps)
  BY DEF StateOK, TradesOK
<1>4. Inserted(state.trades, trade, t, r.trades)
  BY <1>1, <1>2, <1>3, OneInserted
<1>5. TradesOK(r.trades, ps)
  BY <1>3, <1>4 DEF TradesOK, Inserted
<1>6. t \in Nat /\ t # Null
  BY <1>1, <1>3, FreshId DEF Null
<1>7. \A u \in DOMAIN state.trades : u # Null
  BY <1>3 DEF IsTable, Null
<1>8. /\ LedgerOK(r.book, r.trades, ps, gs) /\ SameBut(state.book, r.book, t)
      /\ BookedIn(r.book, t) = IF IsCashAware(trade.portfolio)
                               THEN Contract!ProperBooking(trade) ELSE BookedIn(state.book, t)
  <2>1. LedgerOK(state.book, state.trades, ps, gs)
    BY DEF StateOK
  <2>2. DOMAIN r.trades = DOMAIN state.trades \cup {t}
    BY <1>4 DEF Inserted
  <2>3. synced = SyncTrade(state.book, t, trade) /\ synced.ok /\ r.book = synced.book
    BY <1>1, <1>2
  <2>4. /\ LedgerOK(synced.book, r.trades, ps, gs) /\ SameBut(state.book, synced.book, t)
        /\ BookedIn(synced.book, t) = IF IsCashAware(trade.portfolio)
                                      THEN Contract!ProperBooking(trade) ELSE BookedIn(state.book, t)
    BY <1>1, <1>2, <1>6, <1>7, <2>1, <2>2, SyncKeeps
  <2>. QED
    BY <2>3, <2>4
<1>9. BookedIn(state.book, t) = Contract!Nothing
  <2>1. LinkedRows(state.book, t) = {}
    BY <1>4, <1>6 DEF StateOK, LedgerOK, AllSettled, LinkedRows, Inserted
  <2>. QED
    BY <2>1 DEF BookedIn, Contract!Nothing
<1>10. ASSUME NEW u, u # t
       PROVE  BookedIn(r.book, u) = BookedIn(state.book, u)
  <2>1. IsTable(state.book)
    BY DEF StateOK, LedgerOK, BookOK
  <2>. QED
    BY <1>8, <1>10, <2>1, OtherBookingsKept
<1>11. Extended(state.trades, state.book, r.trades, r.book)
  BY <1>4, <1>8, <1>9, <1>10 DEF Extended, NewBooking, Inserted
<1>. QED
  BY <1>1, <1>2, <1>5, <1>8, <1>11 DEF StateOK

\* A step that changes trades and ledger.
LEMMA TradeStep ==
  ASSUME LInv, TradesOK(trades', Portfolios), LedgerOK(cash', trades', Portfolios, groups),
         UNCHANGED <<portfolios, groups>>
  PROVE  LInv'
<1>1. RegistryInv' /\ Portfolios' = Portfolios
  BY DEF LInv, RegistryInv, RegistryTypeOK, ActiveWithinLimit, ActivePortfolios, IsActive,
         Portfolios
<1>. QED
  BY <1>1 DEF LInv

\* Creating a trade does not make good what failed before it.
LEMMA CreatedWasOK ==
  ASSUME NEW state, NEW trade, Created(state, trade).ok
  PROVE  state.ok
<1>1. PICK r : r = Created(state, trade)
  OBVIOUS
<1>. QED
  BY <1>1 DEF Created

\* Two extensions make one.
LEMMA ExtendedMore ==
  ASSUME NEW trs, NEW b, NEW trs2, NEW b2, NEW trs3, NEW b3,
         Extended(trs, b, trs2, b2), Extended(trs2, b2, trs3, b3)
  PROVE  Extended(trs, b, trs3, b3)
BY DEF Extended

\* A created trade gets the rows it asks for.
LEMMA CreateTradeKeeps ==
  ASSUME LInv, NEW p \in ActivePortfolios, NEW kind \in Kinds, NEW input \in TradeInputs(kind),
         CreateTrade(InPortfolio(input, p))
  PROVE  LInv' /\ Extended(trades, cash, trades', cash')
<1>1. PICK trade, created : trade = InPortfolio(input, p) /\ created = Created(Tables, trade)
  OBVIOUS
<1>2. /\ created.ok /\ trades' = created.trades /\ cash' = created.book
      /\ UNCHANGED <<portfolios, groups>>
  BY <1>1 DEF CreateTrade
<1>3. p \in Portfolios /\ TradeOK(trade, Portfolios)
  BY <1>1 DEF ActivePortfolios, TradeOK
<1>4. StateOK(Tables, Portfolios, groups)
  BY DEF LInv, StateOK, Tables
<1>5. /\ StateOK(created, Portfolios, groups)
      /\ Extended(Tables.trades, Tables.book, created.trades, created.book)
  BY <1>1, <1>2, <1>3, <1>4, Keys, CreatedKeeps
<1>6. Extended(trades, cash, trades', cash')
  BY <1>2, <1>5 DEF Tables
<1>. QED
  BY <1>2, <1>5, <1>6, TradeStep DEF StateOK

\* An updated trade gets the rows it now asks for.
LEMMA UpdateTradeKeeps ==
  ASSUME LInv, NEW t \in DOMAIN trades, NEW p \in Portfolios,
         NEW input \in TradeInputs(trades[t].kind), UpdateTrade(t, input, p)
  PROVE  LInv'
<1>1. PICK trade, synced : trade = InPortfolio(input, p) /\ synced = SyncTrade(cash, t, trade)
  OBVIOUS
<1>2. /\ synced.ok /\ trades' = [trades EXCEPT ![t] = trade] /\ cash' = synced.book
      /\ UNCHANGED <<portfolios, groups>>
  BY <1>1 DEF UpdateTrade
<1>0. PICK q \in Portfolios, kind \in Kinds :
        \E old \in TradeInputs(kind) : trades[t] = InPortfolio(old, q)
  BY DEF LInv, TradesOK, TradeOK
<1>3. PICK old \in TradeInputs(kind) : trades[t] = InPortfolio(old, q)
  BY <1>0
<1>4. trades[t].kind = kind
  BY <1>3 DEF InPortfolio, TradeInputs
<1>5. TradeOK(trade, Portfolios)
  BY <1>1, <1>4 DEF TradeOK
<1>6. TradesOK(trades', Portfolios) /\ DOMAIN trades' = DOMAIN trades \cup {t}
  BY <1>2, <1>5 DEF LInv, TradesOK, IsTable
<1>7. t \in Nat /\ t # Null
  BY DEF LInv, TradesOK, IsTable, Null
<1>8. LedgerOK(cash', trades', Portfolios, groups)
  BY <1>1, <1>2, <1>5, <1>6, <1>7, Keys, SyncKeeps
<1>. QED
  BY <1>2, <1>6, <1>8, TradeStep

\* A deleted trade takes all of its rows with it.
LEMMA DeleteTradeKeeps ==
  ASSUME LInv, NEW t \in DOMAIN trades, DeleteTrade(t)
  PROVE  LInv'
<1>1. PICK linked, book, trs : /\ linked = LinkedRows(cash, t) /\ book = RemoveRows(cash, linked)
                               /\ trs = RemoveRows(trades, {t})
  OBVIOUS
<1>2. trades' = trs /\ cash' = book /\ UNCHANGED <<portfolios, groups>>
  BY <1>1 DEF DeleteTrade
<1>3. /\ IsTable(book) /\ DOMAIN book = DOMAIN cash \ linked
      /\ \A i \in DOMAIN cash \ linked : book[i] = cash[i]
  <2>1. /\ IsTable(RemoveRows(cash, linked)) /\ DOMAIN RemoveRows(cash, linked) = DOMAIN cash \ linked
        /\ \A i \in DOMAIN cash \ linked : RemoveRows(cash, linked)[i] = cash[i]
    BY Keys, Removed
  <2>. QED
    BY <1>1, <2>1
<1>4. /\ IsTable(trs) /\ DOMAIN trs = DOMAIN trades \ {t}
      /\ \A u \in DOMAIN trades \ {t} : trs[u] = trades[u]
  BY <1>1, Keys, Removed
<1>5. TradesOK(trs, Portfolios)
  BY <1>4 DEF LInv, TradesOK
<1>6. \A i \in DOMAIN cash : i \in linked <=> cash[i].txn = t
  BY <1>1 DEF LinkedRows
<1>7. BookOK(book, Portfolios, DOMAIN groups)
  BY <1>3, Keys DEF BookOK
<1>8. SameBut(cash, book, t)
  BY <1>3, <1>6 DEF SameBut
<1>9. LinkedRows(book, t) = {}
  BY <1>3, <1>6 DEF LinkedRows
<1>10. Settled(book, t) /\ t # Null
  BY <1>9, Keys DEF Settled
<1>11. LedgerOK(book, trs, Portfolios, groups)
  BY <1>4, <1>7, <1>8, <1>9, <1>10, Keys, OthersKept
<1>. QED
  BY <1>2, <1>5, <1>11, TradeStep

-----------------------------------------------------------------------------
(* Backfill *)

\* A book with rows added that leave reversals and transfers alone.
LEMMA RowsAdded ==
  ASSUME NEW b, NEW n, NEW ps, NEW gs, \A g \in DOMAIN gs : g # Null,
         BookOK(b, ps, DOMAIN gs), Mirrors(b), Legs(b, gs), IsTable(n),
         DOMAIN b \subseteq DOMAIN n, \A i \in DOMAIN b : n[i] = b[i],
         \A i \in DOMAIN n \ DOMAIN b :
           RowOK(n[i], ps, DOMAIN gs) /\ n[i].reverses = Null /\ n[i].group = Null
  PROVE  BookOK(n, ps, DOMAIN gs) /\ Mirrors(n) /\ Legs(n, gs)
<1>1. \A i \in DOMAIN n : RowOK(n[i], ps, DOMAIN gs)
  BY DEF BookOK
<1>2. SamePairs(b, n) /\ SameLegs(b, n)
  BY DEF SamePairs, SameLegs
<1>. QED
  BY <1>1, <1>2, PairsKept, LegsKept DEF BookOK

\* The row planned for a trade is the first it asks for.
LEMMA PlannedRowIs ==
  ASSUME NEW ps, NEW gs, NEW p \in ps, NEW t \in DOMAIN trades, t \in Nat, t # Null,
         TradeOK(trades[t], ps), SettlementSpecs(trades[t]) # <<>>,
         NEW spec, spec = Head(SettlementSpecs(trades[t])), ValidAmountSign(spec.type, spec.amount)
  PROVE  /\ RowOK(PlannedRow(p, t), ps, gs) /\ PlannedRow(p, t).reverses = Null
         /\ PlannedRow(p, t).group = Null /\ PlannedRow(p, t).txn = t
         /\ PlannedRow(p, t).type \in SettlementTypes
<1>1. PICK specs : specs = SettlementSpecs(trades[t])
  OBVIOUS
<1>2. SpecsOK(specs, ps) /\ specs # <<>>
  BY <1>1, SpecsOfTrade
<1>3. spec = specs[1] /\ spec \in SpecSet(ps) /\ spec.type \in SettlementTypes
  <2>1. specs \in Seq(SpecSet(ps)) /\ Len(specs) # 0
    BY <1>2 DEF SpecsOK
  <2>2. spec = specs[1] /\ 1 \in 1 .. Len(specs)
    BY <1>1, <2>1
  <2>3. spec \in SpecSet(ps)
    BY <2>1, <2>2
  <2>. QED
    BY <1>2, <2>1, <2>2, <2>3 DEF SpecsOK, SettlementTypes
<1>4. PICK row : row = PlannedRow(p, t)
  OBVIOUS
<1>5. row = [Row(p, spec.day, spec.currency, spec.type, spec.amount, NoText) EXCEPT !.txn = t]
  BY <1>4 DEF PlannedRow
<1>6. /\ row.type = spec.type /\ row.amount = spec.amount /\ row.txn = t
      /\ row.group = Null /\ row.reverses = Null
  BY <1>5 DEF Row
<1>7. row \in Rows(ps, gs)
  BY <1>3, <1>5 DEF Row, Rows, SpecSet, LedgerAmounts, CashEntryTypes, PositiveTypes,
                    NegativeTypes, SettlementTypes, Null
<1>8. IsLinked(row)
  BY <1>3, <1>6 DEF IsLinked
<1>9. row.amount \in LedgerAmounts
  BY <1>3, <1>6 DEF SpecSet
<1>. QED
  BY <1>3, <1>4, <1>6, <1>7, <1>8, <1>9 DEF RowOK

\* A book with the rows planned for the trades of a portfolio, one for each.
Backfilled(n, p) ==
  /\ IsTable(n) /\ DOMAIN cash \subseteq DOMAIN n
  /\ \A i \in DOMAIN cash : n[i] = cash[i]
  /\ \A i \in DOMAIN n \ DOMAIN cash : \E t \in PlannedTrades(p) : n[i] = PlannedRow(p, t)
  /\ \A i, j \in DOMAIN n \ DOMAIN cash : n[i].txn = n[j].txn => i = j
  /\ \A t \in PlannedTrades(p) : \E i \in DOMAIN n \ DOMAIN cash : n[i] = PlannedRow(p, t)

\* What is planned: trades of the portfolio that have no row and ask for one.
LEMMA PlannedAre ==
  ASSUME LInv, NEW p \in Portfolios, NEW allow_legacy, Backfill(p, allow_legacy),
         NEW t \in PlannedTrades(p)
  PROVE  /\ t \in DOMAIN trades /\ t \in Nat /\ t # Null /\ TradeOK(trades[t], Portfolios)
         /\ trades[t].portfolio = p /\ SettlementSpecs(trades[t]) # <<>>
         /\ LinkedRows(cash, t) = {}
         /\ RowOK(PlannedRow(p, t), Portfolios, DOMAIN groups)
         /\ PlannedRow(p, t).reverses = Null /\ PlannedRow(p, t).group = Null
         /\ PlannedRow(p, t).txn = t /\ PlannedRow(p, t).type \in SettlementTypes
<1>1. /\ t \in DOMAIN trades /\ t \in Nat /\ t # Null /\ TradeOK(trades[t], Portfolios)
      /\ trades[t].portfolio = p /\ SettlementSpecs(trades[t]) # <<>> /\ PrimaryRows(cash, t) = {}
  BY DEF LInv, TradesOK, IsTable, Null, PlannedTrades, TradesOf
<1>2. LinkedRows(cash, t) = {}
  <2>1. Settled(cash, t)
    BY <1>1 DEF LInv, LedgerOK, AllSettled
  <2>2. ~ \E k \in LinkedRows(cash, t) : cash[k].type \in SettlementTypes
    BY <1>1 DEF PrimaryRows
  <2>. QED
    BY <2>1, <2>2 DEF Settled, SettlementTypes
<1>3. PICK spec : spec = Head(SettlementSpecs(trades[t]))
  OBVIOUS
<1>4. ValidAmountSign(spec.type, spec.amount)
  BY <1>3 DEF Backfill
<1>5. PICK ps, gs : ps = Portfolios /\ gs = DOMAIN groups
  OBVIOUS
<1>6. p \in ps /\ TradeOK(trades[t], ps)
  BY <1>1, <1>5
<1>7. /\ RowOK(PlannedRow(p, t), ps, gs) /\ PlannedRow(p, t).reverses = Null
      /\ PlannedRow(p, t).group = Null /\ PlannedRow(p, t).txn = t
      /\ PlannedRow(p, t).type \in SettlementTypes
  BY ONLY <1>1, <1>3, <1>4, <1>6, PlannedRowIs, ZenonT(60)
<1>. QED
  BY <1>1, <1>2, <1>5, <1>7

\* A backfill inserts the rows it planned, each once.
LEMMA BackfillInserts ==
  ASSUME LInv, NEW p \in Portfolios, NEW allow_legacy, Backfill(p, allow_legacy)
  PROVE  Backfilled(cash', p)
<1>1. PICK planned : planned = PlannedTrades(p)
  OBVIOUS
<1>2. cash' = InsertPlanned(p, planned)
  BY <1>1 DEF Backfill
<1>3. \A t \in planned : /\ t \in DOMAIN trades /\ t \in Nat /\ TradeOK(trades[t], Portfolios)
                         /\ PlannedRow(p, t).txn = t
  BY <1>1, PlannedAre
<1>4. IsFiniteSet(planned)
  <2>1. IsFiniteSet(DOMAIN trades) /\ planned \subseteq DOMAIN trades
    BY <1>3 DEF LInv, TradesOK, IsTable
  <2>. QED
    BY <2>1, FS_Subset
<1>5. PICK before : before = {d \in planned \X planned :
                               \/ trades[d[1]].day < trades[d[2]].day
                               \/ (trades[d[1]].day = trades[d[2]].day /\ d[1] < d[2])}
  OBVIOUS
<1>6. \A x, y \in planned : <<x, y>> \in before <=>
        trades[x].day < trades[y].day \/ (trades[x].day = trades[y].day /\ x < y)
  BY <1>5
<1>7. \A x \in planned : x \in Int /\ trades[x].day \in Int
  <2>1. \A x \in planned : x \in Nat /\ trades[x].day \in Days
    BY <1>3, TradeFields
  <2>. QED
    BY <2>1 DEF Days
<1>8. PICK listed : listed = InOrder(planned, before)
  OBVIOUS
<1>9. /\ Cardinality(planned) \in Nat /\ DOMAIN listed = 1 .. Cardinality(planned)
      /\ \A k \in DOMAIN listed : listed[k] \in planned
      /\ \A k, l \in DOMAIN listed : listed[k] = listed[l] => k = l
      /\ \A t \in planned : \E k \in DOMAIN listed : listed[k] = t
  <2>1. \A x \in planned : <<x, x>> \notin before
    BY <1>6, <1>7
  <2>2. \A x, y, z \in planned : <<x, y>> \in before /\ <<y, z>> \in before => <<x, z>> \in before
    BY <1>6, <1>7
  <2>. QED
    BY <1>4, <1>8, <2>1, <2>2, Listed
<1>10. PICK rows : rows = [k \in DOMAIN listed |-> PlannedRow(p, listed[k])]
  OBVIOUS
<1>11. PICK n, id : n = InsertRows(cash, rows) /\ id = NewId(cash)
  OBVIOUS
<1>12. cash' = n
  BY <1>2, <1>5, <1>8, <1>10, <1>11 DEF InsertPlanned, InOrderOfDay
<1>13. DOMAIN rows = 1 .. Cardinality(planned)
  BY <1>9, <1>10
<1>14. /\ IsTable(n)
       /\ DOMAIN cash \subseteq DOMAIN n
       /\ \A i \in DOMAIN cash : n[i] = cash[i]
       /\ \A i \in DOMAIN n \ DOMAIN cash :
            i - id + 1 \in 1 .. Cardinality(planned) /\ n[i] = rows[i - id + 1]
       /\ \A k \in 1 .. Cardinality(planned) : id + k - 1 \in DOMAIN n \ DOMAIN cash
  BY <1>9, <1>11, <1>13, Keys, SomeInserted
<1>15. \A i \in DOMAIN n \ DOMAIN cash :
         LET k == i - id + 1
         IN  /\ k \in DOMAIN listed /\ listed[k] \in planned
             /\ n[i] = PlannedRow(p, listed[k]) /\ n[i].txn = listed[k]
  BY <1>3, <1>9, <1>10, <1>14
<1>16. ASSUME NEW i \in DOMAIN n \ DOMAIN cash, NEW j \in DOMAIN n \ DOMAIN cash,
              n[i].txn = n[j].txn
       PROVE  i = j
  <2>1. i - id + 1 = j - id + 1
    BY <1>9, <1>15, <1>16
  <2>2. i \in Int /\ j \in Int /\ id \in Int
    BY <1>11, <1>14, Keys, FreshId DEF IsTable
  <2>. QED
    BY <2>1, <2>2
<1>17. ASSUME NEW t \in planned
       PROVE  \E i \in DOMAIN n \ DOMAIN cash : n[i] = PlannedRow(p, t)
  <2>1. PICK k \in 1 .. Cardinality(planned) : listed[k] = t
    BY <1>9
  <2>2. PICK i : i = id + k - 1
    OBVIOUS
  <2>3. i \in DOMAIN n \ DOMAIN cash /\ i - id + 1 = k
    BY <1>11, <1>14, <2>2, Keys, FreshId
  <2>. QED
    BY <1>15, <2>1, <2>3
<1>. QED
  BY <1>1, <1>12, <1>14, <1>15, <1>16, <1>17 DEF Backfilled

\* After a backfill every trade that was planned has its row, and nothing is planned.
LEMMA NothingLeft ==
  ASSUME LInv, NEW p \in Portfolios, NEW allow_legacy, Backfill(p, allow_legacy)
  PROVE  PlannedTrades(p)' = {}
<1>1. PICK n : n = cash'
  OBVIOUS
<1>2. /\ DOMAIN cash \subseteq DOMAIN n /\ \A i \in DOMAIN cash : n[i] = cash[i]
      /\ \A t \in PlannedTrades(p) : \E i \in DOMAIN n \ DOMAIN cash : n[i] = PlannedRow(p, t)
      /\ UNCHANGED trades
  BY <1>1, BackfillInserts DEF Backfilled, Backfill
<1>3. ASSUME NEW t \in TradesOf(p), SettlementSpecs(trades[t]) # <<>>
      PROVE  PrimaryRows(n, t) # {}
  <2>1. CASE t \in PlannedTrades(p)
    <3>1. PICK i \in DOMAIN n : n[i] = PlannedRow(p, t)
      BY <1>2, <2>1
    <3>2. n[i].txn = t /\ n[i].type \in SettlementTypes
      BY <2>1, <3>1, PlannedAre
    <3>. QED
      BY <3>2 DEF PrimaryRows, LinkedRows
  <2>2. CASE t \notin PlannedTrades(p)
    <3>1. PICK i \in PrimaryRows(cash, t) : TRUE
      BY <1>3, <2>2 DEF PlannedTrades
    <3>. QED
      BY <1>2, <3>1 DEF PrimaryRows, LinkedRows
  <2>. QED
    BY <2>1, <2>2
<1>4. \A t : SettlementSpecs(trades[t])' = SettlementSpecs(trades[t])
  BY <1>2 DEF SettlementSpecs, SaleSpecs, SpecRow, Withheld
<1>. QED
  BY <1>1, <1>2, <1>3, <1>4 DEF PlannedTrades, TradesOf

\* A backfill adds at most one row for each trade, and only to trades without rows.
LEMMA BackfillKeeps ==
  ASSUME LInv, NEW p \in Portfolios, NEW allow_legacy, Backfill(p, allow_legacy)
  PROVE  LInv'
<1>1. PICK n : n = cash'
  OBVIOUS
<1>2. /\ IsTable(n) /\ DOMAIN cash \subseteq DOMAIN n /\ \A i \in DOMAIN cash : n[i] = cash[i]
      /\ \A i \in DOMAIN n \ DOMAIN cash : \E t \in PlannedTrades(p) : n[i] = PlannedRow(p, t)
      /\ \A i, j \in DOMAIN n \ DOMAIN cash : n[i].txn = n[j].txn => i = j
      /\ UNCHANGED <<portfolios, groups, trades>>
  BY <1>1, BackfillInserts DEF Backfilled, Backfill
<1>3. \A i \in DOMAIN n \ DOMAIN cash :
        /\ RowOK(n[i], Portfolios, DOMAIN groups) /\ n[i].reverses = Null /\ n[i].group = Null
        /\ n[i].txn \in PlannedTrades(p) /\ n[i].type \in SettlementTypes
  BY <1>2, PlannedAre
<1>4. BookOK(n, Portfolios, DOMAIN groups) /\ Mirrors(n) /\ Legs(n, groups)
  <2>1. Mirrors(cash) /\ Legs(cash, groups) /\ BookOK(cash, Portfolios, DOMAIN groups)
        /\ \A g \in DOMAIN groups : g # Null
    BY Keys DEF LedgerOK
  <2>. QED
    BY <1>2, <1>3, <2>1, RowsAdded
<1>5. AllSettled(cash, trades)
  BY DEF LInv, LedgerOK
<1>6. \A i \in DOMAIN n : n[i].txn # Null => n[i].txn \in DOMAIN trades
  BY <1>2, <1>3, <1>5, PlannedAre DEF AllSettled
<1>7. ASSUME NEW t \in DOMAIN trades
      PROVE  Settled(n, t)
  <2>1. Settled(cash, t)
    BY <1>5 DEF AllSettled
  <2>2. CASE t \in PlannedTrades(p)
    <3>1. \A i \in LinkedRows(n, t) : i \in DOMAIN n \ DOMAIN cash /\ n[i].txn = t
      BY <1>2, <2>2, PlannedAre DEF LinkedRows
    <3>2. \A i, j \in LinkedRows(n, t) : i = j
      BY <1>2, <3>1
    <3>3. CASE LinkedRows(n, t) = {}
      BY <3>3 DEF Settled
    <3>4. CASE LinkedRows(n, t) # {}
      <4>1. PICK k \in LinkedRows(n, t) : TRUE
        BY <3>4
      <4>2. LinkedRows(n, t) = {k} /\ k \in DOMAIN n /\ n[k].type \in SettlementTypes
        BY <1>3, <3>1, <3>2, <4>1
      <4>. QED
        BY <4>2 DEF Settled
    <3>. QED
      BY <3>3, <3>4
  <2>3. CASE t \notin PlannedTrades(p)
    <3>1. \A i \in DOMAIN cash : cash[i].txn = t => i \in DOMAIN n /\ n[i] = cash[i]
      BY <1>2
    <3>2. \A i \in DOMAIN n : n[i].txn = t => i \in DOMAIN cash /\ cash[i] = n[i]
      BY <1>2, <1>3, <2>3
    <3>. QED
      BY <2>1, <3>1, <3>2, SettledKept
  <2>. QED
    BY <2>2, <2>3
<1>8. LedgerOK(n, trades, Portfolios, groups)
  BY <1>4, <1>6, <1>7 DEF LedgerOK, AllSettled
<1>. QED
  BY <1>1, <1>2, <1>8, LedgerStep

-----------------------------------------------------------------------------
(* CSV files *)

FileRow == [type : {"BUY", "SELL", "DIVIDEND"}, day : Days, currency : Currencies, gross : Gross]
GapRow == [type : {"BUY", "SELL", "DIVIDEND"}, day : Days, currency : Currencies,
           gross : Nat \ {0}]
DepositRow == [day : Days, currency : Currencies, amount : Nat \ {0}]

IsBook(book) == IsTable(book) /\ \A i \in DOMAIN book : book[i].amount \in Int

\* Balances of a book are integers, and gaps are not negative.
LEMMA BalanceIsInt ==
  ASSUME NEW book, IsBook(book), NEW p, NEW ccy, NEW day
  PROVE  BalanceOn(book, p, ccy, day) \in Int
<1>1. PICK ids : ids = {i \in RowsFor(book, p, ccy) : book[i].day <= day}
  OBVIOUS
<1>2. ids \subseteq DOMAIN book
  BY <1>1 DEF RowsFor
<1>3. IsFiniteSet(ids)
  BY <1>2, FS_Subset DEF IsBook, IsTable
<1>4. PICK f : f = [i \in ids |-> book[i].amount]
  OBVIOUS
<1>5. \A i \in ids : f[i] \in Int
  BY <1>2, <1>4 DEF IsBook
<1>6. SumFunction(f) = SumFunctionOnSet(f, ids)
  <2>1. DOMAIN f = ids
    BY <1>4
  <2>. QED
    BY <2>1, SumOfFunction
<1>7. SumFunctionOnSet(f, ids) \in Int
  BY <1>3, <1>5, SumStep
<1>. QED
  BY <1>1, <1>4, <1>6, <1>7 DEF BalanceOn, Total

\* What a buy lacks is never negative.
LEMMA GapIsNatural ==
  ASSUME NEW book, IsBook(book), NEW p, NEW ccy, NEW required \in Int, NEW day
  PROVE  Shortfall(book, p, ccy, required, day) \in Nat
<1>1. PICK gap : gap = required - BalanceOn(book, p, ccy, day)
  OBVIOUS
<1>2. gap \in Int
  BY <1>1, BalanceIsInt
<1>3. PICK S : S = {0, gap}
  OBVIOUS
<1>4. S \in SUBSET Int /\ S # {} /\ 0 \in S
  BY <1>2, <1>3
<1>5. IsFiniteSet(S)
  <2>1. S = {0} \cup {gap}
    BY <1>3
  <2>. QED
    BY <2>1, FS_Singleton, FS_Union
<1>6. Max(S) \in Int /\ 0 <= Max(S)
  BY <1>4, <1>5, MaxMin
<1>7. Shortfall(book, p, ccy, required, day) = IF required <= 0 THEN 0 ELSE Max(S)
  BY <1>1, <1>3 DEF Shortfall
<1>. QED
  BY <1>6, <1>7

\* A row put into the book of a preview.
LEMMA PointInserted ==
  ASSUME NEW book, IsBook(book), NEW row, row.amount \in Int
  PROVE  IsBook(InsertRow(book, row))
<1>1. Inserted(book, row, NewId(book), InsertRow(book, row))
  BY OneInserted DEF IsBook
<1>. QED
  BY <1>1 DEF Inserted, IsBook

\* A preview keeps a book of integers, and collects gaps that are positive.
PreviewOK(state) ==
  /\ state = [book |-> state.book, gaps |-> state.gaps]
  /\ IsBook(state.book) /\ state.gaps \in Seq(GapRow)

\* A row of a file keeps it so.
LEMMA RowSimulated ==
  ASSUME NEW state, PreviewOK(state), NEW p, NEW row \in FileRow
  PROVE  PreviewOK(SimulateRow(state, p, row))
<1>. DEFINE Point(amount) == Row(p, row.day, row.currency, "CASH_DEPOSIT", amount, NoText)
            gap == Shortfall(state.book, p, row.currency, row.gross, row.day)
            funded == IF gap = 0 THEN state.book ELSE InsertRow(state.book, Point(gap))
            bought == InsertRow(funded, Point(-row.gross))
            sold == InsertRow(state.book, Point(row.gross))
            gaps == IF gap = 0 THEN state.gaps ELSE Append(state.gaps, [row EXCEPT !.gross = gap])
<1>0. row.gross \in Int
  BY SettlementAssumption DEF FileRow
<1>1. \A amount : Point(amount).amount = amount
  BY DEF Row
<1>2. IsBook(state.book) /\ state.gaps \in Seq(GapRow)
  BY DEF PreviewOK
<1>3. gap \in Nat
  BY <1>0, <1>2, GapIsNatural
<1>4. -row.gross \in Int
  BY <1>0
<1>. HIDE DEF Point, gap
<1>5. IsBook(funded)
  BY <1>1, <1>2, <1>3, PointInserted
<1>. HIDE DEF funded
<1>6. IsBook(bought) /\ IsBook(sold)
  <2>1. IsBook(bought)
    BY <1>1, <1>4, <1>5, PointInserted
  <2>2. IsBook(sold)
    BY <1>0, <1>1, <1>2, PointInserted
  <2>. QED
    BY <2>1, <2>2
<1>. HIDE DEF bought, sold
<1>7. gaps \in Seq(GapRow)
  <2>1. CASE gap = 0
    BY <1>2, <2>1
  <2>2. CASE gap # 0
    <3>1. PICK new : new = [row EXCEPT !.gross = gap]
      OBVIOUS
    <3>2. gap \in Nat \ {0}
      BY <1>3, <2>2
    <3>3. new \in GapRow
      BY <3>1, <3>2 DEF FileRow, GapRow
    <3>4. gaps = Append(state.gaps, new)
      BY <2>2, <3>1
    <3>. QED
      BY <1>2, <3>3, <3>4
  <2>. QED
    BY <2>1, <2>2
<1>. HIDE DEF gaps
<1>8. CASE row.type = "BUY"
  <2>1. SimulateRow(state, p, row) = [book |-> bought, gaps |-> gaps]
    BY <1>8 DEF SimulateRow, bought, gaps, funded, gap, Point
  <2>. QED
    BY <1>6, <1>7, <2>1 DEF PreviewOK
<1>9. CASE row.type # "BUY" /\ row.type = "SELL" /\ row.gross > 0
  <2>1. SimulateRow(state, p, row) = [state EXCEPT !.book = sold]
    BY <1>9 DEF SimulateRow, sold, Point
  <2>2. [state EXCEPT !.book = sold] = [book |-> sold, gaps |-> state.gaps]
    BY DEF PreviewOK
  <2>. QED
    BY <1>2, <1>6, <2>1, <2>2 DEF PreviewOK
<1>10. CASE row.type # "BUY" /\ ~(row.type = "SELL" /\ row.gross > 0)
  BY <1>10 DEF SimulateRow
<1>. QED
  BY <1>8, <1>9, <1>10

\* A file in order of its days has a row of the file at each place.
LEMMA ChronologicalIs ==
  ASSUME NEW file \in Seq(FileRow)
  PROVE  \A k \in 1 .. Len(file) : Chronological(file)[k] \in DOMAIN file
<1>1. PICK S, n : S = DOMAIN file /\ n = Len(file)
  OBVIOUS
<1>2. n \in Nat /\ S = 1 .. n
  BY <1>1
<1>3. PICK before : before = {d \in S \X S :
                               \/ file[d[1]].day < file[d[2]].day
                               \/ (file[d[1]].day = file[d[2]].day /\ d[1] < d[2])}
  OBVIOUS
<1>4. \A x, y \in S : <<x, y>> \in before <=>
        file[x].day < file[y].day \/ (file[x].day = file[y].day /\ x < y)
  BY <1>3
<1>5. \A x \in S : x \in Int /\ file[x].day \in Int
  <2>1. \A x \in S : file[x] \in FileRow
    BY <1>1
  <2>. QED
    BY <1>2, <2>1 DEF FileRow, Days
<1>6. IsFiniteSet(S) /\ Cardinality(S) = n
  BY <1>2, FS_Interval
<1>7. PICK listed : listed = InOrder(S, before)
  OBVIOUS
<1>8. DOMAIN listed = 1 .. Cardinality(S) /\ \A k \in DOMAIN listed : listed[k] \in S
  <2>1. \A x \in S : <<x, x>> \notin before
    BY <1>4, <1>5
  <2>2. ASSUME NEW x \in S, NEW y \in S, NEW z \in S, <<x, y>> \in before, <<y, z>> \in before
        PROVE  <<x, z>> \in before
    <3>1. PICK dx, dy, dz : dx = file[x].day /\ dy = file[y].day /\ dz = file[z].day
      OBVIOUS
    <3>2. /\ x \in Int /\ y \in Int /\ z \in Int
          /\ dx \in Int /\ dy \in Int /\ dz \in Int
      BY <1>5, <3>1
    <3>3. (dx < dy \/ (dx = dy /\ x < y)) /\ (dy < dz \/ (dy = dz /\ y < z))
      BY <1>4, <2>2, <3>1
    <3>4. dx < dz \/ (dx = dz /\ x < z)
      BY ONLY <3>2, <3>3
    <3>. QED
      BY <1>4, <3>1, <3>4
  <2>3. \A x, y, z \in S : <<x, y>> \in before /\ <<y, z>> \in before => <<x, z>> \in before
    BY <2>2
  <2>. QED
    BY <1>6, <1>7, <2>1, <2>3, Listed
<1>9. Chronological(file) = listed
  BY <1>1, <1>3, <1>7 DEF Chronological
<1>. QED
  BY <1>1, <1>6, <1>8, <1>9

\* The states of a preview, and what it reports at the end.
PreviewRun(after, p, file) ==
  /\ after[0] = [book |-> cash, gaps |-> <<>>]
  /\ \A k \in 1 .. Len(file) :
       after[k] = SimulateRow(after[k - 1], p, file[Chronological(file)[k]])
  /\ Shortfalls(p, file) = after[Len(file)].gaps

\* Every preview is such a run.
LEMMA PreviewIs ==
  ASSUME NEW p, NEW file, Len(file) \in Nat
  PROVE  \E after : PreviewRun(after, p, file)
<1>. DEFINE n == Len(file)
            first == [book |-> cash, gaps |-> <<>>]
            IsRun(f) == f = [k \in 0 .. Len(file) |->
                               IF k = 0 THEN [book |-> cash, gaps |-> <<>>]
                               ELSE SimulateRow(f[k - 1], p, file[Chronological(file)[k]])]
<1>0. PICK a : a = [p |-> p, file |-> file]
  OBVIOUS
<1>1. \A f, k : RunStep("preview", a, f[k - 1], k)
                  = SimulateRow(f[k - 1], p, file[Chronological(file)[k]])
  BY <1>0 DEF RunStep
<1>2. \E f : IsRun(f)
  <2>1. PICK f : Follows(f, "preview", a, first, n)
    BY RunExists
  <2>2. f = [k \in 0 .. n |-> IF k = 0 THEN first ELSE RunStep("preview", a, f[k - 1], k)]
    BY <2>1 DEF Follows
  <2>3. f = [k \in 0 .. n |-> IF k = 0 THEN first
                              ELSE SimulateRow(f[k - 1], p, file[Chronological(file)[k]])]
    <3>. HIDE DEF n, first
    <3>. QED
      BY <1>1, <2>2
  <2>. QED
    BY <2>3
<1>3. PICK after : IsRun(after) /\ after = CHOOSE f : IsRun(f)
  <2>. HIDE DEF IsRun
  <2>. QED
    BY <1>2
<1>4. Shortfalls(p, file) = after[Len(file)].gaps
  BY <1>3 DEF Shortfalls
<1>5. after[0] = [book |-> cash, gaps |-> <<>>]
  BY <1>3
<1>6. \A k \in 1 .. Len(file) :
        after[k] = SimulateRow(after[k - 1], p, file[Chronological(file)[k]])
  <2>. SUFFICES ASSUME NEW k \in 1 .. Len(file)
                PROVE  after[k] = SimulateRow(after[k - 1], p, file[Chronological(file)[k]])
    OBVIOUS
  <2>1. k \in 0 .. Len(file) /\ k # 0
    OBVIOUS
  <2>. QED
    BY <1>3, <2>1
<1>. QED
  BY <1>4, <1>5, <1>6 DEF PreviewRun

\* The gaps a preview reports.
LEMMA ShortfallsAre ==
  ASSUME IsBook(cash), NEW p, NEW file \in Seq(FileRow)
  PROVE  Shortfalls(p, file) \in Seq(GapRow)
<1>1. PICK n : n = Len(file)
  OBVIOUS
<1>2. n \in Nat
  BY <1>1
<1>3. PICK after : PreviewRun(after, p, file)
  BY <1>1, <1>2, PreviewIs
<1>4. /\ after[0] = [book |-> cash, gaps |-> <<>>]
      /\ \A k \in 1 .. n : after[k] = SimulateRow(after[k - 1], p, file[Chronological(file)[k]])
      /\ Shortfalls(p, file) = after[n].gaps
  BY <1>1, <1>3 DEF PreviewRun
<1>. DEFINE T == {k \in Nat : k <= n => PreviewOK(after[k])}
<1>5. 0 \in T
  <2>1. PreviewOK(after[0])
    BY <1>4 DEF PreviewOK
  <2>. QED
    BY <2>1
<1>6. ASSUME NEW k \in Nat, k \in T
      PROVE  k + 1 \in T
  <2>. SUFFICES ASSUME k + 1 <= n PROVE PreviewOK(after[k + 1])
    OBVIOUS
  <2>1. k + 1 \in 1 .. n /\ (k + 1) - 1 = k /\ k + 1 \in 1 .. Len(file)
    BY <1>1, <1>2
  <2>2. PICK row : row = file[Chronological(file)[k + 1]]
    OBVIOUS
  <2>3. after[k + 1] = SimulateRow(after[k], p, row)
    BY <1>4, <2>1, <2>2
  <2>4. row \in FileRow
    BY <2>1, <2>2, ChronologicalIs
  <2>5. PreviewOK(after[k])
    BY <1>2, <1>6
  <2>. QED
    BY <2>3, <2>4, <2>5, RowSimulated
<1>7. n \in T
  <2>. HIDE DEF T
  <2>. QED
    BY <1>2, <1>5, <1>6, NumberInduction
<1>. QED
  BY <1>2, <1>4, <1>7 DEF PreviewOK

\* One deposit for each day and currency with a gap, of at least one gap.
LEMMA DepositsAre ==
  ASSUME NEW gaps \in Seq(GapRow)
  PROVE  IsFiniteSet(ProposedDeposits(gaps)) /\ ProposedDeposits(gaps) \subseteq DepositRow
<1>. DEFINE same(k) == {m \in DOMAIN gaps : /\ gaps[m].day = gaps[k].day
                                            /\ gaps[m].currency = gaps[k].currency}
            amount(k) == SumFunction([l \in same(k) |-> gaps[l].gross])
            deposit(k) == [day |-> gaps[k].day, currency |-> gaps[k].currency, amount |-> amount(k)]
<1>1. PICK places : places = DOMAIN gaps
  OBVIOUS
<1>2. IsFiniteSet(places) /\ \A k \in places : gaps[k] \in GapRow
  <2>1. Len(gaps) \in Nat /\ places = 1 .. Len(gaps)
    BY <1>1
  <2>2. IsFiniteSet(places)
    BY <2>1, FS_Interval
  <2>3. \A k \in places : gaps[k] \in GapRow
    BY <2>1
  <2>. QED
    BY <2>2, <2>3
<1>3. ASSUME NEW k \in places
      PROVE  amount(k) \in Nat \ {0}
  <2>1. PICK S : S = same(k)
    OBVIOUS
  <2>2. S \subseteq places /\ k \in S
    BY <1>1, <2>1
  <2>3. IsFiniteSet(S)
    BY <1>2, <2>2, FS_Subset
  <2>4. PICK f : f = [l \in S |-> gaps[l].gross]
    OBVIOUS
  <2>5. \A l \in S : f[l] \in Nat /\ f[l] > 0
    BY <1>2, <2>2, <2>4 DEF GapRow
  <2>6. SumFunction(f) = SumFunctionOnSet(f, S)
    <3>1. DOMAIN f = S
      BY <2>4
    <3>. QED
      BY <3>1, SumOfFunction
  <2>7. SumFunctionOnSet(f, S) \in Nat /\ f[k] <= SumFunctionOnSet(f, S)
    BY <2>2, <2>3, <2>5, SumNatural
  <2>8. amount(k) = SumFunctionOnSet(f, S)
    BY <2>1, <2>4, <2>6
  <2>. QED
    BY <2>2, <2>5, <2>7, <2>8
<1>. HIDE DEF amount
<1>4. ProposedDeposits(gaps) = {deposit(k) : k \in places}
  BY <1>1 DEF ProposedDeposits, amount
<1>5. PICK T, f : T = {deposit(k) : k \in places} /\ f = [k \in places |-> deposit(k)]
  OBVIOUS
<1>6. T \subseteq DepositRow
  <2>1. \A k \in places : deposit(k) \in DepositRow
    BY <1>2, <1>3 DEF GapRow, DepositRow
  <2>. QED
    BY <1>5, <2>1
<1>7. f \in Surjection(places, T)
  <2>1. f \in [places -> T]
    BY <1>5
  <2>2. \A x \in T : \E k \in places : f[k] = x
    BY <1>5
  <2>. QED
    BY <2>1, <2>2 DEF Surjection
<1>8. IsFiniteSet(T)
  BY <1>2, <1>7, FS_Surjection
<1>. QED
  BY <1>4, <1>5, <1>6, <1>8

\* The deposits of an import that are not refused are entries by hand.
LEMMA DepositsKeep ==
  ASSUME LInv, NEW p \in Portfolios, NEW deposits, IsFiniteSet(deposits),
         deposits \subseteq DepositRow, DepositAll(cash, p, deposits).ok
  PROVE  /\ LedgerOK(DepositAll(cash, p, deposits).book, trades, Portfolios, groups)
         /\ SameLinked(cash, DepositAll(cash, p, deposits).book)
<1>1. PICK before : before = {d \in deposits \X deposits : d[1].day < d[2].day}
  OBVIOUS
<1>2. \A x, y \in deposits : <<x, y>> \in before <=> x.day < y.day
  BY <1>1
<1>3. \A x \in deposits : x.day \in Int
  BY DEF DepositRow, Days
<1>4. PICK listed, n : listed = InOrder(deposits, before) /\ n = Cardinality(deposits)
  OBVIOUS
<1>5. n \in Nat /\ DOMAIN listed = 1 .. n /\ \A k \in DOMAIN listed : listed[k] \in deposits
  <2>1. \A x \in deposits : <<x, x>> \notin before
    BY <1>2, <1>3
  <2>2. \A x, y, z \in deposits : <<x, y>> \in before /\ <<y, z>> \in before => <<x, z>> \in before
    BY <1>2, <1>3
  <2>. QED
    BY <1>4, <2>1, <2>2, Listed
<1>6. PICK rows : rows = [k \in DOMAIN listed |->
                            Row(p, listed[k].day, listed[k].currency, "CASH_DEPOSIT",
                                listed[k].amount, NoText)]
  OBVIOUS
<1>7. ASSUME NEW k \in 1 .. n
      PROVE  /\ RowOK(rows[k], Portfolios, DOMAIN groups)
             /\ IsManual(rows[k]) /\ rows[k].reverses = Null
  <2>1. PICK d \in DepositRow : d = listed[k]
    BY <1>5
  <2>2. PICK row : row = Row(p, d.day, d.currency, "CASH_DEPOSIT", d.amount, NoText)
    OBVIOUS
  <2>3. rows[k] = row
    BY <1>5, <1>6, <2>1, <2>2
  <2>8. d.amount \in LedgerAmounts
    BY <1>5, <1>7, <2>1 DEF DepositAll
  <2>4. PICK day \in Days, ccy \in Currencies, amount \in LedgerAmounts :
           /\ day = d.day /\ ccy = d.currency /\ amount = d.amount
           /\ ValidAmountSign("CASH_DEPOSIT", amount)
    BY <2>8 DEF DepositRow, ManualTypes, ValidAmountSign, PositiveTypes, NegativeTypes
  <2>5. PICK type \in ManualTypes, text \in Texts \cup {NoText, ReversalText} :
           type = "CASH_DEPOSIT" /\ text = NoText
    BY DEF ManualTypes
  <2>6. row = Row(p, day, ccy, type, amount, text)
    BY <2>2, <2>4, <2>5
  <2>7. RowOK(row, Portfolios, DOMAIN groups) /\ IsManual(row) /\ row.reverses = Null
    BY <2>4, <2>5, <2>6, ManualRow
  <2>. QED
    BY <2>3, <2>7
<1>8. PICK result : result = InsertRows(cash, rows)
  OBVIOUS
<1>9. DepositAll(cash, p, deposits).book = result
  BY <1>1, <1>4, <1>6, <1>8 DEF DepositAll
<1>10. DOMAIN rows = 1 .. n
  BY <1>5, <1>6
<1>11. LedgerOK(result, trades, Portfolios, groups) /\ SameLinked(cash, result)
  BY <1>5, <1>7, <1>8, <1>10, Keys, ManualInserted
<1>. QED
  BY <1>9, <1>11

\* A row of a file that passes the validation is a trade of its kind.
LEMMA TradeOfRow ==
  ASSUME NEW ps, NEW p \in ps, NEW kind \in Kinds, NEW row,
         InputOf(kind, row) \in TradeInputs(kind)
  PROVE  TradeOK(TradeOf(p, kind, row), ps)
BY DEF TradeOK, TradeOf

\* The states of an import, from the tables after its deposits.
ImportRun(after, p, kind, file) ==
  /\ after[0] = Funded(p, file)
  /\ \A k \in 1 .. Len(file) : after[k] = Created(after[k - 1], TradeOf(p, kind, file[k]))
  /\ Imported(p, kind, file) = after[Len(file)]

\* Every import is such a run.
LEMMA ImportIs ==
  ASSUME NEW p, NEW kind, NEW file, Len(file) \in Nat
  PROVE  \E after : ImportRun(after, p, kind, file)
<1>. DEFINE n == Len(file)
            first == Funded(p, file)
            IsRun(f) == f = [k \in 0 .. Len(file) |->
                               IF k = 0 THEN Funded(p, file)
                               ELSE Created(f[k - 1], TradeOf(p, kind, file[k]))]
<1>0. PICK a : a = [p |-> p, kind |-> kind, file |-> file]
  OBVIOUS
<1>1. \A f, k : RunStep("import", a, f[k - 1], k) = Created(f[k - 1], TradeOf(p, kind, file[k]))
  BY <1>0 DEF RunStep
<1>2. \E f : IsRun(f)
  <2>1. PICK f : Follows(f, "import", a, first, n)
    BY RunExists
  <2>2. f = [k \in 0 .. n |-> IF k = 0 THEN first ELSE RunStep("import", a, f[k - 1], k)]
    BY <2>1 DEF Follows
  <2>3. f = [k \in 0 .. n |-> IF k = 0 THEN first ELSE Created(f[k - 1], TradeOf(p, kind, file[k]))]
    <3>. HIDE DEF n, first
    <3>. QED
      BY <1>1, <2>2
  <2>. QED
    BY <2>3
<1>3. PICK after : IsRun(after) /\ after = CHOOSE f : IsRun(f)
  <2>. HIDE DEF IsRun
  <2>. QED
    BY <1>2
<1>4. Imported(p, kind, file) = after[Len(file)]
  BY <1>3 DEF Imported
<1>5. after[0] = Funded(p, file)
  BY <1>3
<1>6. \A k \in 1 .. Len(file) : after[k] = Created(after[k - 1], TradeOf(p, kind, file[k]))
  <2>. SUFFICES ASSUME NEW k \in 1 .. Len(file)
                PROVE  after[k] = Created(after[k - 1], TradeOf(p, kind, file[k]))
    OBVIOUS
  <2>1. k \in 0 .. Len(file) /\ k # 0
    OBVIOUS
  <2>. QED
    BY <1>3, <2>1
<1>. QED
  BY <1>4, <1>5, <1>6 DEF ImportRun

\* An import that goes through leaves trades and ledger as they should be.
LEMMA ImportKeeps ==
  ASSUME LInv, NEW p \in ActivePortfolios, NEW kind \in Kinds, NEW file \in Files,
         NEW confirmed, ImportFile(p, kind, file, confirmed)
  PROVE  LInv' /\ Extended(trades, cash, trades', cash')
<1>. DEFINE gaps == IF IsCashAware(p) THEN Shortfalls(p, file) ELSE <<>>
            n == Len(file)
            first == Funded(p, file)
<1>2. file \in Seq(FileRow) /\ n \in Nat
  <2>1. file \in Seq(FileRow)
    BY SettlementAssumption DEF FileRow
  <2>. QED
    BY <2>1
<1>3. PICK after : ImportRun(after, p, kind, file)
  BY <1>2, ImportIs
<1>4. /\ after[0] = first
      /\ \A k \in 1 .. Len(file) : after[k] = Created(after[k - 1], TradeOf(p, kind, file[k]))
  BY <1>3 DEF ImportRun
<1>5. Imported(p, kind, file) = after[n]
  BY <1>3 DEF ImportRun
<1>6. /\ after[n].ok /\ trades' = after[n].trades /\ cash' = after[n].book
      /\ UNCHANGED <<portfolios, groups>>
      /\ \A k \in DOMAIN file : InputOf(kind, file[k]) \in TradeInputs(kind)
  BY <1>5 DEF ImportFile
<1>7. p \in Portfolios
  BY DEF ActivePortfolios
<1>8. gaps \in Seq(GapRow)
  <2>1. IsBook(cash)
    <3>1. IsTable(cash) /\ \A i \in DOMAIN cash : cash[i] \in Rows(Portfolios, DOMAIN groups)
      BY Keys, RowsAre
    <3>. QED
      BY <3>1 DEF IsBook, Rows
  <2>2. Shortfalls(p, file) \in Seq(GapRow)
    BY <1>2, <2>1, ShortfallsAre
  <2>. QED
    BY <2>2
<1>15. PICK deposited : deposited = DepositAll(cash, p, ProposedDeposits(gaps))
  OBVIOUS
<1>16. /\ first.trades = trades /\ first.book = deposited.book
       /\ first.ok = deposited.ok
  BY <1>15 DEF Funded
<1>. HIDE DEF gaps, first
<1>9. ASSUME first.ok
      PROVE  StateOK(first, Portfolios, groups) /\ Extended(trades, cash, first.trades, first.book)
  <2>1. PICK deposits : deposits = ProposedDeposits(gaps)
    OBVIOUS
  <2>2. IsFiniteSet(deposits) /\ deposits \subseteq DepositRow
    BY <1>8, <2>1, DepositsAre
  <2>3. DepositAll(cash, p, deposits).ok
    BY <1>9, <1>15, <1>16, <2>1
  <2>4. /\ LedgerOK(DepositAll(cash, p, deposits).book, trades, Portfolios, groups)
        /\ SameLinked(cash, DepositAll(cash, p, deposits).book)
    BY <1>7, <2>2, <2>3, DepositsKeep
  <2>5. PICK book : book = deposited.book
    OBVIOUS
  <2>6. LedgerOK(book, trades, Portfolios, groups) /\ SameLinked(cash, book)
    BY <1>15, <2>1, <2>4, <2>5
  <2>7. first.trades = trades /\ first.book = book
    BY <1>16, <2>5
  <2>8. StateOK(first, Portfolios, groups)
    BY <2>6, <2>7 DEF StateOK, LInv
  <2>9. Extended(trades, cash, first.trades, first.book)
    BY <2>6, <2>7, Keys, UnlinkedKeepBookings DEF Extended
  <2>. QED
    BY <2>8, <2>9
<1>10. after[0] = first
  BY <1>4
<1>. DEFINE Reached(state) == /\ StateOK(state, Portfolios, groups)
                              /\ Extended(trades, cash, state.trades, state.book)
            T == {k \in Nat : k <= n /\ after[k].ok => Reached(after[k])}
<1>11. 0 \in T
  BY <1>9, <1>10
<1>12. ASSUME NEW k \in Nat, k \in T
       PROVE  k + 1 \in T
  <2>. SUFFICES ASSUME k + 1 <= n, after[k + 1].ok
                PROVE  Reached(after[k + 1])
    OBVIOUS
  <2>1. k + 1 \in 0 .. n /\ k + 1 # 0 /\ (k + 1) - 1 = k /\ k + 1 \in 1 .. Len(file)
    BY <1>2
  <2>2. PICK trade : trade = TradeOf(p, kind, file[k + 1])
    OBVIOUS
  <2>3. after[k + 1] = Created(after[k], trade)
    BY <1>4, <2>1, <2>2
  <2>4. TradeOK(trade, Portfolios)
    <3>1. k + 1 \in DOMAIN file
      BY <1>2, <2>1
    <3>2. PICK row : row = file[k + 1]
      OBVIOUS
    <3>3. InputOf(kind, row) \in TradeInputs(kind)
      BY <1>6, <3>1, <3>2
    <3>. QED
      BY <1>7, <2>2, <3>2, <3>3, TradeOfRow
  <2>5. after[k].ok
    <3>1. PICK state, new : state = after[k] /\ new = after[k + 1]
      OBVIOUS
    <3>2. Created(state, trade).ok
      BY <2>3, <3>1
    <3>. QED
      BY <3>1, <3>2, CreatedWasOK
  <2>6. Reached(after[k])
    BY <1>2, <1>12, <2>5
  <2>7. PICK state, new : state = after[k] /\ new = after[k + 1]
    OBVIOUS
  <2>8. new = Created(state, trade) /\ new.ok /\ Reached(state)
    BY <2>3, <2>6, <2>7
  <2>9. /\ StateOK(new, Portfolios, groups)
        /\ Extended(state.trades, state.book, new.trades, new.book)
    BY <2>4, <2>8, Keys, CreatedKeeps
  <2>10. Extended(trades, cash, new.trades, new.book)
    BY <2>8, <2>9, ExtendedMore
  <2>. QED
    BY <2>7, <2>9, <2>10
<1>13. n \in T
  <2>. HIDE DEF T
  <2>. QED
    BY <1>2, <1>11, <1>12, NumberInduction
<1>14. Reached(after[n])
  BY <1>2, <1>6, <1>13
<1>. QED
  BY <1>6, <1>14, TradeStep DEF StateOK

-----------------------------------------------------------------------------
(* The steps, as the contract sees them *)

\* The bookings the contract sees, now and after a step.
LEMMA BookingsSeen ==
  /\ \A t : Booked(t) = BookedIn(cash, t)
  /\ \A t : Booked(t)' = BookedIn(cash', t)
BY DEF Booked, BookedIn

\* Trades that are written, by hand or from a file.
LEMMA ExtendingWrites ==
  ASSUME LInv, Extended(trades, cash, trades', cash'), UNCHANGED portfolios,
         TradesOK(trades', Portfolios)
  PROVE  Contract!WriteTrades
<1>1. /\ DOMAIN trades \subseteq DOMAIN trades'
      /\ \A u \in DOMAIN trades : trades'[u] = trades[u] /\ BookedIn(cash', u) = BookedIn(cash, u)
      /\ \A u \in DOMAIN trades' \ DOMAIN trades : BookedIn(cash', u) = NewBooking(trades'[u])
  BY DEF Extended
<1>2. \A u \in DOMAIN trades' : trades'[u].portfolio \in Portfolios
  BY TradeFields DEF TradesOK
<1>3. \A p \in Portfolios : [q \in Portfolios |-> IsCashAware(q)][p] = IsCashAware(p)
  OBVIOUS
<1>4. ASSUME NEW u \in DOMAIN trades
      PROVE  Contract!Untouched(u)
  BY <1>1, BookingsSeen DEF Contract!Untouched
<1>5. ASSUME NEW u \in DOMAIN trades' \ DOMAIN trades
      PROVE  Contract!Written(u)
  BY <1>1, <1>2, BookingsSeen DEF Contract!Written, NewBooking
<1>6. UNCHANGED [p \in Portfolios |-> IsCashAware(p)]
  BY DEF Portfolios, IsCashAware
<1>. QED
  BY <1>1, <1>4, <1>5, <1>6 DEF Contract!WriteTrades

\* A trade that is updated.
LEMMA UpdateWrites ==
  ASSUME LInv, NEW t \in DOMAIN trades, NEW p \in Portfolios,
         NEW input \in TradeInputs(trades[t].kind), UpdateTrade(t, input, p)
  PROVE  Contract!WriteTrades
<1>1. PICK trade, synced : trade = InPortfolio(input, p) /\ synced = SyncTrade(cash, t, trade)
  OBVIOUS
<1>2. /\ synced.ok /\ trades' = [trades EXCEPT ![t] = trade] /\ cash' = synced.book
      /\ UNCHANGED <<portfolios, groups>>
  BY <1>1 DEF UpdateTrade
<1>0. PICK q \in Portfolios, kind \in Kinds :
        \E old \in TradeInputs(kind) : trades[t] = InPortfolio(old, q)
  BY DEF LInv, TradesOK, TradeOK
<1>3. PICK old \in TradeInputs(kind) : trades[t] = InPortfolio(old, q)
  BY <1>0
<1>4. trades[t].kind = kind
  BY <1>3 DEF InPortfolio, TradeInputs
<1>5. TradeOK(trade, Portfolios)
  BY <1>1, <1>4 DEF TradeOK
<1>6. t \in Nat /\ t # Null
  BY DEF LInv, TradesOK, IsTable, Null
<1>7. /\ SameBut(cash, cash', t)
      /\ BookedIn(cash', t) = IF IsCashAware(trade.portfolio)
                              THEN Contract!ProperBooking(trade) ELSE BookedIn(cash, t)
  <2>1. PICK trs2 : trs2 = trades' /\ DOMAIN trs2 = DOMAIN trades \cup {t}
    BY <1>2
  <2>2. /\ LedgerOK(cash, trades, Portfolios, groups)
        /\ \A g \in DOMAIN groups : g # Null
        /\ \A u \in DOMAIN trades : u # Null
    BY Keys
  <2>3. /\ SameBut(cash, synced.book, t)
        /\ BookedIn(synced.book, t) = IF IsCashAware(trade.portfolio)
                                      THEN Contract!ProperBooking(trade) ELSE BookedIn(cash, t)
    BY ONLY <1>1, <1>2, <1>5, <1>6, <2>1, <2>2, SyncKeeps
  <2>. QED
    BY <1>2, <2>3
<1>8. DOMAIN trades' = DOMAIN trades /\ trades'[t] = trade
      /\ \A u \in DOMAIN trades : u # t => trades'[u] = trades[u]
  BY <1>2
<1>9. ASSUME NEW u \in DOMAIN trades, u # t
      PROVE  BookedIn(cash', u) = BookedIn(cash, u)
  BY <1>7, <1>9, Keys, OtherBookingsKept
<1>10. ASSUME NEW u \in DOMAIN trades, u # t
       PROVE  Contract!Untouched(u)
  BY <1>8, <1>9, <1>10, BookingsSeen DEF Contract!Untouched
<1>11. Contract!Written(t)
  <2>1. trade.portfolio \in Portfolios
    BY <1>5, TradeFields
  <2>. QED
    BY <1>7, <1>8, <2>1, BookingsSeen DEF Contract!Written
<1>12. UNCHANGED [r \in Portfolios |-> IsCashAware(r)]
  BY <1>2 DEF Portfolios, IsCashAware
<1>. QED
  BY <1>8, <1>10, <1>11, <1>12 DEF Contract!WriteTrades

\* A trade that is deleted takes its booking with it.
LEMMA DeleteRemoves ==
  ASSUME LInv, NEW t \in DOMAIN trades, DeleteTrade(t)
  PROVE  Contract!RemoveTrade
<1>1. PICK linked, removed : /\ linked = LinkedRows(cash, t)
                             /\ removed = IF IsCashAware(trades[t].portfolio) THEN linked ELSE {}
  OBVIOUS
<1>2. /\ linked = removed /\ trades' = RemoveRows(trades, {t}) /\ cash' = RemoveRows(cash, linked)
      /\ UNCHANGED <<portfolios, groups>>
  BY <1>1 DEF DeleteTrade
<1>3. DOMAIN cash' = DOMAIN cash \ linked /\ \A i \in DOMAIN cash \ linked : cash'[i] = cash[i]
  BY <1>2 DEF RemoveRows
<1>4. DOMAIN trades' = DOMAIN trades \ {t} /\ trades' = [s \in DOMAIN trades \ {t} |-> trades[s]]
  BY <1>2 DEF RemoveRows
<1>5. ASSUME NEW u \in DOMAIN trades \ {t}
      PROVE  BookedIn(cash', u) = BookedIn(cash, u)
  <2>1. \A i \in DOMAIN cash : i \in linked <=> cash[i].txn = t
    BY <1>1 DEF LinkedRows
  <2>2. /\ \A i \in DOMAIN cash : cash[i].txn = u => i \in DOMAIN cash' /\ cash'[i] = cash[i]
        /\ \A i \in DOMAIN cash' : cash'[i].txn = u => i \in DOMAIN cash /\ cash[i] = cash'[i]
    BY <1>3, <2>1
  <2>. QED
    BY <2>2, Keys, BookingKept
<1>6. IsCashAware(trades[t].portfolio) \/ Booked(t) = Contract!Nothing
  BY <1>1, <1>2 DEF Booked, Contract!Nothing
<1>7. trades[t].portfolio \in Portfolios
  BY TradeFields DEF LInv, TradesOK
<1>8. UNCHANGED [r \in Portfolios |-> IsCashAware(r)]
  BY <1>2 DEF Portfolios, IsCashAware
<1>9. [u \in DOMAIN trades' |-> Booked(u)'] = [u \in DOMAIN trades \ {t} |-> Booked(u)]
  BY <1>4, <1>5, BookingsSeen
<1>. QED
  BY <1>4, <1>6, <1>7, <1>8, <1>9 DEF Contract!RemoveTrade

\* A backfill books trades that had nothing booked, gross, and touches no other.
LEMMA BackfillBooks ==
  ASSUME LInv, NEW p \in Portfolios, NEW allow_legacy, Backfill(p, allow_legacy)
  PROVE  Contract!Backfill
<1>1. PICK n : n = cash'
  OBVIOUS
<1>2. Backfilled(n, p) /\ UNCHANGED <<portfolios, trades>>
  BY <1>1, BackfillInserts DEF Backfill
<1>3. ASSUME NEW t \in DOMAIN trades, t \notin PlannedTrades(p)
      PROVE  BookedIn(n, t) = BookedIn(cash, t)
  <2>1. \A i \in DOMAIN n \ DOMAIN cash : n[i].txn # t
    BY <1>2, <1>3, PlannedAre DEF Backfilled
  <2>2. /\ \A i \in DOMAIN cash : cash[i].txn = t => i \in DOMAIN n /\ n[i] = cash[i]
        /\ \A i \in DOMAIN n : n[i].txn = t => i \in DOMAIN cash /\ cash[i] = n[i]
    BY <1>2, <2>1 DEF Backfilled
  <2>. QED
    BY <2>2, Keys, BookingKept
<1>4. ASSUME NEW t \in PlannedTrades(p)
      PROVE  /\ BookedIn(cash, t) = Contract!Nothing /\ Contract!Settles(trades[t])
             /\ \/ BookedIn(n, t) = Contract!Nothing
                \/ BookedIn(n, t) = Contract!GrossBooking(trades[t])
  <2>1. /\ t \in DOMAIN trades /\ TradeOK(trades[t], Portfolios)
        /\ trades[t].portfolio = p /\ SettlementSpecs(trades[t]) # <<>>
        /\ LinkedRows(cash, t) = {}
    BY PlannedAre
  <2>2. PICK trade, spec, row : /\ trade = trades[t] /\ spec = Head(SettlementSpecs(trade))
                                /\ row = PlannedRow(p, t)
    OBVIOUS
  <2>3. BookedIn(cash, t) = Contract!Nothing
    BY <2>1 DEF BookedIn, Contract!Nothing
  <2>4. Contract!Settles(trade)
    BY <2>1, <2>2 DEF SettlementSpecs, Contract!Settles
  <2>5. spec = IF trade.type = "BUY" THEN SpecRow(trade, "BUY_SETTLEMENT", -Quantized(trade.gross))
               ELSE SpecRow(trade, "SELL_SETTLEMENT", Quantized(trade.gross))
    <3>1. PICK sale, tax : /\ sale = SpecRow(trade, "SELL_SETTLEMENT", Quantized(trade.gross))
                           /\ tax = SpecRow(trade, "TAX_WITHHELD", -Withheld(trade))
      OBVIOUS
    <3>2. Head(<<sale>> \o <<tax>>) = sale
      BY OneThenOne
    <3>3. Head(<<sale>> \o <<>>) = sale
      OBVIOUS
    <3>. QED
      BY <2>2, <2>4, <3>1, <3>2, <3>3 DEF SettlementSpecs, SaleSpecs, Contract!Settles
  <2>6. /\ row.portfolio = p /\ row.day = trade.day /\ row.currency = trade.currency
        /\ row.amount = IF trade.type = "BUY" THEN -Quantized(trade.gross)
                         ELSE Quantized(trade.gross)
    <3>1. row = [Row(p, spec.day, spec.currency, spec.type, spec.amount, NoText) EXCEPT !.txn = t]
      BY <2>2 DEF PlannedRow
    <3>2. /\ spec.day = trade.day /\ spec.currency = trade.currency
          /\ spec.amount = IF trade.type = "BUY" THEN -Quantized(trade.gross)
                            ELSE Quantized(trade.gross)
      BY <2>5 DEF SpecRow
    <3>. QED
      BY <3>1, <3>2 DEF Row
  <2>7. CASE LinkedRows(n, t) = {}
    BY <2>2, <2>3, <2>4, <2>7 DEF BookedIn, Contract!Nothing
  <2>8. CASE LinkedRows(n, t) # {}
    <3>1. PICK k \in LinkedRows(n, t) : TRUE
      BY <2>8
    <3>2. \A i \in LinkedRows(n, t) : i \in DOMAIN n \ DOMAIN cash /\ n[i].txn = t
      BY <1>2, <2>1 DEF Backfilled, LinkedRows
    <3>3. LinkedRows(n, t) = {k, k}
      BY <1>2, <3>1, <3>2 DEF Backfilled
    <3>4. PICK u \in PlannedTrades(p) : n[k] = PlannedRow(p, u)
      BY <1>2, <3>1, <3>2 DEF Backfilled
    <3>5. n[k] = row
      BY <2>2, <3>1, <3>2, <3>4, PlannedAre
    <3>6. row.amount \in Int
      BY <2>1, <2>2, <2>6, TradeFields
    <3>7. /\ IsTable(n) /\ k \in DOMAIN n /\ n[k].amount \in Int /\ Alike(n[k], n[k])
      BY <1>2, <3>1, <3>2, <3>5, <3>6 DEF Backfilled, Alike
    <3>8. BookedIn(n, t) =
            [portfolio |-> n[k].portfolio, day |-> n[k].day, currency |-> n[k].currency,
             net |-> IF k = k THEN n[k].amount ELSE n[k].amount + n[k].amount]
      BY ONLY <3>3, <3>7, BookingOfRows
    <3>9. BookedIn(n, t) = Contract!GrossBooking(trade)
      BY <2>1, <2>2, <2>6, <3>5, <3>8 DEF Contract!GrossBooking, Contract!Booking
    <3>. QED
      BY <2>2, <2>3, <2>4, <3>9
  <2>. QED
    BY <2>7, <2>8
<1>5. \A t \in DOMAIN trades :
        \/ BookedIn(n, t) = BookedIn(cash, t)
        \/ /\ BookedIn(cash, t) = Contract!Nothing /\ Contract!Settles(trades[t])
           /\ BookedIn(n, t) = Contract!GrossBooking(trades[t])
  BY <1>3, <1>4
<1>6. UNCHANGED [r \in Portfolios |-> IsCashAware(r)]
  BY <1>2 DEF Portfolios, IsCashAware
<1>. QED
  BY <1>1, <1>2, <1>5, <1>6, BookingsSeen DEF Contract!Backfill

-----------------------------------------------------------------------------
(* The theorems *)

\* The tables start empty, beside the default portfolio.
LEMMA SettlementInitInv == Init => LInv
<1>. SUFFICES ASSUME Init PROVE LInv
  OBVIOUS
<1>1. RegistryInv
  BY RegistryInitInv DEF Init
<1>2. cash = <<>> /\ groups = <<>> /\ trades = <<>>
  BY DEF Init, CashInit
<1>3. IsTable(cash) /\ IsTable(trades) /\ DOMAIN cash = {} /\ DOMAIN trades = {} /\ DOMAIN groups = {}
  BY <1>2, FS_EmptySet DEF IsTable
<1>4. groups \in Seq(GroupRow)
  BY <1>2
<1>5. TradesOK(trades, Portfolios)
  BY <1>3 DEF TradesOK
<1>6. LedgerOK(cash, trades, Portfolios, groups)
  BY <1>3 DEF LedgerOK, BookOK, Mirrors, Legs, AllSettled
<1>. QED
  BY <1>1, <1>4, <1>5, <1>6 DEF LInv

\* Every request keeps the invariant.
LEMMA SettlementStepInv == LInv /\ [Next]_settlementVars => LInv'
<1>. SUFFICES ASSUME LInv, [Next]_settlementVars PROVE LInv'
  OBVIOUS
<1>1. CASE CashNext /\ UNCHANGED trades
  BY <1>1, CashStep
<1>2. CASE CreateRequest
  <2>1. PICK p \in ActivePortfolios, kind \in Kinds :
          \E input \in TradeInputs(kind) : CreateTrade(InPortfolio(input, p))
    BY <1>2 DEF CreateRequest, Requests
  <2>2. PICK input \in TradeInputs(kind) : CreateTrade(InPortfolio(input, p))
    BY <2>1
  <2>. QED
    BY <2>2, CreateTradeKeeps
<1>3. CASE UpdateTradeRequest
  <2>1. PICK t \in DOMAIN trades, p \in Portfolios :
          \E input \in TradeInputs(trades[t].kind) : UpdateTrade(t, input, p)
    BY <1>3 DEF UpdateTradeRequest, Requests
  <2>2. PICK input \in TradeInputs(trades[t].kind) : UpdateTrade(t, input, p)
    BY <2>1
  <2>. QED
    BY <2>2, UpdateTradeKeeps
<1>4. CASE DeleteTradeRequest
  <2>1. PICK t \in DOMAIN trades : DeleteTrade(t)
    BY <1>4 DEF DeleteTradeRequest
  <2>. QED
    BY <2>1, DeleteTradeKeeps
<1>5. CASE BackfillCommand
  <2>1. PICK p \in Portfolios, allow_legacy \in BOOLEAN : Backfill(p, allow_legacy)
    BY <1>5 DEF BackfillCommand
  <2>. QED
    BY <2>1, BackfillKeeps
<1>6. CASE ImportRequest
  <2>1. PICK p \in ActivePortfolios, kind \in Kinds, file \in Files, confirmed \in BOOLEAN :
          ImportFile(p, kind, file, confirmed)
    BY <1>6 DEF ImportRequest
  <2>. QED
    BY <2>1, ImportKeeps
<1>7. CASE UNCHANGED settlementVars
  <2>1. UNCHANGED <<portfolios, groups, trades>> /\ cash' = cash
    BY <1>7 DEF settlementVars
  <2>2. LedgerOK(cash', trades, Portfolios, groups)
    BY <2>1 DEF LInv
  <2>. QED
    BY <2>1, <2>2, LedgerStep
<1>. QED
  BY <1>1, <1>2, <1>3, <1>4, <1>5, <1>6, <1>7 DEF Next

\* The inductive invariant of the registry, the trades and the broker ledger.
THEOREM LedgerInvariant == Spec => []LInv
BY SettlementInitInv, SettlementStepInv, PTL DEF Spec

\* One portfolio is the default and is active, and no more than the limit are active:
\* whatever is created, switched off, brought back or made the default.
THEOREM ActivePortfoliosWithinLimit == Spec => []ActiveWithinLimit
<1>1. LInv => ActiveWithinLimit
  BY DEF LInv, RegistryInv
<1>. QED
  BY <1>1, LedgerInvariant, PTL

\* A reversal and its entry stay opposite for good, and no entry is reversed twice: no
\* edit, deletion, settlement, backfill or import of any number of rows reaches them.
THEOREM ReversalsStayMirrored == Spec => []ReversalsMirrorEntries
<1>1. LInv => ReversalsMirrorEntries
  BY DEF LInv, LedgerOK, Mirrors, ReversalsMirrorEntries
<1>. QED
  BY <1>1, LedgerInvariant, PTL

\* Every transfer keeps its two legs, as the transfer group says them.
THEOREM TransfersKeepTheirLegs == Spec => []TransferLegsMatchGroup
<1>1. LInv => TransferLegsMatchGroup
  BY DEF LInv, LedgerOK, Legs, LegsMatch, TransferLegsMatchGroup
<1>. QED
  BY <1>1, LedgerInvariant, PTL

\* The settled rows of a trade agree with one another.
LEMMA SettledRowsAgree ==
  ASSUME NEW book, NEW t, t # Null, Settled(book, t), NEW i \in LinkedRows(book, t)
  PROVE  /\ \E k \in LinkedRows(book, t) :
              /\ {j \in LinkedRows(book, t) : book[j].type \in SettlementTypes} = {k}
              /\ book[i].type = "TAX_WITHHELD" => book[k].type = "SELL_SETTLEMENT"
              /\ Alike(book[i], book[k])
         /\ Cardinality(LinkedRows(book, t)) <= 2
<1>1. PICK linked : linked = LinkedRows(book, t)
  OBVIOUS
<1>2. CASE \E k \in DOMAIN book : linked = {k} /\ book[k].type \in SettlementTypes
  <2>1. PICK k \in DOMAIN book : linked = {k} /\ book[k].type \in SettlementTypes
    BY <1>2
  <2>2. Cardinality(linked) = 1
    BY <2>1, FS_Singleton
  <2>. QED
    BY <1>1, <2>1, <2>2 DEF Alike, SettlementTypes
<1>3. CASE \E k, x \in DOMAIN book :
             /\ linked = {k, x} /\ Alike(book[x], book[k])
             /\ book[k].type = "SELL_SETTLEMENT" /\ book[x].type = "TAX_WITHHELD"
  <2>1. PICK k \in DOMAIN book, x \in DOMAIN book :
          /\ linked = {k, x} /\ Alike(book[x], book[k])
          /\ book[k].type = "SELL_SETTLEMENT" /\ book[x].type = "TAX_WITHHELD"
    BY <1>3
  <2>2. IsFiniteSet({k}) /\ Cardinality({k}) = 1
    BY FS_Singleton
  <2>3. {k, x} = {k} \cup {x} /\ x \notin {k}
    BY <2>1
  <2>4. Cardinality(linked) = 2
    BY <2>1, <2>2, <2>3, FS_AddElement
  <2>5. k \in linked /\ {j \in linked : book[j].type \in SettlementTypes} = {k}
    BY <2>1 DEF SettlementTypes
  <2>6. Alike(book[i], book[k])
    BY <1>1, <2>1 DEF Alike
  <2>. QED
    BY <1>1, <2>1, <2>4, <2>5, <2>6
<1>. QED
  BY <1>1, <1>2, <1>3 DEF Settled

\* The rows linked to a trade never outlive it and always agree, however its type, day,
\* currency, portfolio, proceeds and tax change, and whatever becomes cash aware between.
THEOREM LinkedRowsAlwaysAgree == Spec => []LinkedRowsAgree
<1>1. ASSUME LInv PROVE LinkedRowsAgree
  <2>. SUFFICES ASSUME NEW i \in DOMAIN cash, cash[i].txn # Null
                PROVE  /\ cash[i].txn \in DOMAIN trades
                       /\ \E k \in LinkedRows(cash, cash[i].txn) :
                            /\ PrimaryRows(cash, cash[i].txn) = {k}
                            /\ cash[i].type = "TAX_WITHHELD" => cash[k].type = "SELL_SETTLEMENT"
                            /\ cash[i].portfolio = cash[k].portfolio /\ cash[i].day = cash[k].day
                            /\ cash[i].currency = cash[k].currency
                       /\ Cardinality(LinkedRows(cash, cash[i].txn)) <= 2
    BY DEF LinkedRowsAgree
  <2>1. AllSettled(cash, trades)
    BY <1>1 DEF LInv, LedgerOK
  <2>2. PICK t : t = cash[i].txn
    OBVIOUS
  <2>3. t \in DOMAIN trades /\ Settled(cash, t) /\ t # Null
    BY <2>1, <2>2 DEF AllSettled
  <2>4. i \in LinkedRows(cash, t)
    BY <2>2 DEF LinkedRows
  <2>5. /\ \E k \in LinkedRows(cash, t) :
             /\ {j \in LinkedRows(cash, t) : cash[j].type \in SettlementTypes} = {k}
             /\ cash[i].type = "TAX_WITHHELD" => cash[k].type = "SELL_SETTLEMENT"
             /\ Alike(cash[i], cash[k])
        /\ Cardinality(LinkedRows(cash, t)) <= 2
    BY <2>3, <2>4, SettledRowsAgree
  <2>. QED
    BY <2>2, <2>3, <2>5 DEF PrimaryRows, Alike
<1>. QED
  BY <1>1, LedgerInvariant, PTL

\* Registry, ledger and trades hold what their columns allow, and every foreign key of
\* the ledger points at a row.
THEOREM TypesOfSettlement == Spec => []SettlementTypeOK
<1>1. ASSUME LInv PROVE SettlementTypeOK
  <2>1. RegistryTypeOK
    BY <1>1 DEF LInv, RegistryInv
  <2>2. /\ BookOK(cash, Portfolios, DOMAIN groups) /\ IsTable(cash)
        /\ IsTable(trades) /\ Mirrors(cash)
    BY <1>1, Keys DEF LedgerOK
  <2>3. CashTypeOK
    <3>. SUFFICES ASSUME NEW i \in DOMAIN cash
                  PROVE  /\ cash[i].portfolio \in Portfolios /\ cash[i].day \in Days
                         /\ cash[i].currency \in Currencies /\ cash[i].type \in CashEntryTypes
                         /\ cash[i].amount \in LedgerAmounts
                         /\ ValidAmountSign(cash[i].type, cash[i].amount)
                         /\ cash[i].reverses \in DOMAIN cash \cup {Null}
                         /\ cash[i].group \in DOMAIN groups \cup {Null}
      BY <2>2 DEF CashTypeOK, IsTable
    <3>1. RowOK(cash[i], Portfolios, DOMAIN groups)
      BY <2>2 DEF BookOK
    <3>2. cash[i].reverses \in DOMAIN cash \cup {Null}
      BY <2>2 DEF Mirrors
    <3>. QED
      BY <3>1, <3>2 DEF RowOK, Rows
  <2>4. DOMAIN trades \subseteq Nat \ {0} /\ \A t \in DOMAIN trades : TradeOK(trades[t], Portfolios)
    BY <1>1, <2>2 DEF LInv, TradesOK, IsTable
  <2>. QED
    BY <2>1, <2>3, <2>4 DEF SettlementTypeOK, TradeOK
<1>. QED
  BY <1>1, LedgerInvariant, PTL

\* Every request is a step of the contract, or changes nothing of what it sees.
LEMMA StepsKeepContract == LInv /\ [Next]_settlementVars => [Contract!Next]_Contract!contractVars
<1>. SUFFICES ASSUME LInv, [Next]_settlementVars
              PROVE  [Contract!Next]_Contract!contractVars
  OBVIOUS
<1>1. CASE CashNext /\ UNCHANGED trades
  <2>1. SameLinked(cash, cash')
    BY <1>1, CashStep
  <2>2. \A t \in DOMAIN trades : BookedIn(cash', t) = BookedIn(cash, t)
    BY <2>1, Keys, UnlinkedKeepBookings
  <2>3. UNCHANGED <<trades, [t \in DOMAIN trades |-> Booked(t)]>>
    BY <1>1, <2>2, BookingsSeen
  <2>. QED
    BY <2>3 DEF Contract!Next, Contract!SwitchAwareness
<1>2. CASE CreateRequest
  <2>1. PICK p \in ActivePortfolios, kind \in Kinds :
          \E input \in TradeInputs(kind) : CreateTrade(InPortfolio(input, p))
    BY <1>2 DEF CreateRequest, Requests
  <2>2. PICK input \in TradeInputs(kind) : CreateTrade(InPortfolio(input, p))
    BY <2>1
  <2>3. UNCHANGED portfolios /\ Portfolios' = Portfolios
    BY <2>2 DEF CreateTrade, Portfolios
  <2>4. TradesOK(trades', Portfolios) /\ Extended(trades, cash, trades', cash')
    BY <2>2, <2>3, CreateTradeKeeps DEF LInv
  <2>. QED
    BY <2>3, <2>4, ExtendingWrites DEF Contract!Next
<1>3. CASE UpdateTradeRequest
  <2>1. PICK t \in DOMAIN trades, p \in Portfolios :
          \E input \in TradeInputs(trades[t].kind) : UpdateTrade(t, input, p)
    BY <1>3 DEF UpdateTradeRequest, Requests
  <2>2. PICK input \in TradeInputs(trades[t].kind) : UpdateTrade(t, input, p)
    BY <2>1
  <2>. QED
    BY <2>2, UpdateWrites DEF Contract!Next
<1>4. CASE DeleteTradeRequest
  <2>1. PICK t \in DOMAIN trades : DeleteTrade(t)
    BY <1>4 DEF DeleteTradeRequest
  <2>. QED
    BY <2>1, DeleteRemoves DEF Contract!Next
<1>5. CASE BackfillCommand
  <2>1. PICK p \in Portfolios, allow_legacy \in BOOLEAN : Backfill(p, allow_legacy)
    BY <1>5 DEF BackfillCommand
  <2>. QED
    BY <2>1, BackfillBooks DEF Contract!Next
<1>6. CASE ImportRequest
  <2>1. PICK p \in ActivePortfolios, kind \in Kinds, file \in Files, confirmed \in BOOLEAN :
          ImportFile(p, kind, file, confirmed)
    BY <1>6 DEF ImportRequest
  <2>2. UNCHANGED portfolios /\ Portfolios' = Portfolios
    BY <2>1 DEF ImportFile, Portfolios
  <2>3. TradesOK(trades', Portfolios) /\ Extended(trades, cash, trades', cash')
    BY <2>1, <2>2, ImportKeeps DEF LInv
  <2>. QED
    BY <2>2, <2>3, ExtendingWrites DEF Contract!Next
<1>7. CASE UNCHANGED settlementVars
  <2>1. UNCHANGED Contract!contractVars
    BY <1>7 DEF settlementVars, Contract!contractVars, Booked, Portfolios, IsCashAware
  <2>. QED
    BY <2>1
<1>. QED
  BY <1>1, <1>2, <1>3, <1>4, <1>5, <1>6, <1>7 DEF Next

\* The settlement of trades implements its contract: however rows are inserted, written
\* over and deleted, a trade written in a cash-aware portfolio has its own cash booked
\* there once, no other booking changes, and a trade goes with its booking.
THEOREM TradesBookedOnce == Spec => BooksTradesOnce
<1>1. Init => Contract!Init
  <2>. SUFFICES ASSUME Init PROVE Contract!Init
    OBVIOUS
  <2>1. trades = <<>> /\ DOMAIN trades = {}
    BY DEF Init
  <2>2. [t \in DOMAIN trades |-> Booked(t)] = <<>>
    BY <2>1
  <2>. QED
    BY <2>1, <2>2 DEF Contract!Init
<1>. QED
  BY <1>1, LedgerInvariant, StepsKeepContract, PTL DEF Spec, BooksTradesOnce, Contract!Spec

\* Whatever portfolio a backfill is for, a second one finds nothing left to do.
THEOREM BackfillIsComplete == Spec => BackfillLeavesNothing
<1>. DEFINE Complete == \A p \in Portfolios :
                          trades' # trades \/ PlannedTrades(p)' = {} \/ ~Backfill(p, TRUE)
<1>1. LInv => Complete
  BY NothingLeft
<1>2. LInv => [Complete]_cash
  BY <1>1
<1>. HIDE DEF Complete
<1>3. Spec => [][Complete]_cash
  BY <1>2, LedgerInvariant, PTL
<1>. QED
  BY <1>3 DEF BackfillLeavesNothing, Complete

-----------------------------------------------------------------------------
(* Overdrafts *)

\* A book whose rows have a whole amount and a day.
DayBook(book) == IsBook(book) /\ \A i \in DOMAIN book : book[i].day \in Days

\* The rows of a portfolio and currency up to a day, and books that have the same ones.
UpTo(book, p, ccy, day) == {i \in RowsFor(book, p, ccy) : book[i].day <= day}
Agree(b, n, p, ccy, day) ==
  /\ \A i \in UpTo(b, p, ccy, day) : i \in UpTo(n, p, ccy, day) /\ n[i] = b[i]
  /\ \A i \in UpTo(n, p, ccy, day) : i \in UpTo(b, p, ccy, day)
NotOverdrawn(book, p, ccy) == \A day \in Days : BalanceOn(book, p, ccy, day) >= 0

\* The amounts of some rows, and a book with rows added.
AmountsOf(book, ids) == [i \in ids |-> book[i].amount]
Grown(b, n) == DOMAIN b \subseteq DOMAIN n /\ \A i \in DOMAIN b : n[i] = b[i]

\* A balance is the sum over the rows up to the day.
LEMMA BalanceIsSum ==
  ASSUME NEW book, IsBook(book), NEW p, NEW ccy, NEW day, NEW ids, ids = UpTo(book, p, ccy, day)
  PROVE  /\ IsFiniteSet(ids) /\ \A i \in ids : AmountsOf(book, ids)[i] \in Int
         /\ BalanceOn(book, p, ccy, day) = SumFunctionOnSet(AmountsOf(book, ids), ids)
<1>1. ids \subseteq DOMAIN book
  BY DEF UpTo, RowsFor
<1>2. IsFiniteSet(ids)
  BY <1>1, FS_Subset DEF IsBook, IsTable
<1>3. PICK f : f = AmountsOf(book, ids)
  OBVIOUS
<1>4. DOMAIN f = ids /\ \A i \in ids : f[i] \in Int
  BY <1>1, <1>3 DEF IsBook, AmountsOf
<1>5. SumFunction(f) = SumFunctionOnSet(f, ids)
  BY <1>4, SumOfFunction
<1>6. BalanceOn(book, p, ccy, day) = SumFunction(f)
  BY <1>3 DEF BalanceOn, Total, UpTo, AmountsOf
<1>. QED
  BY <1>2, <1>3, <1>4, <1>5, <1>6

\* The same rows make the same balance.
LEMMA SameRowsSameCash ==
  ASSUME NEW b, IsBook(b), NEW n, IsBook(n), NEW p, NEW ccy, NEW day, Agree(b, n, p, ccy, day)
  PROVE  BalanceOn(n, p, ccy, day) = BalanceOn(b, p, ccy, day)
<1>1. PICK ids : ids = UpTo(b, p, ccy, day)
  OBVIOUS
<1>2. ids = UpTo(n, p, ccy, day) /\ \A i \in ids : n[i] = b[i]
  BY <1>1 DEF Agree
<1>3. AmountsOf(n, ids) = AmountsOf(b, ids)
  BY <1>2 DEF AmountsOf
<1>4. BalanceOn(b, p, ccy, day) = SumFunctionOnSet(AmountsOf(b, ids), ids)
  BY <1>1, BalanceIsSum
<1>5. BalanceOn(n, p, ccy, day) = SumFunctionOnSet(AmountsOf(n, ids), ids)
  BY <1>2, BalanceIsSum
<1>. QED
  BY <1>3, <1>4, <1>5

\* Without rows there is no cash.
LEMMA NoRowsNoCash ==
  ASSUME NEW book, IsBook(book), NEW p, NEW ccy, NEW day, UpTo(book, p, ccy, day) = {}
  PROVE  BalanceOn(book, p, ccy, day) = 0
<1>1. PICK ids : ids = UpTo(book, p, ccy, day)
  OBVIOUS
<1>2. PICK f : f = AmountsOf(book, ids)
  OBVIOUS
<1>3. BalanceOn(book, p, ccy, day) = SumFunctionOnSet(f, ids)
  BY ONLY IsBook(book), <1>1, <1>2, BalanceIsSum
<1>4. IsFiniteSet(ids) /\ ids = {}
  BY <1>1, FS_EmptySet
<1>5. SumFunctionOnSet(f, ids) = 0
  BY <1>4, SumStep
<1>. QED
  BY <1>3, <1>5

\* The days of rows are days, so some of them is the last one.
LEMMA LastDay ==
  ASSUME NEW book, DayBook(book), NEW ids \in SUBSET DOMAIN book, ids # {}
  PROVE  /\ Max(DaysOf(book, ids)) \in Days /\ \A i \in ids : book[i].day <= Max(DaysOf(book, ids))
         /\ \E i \in ids : book[i].day = Max(DaysOf(book, ids))
         /\ Min(DaysOf(book, ids)) \in Days /\ \A i \in ids : Min(DaysOf(book, ids)) <= book[i].day
         /\ \E i \in ids : book[i].day = Min(DaysOf(book, ids))
<1>1. PICK ds : ds = DaysOf(book, ids)
  OBVIOUS
<1>2. ds \subseteq Days /\ ds # {}
  BY <1>1 DEF DaysOf, DayBook
<1>3. IsFiniteSet(Days) /\ Days \subseteq Int
  BY FS_Interval, BrokerCashAssumption DEF Days
<1>4. IsFiniteSet(ds) /\ ds \in SUBSET Int
  BY <1>2, <1>3, FS_Subset
<1>5. Max(ds) \in ds /\ Min(ds) \in ds /\ \A d \in ds : d <= Max(ds) /\ Min(ds) <= d
  BY <1>2, <1>4, MaxMin
<1>. QED
  BY <1>1, <1>2, <1>5 DEF DaysOf

\* A test of the days from a change on to the last row covers all days, when the days
\* before the change were in order.
LEMMA TestedFromOn ==
  ASSUME NEW book, DayBook(book), NEW p, NEW ccy, NEW from \in Days,
         ~GoesNegative(book, p, ccy, from),
         \A day \in Days : day < from => BalanceOn(book, p, ccy, day) >= 0
  PROVE  NotOverdrawn(book, p, ccy)
<1>. SUFFICES ASSUME NEW day \in Days, ~(day < from)
              PROVE  BalanceOn(book, p, ccy, day) >= 0
  BY DEF NotOverdrawn
<1>0. IsBook(book) /\ day \in Int /\ from \in Int
  BY DEF DayBook, Days
<1>1. PICK rows : rows = RowsFor(book, p, ccy)
  OBVIOUS
<1>2. CASE rows = {}
  <2>1. UpTo(book, p, ccy, day) = {}
    BY <1>1, <1>2 DEF UpTo
  <2>. QED
    BY <1>0, <2>1, NoRowsNoCash
<1>3. CASE rows # {}
  <2>1. PICK last : last = Max(DaysOf(book, rows))
    OBVIOUS
  <2>2. last \in Days /\ last \in Int /\ \A i \in rows : book[i].day <= last /\ book[i].day \in Int
    <3>1. rows \in SUBSET DOMAIN book
      BY <1>1 DEF RowsFor
    <3>. QED
      BY <1>3, <2>1, <3>1, LastDay DEF DayBook, Days
  <2>3. \A d \in from .. last : BalanceOn(book, p, ccy, d) >= 0
    <3>1. ASSUME NEW d \in from .. last
          PROVE  ~(BalanceOn(book, p, ccy, d) < 0)
      BY <1>1, <1>3, <2>1 DEF GoesNegative
    <3>2. \A d \in from .. last : BalanceOn(book, p, ccy, d) \in Int
      BY <1>0, BalanceIsInt
    <3>. QED
      BY <3>1, <3>2
  <2>4. CASE day <= last
    BY <1>0, <2>2, <2>3, <2>4
  <2>5. CASE ~(day <= last)
    <3>1. UpTo(book, p, ccy, day) = rows /\ UpTo(book, p, ccy, last) = rows
      BY <1>0, <1>1, <2>2, <2>5 DEF UpTo
    <3>2. Agree(book, book, p, ccy, day)
      BY DEF Agree
    <3>3. BalanceOn(book, p, ccy, day) = BalanceOn(book, p, ccy, last)
      BY <3>1 DEF BalanceOn, UpTo
    <3>4. BalanceOn(book, p, ccy, last) >= 0
      BY <1>0, <2>2, <2>3
    <3>. QED
      BY <3>3, <3>4
  <2>. QED
    BY <2>4, <2>5
<1>. QED
  BY <1>2, <1>3

\* A test of every day that has a row covers all days.
LEMMA TestedEver ==
  ASSUME NEW book, DayBook(book), NEW p, NEW ccy, ~GoesNegativeEver(book, p, ccy)
  PROVE  NotOverdrawn(book, p, ccy)
<1>. SUFFICES ASSUME NEW day \in Days
              PROVE  BalanceOn(book, p, ccy, day) >= 0
  BY DEF NotOverdrawn
<1>0. IsBook(book) /\ day \in Int
  BY DEF DayBook, Days
<1>1. PICK ids : ids = UpTo(book, p, ccy, day)
  OBVIOUS
<1>2. CASE ids = {}
  <2>1. UpTo(book, p, ccy, day) = {}
    BY <1>1, <1>2
  <2>. QED
    BY <1>0, <2>1, NoRowsNoCash
<1>3. CASE ids # {}
  <2>1. PICK last : last = Max(DaysOf(book, ids))
    OBVIOUS
  <2>2. /\ last \in Days /\ \A i \in ids : book[i].day <= last
        /\ \E i \in ids : book[i].day = last
    <3>1. ids \in SUBSET DOMAIN book
      BY <1>1 DEF UpTo, RowsFor
    <3>. QED
      BY <1>3, <2>1, <3>1, LastDay
  <2>3. UpTo(book, p, ccy, last) = ids
    <3>1. last \in Int /\ \A i \in DOMAIN book : book[i].day \in Int
      BY <2>2 DEF DayBook, Days
    <3>2. last <= day
      BY <1>1, <2>2 DEF UpTo
    <3>. QED
      BY <1>0, <1>1, <2>2, <3>1, <3>2 DEF UpTo, RowsFor
  <2>4. BalanceOn(book, p, ccy, day) = BalanceOn(book, p, ccy, last)
    BY <1>1, <2>3 DEF BalanceOn, UpTo
  <2>5. ~(BalanceOn(book, p, ccy, last) < 0)
    <3>1. last \in DaysOf(book, RowsFor(book, p, ccy))
      BY <1>1, <2>2 DEF DaysOf, UpTo
    <3>. QED
      BY <3>1 DEF GoesNegativeEver
  <2>. QED
    BY <1>0, <2>4, <2>5, BalanceIsInt
<1>. QED
  BY <1>2, <1>3

\* The rows of the ledger have days and whole amounts.
LEMMA LedgerHasDays ==
  ASSUME NEW book, NEW ps, NEW gs, BookOK(book, ps, gs)
  PROVE  DayBook(book)
<1>1. \A i \in DOMAIN book : book[i].amount \in Int /\ book[i].day \in Days
  BY DEF BookOK, RowOK, Rows
<1>. QED
  BY <1>1 DEF DayBook, IsBook, BookOK

\* Books agree up to a day if what was touched is not there.
LEMMA AgreeUnless ==
  ASSUME NEW b, NEW n, NEW p, NEW ccy, NEW day, NEW touched,
         \A i : i \notin touched => (i \in DOMAIN b <=> i \in DOMAIN n),
         \A i \in DOMAIN b \ touched : n[i] = b[i],
         \A i \in touched : i \notin UpTo(b, p, ccy, day) /\ i \notin UpTo(n, p, ccy, day)
  PROVE  Agree(b, n, p, ccy, day)
BY DEF Agree, UpTo, RowsFor

\* What the rows that were not touched amount to, nobody can overdraw.
LEMMA OthersNotOverdrawn ==
  ASSUME NEW b, IsBook(b), NEW n, IsBook(n), NEW p, NEW ccy, NotOverdrawn(b, p, ccy),
         \A day \in Days : Agree(b, n, p, ccy, day)
  PROVE  NotOverdrawn(n, p, ccy)
BY SameRowsSameCash DEF NotOverdrawn

\* A change that was tested from the first day it touches.
LEMMA TestedChange ==
  ASSUME NEW b, IsBook(b), NEW n, DayBook(n), NEW p, NEW ccy, NotOverdrawn(b, p, ccy),
         NEW from \in Days, ~GoesNegative(n, p, ccy, from),
         \A day \in Days : day < from => Agree(b, n, p, ccy, day)
  PROVE  NotOverdrawn(n, p, ccy)
<1>1. \A day \in Days : day < from => BalanceOn(n, p, ccy, day) >= 0
  BY SameRowsSameCash DEF NotOverdrawn, DayBook
<1>. QED
  BY <1>1, TestedFromOn

\* A balance after rows were added is the old one and the sum over the new rows.
LEMMA BalanceSplit ==
  ASSUME NEW b, IsBook(b), NEW n, IsBook(n), Grown(b, n), NEW p, NEW ccy, NEW day,
         NEW new, new = UpTo(n, p, ccy, day) \ DOMAIN b
  PROVE  /\ BalanceOn(n, p, ccy, day)
              = BalanceOn(b, p, ccy, day) + SumFunctionOnSet(AmountsOf(n, new), new)
         /\ IsFiniteSet(new) /\ BalanceOn(b, p, ccy, day) \in Int
<1>1. PICK old : old = UpTo(b, p, ccy, day)
  OBVIOUS
<1>2. PICK all : all = UpTo(n, p, ccy, day)
  OBVIOUS
<1>3. PICK f : f = AmountsOf(b, old)
  OBVIOUS
<1>4. PICK g : g = AmountsOf(n, all)
  OBVIOUS
<1>5. PICK h : h = AmountsOf(n, new)
  OBVIOUS
<1>6. IsFiniteSet(old) /\ (\A i \in old : f[i] \in Int) /\ BalanceOn(b, p, ccy, day) = SumFunctionOnSet(f, old)
  BY <1>1, <1>3, BalanceIsSum
<1>7. IsFiniteSet(all) /\ (\A i \in all : g[i] \in Int) /\ BalanceOn(n, p, ccy, day) = SumFunctionOnSet(g, all)
  BY <1>2, <1>4, BalanceIsSum
<1>8. /\ old \cup new = all /\ old \cap new = {}
      /\ (\A i \in old : g[i] = f[i]) /\ \A i \in new : g[i] = h[i]
  <2>1. \A i \in old : i \in DOMAIN b /\ i \in all /\ n[i] = b[i]
    BY <1>1, <1>2 DEF UpTo, RowsFor, Grown
  <2>2. \A i \in all : i \in old \/ i \in new
    BY <1>1, <1>2 DEF UpTo, RowsFor, Grown
  <2>. QED
    BY <1>2, <1>3, <1>4, <1>5, <2>1, <2>2 DEF AmountsOf
<1>9. IsFiniteSet(new)
  BY <1>2, <1>7, FS_Subset
<1>10. SumFunctionOnSet(g, all) = SumFunctionOnSet(g, old) + SumFunctionOnSet(g, new)
  BY <1>6, <1>7, <1>8, <1>9, SumUnion
<1>11. SumFunctionOnSet(g, old) = SumFunctionOnSet(f, old)
  BY <1>6, <1>8, SumSame
<1>12. SumFunctionOnSet(g, new) = SumFunctionOnSet(h, new)
  <2>1. \A i \in new : h[i] \in Int
    BY <1>7, <1>8
  <2>. QED
    BY <1>8, <1>9, <2>1, SumSame
<1>13. BalanceOn(b, p, ccy, day) \in Int
  BY BalanceIsInt
<1>. QED
  BY <1>5, <1>6, <1>7, <1>9, <1>10, <1>11, <1>12, <1>13

\* Rows that bring money overdraw nothing.
LEMMA MoreOverdrawsNothing ==
  ASSUME NEW b, IsBook(b), NEW n, IsBook(n), Grown(b, n), NEW p, NEW ccy, NotOverdrawn(b, p, ccy),
         \A i \in DOMAIN n \ DOMAIN b :
           n[i].portfolio = p /\ n[i].currency = ccy => n[i].amount >= 0
  PROVE  NotOverdrawn(n, p, ccy)
<1>. SUFFICES ASSUME NEW day \in Days PROVE BalanceOn(n, p, ccy, day) >= 0
  BY DEF NotOverdrawn
<1>1. PICK new : new = UpTo(n, p, ccy, day) \ DOMAIN b
  OBVIOUS
<1>2. PICK g : g = AmountsOf(n, new)
  OBVIOUS
<1>3. /\ BalanceOn(n, p, ccy, day) = BalanceOn(b, p, ccy, day) + SumFunctionOnSet(g, new)
      /\ IsFiniteSet(new) /\ BalanceOn(b, p, ccy, day) \in Int
  BY <1>1, <1>2, BalanceSplit
<1>4. \A i \in new : g[i] \in Nat
  <2>1. \A i \in new : i \in DOMAIN n \ DOMAIN b /\ g[i] = n[i].amount
                       /\ n[i].portfolio = p /\ n[i].currency = ccy
    BY <1>1, <1>2 DEF UpTo, RowsFor, AmountsOf
  <2>2. \A i \in DOMAIN n : n[i].amount \in Int
    BY DEF IsBook
  <2>. QED
    BY <2>1, <2>2
<1>5. SumFunctionOnSet(g, new) \in Nat
  BY <1>3, <1>4, SumNatural
<1>6. BalanceOn(b, p, ccy, day) >= 0
  BY DEF NotOverdrawn
<1>. QED
  BY <1>3, <1>5, <1>6

\* A book with one row for each of some days.
OnDays(b, n, p, days, ccy, amount) ==
  /\ DayBook(n) /\ Grown(b, n)
  /\ \A i \in DOMAIN n \ DOMAIN b :
       /\ n[i].portfolio = p /\ n[i].currency = ccy /\ n[i].amount = amount /\ n[i].day \in days
  /\ \A i, j \in DOMAIN n \ DOMAIN b : n[i].day = n[j].day => i = j
  /\ \A day \in days : \E i \in DOMAIN n \ DOMAIN b : n[i].day = day

\* Withdrawals on fewer days leave more.
LEMMA FewerWithdrawals ==
  ASSUME NEW b, IsBook(b), NEW p, NEW ccy, NEW amount \in Int, amount <= 0,
         NEW few, NEW many, few \subseteq many, NEW n, NEW m,
         OnDays(b, n, p, few, ccy, amount), OnDays(b, m, p, many, ccy, amount),
         NotOverdrawn(m, p, ccy)
  PROVE  NotOverdrawn(n, p, ccy)
<1>. SUFFICES ASSUME NEW day \in Days PROVE BalanceOn(n, p, ccy, day) >= 0
  BY DEF NotOverdrawn
<1>1. PICK new : new = UpTo(n, p, ccy, day) \ DOMAIN b
  OBVIOUS
<1>2. PICK all : all = UpTo(m, p, ccy, day) \ DOMAIN b
  OBVIOUS
<1>3. IsBook(n) /\ IsBook(m) /\ Grown(b, n) /\ Grown(b, m)
  BY DEF OnDays, DayBook
<1>4. PICK g : g = AmountsOf(n, new)
  OBVIOUS
<1>5. PICK h : h = AmountsOf(m, all)
  OBVIOUS
<1>6. /\ BalanceOn(n, p, ccy, day) = BalanceOn(b, p, ccy, day) + SumFunctionOnSet(g, new)
      /\ IsFiniteSet(new) /\ BalanceOn(b, p, ccy, day) \in Int
  BY <1>1, <1>3, <1>4, BalanceSplit
<1>7. /\ BalanceOn(m, p, ccy, day) = BalanceOn(b, p, ccy, day) + SumFunctionOnSet(h, all)
      /\ IsFiniteSet(all)
  BY <1>2, <1>3, <1>5, BalanceSplit
<1>8. \A i : i \in new <=> i \in DOMAIN n \ DOMAIN b /\ n[i].day <= day
  BY <1>1 DEF OnDays, UpTo, RowsFor
<1>9. \A i : i \in all <=> i \in DOMAIN m \ DOMAIN b /\ m[i].day <= day
  BY <1>2 DEF OnDays, UpTo, RowsFor
<1>10. SumFunctionOnSet(g, new) = amount * Cardinality(new)
  <2>1. \A i \in new : g[i] = amount
    BY <1>4, <1>8 DEF OnDays, AmountsOf
  <2>. QED
    BY <1>6, <2>1, SumConstant
<1>11. SumFunctionOnSet(h, all) = amount * Cardinality(all)
  <2>1. \A i \in all : h[i] = amount
    BY <1>5, <1>9 DEF OnDays, AmountsOf
  <2>. QED
    BY <1>7, <2>1, SumConstant
<1>12. Cardinality(new) <= Cardinality(all) /\ Cardinality(new) \in Nat /\ Cardinality(all) \in Nat
  <2>1. \A i \in new : \E j \in all : m[j].day = n[i].day
    <3>. SUFFICES ASSUME NEW i \in new PROVE \E j \in all : m[j].day = n[i].day
      OBVIOUS
    <3>1. i \in DOMAIN n \ DOMAIN b /\ n[i].day \in many /\ n[i].day <= day
      BY <1>8 DEF OnDays
    <3>2. PICK j \in DOMAIN m \ DOMAIN b : m[j].day = n[i].day
      BY <3>1 DEF OnDays
    <3>. QED
      BY <1>9, <3>1, <3>2
  <2>2. PICK f : f = [i \in new |-> CHOOSE j \in all : m[j].day = n[i].day]
    OBVIOUS
  <2>3. \A i \in new : f[i] \in all /\ m[f[i]].day = n[i].day
    BY <2>1, <2>2
  <2>4. \A i, j \in new : f[i] = f[j] => i = j
    BY <1>8, <2>3 DEF OnDays
  <2>5. f \in Injection(new, all)
    BY <2>2, <2>3, <2>4 DEF Injection, IsInjective
  <2>. QED
    BY <1>6, <1>7, <2>5, FS_Injection, FS_CardinalityType
<1>13. amount * Cardinality(new) >= amount * Cardinality(all)
  <2>1. PICK x \in Nat : x = Cardinality(new)
    BY <1>12
  <2>2. PICK y \in Nat : y = Cardinality(all) - Cardinality(new)
    BY <1>12
  <2>3. Cardinality(all) = x + y
    BY <1>12, <2>1, <2>2
  <2>4. amount * y <= 0
    OBVIOUS
  <2>5. amount * (x + y) = amount * x + amount * y /\ amount * x \in Int /\ amount * y \in Int
    OBVIOUS
  <2>. QED
    BY <2>1, <2>3, <2>4, <2>5
<1>14. BalanceOn(m, p, ccy, day) >= 0
  BY DEF NotOverdrawn
<1>15. /\ amount * Cardinality(new) \in Int /\ amount * Cardinality(all) \in Int
       /\ BalanceOn(n, p, ccy, day) = BalanceOn(b, p, ccy, day) + amount * Cardinality(new)
       /\ BalanceOn(m, p, ccy, day) = BalanceOn(b, p, ccy, day) + amount * Cardinality(all)
  BY <1>6, <1>7, <1>10, <1>11, <1>12
<1>. QED
  BY ONLY <1>6, <1>13, <1>14, <1>15

\* The rows of a schedule, one for each of its days.
LEMMA ScheduleOnDays ==
  ASSUME LInv, NEW p \in Portfolios, NEW days \in SUBSET Days, NEW ccy \in Currencies,
         NEW type \in ManualTypes, NEW signed \in LedgerAmounts, ValidAmountSign(type, signed),
         NEW text \in Texts \cup {NoText, ReversalText},
         NEW result, result = InsertDays(cash, p, days, ccy, type, signed, text)
  PROVE  OnDays(cash, result, p, days, ccy, signed)
<1>0. DayBook(result)
  <2>1. LedgerOK(result, trades, Portfolios, groups)
    BY DaysInserted
  <2>. QED
    BY <2>1, LedgerHasDays DEF LedgerOK
<1>1. IsFiniteSet(days)
  <2>1. IsFiniteSet(Days)
    BY BrokerCashAssumption, FS_Interval DEF Days
  <2>. QED
    BY <2>1, FS_Subset
<1>2. PICK before : before = {d \in days \X days : d[1] < d[2]}
  OBVIOUS
<1>3. \A x, y \in days : <<x, y>> \in before <=> x < y
  BY <1>2
<1>4. \A x \in days : x \in Int
  BY BrokerCashAssumption DEF Days
<1>5. PICK listed : listed = InOrder(days, before)
  OBVIOUS
<1>6. /\ Cardinality(days) \in Nat /\ DOMAIN listed = 1 .. Cardinality(days)
      /\ \A k \in DOMAIN listed : listed[k] \in days
      /\ \A k, l \in DOMAIN listed : listed[k] = listed[l] => k = l
      /\ \A d \in days : \E k \in DOMAIN listed : listed[k] = d
  <2>1. \A x \in days : <<x, x>> \notin before
    BY <1>3, <1>4
  <2>2. \A x, y, z \in days : <<x, y>> \in before /\ <<y, z>> \in before => <<x, z>> \in before
    BY <1>3, <1>4
  <2>. QED
    BY <1>1, <1>5, <2>1, <2>2, Listed
<1>7. PICK rows : rows = [k \in DOMAIN listed |-> Row(p, listed[k], ccy, type, signed, text)]
  OBVIOUS
<1>8. \A k \in DOMAIN listed : /\ rows[k].portfolio = p /\ rows[k].currency = ccy
                               /\ rows[k].amount = signed /\ rows[k].day = listed[k]
  BY <1>7 DEF Row
<1>9. result = InsertRows(cash, rows) /\ DOMAIN rows = 1 .. Cardinality(days)
  BY <1>2, <1>5, <1>6, <1>7 DEF InsertDays
<1>10. PICK id : id = NewId(cash)
  OBVIOUS
<1>11. /\ DOMAIN cash \subseteq DOMAIN result
       /\ \A i \in DOMAIN cash : result[i] = cash[i]
       /\ \A i \in DOMAIN result \ DOMAIN cash :
            i - id + 1 \in 1 .. Cardinality(days) /\ result[i] = rows[i - id + 1]
       /\ \A k \in 1 .. Cardinality(days) : id + k - 1 \in DOMAIN result \ DOMAIN cash
  BY <1>6, <1>9, <1>10, Keys, SomeInserted
<1>12. id \in Int /\ \A i \in DOMAIN result : i \in Int
  BY <1>0, <1>10, Keys, FreshId DEF DayBook, IsBook, IsTable
<1>13. ASSUME NEW i \in DOMAIN result \ DOMAIN cash
       PROVE  /\ i - id + 1 \in DOMAIN listed
              /\ result[i].portfolio = p /\ result[i].currency = ccy /\ result[i].amount = signed
              /\ result[i].day = listed[i - id + 1] /\ result[i].day \in days
  <2>1. PICK k : k = i - id + 1
    OBVIOUS
  <2>2. k \in DOMAIN listed /\ result[i] = rows[k]
    BY <1>6, <1>11, <2>1
  <2>3. listed[k] \in days
    BY <1>6, <2>2
  <2>. QED
    BY <1>8, <2>1, <2>2, <2>3
<1>14. ASSUME NEW i \in DOMAIN result \ DOMAIN cash, NEW j \in DOMAIN result \ DOMAIN cash,
              result[i].day = result[j].day
       PROVE  i = j
  <2>1. i - id + 1 = j - id + 1
    BY <1>6, <1>13, <1>14
  <2>. QED
    BY <1>12, <2>1
<1>15. ASSUME NEW d \in days
       PROVE  \E i \in DOMAIN result \ DOMAIN cash : result[i].day = d
  <2>1. PICK k \in 1 .. Cardinality(days) : listed[k] = d
    BY <1>6
  <2>2. PICK i : i = id + k - 1
    OBVIOUS
  <2>3. i \in DOMAIN result \ DOMAIN cash /\ i - id + 1 = k
    BY <1>11, <1>12, <2>2
  <2>. QED
    BY <1>13, <2>1, <2>3
<1>. QED
  BY <1>0, <1>11, <1>13, <1>14, <1>15 DEF OnDays, Grown

\* A schedule of withdrawals was tested with all of its days, those it skips included.
LEMMA ScheduleOverdrawsNothing ==
  ASSUME LInv, NEW p \in Portfolios, NEW days, NEW ccy \in Currencies, NEW type \in ManualTypes,
         NEW amount \in Amounts, NEW text \in Texts,
         ApplySchedule(p, days, ccy, type, amount, text),
         NEW q, NEW c, NotOverdrawn(cash, q, c)
  PROVE  NotOverdrawn(cash', q, c)
<1>1. PICK signed : signed = SignedAmountOf(type, amount)
  OBVIOUS
<1>2. PICK missing : missing = MissingDays(p, days, ccy, type, signed, text)
  OBVIOUS
<1>3. PICK n : n = InsertDays(cash, p, missing, ccy, type, signed, text)
  OBVIOUS
<1>4. cash' = n /\ days \in SUBSET Days /\ ScheduleIsFunded(cash, p, days, ccy, type, amount)
  BY <1>1, <1>2, <1>3 DEF ApplySchedule
<1>5. missing \in SUBSET Days /\ missing \subseteq days
  BY <1>2, <1>4 DEF MissingDays
<1>6. signed \in LedgerAmounts /\ signed \in Int /\ ValidAmountSign(type, signed)
  BY <1>1, SignedAmount
<1>7. OnDays(cash, n, p, missing, ccy, signed)
  BY <1>3, <1>5, <1>6, ScheduleOnDays
<1>8. IsBook(cash) /\ IsBook(n) /\ Grown(cash, n)
  BY <1>7, Keys, LedgerHasDays DEF OnDays, DayBook
<1>9. CASE type = "CASH_WITHDRAWAL" /\ q = p /\ c = ccy
  <2>1. PICK m : m = InsertDays(cash, p, days, ccy, type, -amount, NoText)
    OBVIOUS
  <2>2. signed = -amount /\ amount \in Nat /\ signed <= 0
    BY <1>1, <1>9, BrokerCashAssumption DEF SignedAmountOf
  <2>3. OnDays(cash, m, p, days, ccy, signed)
    BY <1>4, <1>6, <2>1, <2>2, ScheduleOnDays
  <2>4. ~GoesNegativeEver(m, p, ccy)
    BY <1>4, <1>9, <2>1 DEF ScheduleIsFunded
  <2>5. NotOverdrawn(m, p, ccy)
    BY <2>3, <2>4, TestedEver DEF OnDays
  <2>6. NotOverdrawn(n, p, ccy)
    BY <1>5, <1>6, <1>7, <1>8, <2>2, <2>3, <2>5, FewerWithdrawals
  <2>. QED
    BY <1>4, <1>9, <2>6
<1>10. CASE ~(type = "CASH_WITHDRAWAL" /\ q = p /\ c = ccy)
  <2>1. \A i \in DOMAIN n \ DOMAIN cash :
          n[i].portfolio = q /\ n[i].currency = c => n[i].amount >= 0
    <3>1. CASE q = p /\ c = ccy
      <4>1. type = "CASH_DEPOSIT"
        BY <1>10, <3>1 DEF ManualTypes
      <4>2. signed >= 0
        BY <1>6, <4>1 DEF ValidAmountSign, PositiveTypes
      <4>. QED
        BY <1>7, <4>2 DEF OnDays
    <3>2. CASE ~(q = p /\ c = ccy)
      BY <1>7, <3>2 DEF OnDays
    <3>. QED
      BY <3>1, <3>2
  <2>2. NotOverdrawn(n, q, c)
    BY <1>8, <2>1, MoreOverdrawsNothing
  <2>. QED
    BY <1>4, <2>2
<1>. QED
  BY <1>9, <1>10

\* An edited entry was tested from the earlier of its days, or in each of its currencies.
LEMMA UpdateOverdrawsNothing ==
  ASSUME LInv, LInv', NEW i \in DOMAIN cash, NEW day \in Days, NEW ccy \in Currencies,
         NEW amount \in Amounts, NEW text \in Texts, UpdateEntry(i, day, ccy, amount, text),
         NEW q, NEW c, NotOverdrawn(cash, q, c)
  PROVE  NotOverdrawn(cash', q, c)
<1>1. PICK old : old = cash[i]
  OBVIOUS
<1>2. PICK new : new = [old EXCEPT !.day = day, !.currency = ccy, !.text = text,
                                   !.amount = SignedAmountOf(old.type, amount)]
  OBVIOUS
<1>3. PICK n : n = [cash EXCEPT ![i] = new]
  OBVIOUS
<1>4. /\ cash' = n
      /\ IF ccy = old.currency
         THEN ~GoesNegative(n, old.portfolio, ccy, Min({old.day, day}))
         ELSE /\ ~GoesNegative(n, old.portfolio, old.currency, old.day)
              /\ ~GoesNegative(n, old.portfolio, ccy, day)
  BY <1>1, <1>2, <1>3 DEF UpdateEntry
<1>5. IsBook(cash) /\ DayBook(n)
  BY <1>4, Keys, LedgerHasDays DEF DayBook, LInv, LedgerOK
<1>6. old \in Rows(Portfolios, DOMAIN groups) /\ old.day \in Days
  BY <1>1, Keys DEF BookOK, RowOK, Rows
<1>7. new.portfolio = old.portfolio /\ new.currency = ccy /\ new.day = day
  BY <1>2, <1>6 DEF Rows
<1>8. DOMAIN n = DOMAIN cash /\ n[i] = new /\ \A j \in DOMAIN cash \ {i} : n[j] = cash[j]
  BY <1>3
<1>9. ASSUME NEW d \in Days,
             ~(q = old.portfolio /\ c = old.currency /\ old.day <= d),
             ~(q = old.portfolio /\ c = ccy /\ day <= d)
      PROVE  Agree(cash, n, q, c, d)
  <2>1. i \notin UpTo(cash, q, c, d) /\ i \notin UpTo(n, q, c, d)
    BY <1>1, <1>7, <1>8, <1>9 DEF UpTo, RowsFor
  <2>. QED
    BY <1>8, <2>1 DEF Agree, UpTo, RowsFor
<1>10. \A d \in Days : d \in Int
  BY DEF Days
<1>11. CASE q # old.portfolio \/ c \notin {old.currency, ccy}
  BY <1>4, <1>5, <1>9, <1>11, OthersNotOverdrawn DEF DayBook
<1>12. CASE q = old.portfolio /\ c = ccy /\ ccy = old.currency
  <2>1. PICK from : from = Min({old.day, day})
    OBVIOUS
  <2>2. from \in Days /\ from <= old.day /\ from <= day
    <3>1. {old.day, day} \in SUBSET Int /\ IsFiniteSet({old.day, day})
      <4>1. {old.day, day} = {old.day} \cup {day}
        OBVIOUS
      <4>2. IsFiniteSet({old.day} \cup {day})
        BY FS_Singleton, FS_Union
      <4>. QED
        BY <1>6, <1>10, <4>1, <4>2
    <3>. QED
      BY <1>6, <2>1, <3>1, MaxMin
  <2>3. ~GoesNegative(n, q, c, from)
    BY <1>4, <1>12, <2>1
  <2>4. \A d \in Days : d < from => Agree(cash, n, q, c, d)
    BY <1>6, <1>9, <1>10, <2>2
  <2>. QED
    BY <1>4, <1>5, <2>2, <2>3, <2>4, TestedChange
<1>13. CASE q = old.portfolio /\ c = ccy /\ ccy # old.currency
  <2>1. \A d \in Days : d < day => Agree(cash, n, q, c, d)
    BY <1>6, <1>9, <1>10, <1>13
  <2>. QED
    BY <1>4, <1>5, <1>13, <2>1, TestedChange
<1>14. CASE q = old.portfolio /\ c = old.currency /\ ccy # old.currency
  <2>1. \A d \in Days : d < old.day => Agree(cash, n, q, c, d)
    BY <1>6, <1>9, <1>10, <1>14
  <2>. QED
    BY <1>4, <1>5, <1>6, <1>14, <2>1, TestedChange
<1>. QED
  BY <1>11, <1>12, <1>13, <1>14

\* Rows of one portfolio, currency and day that are deleted were tested from that day on.
LEMMA DeletionOverdrawsNothing ==
  ASSUME NEW b, DayBook(b), NEW ids \in SUBSET DOMAIN b, NEW k \in ids,
         \A i \in ids : Alike(b[i], b[k]), NEW n, n = RemoveRows(b, ids),
         ~GoesNegative(n, b[k].portfolio, b[k].currency, b[k].day),
         NEW q, NEW c, NotOverdrawn(b, q, c)
  PROVE  NotOverdrawn(n, q, c)
<1>1. /\ IsTable(n) /\ DOMAIN n = DOMAIN b \ ids
      /\ \A i \in DOMAIN b \ ids : n[i] = b[i]
  BY Removed DEF DayBook, IsBook
<1>2. IsBook(b) /\ DayBook(n)
  BY <1>1 DEF DayBook, IsBook
<1>3. ASSUME NEW d \in Days, ~(q = b[k].portfolio /\ c = b[k].currency /\ b[k].day <= d)
      PROVE  Agree(b, n, q, c, d)
  <2>1. \A i \in ids : i \notin UpTo(b, q, c, d) /\ i \notin UpTo(n, q, c, d)
    BY <1>1, <1>3 DEF UpTo, RowsFor, Alike
  <2>. QED
    BY <1>1, <2>1, AgreeUnless
<1>4. CASE q = b[k].portfolio /\ c = b[k].currency
  <2>1. b[k].day \in Days /\ \A d \in Days : d \in Int
    BY DEF DayBook, Days
  <2>2. \A d \in Days : d < b[k].day => Agree(b, n, q, c, d)
    BY <1>3, <2>1
  <2>. QED
    BY <1>2, <1>4, <2>1, <2>2, TestedChange
<1>5. CASE ~(q = b[k].portfolio /\ c = b[k].currency)
  BY <1>2, <1>3, <1>5, OthersNotOverdrawn DEF DayBook
<1>. QED
  BY <1>4, <1>5

\* A row that is inserted and tested from its day on.
LEMMA InsertionOverdrawsNothing ==
  ASSUME NEW b, IsBook(b), NEW row, row.day \in Days, NEW n, n = InsertRow(b, row), DayBook(n),
         ~GoesNegative(n, row.portfolio, row.currency, row.day),
         NEW q, NEW c, NotOverdrawn(b, q, c)
  PROVE  NotOverdrawn(n, q, c)
<1>1. PICK id : id = NewId(b)
  OBVIOUS
<1>2. /\ DOMAIN n = DOMAIN b \cup {id} /\ id \notin DOMAIN b /\ n[id] = row
      /\ \A i \in DOMAIN b : n[i] = b[i]
  <2>1. Inserted(b, row, id, n)
    BY <1>1, OneInserted DEF IsBook
  <2>. QED
    BY <2>1 DEF Inserted
<1>3. ASSUME NEW d \in Days, ~(q = row.portfolio /\ c = row.currency /\ row.day <= d)
      PROVE  Agree(b, n, q, c, d)
  <2>1. id \notin UpTo(b, q, c, d) /\ id \notin UpTo(n, q, c, d)
    BY <1>2, <1>3 DEF UpTo, RowsFor
  <2>2. \A i : i \notin {id} => (i \in DOMAIN b <=> i \in DOMAIN n)
    BY <1>2
  <2>3. \A i \in DOMAIN b \ {id} : n[i] = b[i]
    BY <1>2
  <2>. QED
    BY <2>1, <2>2, <2>3 DEF Agree, UpTo, RowsFor
<1>4. CASE q = row.portfolio /\ c = row.currency
  <2>1. \A d \in Days : d < row.day => Agree(b, n, q, c, d)
    BY <1>3 DEF Days
  <2>. QED
    BY <1>4, <2>1, TestedChange
<1>5. CASE ~(q = row.portfolio /\ c = row.currency)
  BY <1>3, <1>5, OthersNotOverdrawn DEF DayBook
<1>. QED
  BY <1>4, <1>5

\* A deleted entry.
LEMMA DeleteOverdrawsNothing ==
  ASSUME LInv, NEW i \in DOMAIN cash, DeleteEntry(i), NEW q, NEW c, NotOverdrawn(cash, q, c)
  PROVE  NotOverdrawn(cash', q, c)
<1>1. PICK ids, n : ids = {i} /\ n = RemoveRows(cash, ids)
  OBVIOUS
<1>2. cash' = n /\ ~GoesNegative(n, cash[i].portfolio, cash[i].currency, cash[i].day)
  BY <1>1 DEF DeleteEntry
<1>3. DayBook(cash) /\ ids \in SUBSET DOMAIN cash /\ i \in ids
      /\ \A j \in ids : Alike(cash[j], cash[i])
  BY <1>1, Keys, LedgerHasDays DEF Alike
<1>4. NotOverdrawn(n, q, c)
  BY <1>1, <1>2, <1>3, DeletionOverdrawsNothing
<1>. QED
  BY <1>2, <1>4

\* The rows of a deleted trade are of one portfolio, currency and day.
LEMMA DeleteTradeOverdrawsNothing ==
  ASSUME LInv, NEW t \in DOMAIN trades, DeleteTrade(t), NEW q, NEW c, NotOverdrawn(cash, q, c)
  PROVE  NotOverdrawn(cash', q, c)
<1>1. PICK ids : ids = LinkedRows(cash, t)
  OBVIOUS
<1>2. PICK n : n = RemoveRows(cash, ids)
  OBVIOUS
<1>3. cash' = n /\ MayDelete(cash, ids)
  BY <1>1, <1>2 DEF DeleteTrade
<1>4. DayBook(cash) /\ ids \in SUBSET DOMAIN cash
  BY <1>1, Keys, LedgerHasDays DEF LinkedRows
<1>5. \A i, j \in ids : Alike(cash[i], cash[j])
  <2>1. Settled(cash, t)
    BY DEF LInv, LedgerOK, AllSettled
  <2>. QED
    BY <1>1, <2>1 DEF Settled, Alike
<1>6. CASE ids = {}
  <2>1. DOMAIN n = DOMAIN cash /\ \A i \in DOMAIN cash : n[i] = cash[i]
    BY <1>2, <1>6 DEF RemoveRows
  <2>2. \A d \in Days : Agree(cash, n, q, c, d)
    BY <2>1 DEF Agree, UpTo, RowsFor
  <2>3. IsBook(cash) /\ IsBook(n)
    BY <1>4, <2>1 DEF DayBook, IsBook, IsTable
  <2>. QED
    BY <1>3, <2>2, <2>3, OthersNotOverdrawn
<1>7. CASE ids # {}
  <2>1. PICK k : k = Min(ids)
    OBVIOUS
  <2>2. k \in ids
    <3>1. ids \in SUBSET Int /\ IsFiniteSet(ids)
      BY <1>4, FS_Subset DEF DayBook, IsBook, IsTable
    <3>. QED
      BY <1>7, <2>1, <3>1, MaxMin
  <2>3. PICK from : from = Min(DaysOf(cash, ids))
    OBVIOUS
  <2>4. from = cash[k].day
    <3>1. \E i \in ids : cash[i].day = from
      BY <1>4, <1>7, <2>3, LastDay
    <3>. QED
      BY <1>5, <2>2, <3>1 DEF Alike
  <2>5. ~GoesNegative(n, cash[k].portfolio, cash[k].currency, cash[k].day)
    BY <1>2, <1>3, <1>7, <2>1, <2>3, <2>4 DEF MayDelete
  <2>6. NotOverdrawn(n, q, c)
    BY <1>2, <1>4, <1>5, <2>2, <2>5, DeletionOverdrawsNothing
  <2>. QED
    BY <1>3, <2>6
<1>. QED
  BY <1>6, <1>7

\* A reversal.
LEMMA ReverseOverdrawsNothing ==
  ASSUME LInv, LInv', NEW i \in DOMAIN cash, NEW day \in Days, ReverseEntry(i, day),
         NEW q, NEW c, NotOverdrawn(cash, q, c)
  PROVE  NotOverdrawn(cash', q, c)
<1>1. PICK row : row = [Row(cash[i].portfolio, day, cash[i].currency, OppositeType(cash[i].type),
                            -cash[i].amount, ReversalText) EXCEPT !.reverses = i]
  OBVIOUS
<1>2. PICK n : n = InsertRow(cash, row)
  OBVIOUS
<1>3. cash' = n /\ ~GoesNegative(n, row.portfolio, row.currency, day)
  BY <1>1, <1>2 DEF ReverseEntry
<1>4. row.day = day
  BY <1>1 DEF Row
<1>5. IsBook(cash) /\ DayBook(n)
  BY <1>3, Keys, LedgerHasDays DEF DayBook, LInv, LedgerOK
<1>6. NotOverdrawn(n, q, c)
  BY <1>2, <1>3, <1>4, <1>5, InsertionOverdrawsNothing
<1>. QED
  BY <1>3, <1>6

\* The source of a transfer was tested, its target gains.
LEMMA TransferOverdrawsNothing ==
  ASSUME LInv, LInv', NEW source \in Portfolios, NEW target \in Portfolios, NEW day \in Days,
         NEW ccy \in Currencies, NEW to_ccy \in Currencies, NEW amount \in Amounts,
         NEW to_amount \in Amounts,
         Transfer(source, target, day, ccy, amount, to_ccy, to_amount),
         NEW q, NEW c, NotOverdrawn(cash, q, c)
  PROVE  NotOverdrawn(cash', q, c)
<1>1. PICK out : out = [Row(source, day, ccy, "TRANSFER_OUT", -amount, NoText)
                          EXCEPT !.group = Len(groups) + 1]
  OBVIOUS
<1>2. PICK in : in = [Row(target, day, to_ccy, "TRANSFER_IN", to_amount, NoText)
                        EXCEPT !.group = Len(groups) + 1]
  OBVIOUS
<1>3. PICK m : m = InsertRow(cash, out)
  OBVIOUS
<1>4. PICK n : n = InsertRow(m, in)
  OBVIOUS
<1>5. cash' = n /\ ~GoesNegative(m, source, ccy, day)
  BY <1>1, <1>2, <1>3, <1>4 DEF Transfer
<1>6. /\ out.portfolio = source /\ out.currency = ccy /\ out.day = day
      /\ in.amount = to_amount
  BY <1>1, <1>2 DEF Row
<1>7. IsBook(cash) /\ DayBook(n)
  BY <1>5, Keys, LedgerHasDays DEF DayBook, LInv, LedgerOK
<1>8. PICK k : k = NewId(cash)
  OBVIOUS
<1>9. IsTable(m) /\ DOMAIN m = DOMAIN cash \cup {k} /\ k \notin DOMAIN cash
      /\ m[k] = out /\ \A i \in DOMAIN cash : m[i] = cash[i]
  BY <1>3, <1>7, <1>8, OneInserted DEF IsBook, Inserted
<1>10. PICK l : l = NewId(m)
  OBVIOUS
<1>11. DOMAIN n = DOMAIN m \cup {l} /\ l \notin DOMAIN m
       /\ n[l] = in /\ \A i \in DOMAIN m : n[i] = m[i]
  BY <1>4, <1>9, <1>10, OneInserted DEF Inserted
<1>12. DayBook(m)
  BY <1>7, <1>9, <1>11 DEF DayBook, IsBook
<1>13. NotOverdrawn(m, q, c)
  BY <1>3, <1>5, <1>6, <1>7, <1>12, InsertionOverdrawsNothing
<1>14. \A i \in DOMAIN n \ DOMAIN m : n[i].amount >= 0
  <2>1. to_amount >= 0
    BY BrokerCashAssumption
  <2>. QED
    BY <1>6, <1>11, <2>1
<1>15. NotOverdrawn(n, q, c)
  <2>1. IsBook(m) /\ IsBook(n) /\ Grown(m, n)
    BY <1>7, <1>11, <1>12 DEF DayBook, Grown
  <2>. QED
    BY <1>13, <1>14, <2>1, MoreOverdrawsNothing
<1>. QED
  BY <1>5, <1>15

\* A backfill tests every currency of the portfolio it writes to.
LEMMA BackfillOverdrawsNothing ==
  ASSUME LInv, LInv', NEW p \in Portfolios, NEW allow_legacy, Backfill(p, allow_legacy),
         NEW q, NEW c \in Currencies, NotOverdrawn(cash, q, c)
  PROVE  NotOverdrawn(cash', q, c)
<1>1. PICK n : n = cash'
  OBVIOUS
<1>2. IsBook(cash) /\ DayBook(n)
  BY <1>1, Keys, LedgerHasDays DEF DayBook, LInv, LedgerOK
<1>3. ~GoesNegativeEver(n, p, c)
  BY <1>1 DEF Backfill
<1>4. CASE q = p
  BY <1>1, <1>2, <1>3, <1>4, TestedEver
<1>5. CASE q # p
  <2>1. Grown(cash, n)
    BY <1>1, BackfillInserts DEF Backfilled, Grown
  <2>2. \A i \in DOMAIN n \ DOMAIN cash : n[i].portfolio = p
    <3>1. \A i \in DOMAIN n \ DOMAIN cash : \E t : n[i] = PlannedRow(p, t)
      BY <1>1, BackfillInserts DEF Backfilled
    <3>2. \A t : PlannedRow(p, t).portfolio = p
      BY DEF PlannedRow, Row
    <3>. QED
      BY <3>1, <3>2
  <2>3. NotOverdrawn(n, q, c)
    BY <1>2, <1>5, <2>1, <2>2, MoreOverdrawsNothing DEF DayBook
  <2>. QED
    BY <1>1, <2>3
<1>. QED
  BY <1>4, <1>5

\* No request that is tested against later days makes an overdraft: where there was none
\* on any day there is none on any day, in the portfolios and currencies it writes to and
\* in all others.
THEOREM TestedRequestsAreSafe == Spec => TestedRequestsNeverOverdraw
<1>. DEFINE Safe == NeverOverdraws \/ ~(TestedManualRequest \/ DeleteTradeRequest \/ BackfillCommand)
<1>1. LInv /\ LInv' => Safe
  <2>. SUFFICES ASSUME LInv, LInv', TestedManualRequest \/ DeleteTradeRequest \/ BackfillCommand
                PROVE  NeverOverdraws
    OBVIOUS
  <2>. SUFFICES ASSUME NEW q \in Portfolios, NEW c \in Currencies, NotOverdrawn(cash, q, c)
                PROVE  NotOverdrawn(cash', q, c)
    <3>1. \A q \in Portfolios, c \in Currencies :
            NotOverdrawn(cash, q, c) \/ \E day \in Days : BalanceOn(cash, q, c, day) < 0
      <4>1. IsBook(cash)
        BY Keys, LedgerHasDays DEF DayBook
      <4>. QED
        BY <4>1, BalanceIsInt DEF NotOverdrawn
    <3>. QED
      BY <3>1 DEF NeverOverdraws, NotOverdrawn
  <2>1. CASE UpdateRequest
    BY <2>1, UpdateOverdrawsNothing DEF UpdateRequest
  <2>2. CASE DeleteRequest
    BY <2>2, DeleteOverdrawsNothing DEF DeleteRequest
  <2>3. CASE ReverseRequest
    BY <2>3, ReverseOverdrawsNothing DEF ReverseRequest
  <2>4. CASE TransferRequest
    BY <2>4, TransferOverdrawsNothing DEF TransferRequest
  <2>5. CASE ScheduleRequest
    BY <2>5, ScheduleOverdrawsNothing DEF ScheduleRequest
  <2>6. CASE DeleteTradeRequest
    BY <2>6, DeleteTradeOverdrawsNothing DEF DeleteTradeRequest
  <2>7. CASE BackfillCommand
    BY <2>7, BackfillOverdrawsNothing DEF BackfillCommand
  <2>. QED
    BY <2>1, <2>2, <2>3, <2>4, <2>5, <2>6, <2>7 DEF TestedManualRequest
<1>2. LInv /\ LInv' => [Safe]_cash
  BY <1>1
<1>. HIDE DEF Safe
<1>3. Spec => [][Safe]_cash
  BY <1>2, LedgerInvariant, PTL
<1>. QED
  BY <1>3 DEF TestedRequestsNeverOverdraw, Safe

-----------------------------------------------------------------------------
(* The preview and the import *)

\* Whether a row counts in a balance, and a book with that row more.
Counts(row, p, ccy, day) == row.portfolio = p /\ row.currency = ccy /\ row.day <= day
OneMore(b, n, row) ==
  /\ IsBook(b) /\ IsBook(n) /\ Grown(b, n)
  /\ \E id \in DOMAIN n \ DOMAIN b : n[id] = row /\ DOMAIN n = DOMAIN b \cup {id}

\* One row more changes the balances it counts in by its amount.
LEMMA BalanceOfOneMore ==
  ASSUME NEW b, NEW n, NEW row, OneMore(b, n, row), NEW p, NEW ccy, NEW day
  PROVE  BalanceOn(n, p, ccy, day)
           = BalanceOn(b, p, ccy, day) + (IF Counts(row, p, ccy, day) THEN row.amount ELSE 0)
<1>1. IsBook(b) /\ IsBook(n) /\ Grown(b, n)
  BY DEF OneMore
<1>2. PICK id \in DOMAIN n \ DOMAIN b : n[id] = row /\ DOMAIN n = DOMAIN b \cup {id}
  BY DEF OneMore
<1>3. PICK new : new = UpTo(n, p, ccy, day) \ DOMAIN b
  OBVIOUS
<1>4. PICK f : f = AmountsOf(n, new)
  OBVIOUS
<1>5. /\ BalanceOn(n, p, ccy, day) = BalanceOn(b, p, ccy, day) + SumFunctionOnSet(f, new)
      /\ BalanceOn(b, p, ccy, day) \in Int
  BY <1>1, <1>3, <1>4, BalanceSplit
<1>6. row.amount \in Int
  BY <1>1, <1>2 DEF IsBook
<1>7. CASE Counts(row, p, ccy, day)
  <2>1. new = {id}
    BY <1>2, <1>3, <1>7 DEF UpTo, RowsFor, Counts
  <2>2. f[id] = row.amount /\ \A i \in {id} : f[i] \in Int
    BY <1>2, <1>4, <1>6, <2>1 DEF AmountsOf
  <2>3. IsFiniteSet({}) /\ id \notin {} /\ {} \cup {id} = {id}
    BY FS_EmptySet
  <2>4. SumFunctionOnSet(f, {} \cup {id}) = SumFunctionOnSet(f, {}) + f[id]
    BY <2>2, <2>3, SumAddOne
  <2>5. SumFunctionOnSet(f, {}) = 0
    BY <2>3, SumStep
  <2>6. SumFunctionOnSet(f, new) = row.amount
    BY ONLY <1>6, <2>1, <2>2, <2>3, <2>4, <2>5
  <2>. QED
    BY <1>5, <1>7, <2>6
<1>8. CASE ~Counts(row, p, ccy, day)
  <2>1. new = {}
    BY <1>2, <1>3, <1>8 DEF UpTo, RowsFor, Counts
  <2>2. SumFunctionOnSet(f, new) = 0
    BY <2>1, FS_EmptySet, SumStep
  <2>. QED
    BY <1>5, <1>8, <2>2
<1>. QED
  BY <1>7, <1>8

\* Inserting a row makes a book with that row more.
LEMMA InsertIsOneMore ==
  ASSUME NEW b, IsBook(b), NEW row, row.amount \in Int
  PROVE  OneMore(b, InsertRow(b, row), row)
<1>1. PICK n, id : n = InsertRow(b, row) /\ id = NewId(b)
  OBVIOUS
<1>2. Inserted(b, row, id, n)
  BY <1>1, OneInserted DEF IsBook
<1>3. IsBook(n)
  BY <1>1, PointInserted
<1>4. id \in DOMAIN n \ DOMAIN b /\ n[id] = row /\ DOMAIN n = DOMAIN b \cup {id}
  BY <1>2 DEF Inserted
<1>5. Grown(b, n)
  BY <1>2 DEF Inserted, Grown
<1>. QED
  BY <1>1, <1>3, <1>4, <1>5 DEF OneMore

\* The gaps of a currency up to a day, and what they add up to.
GapsUpTo(gaps, ccy, day) ==
  {l \in DOMAIN gaps : gaps[l].currency = ccy /\ gaps[l].day <= day}
Grosses(gaps) == [l \in DOMAIN gaps |-> gaps[l].gross]
GapSum(gaps, ccy, day) == SumFunctionOnSet(Grosses(gaps), GapsUpTo(gaps, ccy, day))

\* The places of gaps are finitely many and hold positive amounts.
LEMMA GapsAre ==
  ASSUME NEW gaps \in Seq(GapRow)
  PROVE  /\ IsFiniteSet(DOMAIN gaps) /\ DOMAIN gaps = 1 .. Len(gaps) /\ Len(gaps) \in Nat
         /\ \A l \in DOMAIN gaps : gaps[l] \in GapRow /\ Grosses(gaps)[l] = gaps[l].gross
                                    /\ gaps[l].gross \in Nat \ {0}
<1>1. DOMAIN gaps = 1 .. Len(gaps) /\ Len(gaps) \in Nat
  OBVIOUS
<1>2. IsFiniteSet(DOMAIN gaps)
  BY <1>1, FS_Interval
<1>3. \A l \in DOMAIN gaps : gaps[l] \in GapRow
  BY <1>1
<1>4. \A l \in DOMAIN gaps : Grosses(gaps)[l] = gaps[l].gross /\ gaps[l].gross \in Nat \ {0}
  BY <1>3 DEF Grosses, GapRow
<1>. QED
  BY <1>1, <1>2, <1>3, <1>4

\* One gap more adds its amount where it counts.
LEMMA GapSumGrows ==
  ASSUME NEW gaps \in Seq(GapRow), NEW gap \in GapRow, NEW ccy, NEW day
  PROVE  /\ GapSum(gaps, ccy, day) \in Nat
         /\ GapSum(Append(gaps, gap), ccy, day)
              = GapSum(gaps, ccy, day)
                  + (IF gap.currency = ccy /\ gap.day <= day THEN gap.gross ELSE 0)
<1>1. PICK more, m : more = Append(gaps, gap) /\ m = Len(gaps) + 1
  OBVIOUS
<1>2. /\ more \in Seq(GapRow) /\ m \notin DOMAIN gaps /\ DOMAIN more = DOMAIN gaps \cup {m}
      /\ more[m] = gap /\ \A l \in DOMAIN gaps : more[l] = gaps[l]
  <2>1. Len(gaps) \in Nat /\ DOMAIN gaps = 1 .. Len(gaps)
    OBVIOUS
  <2>2. more \in Seq(GapRow) /\ Len(more) = Len(gaps) + 1 /\ DOMAIN more = 1 .. Len(gaps) + 1
    BY <1>1
  <2>3. more[m] = gap /\ \A l \in DOMAIN gaps : more[l] = gaps[l]
    BY <1>1
  <2>. QED
    BY <1>1, <2>1, <2>2, <2>3
<1>3. PICK f, g : f = Grosses(gaps) /\ g = Grosses(more)
  OBVIOUS
<1>4. PICK U, V : U = GapsUpTo(gaps, ccy, day) /\ V = GapsUpTo(more, ccy, day)
  OBVIOUS
<1>5. U \subseteq DOMAIN gaps /\ V \subseteq DOMAIN more /\ m \notin U
  BY <1>2, <1>4 DEF GapsUpTo
<1>6. IsFiniteSet(U) /\ \A l \in U : f[l] \in Nat /\ f[l] = gaps[l].gross
  BY <1>3, <1>5, GapsAre, FS_Subset
<1>7. \A l \in V : g[l] \in Nat /\ g[l] = more[l].gross
  BY <1>2, <1>3, <1>5, GapsAre
<1>8. SumFunctionOnSet(f, U) \in Nat
  BY <1>6, SumNatural
<1>9. \A l \in U : l \in V /\ g[l] = f[l]
  <2>1. \A l \in U : l \in V
    BY <1>2, <1>4, <1>5 DEF GapsUpTo
  <2>. QED
    BY <1>2, <1>5, <1>6, <1>7, <2>1
<1>10. SumFunctionOnSet(g, U) = SumFunctionOnSet(f, U)
  BY <1>6, <1>9, SumSame
<1>11. CASE gap.currency = ccy /\ gap.day <= day
  <2>1. V = U \cup {m}
    BY <1>2, <1>4, <1>11 DEF GapsUpTo
  <2>2. g[m] = gap.gross
    BY <1>2, <1>7, <2>1
  <2>3. SumFunctionOnSet(g, U \cup {m}) = SumFunctionOnSet(g, U) + g[m]
    <3>1. \A y \in U \cup {m} : g[y] \in Int
      BY <1>7, <2>1
    <3>. QED
      BY <1>5, <1>6, <3>1, SumAddOne
  <2>4. SumFunctionOnSet(g, V) = SumFunctionOnSet(f, U) + gap.gross
    BY ONLY <1>10, <2>1, <2>2, <2>3
  <2>. QED
    BY <1>1, <1>3, <1>4, <1>8, <1>11, <2>4 DEF GapSum
<1>12. CASE ~(gap.currency = ccy /\ gap.day <= day)
  <2>1. V = U
    BY <1>2, <1>4, <1>12 DEF GapsUpTo
  <2>. QED
    BY <1>1, <1>3, <1>4, <1>8, <1>10, <1>12, <2>1 DEF GapSum
<1>. QED
  BY <1>11, <1>12

\* The deposits proposed for a currency up to a day, and what they add up to.
DepositsUpTo(gaps, ccy, day) ==
  {x \in ProposedDeposits(gaps) : x.currency = ccy /\ x.day <= day}
DepositAmounts(gaps) == [x \in ProposedDeposits(gaps) |-> x.amount]

\* The deposits of a day and currency add up to the gaps they were proposed for.
LEMMA DepositsAddUp ==
  ASSUME NEW gaps \in Seq(GapRow), NEW ccy, NEW day
  PROVE  /\ IsFiniteSet(DepositsUpTo(gaps, ccy, day))
         /\ SumFunctionOnSet(DepositAmounts(gaps), DepositsUpTo(gaps, ccy, day))
              = GapSum(gaps, ccy, day)
<1>. DEFINE same(k) == {m \in DOMAIN gaps : /\ gaps[m].day = gaps[k].day
                                            /\ gaps[m].currency = gaps[k].currency}
            amount(k) == SumFunction([l \in same(k) |-> gaps[l].gross])
            deposit(k) == [day |-> gaps[k].day, currency |-> gaps[k].currency, amount |-> amount(k)]
<1>1. ProposedDeposits(gaps) = {deposit(k) : k \in DOMAIN gaps}
  BY DEF ProposedDeposits
<1>2. PICK f, h : f = Grosses(gaps) /\ h = DepositAmounts(gaps)
  OBVIOUS
<1>3. PICK S, T : S = GapsUpTo(gaps, ccy, day) /\ T = DepositsUpTo(gaps, ccy, day)
  OBVIOUS
<1>4. PICK key : key = [l \in S |-> deposit(l)]
  OBVIOUS
<1>5. S \subseteq DOMAIN gaps /\ IsFiniteSet(DOMAIN gaps) /\ IsFiniteSet(S)
      /\ \A l \in DOMAIN gaps : f[l] \in Int /\ f[l] = gaps[l].gross
  <2>1. S \subseteq DOMAIN gaps
    BY <1>3 DEF GapsUpTo
  <2>2. IsFiniteSet(DOMAIN gaps) /\ \A l \in DOMAIN gaps : f[l] \in Int /\ f[l] = gaps[l].gross
    BY <1>2, GapsAre
  <2>. QED
    BY <2>1, <2>2, FS_Subset
<1>6. IsFiniteSet(T)
  <2>1. T \subseteq ProposedDeposits(gaps)
    BY <1>3 DEF DepositsUpTo
  <2>. QED
    BY <2>1, DepositsAre, FS_Subset
<1>7. \A k, l \in DOMAIN gaps : deposit(k) = deposit(l) <=> l \in same(k)
  <2>. SUFFICES ASSUME NEW k \in DOMAIN gaps, NEW l \in DOMAIN gaps
                PROVE  deposit(k) = deposit(l) <=> l \in same(k)
    OBVIOUS
  <2>1. ASSUME l \in same(k) PROVE deposit(k) = deposit(l)
    <3>1. gaps[l].day = gaps[k].day /\ gaps[l].currency = gaps[k].currency
      BY <2>1
    <3>2. same(k) = same(l)
      BY <3>1
    <3>3. amount(k) = amount(l)
      BY <3>2
    <3>. HIDE DEF amount
    <3>. QED
      BY <3>1, <3>3
  <2>2. ASSUME deposit(k) = deposit(l) PROVE l \in same(k)
    <3>1. PICK x, y : x = deposit(k) /\ y = deposit(l) /\ x = y
      BY <2>2
    <3>2. x.day = gaps[k].day /\ x.currency = gaps[k].currency
          /\ y.day = gaps[l].day /\ y.currency = gaps[l].currency
      <4>. HIDE DEF amount
      <4>. QED
        BY <3>1
    <3>. QED
      BY <3>1, <3>2
  <2>. QED
    BY <2>1, <2>2
<1>8. \A l \in S : key[l] = deposit(l) /\ key[l] \in T
  <2>. SUFFICES ASSUME NEW l \in S PROVE key[l] = deposit(l) /\ key[l] \in T
    OBVIOUS
  <2>1. key[l] = deposit(l) /\ deposit(l) \in ProposedDeposits(gaps)
    BY <1>1, <1>4, <1>5
  <2>2. PICK x : x = deposit(l)
    OBVIOUS
  <2>3. x.day = gaps[l].day /\ x.currency = gaps[l].currency
    <3>. HIDE DEF amount
    <3>. QED
      BY <2>2
  <2>4. x.currency = ccy /\ x.day <= day
    BY <1>3, <2>3 DEF GapsUpTo
  <2>. QED
    BY <1>3, <2>1, <2>2, <2>4 DEF DepositsUpTo
<1>9. ASSUME NEW x \in T
      PROVE  h[x] = SumFunctionOnSet(f, WithKey(S, key, x))
  <2>1. x \in ProposedDeposits(gaps) /\ x.currency = ccy /\ x.day <= day
    BY <1>3 DEF DepositsUpTo
  <2>2. PICK k \in DOMAIN gaps : x = deposit(k)
    BY <1>1, <2>1
  <2>3. x.day = gaps[k].day /\ x.currency = gaps[k].currency /\ x.amount = amount(k)
    <3>. HIDE DEF amount
    <3>. QED
      BY <2>2
  <2>4. PICK R : R = same(k)
    OBVIOUS
  <2>5. WithKey(S, key, x) = R
    <3>1. \A i \in R : i \in DOMAIN gaps /\ gaps[i].currency = ccy /\ gaps[i].day <= day
      BY <2>1, <2>3, <2>4
    <3>2. R \subseteq S
      BY <1>3, <3>1 DEF GapsUpTo
    <3>3. \A i \in S : key[i] = x <=> i \in R
      <4>. HIDE DEF deposit, same
      <4>. QED
        BY <1>5, <1>7, <1>8, <2>2, <2>4
    <3>. QED
      BY <3>2, <3>3 DEF WithKey
  <2>6. PICK g : g = [l \in R |-> gaps[l].gross]
    OBVIOUS
  <2>7. x.amount = SumFunctionOnSet(g, R)
    <3>1. DOMAIN g = R
      BY <2>6
    <3>2. SumFunction(g) = SumFunctionOnSet(g, R)
      BY <3>1, SumOfFunction
    <3>. QED
      BY <2>3, <2>4, <2>6, <3>2
  <2>8. SumFunctionOnSet(g, R) = SumFunctionOnSet(f, R)
    <3>1. R \subseteq DOMAIN gaps
      BY <2>4
    <3>2. IsFiniteSet(R) /\ \A l \in R : f[l] \in Int /\ g[l] = f[l]
      BY <1>5, <2>6, <3>1, FS_Subset
    <3>. QED
      BY <3>2, SumSame
  <2>9. h[x] = x.amount
    BY <1>2, <2>1 DEF DepositAmounts
  <2>. QED
    BY <2>5, <2>7, <2>8, <2>9
<1>. HIDE DEF deposit, same
<1>10. SumFunctionOnSet(h, T) = SumFunctionOnSet(f, S)
  <2>1. \A i \in S : f[i] \in Int /\ key[i] \in T
    BY <1>5, <1>8
  <2>2. \A x \in T : h[x] = SumFunctionOnSet(f, WithKey(S, key, x))
    BY <1>9
  <2>3. IsFiniteSet(S) /\ IsFiniteSet(T) /\ (\A i \in S : f[i] \in Int) /\ \A i \in S : key[i] \in T
    BY <1>5, <1>6, <2>1
  <2>. QED
    BY ONLY <2>2, <2>3, SumPartition
<1>. QED
  BY <1>2, <1>3, <1>6, <1>10 DEF GapSum

\* The deposits proposed bring every balance up by the gaps up to its day, and are
\* linked to no trade.
LEMMA DepositsFund ==
  ASSUME NEW book, IsBook(book), NEW gaps \in Seq(GapRow), NEW p,
         NEW n, n = DepositAll(book, p, ProposedDeposits(gaps)).book
  PROVE  /\ IsBook(n) /\ Grown(book, n)
         /\ \A i \in DOMAIN n \ DOMAIN book : n[i].txn = Null
         /\ \A ccy, day : BalanceOn(n, p, ccy, day)
                            = BalanceOn(book, p, ccy, day) + GapSum(gaps, ccy, day)
<1>1. PICK deposits : deposits = ProposedDeposits(gaps)
  OBVIOUS
<1>2. IsFiniteSet(deposits) /\ deposits \subseteq DepositRow
  BY <1>1, DepositsAre
<1>3. PICK before : before = {d \in deposits \X deposits : d[1].day < d[2].day}
  OBVIOUS
<1>4. PICK listed, m : listed = InOrder(deposits, before) /\ m = Cardinality(deposits)
  OBVIOUS
<1>5. /\ m \in Nat /\ DOMAIN listed = 1 .. m /\ \A k \in DOMAIN listed : listed[k] \in deposits
      /\ \A k, l \in DOMAIN listed : listed[k] = listed[l] => k = l
      /\ \A x \in deposits : \E k \in DOMAIN listed : listed[k] = x
  <2>1. \A x \in deposits : x.day \in Int
    BY <1>2 DEF DepositRow, Days
  <2>2. \A x, y \in deposits : <<x, y>> \in before <=> x.day < y.day
    BY <1>3
  <2>3. \A x \in deposits : <<x, x>> \notin before
    BY <2>1, <2>2
  <2>4. \A x, y, z \in deposits : <<x, y>> \in before /\ <<y, z>> \in before => <<x, z>> \in before
    BY <2>1, <2>2
  <2>. QED
    BY <1>2, <1>4, <2>3, <2>4, Listed
<1>6. PICK rows : rows = [k \in DOMAIN listed |->
                            Row(p, listed[k].day, listed[k].currency, "CASH_DEPOSIT",
                                listed[k].amount, NoText)]
  OBVIOUS
<1>7. DOMAIN rows = 1 .. m
      /\ \A k \in 1 .. m : /\ rows[k].portfolio = p /\ rows[k].day = listed[k].day
                           /\ rows[k].currency = listed[k].currency
                           /\ rows[k].amount = listed[k].amount /\ rows[k].txn = Null
  BY <1>5, <1>6 DEF Row
<1>8. n = InsertRows(book, rows)
  BY <1>1, <1>3, <1>4, <1>6 DEF DepositAll
<1>9. PICK id : id = NewId(book)
  OBVIOUS
<1>10. IsTable(book) /\ id \in Nat
  BY <1>9, FreshId DEF IsBook
<1>11. /\ IsTable(n) /\ Grown(book, n)
       /\ \A i \in DOMAIN n \ DOMAIN book :
            i - id + 1 \in 1 .. m /\ n[i] = rows[i - id + 1]
       /\ \A k \in 1 .. m : id + k - 1 \in DOMAIN n \ DOMAIN book
  BY <1>5, <1>7, <1>8, <1>9, <1>10, SomeInserted DEF Grown
<1>12. \A k \in 1 .. m : listed[k] \in deposits /\ listed[k].amount \in Int
  BY <1>2, <1>5 DEF DepositRow
<1>13. \A i \in DOMAIN n \ DOMAIN book :
         /\ i \in Nat /\ i - id + 1 \in 1 .. m /\ listed[i - id + 1] \in deposits
         /\ n[i].portfolio = p /\ n[i].day = listed[i - id + 1].day
         /\ n[i].currency = listed[i - id + 1].currency
         /\ n[i].amount = listed[i - id + 1].amount /\ n[i].amount \in Int /\ n[i].txn = Null
  BY <1>7, <1>11, <1>12 DEF IsTable
<1>14. IsBook(n)
  BY <1>11, <1>13 DEF IsBook, Grown
<1>15. ASSUME NEW ccy, NEW day
       PROVE  BalanceOn(n, p, ccy, day) = BalanceOn(book, p, ccy, day) + GapSum(gaps, ccy, day)
  <2>1. PICK new : new = UpTo(n, p, ccy, day) \ DOMAIN book
    OBVIOUS
  <2>2. PICK f : f = AmountsOf(n, new)
    OBVIOUS
  <2>3. /\ BalanceOn(n, p, ccy, day) = BalanceOn(book, p, ccy, day) + SumFunctionOnSet(f, new)
        /\ IsFiniteSet(new)
    BY <1>11, <1>14, <2>1, <2>2, BalanceSplit
  <2>4. PICK T, h : T = DepositsUpTo(gaps, ccy, day) /\ h = DepositAmounts(gaps)
    OBVIOUS
  <2>5. /\ T \subseteq deposits /\ \A x \in T : x.currency = ccy /\ x.day <= day
        /\ \A x \in deposits : h[x] = x.amount
    BY <1>1, <2>4 DEF DepositsUpTo, DepositAmounts
  <2>6. IsFiniteSet(T) /\ SumFunctionOnSet(h, T) = GapSum(gaps, ccy, day)
    BY <2>4, DepositsAddUp
  <2>7. PICK key : key = [i \in new |-> listed[i - id + 1]]
    OBVIOUS
  <2>8. \A i \in new : /\ i \in DOMAIN n \ DOMAIN book /\ n[i].currency = ccy /\ n[i].day <= day
                       /\ f[i] = n[i].amount /\ key[i] = listed[i - id + 1]
    BY <2>1, <2>2, <2>7 DEF UpTo, RowsFor, AmountsOf
  <2>9. \A i \in new : f[i] \in Int
    BY <1>13, <2>8
  <2>10. ASSUME NEW i \in new
         PROVE  key[i] \in T
    <3>1. PICK x : x = listed[i - id + 1]
      OBVIOUS
    <3>2. x \in deposits /\ x.currency = ccy /\ x.day <= day /\ key[i] = x
      BY <1>13, <2>8, <3>1
    <3>3. x \in T
      BY <1>1, <2>4, <3>2 DEF DepositsUpTo
    <3>. QED
      BY ONLY <3>2, <3>3
  <2>11. ASSUME NEW x \in T
         PROVE  h[x] = SumFunctionOnSet(f, WithKey(new, key, x))
    <3>1. PICK k \in 1 .. m : listed[k] = x
      BY <1>5, <2>5
    <3>2. PICK j : j = id + k - 1
      OBVIOUS
    <3>3. j \in DOMAIN n \ DOMAIN book /\ j - id + 1 = k
      BY <1>10, <1>11, <3>2
    <3>4. n[j].portfolio = p /\ n[j].currency = ccy /\ n[j].day <= day /\ n[j].amount = x.amount
      BY <1>13, <2>5, <3>1, <3>3
    <3>5. j \in new
      BY <2>1, <3>3, <3>4 DEF UpTo, RowsFor
    <3>6. \A i \in new : key[i] = x => i = j
      <4>. SUFFICES ASSUME NEW i \in new, key[i] = x PROVE i = j
        OBVIOUS
      <4>1. i \in Nat /\ i - id + 1 \in 1 .. m /\ listed[i - id + 1] = x
        BY <1>13, <2>8
      <4>2. i - id + 1 = k
        BY <1>5, <3>1, <4>1
      <4>. QED
        BY <1>10, <3>2, <4>1, <4>2
    <3>7. WithKey(new, key, x) = {j}
      <4>1. key[j] = x
        BY <2>8, <3>1, <3>3, <3>5
      <4>. QED
        BY <3>5, <3>6, <4>1 DEF WithKey
    <3>8. SumFunctionOnSet(f, {j}) = f[j]
      <4>1. IsFiniteSet({}) /\ j \notin {} /\ \A y \in {} \cup {j} : f[y] \in Int
        BY <2>9, <3>5, FS_EmptySet
      <4>2. SumFunctionOnSet(f, {} \cup {j}) = SumFunctionOnSet(f, {}) + f[j]
        BY <4>1, SumAddOne
      <4>3. SumFunctionOnSet(f, {}) = 0
        BY <4>1, SumStep
      <4>4. {} \cup {j} = {j} /\ f[j] \in Int
        BY <4>1
      <4>. QED
        BY ONLY <4>2, <4>3, <4>4
    <3>. QED
      BY <2>5, <2>8, <3>4, <3>5, <3>7, <3>8
  <2>12. SumFunctionOnSet(h, T) = SumFunctionOnSet(f, new)
    <3>1. \A x \in T : h[x] = SumFunctionOnSet(f, WithKey(new, key, x))
      BY <2>11
    <3>2. \A i \in new : key[i] \in T
      BY <2>10
    <3>. QED
      BY ONLY <2>3, <2>6, <2>9, <3>1, <3>2, SumPartition
  <2>. QED
    BY <2>3, <2>6, <2>12
<1>. QED
  BY <1>11, <1>13, <1>14, <1>15

\* Without surplus rows nothing is tested and every row stays.
LEMMA NothingDeleted ==
  ASSUME NEW s, IsState(s), s.ok, NEW r, r = DeleteSurplus(s, {})
  PROVE  IsState(r) /\ r.book = RemoveRows(s.book, {}) /\ r.spare = s.spare /\ r.ok
<1>1. IsState(r) /\ r.book = RemoveRows(s.book, {}) /\ r.spare = s.spare
  BY SurplusDeleted
<1>2. r.ok
  <2>1. PICK b, o, e : s = [book |-> b, ok |-> o, spare |-> e]
    BY DEF IsState
  <2>2. MayDelete(b, {i \in {} : b[i].type = "SELL_SETTLEMENT"})
    BY DEF MayDelete
  <2>3. r = [s EXCEPT !.ok = s.ok /\ MayDelete(s.book, {i \in {} : s.book[i].type = "SELL_SETTLEMENT"}),
                      !.book = RemoveRows(s.book, {})]
    BY DEF DeleteSurplus
  <2>4. r.ok = (s.ok /\ MayDelete(s.book, {i \in {} : s.book[i].type = "SELL_SETTLEMENT"}))
    BY <2>1, <2>3
  <2>. QED
    BY <2>1, <2>2, <2>4
<1>. QED
  BY <1>1, <1>2

\* A row inserted for a specification passes if a buy finds its cash.
LEMMA FirstRowPasses ==
  ASSUME NEW s, IsState(s), s.ok, NEW t, NEW spec, ValidAmountSign(spec.type, spec.amount),
         spec.type = "BUY_SETTLEMENT" =>
           HasCash(RemoveRows(s.book, {Null}), spec.portfolio, spec.currency, -spec.amount, spec.day)
  PROVE  ApplySpec(s, t, spec, Null).ok
<1>. DEFINE others == RemoveRows(s.book, {Null})
            ok == /\ s.ok
                  /\ spec.type = "BUY_SETTLEMENT" =>
                       HasCash(others, spec.portfolio, spec.currency, -spec.amount, spec.day)
                  /\ Null # Null =>
                       \/ s.book[Null].type # "SELL_SETTLEMENT"
                       \/ spec.type = "SELL_SETTLEMENT"
                       \/ MayDelete(s.book, {Null})
                  /\ ValidAmountSign(spec.type, spec.amount)
            book == InsertRow(s.book, LinkedRow(spec, t))
<1>1. PICK r : r = ApplySpec(s, t, spec, Null)
  OBVIOUS
<1>2. r = [s EXCEPT !.ok = ok, !.book = book]
  BY <1>1 DEF ApplySpec, LinkedRow
<1>3. ok
  OBVIOUS
<1>. HIDE DEF ok, book
<1>4. r.ok = ok
  <2>1. PICK b, o, e : s = [book |-> b, ok |-> o, spare |-> e]
    BY DEF IsState
  <2>2. PICK m : m = [s EXCEPT !.ok = ok]
    OBVIOUS
  <2>3. m = [book |-> b, ok |-> ok, spare |-> e]
    BY <2>1, <2>2
  <2>4. r = [m EXCEPT !.book = book]
    BY <1>2, <2>2
  <2>. QED
    BY <2>3, <2>4
<1>. QED
  BY <1>1, <1>3, <1>4

\* Taking out no row, or a key no row has, leaves every row.
LEMMA SameRowsLeft ==
  ASSUME NEW b, IsBook(b), NEW ids, ids \cap DOMAIN b = {}
  PROVE  /\ IsBook(RemoveRows(b, ids)) /\ Grown(b, RemoveRows(b, ids))
         /\ DOMAIN RemoveRows(b, ids) = DOMAIN b
         /\ \A p, ccy, day : BalanceOn(RemoveRows(b, ids), p, ccy, day) = BalanceOn(b, p, ccy, day)
<1>1. PICK n : n = RemoveRows(b, ids)
  OBVIOUS
<1>2. IsTable(n) /\ DOMAIN n = DOMAIN b /\ \A i \in DOMAIN b : n[i] = b[i]
  BY <1>1, Removed DEF IsBook
<1>3. IsBook(n) /\ Grown(b, n)
  BY <1>2 DEF IsBook, Grown
<1>4. \A p, ccy, day : BalanceOn(n, p, ccy, day) = BalanceOn(b, p, ccy, day)
  <2>. SUFFICES ASSUME NEW p, NEW ccy, NEW day
                PROVE  BalanceOn(n, p, ccy, day) = BalanceOn(b, p, ccy, day)
    OBVIOUS
  <2>1. Agree(b, n, p, ccy, day)
    BY <1>2 DEF Agree, UpTo, RowsFor
  <2>. QED
    BY <1>3, <2>1, SameRowsSameCash
<1>. QED
  BY <1>1, <1>2, <1>3, <1>4

\* The first settlement of a trade with one row to book, or with none.
LEMMA FirstSettlement ==
  ASSUME NEW b, IsBook(b), NEW t, t # Null, LinkedRows(b, t) = {}, NEW spec, NEW specs,
         specs = <<spec>> \/ specs = <<>>,
         specs = <<spec>> => spec.amount \in Int /\ ValidAmountSign(spec.type, spec.amount),
         NEW r, r = Sync(b, t, specs)
  PROVE  /\ specs = <<>> => /\ IsBook(r.book) /\ Grown(b, r.book) /\ DOMAIN r.book = DOMAIN b
                            /\ r.ok
         /\ specs = <<spec>> =>
              /\ OneMore(b, r.book, LinkedRow(spec, t))
              /\ (spec.type = "BUY_SETTLEMENT" =>
                    HasCash(b, spec.portfolio, spec.currency, -spec.amount, spec.day)) => r.ok
<1>1. Null \notin DOMAIN b
  BY DEF IsBook, IsTable, Null
<1>2. PICK after, end : SyncRun(after, end, b, t, specs)
  <2>1. Len(specs) \in Nat
    OBVIOUS
  <2>. QED
    BY <2>1, SyncIs
<1>3. /\ after[0] = BeginSync(b, t, specs)
      /\ \A k \in 1 .. Len(specs) : after[k] = SyncSpec(b, t, after[k - 1], specs[k])
      /\ end = DeleteSurplus(after[Len(specs)], {after[Len(specs)].spare} \ {Null})
      /\ r.book = end.book /\ r.ok = end.ok
  BY <1>2 DEF SyncRun
<1>4. Surplus(b, t, specs) = {} /\ \A type : RowsOfType(b, t, type) = {}
  BY DEF Surplus, RowsOfType
<1>5. PICK s : s = [book |-> b, ok |-> TRUE, spare |-> Null]
  OBVIOUS
<1>6. PICK s0 : s0 = after[0]
  OBVIOUS
<1>7. IsState(s0) /\ s0.book = RemoveRows(b, {}) /\ s0.spare = Null /\ s0.ok
  <2>1. s0 = DeleteSurplus(s, {})
    <3>1. {} \ {Null} = {}
      OBVIOUS
    <3>. QED
      BY <1>3, <1>4, <1>5, <1>6, <3>1 DEF BeginSync
  <2>2. IsState(s) /\ s.ok /\ s.book = b /\ s.spare = Null
    BY <1>5 DEF IsState
  <2>. QED
    BY <2>1, <2>2, NothingDeleted
<1>8. /\ IsBook(s0.book) /\ Grown(b, s0.book) /\ DOMAIN s0.book = DOMAIN b
      /\ \A q, ccy, day : BalanceOn(s0.book, q, ccy, day) = BalanceOn(b, q, ccy, day)
  BY <1>7, SameRowsLeft
<1>9. CASE specs = <<>>
  <2>1. end = DeleteSurplus(s0, {})
    <3>1. after[Len(specs)] = s0
      BY <1>6, <1>9
    <3>2. {s0.spare} \ {Null} = {}
      BY <1>7
    <3>. QED
      BY <1>3, <3>1, <3>2
  <2>2. end.book = RemoveRows(s0.book, {}) /\ end.ok
    BY <1>7, <2>1, NothingDeleted
  <2>3. IsBook(end.book) /\ Grown(s0.book, end.book) /\ DOMAIN end.book = DOMAIN s0.book
    BY <1>8, <2>2, SameRowsLeft
  <2>4. Grown(b, end.book)
    BY <1>8, <2>3 DEF Grown
  <2>. QED
    BY <1>3, <1>8, <1>9, <2>2, <2>3, <2>4
<1>10. CASE specs = <<spec>>
  <2>1. Len(specs) = 1 /\ specs[1] = spec /\ specs # <<>>
    BY <1>10
  <2>2. PICK row : row = LinkedRow(spec, t)
    OBVIOUS
  <2>3. row.amount \in Int /\ row.amount = spec.amount
    BY <1>10, <2>2 DEF LinkedRow, Row
  <2>4. PICK s1, m : s1 = after[1] /\ m = ApplySpec(s0, t, spec, Null)
    OBVIOUS
  <2>5. IsState(m) /\ m.book = Written(s0.book, Null, row) /\ m.spare = Null
    BY <1>7, <2>2, <2>4, SpecApplied
  <2>6. s1 = [m EXCEPT !.spare = IF Null = m.spare THEN Null ELSE m.spare]
    <3>1. after[1] = SyncSpec(b, t, after[1 - 1], specs[1]) /\ 1 - 1 = 0
      BY <1>3, <2>1
    <3>. QED
      BY <1>4, <1>6, <1>7, <2>1, <2>4, <3>1 DEF SyncSpec
  <2>7. IsState(s1) /\ s1.book = InsertRow(s0.book, row) /\ s1.spare = Null /\ s1.ok = m.ok
    BY <2>5, <2>6 DEF IsState, Written
  <2>8. end = DeleteSurplus(s1, {})
    <3>1. {Null} \ {Null} = {}
      OBVIOUS
    <3>. QED
      BY <1>3, <2>1, <2>4, <2>7, <3>1
  <2>9. end.book = RemoveRows(s1.book, {})
    BY <2>7, <2>8, SurplusDeleted
  <2>10. OneMore(s0.book, s1.book, row)
    BY <1>8, <2>3, <2>7, InsertIsOneMore
  <2>11. IsBook(end.book) /\ Grown(s1.book, end.book) /\ DOMAIN end.book = DOMAIN s1.book
    BY <2>9, <2>10, SameRowsLeft DEF OneMore
  <2>12. OneMore(b, end.book, row)
    BY <1>8, <2>10, <2>11 DEF OneMore, Grown
  <2>13. ASSUME spec.type = "BUY_SETTLEMENT" =>
                  HasCash(b, spec.portfolio, spec.currency, -spec.amount, spec.day)
         PROVE  end.ok
    <3>1. PICK others : others = RemoveRows(s0.book, {Null})
      OBVIOUS
    <3>2. \A q, ccy, day : BalanceOn(others, q, ccy, day) = BalanceOn(b, q, ccy, day)
      <4>1. {Null} \cap DOMAIN s0.book = {}
        BY <1>1, <1>8
      <4>2. \A q, ccy, day : BalanceOn(others, q, ccy, day) = BalanceOn(s0.book, q, ccy, day)
        BY <1>8, <3>1, <4>1, SameRowsLeft
      <4>. QED
        BY <1>8, <4>2
    <3>3. spec.type = "BUY_SETTLEMENT" =>
            HasCash(others, spec.portfolio, spec.currency, -spec.amount, spec.day)
      BY <2>13, <3>2 DEF HasCash
    <3>4. ApplySpec(s0, t, spec, Null).ok
      BY <1>7, <1>10, <3>1, <3>3, FirstRowPasses
    <3>5. s1.ok
      BY <2>4, <2>7, <3>4
    <3>. QED
      BY <2>7, <2>8, <3>5, NothingDeleted
  <2>14. r.book = end.book /\ r.ok = end.ok
    BY <1>3
  <2>. QED
    BY <1>10, <2>1, <2>2, <2>12, <2>13, <2>14
<1>. QED
  BY <1>9, <1>10

\* The rows of a file that can be imported, and what they add to a balance.
Importable(row) ==
  row \in FileRow /\ row.gross \in LedgerAmounts /\ (row.type # "DIVIDEND" => row.gross > 0)
CashOf(row) ==
  IF row.type = "BUY" THEN -row.gross ELSE IF row.type = "SELL" THEN row.gross ELSE 0
Effect(row, ccy, day) == IF row.currency = ccy /\ row.day <= day THEN CashOf(row) ELSE 0

\* A preview moves every balance, without the gaps it has filled, by what the row adds,
\* and the gaps never become less.  With the gap a buy is given it is covered.
Previewed(s, n, p, row) ==
  /\ \A ccy, day :
       /\ BalanceOn(n.book, p, ccy, day) - GapSum(n.gaps, ccy, day)
            = BalanceOn(s.book, p, ccy, day) - GapSum(s.gaps, ccy, day) + Effect(row, ccy, day)
       /\ GapSum(s.gaps, ccy, day) <= GapSum(n.gaps, ccy, day)
  /\ row.type = "BUY" =>
       BalanceOn(s.book, p, row.currency, row.day)
         - GapSum(s.gaps, row.currency, row.day) + GapSum(n.gaps, row.currency, row.day)
       >= row.gross

\* Each row of a preview does that.
LEMMA PreviewOfRow ==
  ASSUME NEW s, PreviewOK(s), NEW p, NEW row, Importable(row),
         NEW n, n = SimulateRow(s, p, row)
  PROVE  Previewed(s, n, p, row)
<1>. DEFINE Point(amount) == Row(p, row.day, row.currency, "CASH_DEPOSIT", amount, NoText)
            gap == Shortfall(s.book, p, row.currency, row.gross, row.day)
            funded == IF gap = 0 THEN s.book ELSE InsertRow(s.book, Point(gap))
            bought == InsertRow(funded, Point(-row.gross))
            sold == InsertRow(s.book, Point(row.gross))
            gaps == IF gap = 0 THEN s.gaps ELSE Append(s.gaps, [row EXCEPT !.gross = gap])
            In(ccy, day) == row.currency = ccy /\ row.day <= day
<1>1. row \in FileRow /\ row.gross \in Int /\ (row.type # "DIVIDEND" => row.gross > 0)
      /\ row.type \in {"BUY", "SELL", "DIVIDEND"} /\ row.day \in Int
  <2>1. row \in FileRow /\ (row.type # "DIVIDEND" => row.gross > 0)
    BY DEF Importable
  <2>2. row.gross \in Int /\ row.type \in {"BUY", "SELL", "DIVIDEND"}
    BY <2>1, SettlementAssumption DEF FileRow
  <2>3. row.day \in Int
    BY <2>1 DEF FileRow, Days
  <2>. QED
    BY <2>1, <2>2, <2>3
<1>2. IsBook(s.book) /\ s.gaps \in Seq(GapRow)
  BY DEF PreviewOK
<1>3. \A amount : /\ Point(amount).amount = amount
                  /\ \A ccy, day : Counts(Point(amount), p, ccy, day) <=> In(ccy, day)
  BY DEF Row, Counts
<1>4. gap \in Nat
  BY <1>1, <1>2, GapIsNatural
<1>5. \A ccy, day : BalanceOn(s.book, p, ccy, day) \in Int /\ GapSum(s.gaps, ccy, day) \in Nat
  <2>2. [row EXCEPT !.gross = 1] \in GapRow
    BY <1>1 DEF FileRow, GapRow
  <2>. QED
    BY <1>2, <2>2, BalanceIsInt, GapSumGrows
<1>6. row.type = "BUY" => gap >= row.gross - BalanceOn(s.book, p, row.currency, row.day)
  <2>. SUFFICES ASSUME row.type = "BUY"
                PROVE  gap >= row.gross - BalanceOn(s.book, p, row.currency, row.day)
    OBVIOUS
  <2>1. PICK lack : lack = row.gross - BalanceOn(s.book, p, row.currency, row.day)
    OBVIOUS
  <2>2. lack \in Int
    BY <1>1, <1>5, <2>1
  <2>3. PICK S : S = {0} \cup {lack}
    OBVIOUS
  <2>4. S \in SUBSET Int /\ S # {} /\ IsFiniteSet(S) /\ lack \in S
    <3>1. IsFiniteSet(S)
      BY <2>3, FS_Singleton, FS_Union
    <3>. QED
      BY <2>2, <2>3, <3>1
  <2>5. Max(S) \in Int /\ lack <= Max(S)
    BY <2>4, MaxMin
  <2>6. gap = Max(S)
    <3>1. {0, lack} = S /\ ~(row.gross <= 0)
      BY <1>1, <2>3
    <3>. QED
      BY <2>1, <3>1 DEF Shortfall
  <2>. QED
    BY <2>1, <2>5, <2>6
<1>. HIDE DEF Point, gap, In
<1>7. /\ IsBook(funded)
      /\ \A ccy, day : BalanceOn(funded, p, ccy, day)
                         = BalanceOn(s.book, p, ccy, day) + (IF In(ccy, day) THEN gap ELSE 0)
  <2>1. CASE gap = 0
    BY <1>2, <1>5, <2>1
  <2>2. CASE gap # 0
    <3>1. PICK b, point : b = InsertRow(s.book, Point(gap)) /\ point = Point(gap)
      OBVIOUS
    <3>2. OneMore(s.book, b, point)
      BY <1>2, <1>3, <1>4, <3>1, InsertIsOneMore
    <3>3. \A ccy, day : BalanceOn(b, p, ccy, day) = BalanceOn(s.book, p, ccy, day)
                          + (IF Counts(point, p, ccy, day) THEN point.amount ELSE 0)
      BY <3>2, BalanceOfOneMore
    <3>. QED
      BY <1>3, <2>2, <3>1, <3>2, <3>3 DEF OneMore
  <2>. QED
    BY <2>1, <2>2
<1>8. /\ gaps \in Seq(GapRow)
      /\ \A ccy, day : GapSum(gaps, ccy, day)
                         = GapSum(s.gaps, ccy, day) + (IF In(ccy, day) THEN gap ELSE 0)
  <2>1. CASE gap = 0
    BY <1>2, <1>5, <2>1
  <2>2. CASE gap # 0
    <3>1. PICK new : new = [row EXCEPT !.gross = gap]
      OBVIOUS
    <3>2. gap \in Nat \ {0}
      BY <1>4, <2>2
    <3>3. new \in GapRow /\ new.gross = gap /\ new.currency = row.currency /\ new.day = row.day
      BY <1>1, <3>1, <3>2 DEF FileRow, GapRow
    <3>4. gaps = Append(s.gaps, new)
      BY <2>2, <3>1
    <3>5. gaps \in Seq(GapRow)
      BY <1>2, <3>3, <3>4
    <3>6. \A ccy, day : GapSum(Append(s.gaps, new), ccy, day)
            = GapSum(s.gaps, ccy, day)
                + (IF new.currency = ccy /\ new.day <= day THEN new.gross ELSE 0)
      BY <1>2, <3>3, GapSumGrows
    <3>. QED
      BY <3>3, <3>4, <3>5, <3>6 DEF In
  <2>. QED
    BY <2>1, <2>2
<1>. HIDE DEF funded, gaps
<1>9. CASE row.type = "BUY"
  <2>1. n = [book |-> bought, gaps |-> gaps]
    BY <1>9 DEF SimulateRow, bought, gaps, funded, gap, Point
  <2>2. PICK point : point = Point(-row.gross)
    OBVIOUS
  <2>3. -row.gross \in Int /\ point.amount = -row.gross
    BY <1>1, <1>3, <2>2
  <2>4. OneMore(funded, bought, point)
    BY <1>7, <2>2, <2>3, InsertIsOneMore
  <2>5. \A ccy, day : BalanceOn(bought, p, ccy, day) = BalanceOn(funded, p, ccy, day)
                        + (IF Counts(point, p, ccy, day) THEN point.amount ELSE 0)
    BY <2>4, BalanceOfOneMore
  <2>6. \A ccy, day : BalanceOn(bought, p, ccy, day) = BalanceOn(funded, p, ccy, day)
                        + (IF In(ccy, day) THEN -row.gross ELSE 0)
    BY <1>3, <2>2, <2>3, <2>5
  <2>7. \A ccy, day : Effect(row, ccy, day) = IF In(ccy, day) THEN -row.gross ELSE 0
    BY <1>9 DEF Effect, CashOf, In
  <2>8. n.book = bought /\ n.gaps = gaps
    BY <2>1
  <2>9. In(row.currency, row.day)
    BY <1>1 DEF In
  <2>. HIDE DEF bought
  <2>10. ASSUME NEW ccy, NEW day
         PROVE  /\ BalanceOn(bought, p, ccy, day) - GapSum(gaps, ccy, day)
                     = BalanceOn(s.book, p, ccy, day) - GapSum(s.gaps, ccy, day)
                         + Effect(row, ccy, day)
                /\ GapSum(s.gaps, ccy, day) <= GapSum(gaps, ccy, day)
    BY <1>1, <1>4, <1>5, <1>7, <1>8, <2>6, <2>7
  <2>11. BalanceOn(s.book, p, row.currency, row.day)
           - GapSum(s.gaps, row.currency, row.day) + GapSum(gaps, row.currency, row.day)
         >= row.gross
    BY <1>1, <1>4, <1>5, <1>6, <1>8, <1>9, <2>9
  <2>. QED
    BY <2>8, <2>10, <2>11 DEF Previewed
<1>10. CASE row.type = "SELL"
  <2>1. n = [s EXCEPT !.book = sold]
    BY <1>1, <1>10 DEF SimulateRow, sold, Point
  <2>2. [s EXCEPT !.book = sold] = [book |-> sold, gaps |-> s.gaps]
    BY DEF PreviewOK
  <2>3. n.book = sold /\ n.gaps = s.gaps
    BY <2>1, <2>2
  <2>4. PICK point : point = Point(row.gross)
    OBVIOUS
  <2>5. point.amount = row.gross
    BY <1>3, <2>4
  <2>6. OneMore(s.book, sold, point)
    BY <1>1, <1>2, <2>4, <2>5, InsertIsOneMore
  <2>7. \A ccy, day : BalanceOn(sold, p, ccy, day) = BalanceOn(s.book, p, ccy, day)
                        + (IF Counts(point, p, ccy, day) THEN point.amount ELSE 0)
    BY <2>6, BalanceOfOneMore
  <2>8. \A ccy, day : BalanceOn(sold, p, ccy, day) = BalanceOn(s.book, p, ccy, day)
                        + Effect(row, ccy, day)
    BY <1>3, <1>10, <2>4, <2>5, <2>7 DEF Effect, CashOf, In
  <2>9. \A ccy, day : Effect(row, ccy, day) \in Int
    BY <1>1, <1>10 DEF Effect, CashOf
  <2>. HIDE DEF sold
  <2>10. ASSUME NEW ccy, NEW day
         PROVE  /\ BalanceOn(sold, p, ccy, day) - GapSum(s.gaps, ccy, day)
                     = BalanceOn(s.book, p, ccy, day) - GapSum(s.gaps, ccy, day)
                         + Effect(row, ccy, day)
                /\ GapSum(s.gaps, ccy, day) <= GapSum(s.gaps, ccy, day)
    BY <1>5, <2>8, <2>9
  <2>. QED
    BY <1>10, <2>3, <2>10 DEF Previewed
<1>11. CASE row.type = "DIVIDEND"
  <2>1. n = s
    BY <1>11 DEF SimulateRow
  <2>2. \A ccy, day : Effect(row, ccy, day) = 0
    BY <1>11 DEF Effect, CashOf
  <2>. QED
    BY <1>5, <1>11, <2>1, <2>2 DEF Previewed
<1>. QED
  BY <1>1, <1>9, <1>10, <1>11

\* The tables of an import that has gone through so far: linked rows have their trades.
Importing(state) ==
  /\ IsTable(state.trades) /\ IsBook(state.book) /\ state.ok
  /\ \A i \in DOMAIN state.book :
       state.book[i].txn # Null => state.book[i].txn \in DOMAIN state.trades

\* A row goes through if a buy finds its cash, and moves the balances as in the preview.
LEMMA ImportOfRow ==
  ASSUME NEW state, Importing(state), NEW p, IsCashAware(p), NEW kind,
         NEW row, Importable(row),
         row.type = "BUY" => BalanceOn(state.book, p, row.currency, row.day) >= row.gross,
         NEW n, n = Created(state, TradeOf(p, kind, row))
  PROVE  /\ Importing(n)
         /\ \A ccy, day : BalanceOn(n.book, p, ccy, day)
                            = BalanceOn(state.book, p, ccy, day) + Effect(row, ccy, day)
<1>1. /\ row.gross \in Int /\ (row.type # "DIVIDEND" => row.gross > 0)
      /\ row.type \in {"BUY", "SELL", "DIVIDEND"}
  <2>1. row \in FileRow /\ (row.type # "DIVIDEND" => row.gross > 0)
    BY DEF Importable
  <2>. QED
    BY <2>1, SettlementAssumption DEF FileRow
<1>2. PICK trade : trade = TradeOf(p, kind, row)
  OBVIOUS
<1>3. /\ trade.portfolio = p /\ trade.type = row.type /\ trade.day = row.day
      /\ trade.currency = row.currency /\ trade.gross = row.gross /\ trade.actual = 0
  BY <1>2 DEF TradeOf, InputOf, InPortfolio
<1>16. Quantized(trade.gross) = row.gross
  BY <1>3, AmountsStay DEF Importable
<1>4. PICK t, r : t = NewId(state.trades) /\ r = SyncTrade(state.book, t, trade)
  OBVIOUS
<1>5. n.trades = InsertRow(state.trades, trade) /\ n.book = r.book /\ n.ok = (state.ok /\ r.ok)
  BY <1>2, <1>4 DEF Created
<1>6. IsTable(state.trades) /\ IsBook(state.book) /\ state.ok
      /\ \A i \in DOMAIN state.book :
           state.book[i].txn # Null => state.book[i].txn \in DOMAIN state.trades
  BY DEF Importing
<1>7. Inserted(state.trades, trade, t, n.trades) /\ t # Null
  BY <1>4, <1>5, <1>6, OneInserted, FreshId DEF Null
<1>8. LinkedRows(state.book, t) = {}
  BY <1>6, <1>7 DEF Inserted, LinkedRows
<1>9. PICK specs : specs = SettlementSpecs(trade)
  OBVIOUS
<1>10. r = Sync(state.book, t, specs)
  <2>1. SpecsExist(trade)
    BY <1>1, <1>3 DEF SpecsExist
  <2>. QED
    BY <1>3, <1>4, <1>9, <2>1 DEF SyncTrade
<1>11. PICK spec : spec = SpecRow(trade, IF row.type = "BUY" THEN "BUY_SETTLEMENT" ELSE "SELL_SETTLEMENT",
                                  CashOf(row))
  OBVIOUS
<1>12. /\ spec.portfolio = p /\ spec.day = row.day /\ spec.currency = row.currency
       /\ spec.amount = CashOf(row)
       /\ spec.type = IF row.type = "BUY" THEN "BUY_SETTLEMENT" ELSE "SELL_SETTLEMENT"
  BY <1>3, <1>11 DEF SpecRow
<1>13. specs = IF row.type = "DIVIDEND" THEN <<>> ELSE <<spec>>
  <2>1. CASE row.type = "BUY"
    BY <1>3, <1>9, <1>11, <1>16, <2>1 DEF SettlementSpecs, CashOf
  <2>2. CASE row.type = "SELL"
    <3>1. SettlementSpecs(trade) = SaleSpecs(trade)
      BY <1>3, <2>2 DEF SettlementSpecs
    <3>2. Withheld(trade) = 0
      BY <1>3 DEF Withheld
    <3>3. SaleSpecs(trade) = <<SpecRow(trade, "SELL_SETTLEMENT", row.gross)>> \o <<>>
      BY <1>16, <3>2 DEF SaleSpecs
    <3>4. spec = SpecRow(trade, "SELL_SETTLEMENT", row.gross)
      BY <1>3, <1>11, <2>2 DEF CashOf
    <3>5. <<spec>> \o <<>> = <<spec>>
      OBVIOUS
    <3>. QED
      BY <1>9, <2>2, <3>1, <3>3, <3>4, <3>5
  <2>3. CASE row.type = "DIVIDEND"
    BY <1>3, <1>9, <2>3 DEF SettlementSpecs
  <2>. QED
    BY <1>1, <2>1, <2>2, <2>3
<1>14. CASE row.type = "DIVIDEND"
  <2>1. specs = <<>>
    BY <1>13, <1>14
  <2>2. /\ IsBook(r.book) /\ Grown(state.book, r.book) /\ DOMAIN r.book = DOMAIN state.book
        /\ r.ok
    <3>1. specs = <<spec>> \/ specs = <<>>
      BY <2>1
    <3>2. specs # <<spec>>
      BY <2>1
    <3>. QED
      BY <1>6, <1>7, <1>8, <1>10, <2>1, <3>1, <3>2, FirstSettlement
  <2>3. \A i \in DOMAIN r.book : r.book[i].txn # Null => r.book[i].txn \in DOMAIN n.trades
    BY <1>6, <1>7, <2>2 DEF Grown, Inserted
  <2>4. ASSUME NEW ccy, NEW day
        PROVE  BalanceOn(r.book, p, ccy, day)
                 = BalanceOn(state.book, p, ccy, day) + Effect(row, ccy, day)
    <3>1. Agree(state.book, r.book, p, ccy, day)
      BY <2>2 DEF Grown, Agree, UpTo, RowsFor
    <3>2. BalanceOn(r.book, p, ccy, day) = BalanceOn(state.book, p, ccy, day)
      BY <1>6, <2>2, <3>1, SameRowsSameCash
    <3>3. Effect(row, ccy, day) = 0 /\ BalanceOn(state.book, p, ccy, day) \in Int
      BY <1>6, <1>14, BalanceIsInt DEF Effect, CashOf
    <3>. QED
      BY <3>2, <3>3
  <2>5. Importing(n)
    BY <1>5, <1>6, <1>7, <2>2, <2>3 DEF Importing, Inserted
  <2>. QED
    BY <1>5, <2>4, <2>5
<1>15. CASE row.type # "DIVIDEND"
  <2>1. specs = <<spec>>
    BY <1>13, <1>15
  <2>2. spec.amount \in Int /\ ValidAmountSign(spec.type, spec.amount)
    BY <1>1, <1>12, <1>15 DEF CashOf, ValidAmountSign, PositiveTypes, NegativeTypes
  <2>3. spec.type = "BUY_SETTLEMENT" =>
          HasCash(state.book, spec.portfolio, spec.currency, -spec.amount, spec.day)
    BY <1>1, <1>12 DEF HasCash, CashOf
  <2>4. PICK new : new = LinkedRow(spec, t)
    OBVIOUS
  <2>5. OneMore(state.book, r.book, new) /\ r.ok
    BY <1>6, <1>7, <1>8, <1>10, <2>1, <2>2, <2>3, <2>4, FirstSettlement
  <2>6. /\ new.portfolio = p /\ new.currency = row.currency /\ new.day = row.day
        /\ new.amount = CashOf(row) /\ new.txn = t
    BY <1>12, <2>4 DEF LinkedRow, Row
  <2>7. \A ccy, day : BalanceOn(r.book, p, ccy, day) = BalanceOn(state.book, p, ccy, day)
                        + (IF Counts(new, p, ccy, day) THEN new.amount ELSE 0)
    BY <2>5, BalanceOfOneMore
  <2>8. \A ccy, day : BalanceOn(r.book, p, ccy, day)
                        = BalanceOn(state.book, p, ccy, day) + Effect(row, ccy, day)
    BY <2>6, <2>7 DEF Counts, Effect
  <2>9. \A i \in DOMAIN r.book : r.book[i].txn # Null => r.book[i].txn \in DOMAIN n.trades
    BY <1>6, <1>7, <2>5, <2>6 DEF OneMore, Grown, Inserted
  <2>10. Importing(n)
    BY <1>5, <1>6, <1>7, <2>5, <2>9 DEF Importing, Inserted, OneMore
  <2>. QED
    BY <1>5, <2>8, <2>10
<1>. QED
  BY <1>14, <1>15

\* A preview of the first n rows of a file of importable rows in date order, and what
\* holds throughout it.
PreviewSteps(s, p, file, n) ==
  /\ \A k \in 1 .. n : Importable(file[k])
  /\ s[0] = [book |-> cash, gaps |-> <<>>]
  /\ \A k \in 1 .. n : s[k] = SimulateRow(s[k - 1], p, file[k])
Throughout(s, p, file, n) ==
  /\ \A k \in 0 .. n : PreviewOK(s[k])
  /\ \A k \in 1 .. n : Previewed(s[k - 1], s[k], p, file[k])
  /\ \A k \in 0 .. n : \A ccy, day :
       GapSum(s[k].gaps, ccy, day) <= GapSum(s[n].gaps, ccy, day)

\* Throughout a preview of importable rows the books are sound, each row has its effect,
\* and the gaps found so far are part of the gaps found in the end.
LEMMA PreviewThroughout ==
  ASSUME IsBook(cash), NEW p, NEW file, NEW n \in Nat, NEW s, PreviewSteps(s, p, file, n)
  PROVE  Throughout(s, p, file, n)
<1>. USE DEF PreviewSteps
<1>. DEFINE T == {k \in Nat : k <= n => PreviewOK(s[k])}
<1>1. 0 \in T
  <2>1. PreviewOK(s[0])
    BY DEF PreviewOK
  <2>. QED
    BY <2>1
<1>2. ASSUME NEW k \in Nat, k \in T
      PROVE  k + 1 \in T
  <2>. SUFFICES ASSUME k + 1 <= n PROVE PreviewOK(s[k + 1])
    OBVIOUS
  <2>1. k + 1 \in 1 .. n /\ (k + 1) - 1 = k /\ k <= n
    OBVIOUS
  <2>2. s[k + 1] = SimulateRow(s[k], p, file[k + 1]) /\ Importable(file[k + 1]) /\ PreviewOK(s[k])
    BY <1>2, <2>1
  <2>3. file[k + 1] \in FileRow
    BY <2>2 DEF Importable
  <2>4. PICK x, y : x = s[k] /\ y = file[k + 1]
    OBVIOUS
  <2>. QED
    BY <2>2, <2>3, <2>4, RowSimulated
<1>3. \A k \in 0 .. n : PreviewOK(s[k])
  <2>1. \A k \in Nat : k \in T
    <3>. HIDE DEF T
    <3>. QED
      BY <1>1, <1>2, NumberInduction
  <2>. QED
    BY <2>1
<1>4. ASSUME NEW k \in 1 .. n
      PROVE  Previewed(s[k - 1], s[k], p, file[k])
  <2>1. k - 1 \in 0 .. n
    OBVIOUS
  <2>2. PreviewOK(s[k - 1]) /\ Importable(file[k]) /\ s[k] = SimulateRow(s[k - 1], p, file[k])
    BY <1>3, <2>1
  <2>3. PICK x, y, z : x = s[k - 1] /\ y = file[k] /\ z = s[k]
    OBVIOUS
  <2>. QED
    BY <2>2, <2>3, PreviewOfRow
<1>5. ASSUME NEW k \in 0 .. n, NEW ccy, NEW day
      PROVE  GapSum(s[k].gaps, ccy, day) <= GapSum(s[n].gaps, ccy, day)
  <2>. DEFINE G(m) == GapSum(s[m].gaps, ccy, day)
              U == {m \in Nat : k <= m /\ m <= n => G(k) <= G(m)}
  <2>1. \A m \in 0 .. n : G(m) \in Nat
    <3>. SUFFICES ASSUME NEW m \in 0 .. n PROVE G(m) \in Nat
      OBVIOUS
    <3>1. PICK gaps : gaps = s[m].gaps
      OBVIOUS
    <3>2. gaps \in Seq(GapRow)
      BY <1>3, <3>1 DEF PreviewOK
    <3>3. IsFiniteSet(GapsUpTo(gaps, ccy, day))
          /\ \A l \in GapsUpTo(gaps, ccy, day) : Grosses(gaps)[l] \in Nat
      <4>1. GapsUpTo(gaps, ccy, day) \subseteq DOMAIN gaps
        BY DEF GapsUpTo
      <4>. QED
        BY <3>2, <4>1, GapsAre, FS_Subset
    <3>4. PICK S, f : S = GapsUpTo(gaps, ccy, day) /\ f = Grosses(gaps)
      OBVIOUS
    <3>5. SumFunctionOnSet(f, S) \in Nat
      BY <3>3, <3>4, SumNatural
    <3>. QED
      BY <3>1, <3>4, <3>5 DEF GapSum
  <2>2. \A m \in 1 .. n : G(m - 1) <= G(m)
    BY <1>4 DEF Previewed
  <2>. HIDE DEF G
  <2>3. 0 \in U
    BY <2>1
  <2>4. ASSUME NEW m \in Nat, m \in U
        PROVE  m + 1 \in U
    <3>. SUFFICES ASSUME k <= m + 1, m + 1 <= n PROVE G(k) <= G(m + 1)
      OBVIOUS
    <3>1. CASE k = m + 1
      BY <2>1, <3>1
    <3>2. CASE k # m + 1
      <4>1. k <= m /\ m <= n /\ m + 1 \in 1 .. n /\ (m + 1) - 1 = m
            /\ m \in 0 .. n /\ m + 1 \in 0 .. n
        BY <3>2
      <4>2. G(k) <= G(m)
        BY <2>4, <4>1
      <4>3. G(m) <= G(m + 1)
        BY <2>2, <4>1
      <4>. QED
        BY <2>1, <4>1, <4>2, <4>3
    <3>. QED
      BY <3>1, <3>2
  <2>5. n \in U
    <3>. HIDE DEF U
    <3>. QED
      BY <2>3, <2>4, NumberInduction
  <2>. QED
    BY <2>5 DEF G
<1>. QED
  BY <1>3, <1>4, <1>5 DEF Throughout

\* A sum of amounts of the ledger is one.
LEMMA SumOfAmounts ==
  ASSUME NEW S, IsFiniteSet(S), NEW f, \A x \in S : f[x] \in LedgerAmounts
  PROVE  SumFunctionOnSet(f, S) \in LedgerAmounts
<1>. DEFINE T == {U \in SUBSET S : SumFunctionOnSet(f, U) \in LedgerAmounts}
<1>0. \A x \in S : f[x] \in Int
  BY AmountsAreMultiples
<1>1. {} \in T
  <2>1. SumFunctionOnSet(f, {}) = 0
    BY <1>0, SumStep
  <2>2. 0 * CashQuant = 0
    BY BrokerCashAssumption
  <2>3. 0 \in LedgerAmounts
    BY <2>2, MultiplesAreAmounts
  <2>. QED
    BY <2>1, <2>3
<1>2. ASSUME NEW U \in SUBSET S, U # {}, \A V \in SUBSET U : V # U => V \in T
      PROVE  U \in T
  <2>1. PICK x \in U : TRUE
    BY <1>2
  <2>2. SumFunctionOnSet(f, U) = f[x] + SumFunctionOnSet(f, U \ {x})
    BY <1>0, <2>1, SumTakeOut
  <2>3. U \ {x} \in T
    BY <1>2, <2>1
  <2>4. f[x] \in LedgerAmounts /\ SumFunctionOnSet(f, U \ {x}) \in LedgerAmounts
    BY <2>1, <2>3
  <2>5. f[x] + SumFunctionOnSet(f, U \ {x}) \in LedgerAmounts
    BY <2>4, AmountsAddUp
  <2>. QED
    BY <2>2, <2>5
<1>3. \A U \in SUBSET S : U \in T
  <2>. HIDE DEF T
  <2>. QED
    BY <1>1, <1>2, SubsetInduction
<1>. QED
  BY <1>3

\* A book, and gaps, of amounts of the ledger.
WholeBook(book) == \A i \in DOMAIN book : book[i].amount \in LedgerAmounts
WholeGaps(gaps) == \A l \in DOMAIN gaps : gaps[l].gross \in LedgerAmounts

\* Its balances are amounts of the ledger.
LEMMA WholeBalance ==
  ASSUME NEW book, IsBook(book), WholeBook(book), NEW p, NEW ccy, NEW day
  PROVE  BalanceOn(book, p, ccy, day) \in LedgerAmounts
<1>1. PICK ids : ids = UpTo(book, p, ccy, day)
  OBVIOUS
<1>2. PICK f : f = AmountsOf(book, ids)
  OBVIOUS
<1>3. IsFiniteSet(ids) /\ BalanceOn(book, p, ccy, day) = SumFunctionOnSet(f, ids)
  BY ONLY IsBook(book), <1>1, <1>2, BalanceIsSum
<1>4. \A i \in ids : f[i] \in LedgerAmounts
  BY <1>1, <1>2 DEF UpTo, RowsFor, AmountsOf, WholeBook
<1>5. SumFunctionOnSet(f, ids) \in LedgerAmounts
  BY <1>3, <1>4, SumOfAmounts
<1>. QED
  BY <1>3, <1>5

\* What a buy of such an amount lacks is one.
LEMMA WholeGap ==
  ASSUME NEW book, IsBook(book), WholeBook(book), NEW p, NEW ccy,
         NEW required \in LedgerAmounts, NEW day
  PROVE  Shortfall(book, p, ccy, required, day) \in LedgerAmounts
<1>1. PICK had : had = BalanceOn(book, p, ccy, day)
  OBVIOUS
<1>2. had \in LedgerAmounts
  BY <1>1, WholeBalance
<1>3. PICK gap : gap = required - had
  OBVIOUS
<1>4. gap \in LedgerAmounts /\ 0 \in LedgerAmounts
  BY <1>2, <1>3, AmountsAddUp
<1>5. gap \in Int
  BY <1>4, AmountsAreMultiples
<1>6. PICK S : S = {0, gap}
  OBVIOUS
<1>7. IsFiniteSet(S)
  <2>1. S = {0} \cup {gap}
    BY <1>6
  <2>. QED
    BY <2>1, FS_Singleton, FS_Union
<1>8. S \in SUBSET Int /\ S # {}
  BY <1>5, <1>6
<1>9. Max(S) \in S
  BY <1>7, <1>8, MaxMin
<1>10. Shortfall(book, p, ccy, required, day) = IF required <= 0 THEN 0 ELSE Max(S)
  BY <1>1, <1>3, <1>6 DEF Shortfall
<1>. QED
  BY <1>4, <1>6, <1>9, <1>10

\* A row more of such an amount leaves a whole book.
LEMMA WholeInsert ==
  ASSUME NEW book, IsBook(book), WholeBook(book), NEW row, row.amount \in LedgerAmounts
  PROVE  WholeBook(InsertRow(book, row))
<1>1. Inserted(book, row, NewId(book), InsertRow(book, row))
  BY OneInserted DEF IsBook
<1>. QED
  BY <1>1 DEF Inserted, WholeBook

\* A row of an amount of the ledger keeps book and gaps of a preview whole.
LEMMA WholeSimulated ==
  ASSUME NEW state, PreviewOK(state), WholeBook(state.book), WholeGaps(state.gaps),
         NEW p, NEW row, Importable(row), NEW n, n = SimulateRow(state, p, row)
  PROVE  WholeBook(n.book) /\ WholeGaps(n.gaps)
<1>. DEFINE Point(amount) == Row(p, row.day, row.currency, "CASH_DEPOSIT", amount, NoText)
            gap == Shortfall(state.book, p, row.currency, row.gross, row.day)
            funded == IF gap = 0 THEN state.book ELSE InsertRow(state.book, Point(gap))
            bought == InsertRow(funded, Point(-row.gross))
            sold == InsertRow(state.book, Point(row.gross))
            gaps == IF gap = 0 THEN state.gaps ELSE Append(state.gaps, [row EXCEPT !.gross = gap])
<1>1. row.gross \in LedgerAmounts /\ row \in FileRow
  BY DEF Importable
<1>2. IsBook(state.book) /\ state.gaps \in Seq(GapRow)
  BY DEF PreviewOK
<1>3. \A amount : Point(amount).amount = amount
  BY DEF Row
<1>4. gap \in LedgerAmounts /\ gap \in Int
  <2>1. gap \in LedgerAmounts
    BY <1>1, <1>2, WholeGap
  <2>. QED
    BY <2>1, AmountsAreMultiples
<1>5. -row.gross \in LedgerAmounts /\ row.gross \in Int
  BY <1>1, AmountsAddUp, AmountsAreMultiples
<1>. HIDE DEF Point, gap
<1>6. IsBook(funded) /\ WholeBook(funded)
  <2>1. CASE gap = 0
    BY <1>2, <2>1
  <2>2. CASE gap # 0
    <3>1. PICK point : point = Point(gap)
      OBVIOUS
    <3>2. point.amount \in LedgerAmounts /\ point.amount \in Int
      BY <1>3, <1>4, <3>1
    <3>3. IsBook(InsertRow(state.book, point)) /\ WholeBook(InsertRow(state.book, point))
      BY <1>2, <3>2, PointInserted, WholeInsert
    <3>. QED
      BY <2>2, <3>1, <3>3
  <2>. QED
    BY <2>1, <2>2
<1>. HIDE DEF funded
<1>7. WholeBook(bought) /\ WholeBook(sold)
  <2>1. PICK out, in : out = Point(-row.gross) /\ in = Point(row.gross)
    OBVIOUS
  <2>2. out.amount \in LedgerAmounts /\ in.amount \in LedgerAmounts
    BY <1>1, <1>3, <1>5, <2>1
  <2>3. WholeBook(InsertRow(funded, out))
    BY <1>6, <2>2, WholeInsert
  <2>4. WholeBook(InsertRow(state.book, in))
    BY <1>2, <2>2, WholeInsert
  <2>. QED
    BY <2>1, <2>3, <2>4
<1>. HIDE DEF bought, sold
<1>8. WholeGaps(gaps)
  <2>1. CASE gap = 0
    BY <2>1
  <2>2. CASE gap # 0
    <3>1. PICK new, old : new = [row EXCEPT !.gross = gap] /\ old = state.gaps
      OBVIOUS
    <3>2. new.gross = gap
      BY <1>1, <3>1 DEF FileRow
    <3>3. old \in Seq(GapRow) /\ gaps = Append(old, new)
      BY <1>2, <2>2, <3>1
    <3>4. \A l \in DOMAIN gaps : gaps[l] = new \/ (l \in DOMAIN old /\ gaps[l] = old[l])
      <4>1. Len(old) \in Nat /\ DOMAIN old = 1 .. Len(old)
        BY <3>3
      <4>2. DOMAIN Append(old, new) = 1 .. Len(old) + 1
            /\ \A l \in 1 .. Len(old) + 1 :
                 Append(old, new)[l] = IF l = Len(old) + 1 THEN new ELSE old[l]
        BY <3>3
      <4>. HIDE DEF gaps
      <4>. QED
        BY <3>3, <4>1, <4>2
    <3>. HIDE DEF gaps
    <3>. QED
      BY <1>4, <3>1, <3>2, <3>4 DEF WholeGaps
  <2>. QED
    BY <2>1, <2>2
<1>. HIDE DEF gaps
<1>9. CASE row.type = "BUY"
  <2>1. SimulateRow(state, p, row) = [book |-> bought, gaps |-> gaps]
    BY <1>9 DEF SimulateRow, bought, gaps, funded, gap, Point
  <2>. QED
    BY <1>7, <1>8, <2>1
<1>10. CASE row.type # "BUY" /\ row.type = "SELL" /\ row.gross > 0
  <2>1. SimulateRow(state, p, row) = [state EXCEPT !.book = sold]
    BY <1>10 DEF SimulateRow, sold, Point
  <2>2. [state EXCEPT !.book = sold] = [book |-> sold, gaps |-> state.gaps]
    BY DEF PreviewOK
  <2>3. n.book = sold /\ n.gaps = state.gaps
    BY <2>1, <2>2
  <2>. QED
    BY <1>7, <2>3
<1>11. CASE row.type # "BUY" /\ ~(row.type = "SELL" /\ row.gross > 0)
  BY <1>11 DEF SimulateRow
<1>. QED
  BY <1>9, <1>10, <1>11

\* So does a whole preview: the gaps it reports are amounts of the ledger.
LEMMA WholePreview ==
  ASSUME IsBook(cash), WholeBook(cash), NEW p, NEW file, NEW n \in Nat, NEW s,
         PreviewSteps(s, p, file, n), Throughout(s, p, file, n)
  PROVE  WholeGaps(s[n].gaps)
<1>. DEFINE Whole(k) == WholeBook(s[k].book) /\ WholeGaps(s[k].gaps)
            T == {k \in Nat : k <= n => Whole(k)}
<1>1. 0 \in T
  <2>1. s[0].book = cash /\ s[0].gaps = <<>>
    BY DEF PreviewSteps
  <2>2. WholeGaps(<<>>)
    BY DEF WholeGaps
  <2>. QED
    BY <2>1, <2>2
<1>2. ASSUME NEW k \in Nat, k \in T
      PROVE  k + 1 \in T
  <2>. SUFFICES ASSUME k + 1 <= n PROVE Whole(k + 1)
    OBVIOUS
  <2>1. k + 1 \in 1 .. n /\ (k + 1) - 1 = k /\ k \in 0 .. n /\ k <= n
    OBVIOUS
  <2>2. PICK x, y, z : x = s[k] /\ y = file[k + 1] /\ z = s[k + 1]
    OBVIOUS
  <2>3. z = SimulateRow(x, p, y) /\ Importable(y)
    BY <2>1, <2>2 DEF PreviewSteps
  <2>4. PreviewOK(x)
    BY <2>1, <2>2 DEF Throughout
  <2>5. WholeBook(x.book) /\ WholeGaps(x.gaps)
    BY <1>2, <2>1, <2>2
  <2>6. WholeBook(z.book) /\ WholeGaps(z.gaps)
    BY ONLY <2>3, <2>4, <2>5, WholeSimulated
  <2>. QED
    BY <2>2, <2>6
<1>3. n \in T
  <2>. HIDE DEF T
  <2>. QED
    BY <1>1, <1>2, NumberInduction
<1>. QED
  BY <1>3

\* No deposit that is proposed for such gaps is refused.
LEMMA WholeDeposits ==
  ASSUME NEW gaps \in Seq(GapRow), WholeGaps(gaps), NEW book, NEW p
  PROVE  DepositAll(book, p, ProposedDeposits(gaps)).ok
<1>1. ASSUME NEW x \in ProposedDeposits(gaps)
      PROVE  x.amount \in LedgerAmounts
  <2>1. PICK k \in DOMAIN gaps :
          x = [day |-> gaps[k].day, currency |-> gaps[k].currency,
               amount |-> SumFunction([l \in {m \in DOMAIN gaps : /\ gaps[m].day = gaps[k].day
                                                                  /\ gaps[m].currency = gaps[k].currency}
                                         |-> gaps[l].gross])]
    BY <1>1 DEF ProposedDeposits
  <2>2. PICK S : S = {m \in DOMAIN gaps : /\ gaps[m].day = gaps[k].day
                                          /\ gaps[m].currency = gaps[k].currency}
    OBVIOUS
  <2>3. PICK f : f = [l \in S |-> gaps[l].gross]
    OBVIOUS
  <2>4. x.amount = SumFunction(f)
    BY <2>1, <2>2, <2>3
  <2>5. DOMAIN f = S /\ S \subseteq DOMAIN gaps /\ \A l \in S : f[l] \in LedgerAmounts
    BY <2>2, <2>3 DEF WholeGaps
  <2>6. IsFiniteSet(S)
    BY <2>5, GapsAre, FS_Subset
  <2>7. SumFunction(f) = SumFunctionOnSet(f, S)
    BY <2>5, SumOfFunction
  <2>8. SumFunctionOnSet(f, S) \in LedgerAmounts
    BY <2>5, <2>6, SumOfAmounts
  <2>. QED
    BY <2>4, <2>7, <2>8
<1>2. PICK deposits : deposits = ProposedDeposits(gaps)
  OBVIOUS
<1>3. DepositAll(book, p, deposits).ok
  BY <1>1, <1>2 DEF DepositAll
<1>. QED
  BY <1>2, <1>3

\* What an import starts with when the gaps of the preview have been filled.
StartsFunded(state, p, gaps) ==
  /\ Importing(state)
  /\ \A ccy, day : BalanceOn(state.book, p, ccy, day)
                      = BalanceOn(cash, p, ccy, day) + GapSum(gaps, ccy, day)

\* That is what the import of a file starts with, when its gaps are whole.
LEMMA FundedStart ==
  ASSUME LInv, NEW p, IsCashAware(p), NEW file, NEW gaps, gaps = Shortfalls(p, file),
         gaps \in Seq(GapRow), WholeGaps(gaps)
  PROVE  StartsFunded(Funded(p, file), p, gaps)
<1>1. PICK deposited, book : /\ deposited = DepositAll(cash, p, ProposedDeposits(gaps))
                             /\ book = deposited.book
  OBVIOUS
<1>8. PICK state : state = Funded(p, file)
  OBVIOUS
<1>9. deposited.ok
  BY <1>1, WholeDeposits
<1>2. state.trades = trades /\ state.book = book /\ state.ok
  BY <1>1, <1>8, <1>9 DEF Funded
<1>3. IsBook(cash)
  <2>1. BookOK(cash, Portfolios, DOMAIN groups)
    BY Keys
  <2>. QED
    BY <2>1, LedgerHasDays DEF DayBook
<1>4. /\ IsBook(book) /\ Grown(cash, book)
      /\ \A i \in DOMAIN book \ DOMAIN cash : book[i].txn = Null
      /\ \A ccy, day : BalanceOn(book, p, ccy, day)
                         = BalanceOn(cash, p, ccy, day) + GapSum(gaps, ccy, day)
  BY <1>1, <1>3, DepositsFund
<1>5. \A i \in DOMAIN cash : cash[i].txn # Null => cash[i].txn \in DOMAIN trades
  BY DEF LInv, LedgerOK, AllSettled
<1>6. \A i \in DOMAIN book : book[i].txn # Null => book[i].txn \in DOMAIN trades
  BY <1>4, <1>5 DEF Grown
<1>7. IsTable(trades)
  BY Keys
<1>10. StartsFunded(state, p, gaps)
  BY <1>2, <1>4, <1>6, <1>7 DEF Importing, StartsFunded
<1>. QED
  BY <1>8, <1>10

\* An import in the order of its preview goes through once the gaps are filled: its
\* balances are those of the preview, without the gaps filled so far and with all of them.
LEMMA FundedGoesThrough ==
  ASSUME LInv, NEW p \in ActivePortfolios, NEW kind \in Kinds, NEW file \in Files,
         IsCashAware(p), Chronological(file) = [i \in DOMAIN file |-> i],
         \A i \in DOMAIN file : /\ file[i].gross \in LedgerAmounts
                                /\ file[i].type # "DIVIDEND" => file[i].gross > 0
  PROVE  Imported(p, kind, file).ok
<1>1. PICK n : n = Len(file)
  OBVIOUS
<1>2. file \in Seq(FileRow)
  BY SettlementAssumption DEF FileRow
<1>3. n \in Nat /\ DOMAIN file = 1 .. n
  BY <1>1, <1>2
<1>4. \A k \in 1 .. n : Importable(file[k]) /\ Chronological(file)[k] = k
  BY <1>2, <1>3 DEF Importable
<1>5. PICK s : PreviewRun(s, p, file)
  BY <1>1, <1>3, PreviewIs
<1>6. /\ s[0] = [book |-> cash, gaps |-> <<>>]
      /\ \A k \in 1 .. n : s[k] = SimulateRow(s[k - 1], p, file[k])
      /\ Shortfalls(p, file) = s[n].gaps
  BY <1>1, <1>4, <1>5 DEF PreviewRun
<1>7. PICK b : ImportRun(b, p, kind, file)
  BY <1>1, <1>3, ImportIs
<1>8. /\ b[0] = Funded(p, file)
      /\ \A k \in 1 .. n : b[k] = Created(b[k - 1], TradeOf(p, kind, file[k]))
      /\ Imported(p, kind, file) = b[n]
  BY <1>1, <1>7 DEF ImportRun
<1>9. IsBook(cash)
  <2>1. BookOK(cash, Portfolios, DOMAIN groups)
    BY Keys
  <2>. QED
    BY <2>1, LedgerHasDays DEF DayBook
<1>17. PreviewSteps(s, p, file, n)
  BY <1>3, <1>4, <1>6, <1>9 DEF PreviewSteps
<1>10. Throughout(s, p, file, n)
  BY ONLY <1>3, <1>9, <1>17, PreviewThroughout
<1>11. PICK gaps : gaps = s[n].gaps
  OBVIOUS
<1>12. gaps \in Seq(GapRow)
  <2>1. n \in 0 .. n
    BY <1>3
  <2>2. PreviewOK(s[n])
    BY <1>10, <2>1 DEF Throughout
  <2>. QED
    BY <1>11, <2>2 DEF PreviewOK
<1>13. \A k \in 0 .. n : \A ccy, day : /\ BalanceOn(s[k].book, p, ccy, day) \in Int
                                       /\ GapSum(s[k].gaps, ccy, day) \in Nat
  <2>. SUFFICES ASSUME NEW k \in 0 .. n, NEW ccy, NEW day
                PROVE  /\ BalanceOn(s[k].book, p, ccy, day) \in Int
                       /\ GapSum(s[k].gaps, ccy, day) \in Nat
    OBVIOUS
  <2>1. PICK book, found : book = s[k].book /\ found = s[k].gaps
    OBVIOUS
  <2>2. IsBook(book) /\ found \in Seq(GapRow)
    BY <1>10, <2>1 DEF Throughout, PreviewOK
  <2>3. BalanceOn(book, p, ccy, day) \in Int
    BY <2>2, BalanceIsInt
  <2>4. PICK S, f : S = GapsUpTo(found, ccy, day) /\ f = Grosses(found)
    OBVIOUS
  <2>5. IsFiniteSet(S) /\ \A l \in S : f[l] \in Nat
    <3>1. S \subseteq DOMAIN found
      BY <2>4 DEF GapsUpTo
    <3>. QED
      BY <2>2, <2>4, <3>1, GapsAre, FS_Subset
  <2>6. SumFunctionOnSet(f, S) \in Nat
    BY <2>5, SumNatural
  <2>. QED
    BY <2>1, <2>3, <2>4, <2>6 DEF GapSum
<1>. DEFINE Ahead(k) ==
              /\ Importing(b[k])
              /\ \A ccy, day : BalanceOn(b[k].book, p, ccy, day)
                   = BalanceOn(s[k].book, p, ccy, day) - GapSum(s[k].gaps, ccy, day)
                       + GapSum(gaps, ccy, day)
            T == {k \in Nat : k <= n => Ahead(k)}
<1>14. 0 \in T
  <2>1. PICK state : state = b[0]
    OBVIOUS
  <2>2. state = Funded(p, file) /\ gaps = Shortfalls(p, file)
    BY <1>6, <1>8, <1>11, <2>1
  <2>8. WholeGaps(gaps)
    <3>1. WholeBook(cash)
      BY DEF LInv, LedgerOK, BookOK, RowOK, WholeBook
    <3>2. WholeGaps(s[n].gaps)
      BY ONLY <1>3, <1>9, <1>10, <1>17, <3>1, WholePreview
    <3>. QED
      BY <1>11, <3>2
  <2>3. /\ Importing(state)
        /\ \A ccy, day : BalanceOn(state.book, p, ccy, day)
                           = BalanceOn(cash, p, ccy, day) + GapSum(gaps, ccy, day)
    <3>1. StartsFunded(Funded(p, file), p, gaps)
      BY <1>12, <2>2, <2>8, FundedStart
    <3>2. StartsFunded(state, p, gaps)
      BY <2>2, <3>1
    <3>. QED
      BY <3>2 DEF StartsFunded
  <2>4. \A ccy, day : GapSum(s[0].gaps, ccy, day) = 0
    <3>. SUFFICES ASSUME NEW ccy, NEW day PROVE GapSum(s[0].gaps, ccy, day) = 0
      OBVIOUS
    <3>1. PICK f : f = Grosses(<<>>)
      OBVIOUS
    <3>2. GapsUpTo(<<>>, ccy, day) = {}
      BY DEF GapsUpTo
    <3>3. SumFunctionOnSet(f, {}) = 0
      <4>1. IsFiniteSet({})
        BY FS_EmptySet
      <4>. QED
        BY <4>1, SumStep
    <3>4. GapSum(<<>>, ccy, day) = 0
      BY <3>1, <3>2, <3>3 DEF GapSum
    <3>5. s[0].gaps = <<>>
      BY <1>6
    <3>. QED
      BY ONLY <3>4, <3>5
  <2>5. 0 \in 0 .. n /\ s[0].book = cash
    BY <1>3, <1>6
  <2>6. ASSUME NEW ccy, NEW day
        PROVE  BalanceOn(b[0].book, p, ccy, day)
                 = BalanceOn(s[0].book, p, ccy, day) - GapSum(s[0].gaps, ccy, day)
                     + GapSum(gaps, ccy, day)
    <3>1. BalanceOn(s[0].book, p, ccy, day) \in Int
      BY <1>13, <2>5
    <3>. QED
      BY <2>1, <2>3, <2>4, <2>5, <3>1
  <2>7. Ahead(0)
    BY <2>1, <2>3, <2>6
  <2>. QED
    BY <2>7
<1>15. ASSUME NEW k \in Nat, k \in T
       PROVE  k + 1 \in T
  <2>. SUFFICES ASSUME k + 1 <= n PROVE Ahead(k + 1)
    OBVIOUS
  <2>1. k + 1 \in 1 .. n /\ (k + 1) - 1 = k /\ k \in 0 .. n /\ k + 1 \in 0 .. n /\ n \in 0 .. n
    BY <1>3
  <2>2. PICK state, old, new, row : /\ state = b[k] /\ old = s[k] /\ new = s[k + 1]
                                    /\ row = file[k + 1]
    OBVIOUS
  <2>3. Importable(row) /\ b[k + 1] = Created(state, TradeOf(p, kind, row))
    BY <1>4, <1>8, <2>1, <2>2
  <2>4. /\ Importing(state)
        /\ \A ccy, day : BalanceOn(state.book, p, ccy, day)
             = BalanceOn(old.book, p, ccy, day) - GapSum(old.gaps, ccy, day)
                 + GapSum(gaps, ccy, day)
    BY <1>15, <2>1, <2>2
  <2>5. Previewed(old, new, p, row)
    BY <1>10, <2>1, <2>2 DEF Throughout
  <2>6. \A ccy, day : GapSum(new.gaps, ccy, day) <= GapSum(gaps, ccy, day)
    BY <1>10, <1>11, <2>1, <2>2 DEF Throughout
  <2>7. \A ccy, day : /\ BalanceOn(old.book, p, ccy, day) \in Int /\ GapSum(old.gaps, ccy, day) \in Int
                      /\ BalanceOn(new.book, p, ccy, day) \in Int /\ GapSum(new.gaps, ccy, day) \in Int
                      /\ GapSum(gaps, ccy, day) \in Int
    BY <1>11, <1>13, <2>1, <2>2
  <2>8. row.gross \in Int
    BY <2>3, SettlementAssumption DEF Importable, FileRow
  <2>9. row.type = "BUY" => BalanceOn(state.book, p, row.currency, row.day) >= row.gross
    <3>. SUFFICES ASSUME row.type = "BUY"
                  PROVE  BalanceOn(state.book, p, row.currency, row.day) >= row.gross
      OBVIOUS
    <3>1. PICK had, filled, found, all :
            /\ had = BalanceOn(old.book, p, row.currency, row.day)
            /\ filled = GapSum(old.gaps, row.currency, row.day)
            /\ found = GapSum(new.gaps, row.currency, row.day)
            /\ all = GapSum(gaps, row.currency, row.day)
      OBVIOUS
    <3>2. had - filled + found >= row.gross
      BY <2>5, <3>1 DEF Previewed
    <3>3. found <= all /\ had \in Int /\ filled \in Int /\ found \in Int /\ all \in Int
      BY <2>6, <2>7, <3>1
    <3>4. BalanceOn(state.book, p, row.currency, row.day) = had - filled + all
      BY <2>4, <3>1
    <3>. QED
      BY <2>8, <3>2, <3>3, <3>4
  <2>10. PICK next : next = b[k + 1]
    OBVIOUS
  <2>11. /\ Importing(next)
         /\ \A ccy, day : BalanceOn(next.book, p, ccy, day)
                            = BalanceOn(state.book, p, ccy, day) + Effect(row, ccy, day)
    BY <2>3, <2>4, <2>9, <2>10, ImportOfRow
  <2>12. ASSUME NEW ccy, NEW day
         PROVE  BalanceOn(next.book, p, ccy, day)
                  = BalanceOn(new.book, p, ccy, day) - GapSum(new.gaps, ccy, day)
                      + GapSum(gaps, ccy, day)
    <3>1. Effect(row, ccy, day) \in Int
      BY <2>8 DEF Effect, CashOf
    <3>2. BalanceOn(new.book, p, ccy, day) - GapSum(new.gaps, ccy, day)
            = BalanceOn(old.book, p, ccy, day) - GapSum(old.gaps, ccy, day) + Effect(row, ccy, day)
      BY <2>5 DEF Previewed
    <3>. QED
      BY <2>4, <2>7, <2>11, <3>1, <3>2
  <2>. QED
    BY <2>2, <2>10, <2>11, <2>12
<1>16. n \in T
  <2>. HIDE DEF T
  <2>. QED
    BY <1>3, <1>14, <1>15, NumberInduction
<1>. QED
  BY <1>3, <1>8, <1>16 DEF Importing

\* When the preview of a file in date order, of amounts with four decimals, has been
\* funded, none of its deposits is refused and the import goes through, for any file and
\* book: csv_cash_preview.py simulates what csv_import.py does.
THEOREM FundedImportsSucceed == Spec => []FundedImportSucceeds
<1>1. LInv => FundedImportSucceeds
  BY FundedGoesThrough DEF FundedImportSucceeds
<1>. QED
  BY <1>1, LedgerInvariant, PTL
=============================================================================
