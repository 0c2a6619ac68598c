----------------------------- MODULE Settlement -----------------------------
(***************************************************************************)
(* Buys and sells, and the cash rows that settle them in a cash-aware      *)
(* portfolio (transactions/services.py, mutual_fund_services.py,           *)
(* cash_settlement.py, cash_settlement_sync.py, csv_cash_preview.py).      *)
(*                                                                         *)
(* A trade keeps what its settlement depends on: `day` is the settlement   *)
(* day (the date of a stock trade, the investment date of a fund trade),   *)
(* `gross` the cash a buy requires or a sale brings after fees, `actual`   *)
(* the cash a sale really brought (0 when not given).  `gross` is computed *)
(* from a quantity and a price and may have more decimals than a row of    *)
(* the ledger, so that the settlement rounds it (Quantized); the preview   *)
(* of a CSV file does not.  Symbols, quantities and prices belong to the   *)
(* modules on holdings.                                                    *)
(***************************************************************************)
EXTENDS BrokerCash, SequencesExt

CONSTANTS
  Kinds,       \* subset of {"STOCK", "FUND"}
  Gross,       \* what a buy may require, or a sale bring
  Entered,     \* bound: the part of Gross that single requests carry
  Files,       \* CSV files: sequences of rows [type, day, currency, gross]
  Shapes       \* bounds: how large the tables may be at the same time

ASSUME SettlementAssumption ==
  /\ Kinds \subseteq {"STOCK", "FUND"} /\ Gross \subseteq Int /\ Entered \subseteq Gross
  /\ \A file \in Files :
       /\ file \in Seq([type : {"BUY", "SELL", "DIVIDEND"}, day : Days, currency : Currencies,
                         gross : Gross])
       /\ \A k \in DOMAIN file : /\ file[k].type = "BUY" => file[k].gross >= 0
                                 /\ file[k].type = "DIVIDEND" => file[k].gross = 0
  /\ Shapes \subseteq [portfolios : Nat, trades : Nat, rows : Nat]

VARIABLE trades    \* transactions, with mutual_fund_transaction_details

settlementVars == <<portfolios, cash, groups, trades>>

TradeTypes(kind) ==
  IF kind = "STOCK" THEN {"BUY", "SELL", "DIVIDEND"} ELSE {"BUY", "SELL"}

\* _quantize_cash_amount, of an amount that is not negative: half a quantum goes up.
Quantized(amount) ==
  LET rest == amount % CashQuant
  IN  amount - rest + (IF 2 * rest >= CashQuant THEN CashQuant ELSE 0)

\* _validate_sell_cash_fields: cash received is for sales, and at most the proceeds.
ValidActual(type, gross, actual) ==
  actual # 0 => /\ type = "SELL"
                /\ gross > 0 /\ 0 < actual /\ actual <= gross

\* validate_transaction_payload, validate_mutual_fund_transaction_payload.  What is paid
\* for a fund is entered, with four decimals, and not computed.
TradeInputs(kind) ==
  {trade \in [kind : {kind}, type : TradeTypes(kind), day : Days, currency : Currencies,
              gross : Gross, actual : Amounts \cup {0}] :
     /\ ValidActual(trade.type, trade.gross, trade.actual)
     /\ trade.type = "BUY" => trade.gross >= 0
     /\ trade.type = "BUY" /\ kind = "FUND" => trade.gross \in LedgerAmounts
     /\ trade.type = "DIVIDEND" => trade.gross = 0}

InPortfolio(input, p) ==
  [portfolio |-> p, kind |-> input.kind, type |-> input.type, day |-> input.day,
   currency |-> input.currency, gross |-> input.gross, actual |-> input.actual]

SettlementTypeOK ==
  /\ RegistryTypeOK /\ CashTypeOK
  /\ DOMAIN trades \subseteq Nat \ {0}
  /\ \A t \in DOMAIN trades : \E p \in Portfolios, kind \in Kinds :
       \E input \in TradeInputs(kind) : trades[t] = InPortfolio(input, p)

-----------------------------------------------------------------------------
(* What a trade asks of the ledger *)

SpecRow(trade, type, amount) ==
  [portfolio |-> trade.portfolio, day |-> trade.day, currency |-> trade.currency,
   type |-> type, amount |-> amount]

\* sell_tax_withheld_amount, of the proceeds as they are booked.
Withheld(trade) == IF trade.actual = 0 THEN 0 ELSE Quantized(trade.gross) - trade.actual

\* Mutant: the tax withheld is not booked.
GrossOfSale(trade) == <<SpecRow(trade, "SELL_SETTLEMENT", Quantized(trade.gross))>>

\* _sell_settlement_specs
SaleSpecs(trade) ==
  <<SpecRow(trade, "SELL_SETTLEMENT", Quantized(trade.gross))>>
    \o IF Withheld(trade) > 0 THEN <<SpecRow(trade, "TAX_WITHHELD", -Withheld(trade))>>
                              ELSE <<>>

\* _stock_settlement_specs, _mf_settlement_specs: dividends and splits settle nothing.
SettlementSpecs(trade) ==
  CASE trade.type = "BUY"  -> <<SpecRow(trade, "BUY_SETTLEMENT", -Quantized(trade.gross))>>
    [] trade.type = "SELL" -> SaleSpecs(trade)
    [] OTHER               -> <<>>

\* "SELL proceeds must be greater than zero" is raised before any row is touched; proceeds
\* that round to zero are refused with the row (ValidAmountSign).
SpecsExist(trade) == trade.type = "SELL" => trade.gross > 0

-----------------------------------------------------------------------------
(* Bringing the linked rows in line: a book and whether every test passed *)

\* assert_delete_entries_would_not_make_cash_negative: portfolio and currency of the
\* first row, from the earliest day of the rows.
MayDelete(book, ids) ==
  ids # {} => LET first == book[Min(ids)]
              IN  ~GoesNegative(RemoveRows(book, ids), first.portfolio, first.currency,
                                Min(DaysOf(book, ids)))

\* _delete_surplus_linked_entries: only the sales among the rows are tested.
DeleteSurplus(state, ids) ==
  [state EXCEPT
     !.ok = @ /\ MayDelete(state.book,
                           {i \in ids : state.book[i].type = "SELL_SETTLEMENT"}),
     !.book = RemoveRows(state.book, ids)]

\* _apply_settlement_spec.  `at` is the row to write over, or Null.
ApplySpec(state, t, spec, at) ==
  LET row == [Row(spec.portfolio, spec.day, spec.currency, spec.type, spec.amount, NoText)
                EXCEPT !.txn = t]
      others == RemoveRows(state.book, {at})
  IN  [state EXCEPT
         !.ok = /\ @
                /\ spec.type = "BUY_SETTLEMENT" =>
                     HasCash(others, spec.portfolio, spec.currency, -spec.amount, spec.day)
                /\ at # Null =>
                     \/ state.book[at].type # "SELL_SETTLEMENT"
                     \/ spec.type = "SELL_SETTLEMENT"
                     \/ MayDelete(state.book, {at})
                /\ ValidAmountSign(spec.type, spec.amount),
         !.book = IF at = Null THEN InsertRow(state.book, row)
                  ELSE [state.book EXCEPT ![at] = row]]

\* Mutant: rows of a type the trade does not ask for any more are left behind.
SyncKeepingSurplus(book, t, specs) ==
  LET OfType(type) == {i \in LinkedRows(book, t) : book[i].type = type}
  IN  FoldLeft(LAMBDA state, spec :
                 ApplySpec(state, t, spec,
                           IF OfType(spec.type) = {} THEN Null ELSE Max(OfType(spec.type))),
               [book |-> book, ok |-> TRUE], specs)

RowsOfType(book, t, type) == {i \in LinkedRows(book, t) : book[i].type = type}
Surplus(book, t, specs) ==
  {i \in LinkedRows(book, t) : book[i].type \notin {specs[k].type : k \in DOMAIN specs}}

\* Rows of a type not asked for any more are surplus: the first of them is kept to be
\* written over, the rest are deleted.
BeginSync(book, t, specs) ==
  LET surplus == Surplus(book, t, specs)
      spare == IF specs = <<>> \/ surplus = {} THEN Null ELSE Min(surplus)
  IN  DeleteSurplus([book |-> book, ok |-> TRUE, spare |-> spare], surplus \ {spare})

\* A row of its type is written over, else the spare one, else a row is inserted.
SyncSpec(book, t, state, spec) ==
  LET at == IF RowsOfType(book, t, spec.type) = {} THEN state.spare
            ELSE Max(RowsOfType(book, t, spec.type))
  IN  [ApplySpec(state, t, spec, at) EXCEPT !.spare = IF at = @ THEN Null ELSE @]

\* _sync_settlement_specs.  A spare row that nothing was written over is deleted at the
\* end.
Sync(book, t, specs) ==
  LET after[k \in 0 .. Len(specs)] ==
        IF k = 0 THEN BeginSync(book, t, specs) ELSE SyncSpec(book, t, after[k - 1], specs[k])
      done == after[Len(specs)]
      end == DeleteSurplus(done, {done.spare} \ {Null})
  IN  [book |-> end.book, ok |-> end.ok]

\* sync_stock_settlement, sync_mutual_fund_settlement: nothing happens unless the
\* portfolio the trade is now in is cash aware.
SyncTrade(book, t, trade) ==
  IF ~IsCashAware(trade.portfolio) THEN [book |-> book, ok |-> TRUE]
  ELSE IF ~SpecsExist(trade) THEN [book |-> book, ok |-> FALSE]
  ELSE Sync(book, t, SettlementSpecs(trade))

-----------------------------------------------------------------------------
(* Trades *)

\* The tables after a trade was inserted, and whether its settlement passed.
Created(state, trade) ==
  LET t == NewId(state.trades)
      synced == SyncTrade(state.book, t, trade)
  IN  [trades |-> InsertRow(state.trades, trade), book |-> synced.book,
       ok |-> state.ok /\ synced.ok]

Tables == [trades |-> trades, book |-> cash, ok |-> TRUE]

\* create_transaction, create_mutual_fund_transaction
CreateTrade(trade) ==
  LET created == Created(Tables, trade)
  IN  /\ IsActive(trade.portfolio)
      /\ created.ok
      /\ trades' = created.trades
      /\ cash' = created.book
      /\ UNCHANGED <<portfolios, groups>>

\* update_transaction: the portfolio stays unless the request names an active one.
MayMove(t, p) == p = trades[t].portfolio \/ IsActive(p)

\* update_mutual_fund_transaction and its stock twin; a fund trade stays one.
UpdateTrade(t, input, p) ==
  LET trade == InPortfolio(input, p)
      synced == SyncTrade(cash, t, trade)
  IN  /\ MayMove(t, p)
      /\ input.kind = trades[t].kind
      /\ synced.ok
      /\ trades' = [trades EXCEPT ![t] = trade]
      /\ cash' = synced.book
      /\ UNCHANGED <<portfolios, groups>>

\* delete_transaction: without cash awareness the rows stay and protect the trade.
DeleteTrade(t) ==
  LET linked == LinkedRows(cash, t)
      removed == IF IsCashAware(trades[t].portfolio) THEN linked ELSE {}
  IN  /\ MayDelete(cash, removed)
      /\ linked = removed
      /\ trades' = RemoveRows(trades, {t})
      /\ cash' = RemoveRows(cash, removed)
      /\ UNCHANGED <<portfolios, groups>>

-----------------------------------------------------------------------------
(* Backfill of a portfolio that became cash aware *)

\* _get_linked_settlement
PrimaryRows(book, t) == {i \in LinkedRows(book, t) : book[i].type \in SettlementTypes}

TradesOf(p) == {t \in DOMAIN trades : trades[t].portfolio = p}

\* plan_cash_settlement_sync: only the first spec of a trade is planned.
PlannedTrades(p) ==
  {t \in TradesOf(p) : SettlementSpecs(trades[t]) # <<>> /\ PrimaryRows(cash, t) = {}}

\* _compare_settlement: the portfolio of the row is not compared.
Mismatched(p) ==
  {t \in TradesOf(p) :
     /\ SettlementSpecs(trades[t]) # <<>> /\ PrimaryRows(cash, t) # {}
     /\ LET row == cash[Min(PrimaryRows(cash, t))]
            spec == Head(SettlementSpecs(trades[t]))
        IN  \/ row.type # spec.type \/ row.amount # spec.amount
            \/ row.day # spec.day \/ row.currency # spec.currency}

InOrderOfDay(ts) ==
  InOrder(ts, {d \in ts \X ts : \/ trades[d[1]].day < trades[d[2]].day
                                \/ (trades[d[1]].day = trades[d[2]].day /\ d[1] < d[2])})

PlannedRow(p, t) ==
  LET spec == Head(SettlementSpecs(trades[t]))
  IN  [Row(p, spec.day, spec.currency, spec.type, spec.amount, NoText) EXCEPT !.txn = t]

\* Mutant: the rows are not linked to their trades.
InsertUnlinked(p, planned) ==
  LET listed == InOrderOfDay(planned)
  IN  InsertRows(cash, [k \in DOMAIN listed |-> [PlannedRow(p, listed[k]) EXCEPT !.txn = Null]])

InsertPlanned(p, planned) ==
  LET listed == InOrderOfDay(planned)
  IN  InsertRows(cash, [k \in DOMAIN listed |-> PlannedRow(p, listed[k])])

\* Mutant: the plan is not tested against the balances.
BackfillUntested(p, allow_legacy) ==
  /\ IsCashAware(p) \/ allow_legacy
  /\ PlannedTrades(p) # {}
  /\ \A t \in TradesOf(p) : SpecsExist(trades[t])
  /\ Mismatched(p) = {}
  /\ cash' = InsertPlanned(p, PlannedTrades(p))
  /\ UNCHANGED <<portfolios, groups, trades>>

\* sync_cash_settlements --apply; a portfolio without cash awareness needs --allow-legacy.
Backfill(p, allow_legacy) ==
  /\ IsCashAware(p) \/ allow_legacy
  /\ PlannedTrades(p) # {}
  /\ \A t \in TradesOf(p) : SpecsExist(trades[t])
  /\ Mismatched(p) = {}
  /\ \A t \in PlannedTrades(p) : LET spec == Head(SettlementSpecs(trades[t]))
                                 IN  ValidAmountSign(spec.type, spec.amount)
  /\ \A ccy \in Currencies : ~GoesNegativeEver(InsertPlanned(p, PlannedTrades(p)), p, ccy)
  /\ cash' = InsertPlanned(p, PlannedTrades(p))
  /\ UNCHANGED <<portfolios, groups, trades>>

-----------------------------------------------------------------------------
(* CSV files: the cash preview and the import *)

\* _build_sim_rows: by day, then in file order.
Chronological(file) ==
  InOrder(DOMAIN file, {d \in (DOMAIN file) \X (DOMAIN file) :
                          \/ file[d[1]].day < file[d[2]].day
                          \/ (file[d[1]].day = file[d[2]].day /\ d[1] < d[2])})

\* One row of simulate_csv_cash_preview, which rounds nothing: a buy that is not covered
\* gets a deposit of the gap first; a sale that brings nothing is passed over.
SimulateRow(state, p, row) ==
  LET Point(amount) == Row(p, row.day, row.currency, "CASH_DEPOSIT", amount, NoText)
      gap == Shortfall(state.book, p, row.currency, row.gross, row.day)
      funded == IF gap = 0 THEN state.book ELSE InsertRow(state.book, Point(gap))
  IN  CASE row.type = "BUY" ->
             [book |-> InsertRow(funded, Point(-row.gross)),
              gaps |-> IF gap = 0 THEN state.gaps
                       ELSE Append(state.gaps, [row EXCEPT !.gross = gap])]
        [] row.type = "SELL" /\ row.gross > 0 ->
             [state EXCEPT !.book = InsertRow(@, Point(row.gross))]
        [] OTHER -> state

\* The shortfalls the preview reports, in the order of the simulation.
Shortfalls(p, file) ==
  LET after[k \in 0 .. Len(file)] ==
        IF k = 0 THEN [book |-> cash, gaps |-> <<>>]
        ELSE SimulateRow(after[k - 1], p, file[Chronological(file)[k]])
  IN  after[Len(file)].gaps

\* Mutant: one deposit per day is proposed, for the largest gap of the day.
LargestGapOfDay(gaps) ==
  {[day |-> gaps[k].day, currency |-> gaps[k].currency,
    amount |-> Max({gaps[l].gross : l \in {m \in DOMAIN gaps : gaps[m].day = gaps[k].day}})] :
     k \in DOMAIN gaps}

\* _merge_proposed_deposits: one deposit per day and currency.
ProposedDeposits(gaps) ==
  {[day |-> gaps[k].day, currency |-> gaps[k].currency,
    amount |-> SumFunction([l \in {m \in DOMAIN gaps : /\ gaps[m].day = gaps[k].day
                                                       /\ gaps[m].currency = gaps[k].currency}
                              |-> gaps[l].gross])] : k \in DOMAIN gaps}

\* Mutant: the deposits are made as proposed, with any number of decimals.
DepositUnchecked(book, p, deposits) ==
  LET listed == InOrder(deposits, {d \in deposits \X deposits : d[1].day < d[2].day})
  IN  [book |-> InsertRows(book, [k \in DOMAIN listed |->
                                    Row(p, listed[k].day, listed[k].currency, "CASH_DEPOSIT",
                                        listed[k].amount, NoText)]),
       ok |-> TRUE]

\* create_cash_deposit for each proposal: full_clean refuses more than four decimals, and
\* one refusal fails the import.
DepositAll(book, p, deposits) ==
  LET listed == InOrder(deposits, {d \in deposits \X deposits : d[1].day < d[2].day})
  IN  [book |-> InsertRows(book, [k \in DOMAIN listed |->
                                    Row(p, listed[k].day, listed[k].currency, "CASH_DEPOSIT",
                                        listed[k].amount, NoText)]),
       ok |-> \A d \in deposits : d.amount \in LedgerAmounts]

InputOf(kind, row) ==
  [kind |-> kind, type |-> row.type, day |-> row.day, currency |-> row.currency,
   gross |-> row.gross, actual |-> 0]
TradeOf(p, kind, row) == InPortfolio(InputOf(kind, row), p)

\* The tables after the deposits the preview proposes, before the first trade.
Funded(p, file) ==
  LET gaps == IF IsCashAware(p) THEN Shortfalls(p, file) ELSE <<>>
      deposited == DepositAll(cash, p, ProposedDeposits(gaps))
  IN  [trades |-> trades, book |-> deposited.book, ok |-> deposited.ok]

\* import_transactions_from_csv: the trades are made in the order of the file.
Imported(p, kind, file) ==
  LET after[k \in 0 .. Len(file)] ==
        IF k = 0 THEN Funded(p, file)
        ELSE Created(after[k - 1], TradeOf(p, kind, file[k]))
  IN  after[Len(file)]

ImportFile(p, kind, file, confirmed) ==
  LET imported == Imported(p, kind, file)
  IN  /\ IsActive(p)
      /\ \A k \in DOMAIN file : InputOf(kind, file[k]) \in TradeInputs(kind)
      /\ IsCashAware(p) => confirmed \/ Shortfalls(p, file) = <<>>
      /\ imported.ok
      /\ trades' = imported.trades
      /\ cash' = imported.book
      /\ UNCHANGED <<portfolios, groups>>

-----------------------------------------------------------------------------
Init == RegistryInit /\ CashInit /\ trades = <<>>

\* Bounds of the state space, not of the program: the rows and the primary keys used.
Fits(registered, traded, booked) ==
  \E shape \in Shapes : /\ registered <= shape.portfolios
                        /\ traded <= shape.trades /\ booked <= shape.rows
WithinBounds == Fits(Len(portfolios'), NewId(trades') - 1, NewId(cash') - 1)
RoomForTrades(n) == Fits(Len(portfolios), NewId(trades) - 1 + n, NewId(cash) - 1)

Requests(kind) == {input \in TradeInputs(kind) : input.gross \in Entered}

CreateRequest ==
  /\ RoomForTrades(1)
  /\ \E p \in ActivePortfolios, kind \in Kinds : \E input \in Requests(kind) :
       CreateTrade(InPortfolio(input, p))
UpdateTradeRequest ==
  \E t \in DOMAIN trades, p \in Portfolios : \E input \in Requests(trades[t].kind) :
    UpdateTrade(t, input, p)
DeleteTradeRequest == \E t \in DOMAIN trades : DeleteTrade(t)
BackfillCommand == \E p \in Portfolios, allow_legacy \in BOOLEAN : Backfill(p, allow_legacy)
ImportRequest ==
  \E p \in ActivePortfolios, kind \in Kinds, file \in Files, confirmed \in BOOLEAN :
    RoomForTrades(Len(file)) /\ ImportFile(p, kind, file, confirmed)

Next ==
  /\ \/ CashNext /\ UNCHANGED trades
     \/ CreateRequest \/ UpdateTradeRequest \/ DeleteTradeRequest
     \/ BackfillCommand \/ ImportRequest
  /\ WithinBounds

Spec == Init /\ [][Next]_settlementVars

-----------------------------------------------------------------------------
(* Properties *)

\* The rows linked to a trade never outlive it and always agree: at most one buy or
\* sale row, tax only beside a sale, all in one portfolio, on one day, in one
\* currency, through every change of type, day, portfolio and cash awareness.
LinkedRowsAgree ==
  \A i \in DOMAIN cash : cash[i].txn # Null =>
    /\ cash[i].txn \in DOMAIN trades
    /\ \E k \in LinkedRows(cash, cash[i].txn) :
         /\ PrimaryRows(cash, cash[i].txn) = {k}
         /\ cash[i].type = "TAX_WITHHELD" => cash[k].type = "SELL_SETTLEMENT"
         /\ cash[i].portfolio = cash[k].portfolio /\ cash[i].day = cash[k].day
         /\ cash[i].currency = cash[k].currency
    /\ Cardinality(LinkedRows(cash, cash[i].txn)) <= 2

\* No request that is tested against the future balance makes an overdraft, on any
\* day of any portfolio, although each looks only at the days from its own date to the
\* last remaining row and at the rows it changes.  Deleting a trade and backfilling a
\* portfolio are tested like the edits of manual rows; plain withdrawals and the other
\* writes of trades are not, so an overdraft there can be, and may deepen.
TestedRequestsNeverOverdraw ==
  [][NeverOverdraws
       \/ ~(TestedManualRequest \/ DeleteTradeRequest \/ BackfillCommand)]_cash

\* When the preview of a file in date order has been funded, the import goes through:
\* the preview simulates what the import will do, and is not only a forecast.  That is
\* for amounts with four decimals: of a finer one the deposit may be refused, and the row
\* that settles it may be rounded up to more than what the preview reckoned with.
FundedImportSucceeds ==
  \A p \in ActivePortfolios, kind \in Kinds, file \in Files :
    (/\ IsCashAware(p)
     /\ Chronological(file) = [i \in DOMAIN file |-> i]
     /\ \A i \in DOMAIN file : /\ file[i].gross \in LedgerAmounts
                               /\ file[i].type # "DIVIDEND" => file[i].gross > 0)
    => Imported(p, kind, file).ok

\* A second backfill of a portfolio finds nothing left to do.
BackfillLeavesNothing ==
  [][\A p \in Portfolios :
       trades' # trades \/ PlannedTrades(p)' = {} \/ ~Backfill(p, TRUE)]_cash

\* What the linked rows of a trade amount to.
Booked(t) ==
  IF LinkedRows(cash, t) = {} THEN [net |-> 0]
  ELSE LET row == cash[Min(LinkedRows(cash, t))]
       IN  [portfolio |-> row.portfolio, day |-> row.day, currency |-> row.currency,
            net |-> Total(cash, LinkedRows(cash, t))]

Contract == INSTANCE SettlementContract
  WITH Rounded <- Quantized, booked <- [t \in DOMAIN trades |-> Booked(t)],
       aware <- [p \in Portfolios |-> IsCashAware(p)]

\* However the rows are inserted, written over and deleted, each trade has the cash
\* booked that SettlementContract says.
BooksTradesOnce == Contract!Spec
=============================================================================
