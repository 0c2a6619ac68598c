# KPulla6: specifications of the books

KPulla6 is a Django and React application that keeps a private investor's books: portfolios of
stocks, mutual funds and fixed deposits, the cash held at brokers and banks, and the reports over
them. These modules specify the part of it where a mistake loses or invents money silently:

* **fixed deposits and the bank cash ledger**: the services that post to the ledger and what they do
  to the rows they share, alone and concurrently; model-checked and proved about;
* **broker cash and the settlement of trades**: portfolios that are cash aware or not, manual
  entries, transfers and schedules, trades with the rows that settle them, backfills and CSV imports;
  model-checked and proved about;
* **market data and what is computed from it**: the cache of prices and exchange rates with the syncs
  that fill it, and the value, the holdings and the returns of a portfolio, of which the code keeps
  several versions that ought to agree; model-checked, and proved about except for the comparisons
  that need exact arithmetic.

Paths below are relative to the root of the repository (`backend/...`, `docs/...`).

## 1. Inventory

### 1.1 Components, state and operations

| Component | State | Operations | Here |
|---|---|---|---|
| Bank cash ledger (`debt/bank_ledger_services.py`, `finance/bank_cash.py`) | `cash_movements`, one row per credit or debit; `BankAccount.current_balance`, a cache of their sum | create manual, opening-balance, deposit, interest, settlement and reversal movements; overdraft check; funding balance; refresh of the cache | `BankLedger`, `AuditLedger`, `FixedDeposits`, `FixedDepositsConcurrent` |
| Bank accounts (`debt/services.py`) | name, currency, `is_active`, `current_balance` | create, update, deactivate, type in a balance while there is no ledger | activity and balance in `FixedDeposits`; the save race in `FixedDepositsConcurrent` |
| Fixed deposits (`debt/services.py`, `settlement_services.py`, `renewal_services.py`, `cancellation_services.py`, `repair_services.py`) | `fixed_deposits`, `fixed_deposit_settlements`, renewal groups | create, update, deactivate, mark matured, settle, renew, cancel, repair | `FixedDeposits` |
| Interest payments (`debt/interest_payment_services.py`, `reversal_services.py`) | `fixed_deposit_interest_payments` | record, edit in place, reverse | `FixedDeposits` |
| Portfolio registry (`portfolios/services.py`) | portfolios, `is_active`, cash awareness, one default, an upper limit | create, rename, switch cash awareness, archive, restore | `PortfolioRegistry` |
| Broker cash ledger (`cash/services.py`, `reversal_services.py`, `bulk_entries.py`) | `CashLedgerEntry` per portfolio and currency, transfer groups | deposit, withdraw, transfer, edit, delete, reverse, schedule | `CashBook`, `BrokerCash` |
| Transaction settlement (`transactions/cash_settlement.py`, `cash_settlement_sync.py`, `services.py`) | ledger rows linked to trades | write, rewrite and remove the linked rows when a trade is written, moved or deleted; backfill | `Settlement`, `SettlementContract` |
| CSV import and cash preview (`transactions/csv_import.py`, `csv_cash_preview.py`) | none of its own | simulate the cash of a file, propose deposits, import | `Settlement`; the parser is left out |
| Market data (`market_data/services`, `market_data/views.py`) | `historical_prices`, `last_sync_timestamp` | sync stocks, indices, funds, one symbol or all | `MarketSync` |
| Foreign exchange (`fx/services.py`, `fx/lookup.py`) | `fx_rates` | sync the pairs in use; lookup with fill, inverse pairs | `MarketSync`, `FxLookup` |
| Holdings (`finance/fifo.py`, `splits.py`, `oversell.py`, `portfolios/holdings_service.py`) | none, computed from trades and cache | lots, split adjustment, oversell detection, rows, allocation, buckets | `Lots`, `HoldingsView` |
| Value and cash flows (`portfolios/summary_service.py`, `debt/portfolio_value.py`, `external_flows_service.py`, both `cash_ledger_flows.py`) | none | summary, daily series, external flows | `ValueSeries`, `WealthSeries`, `PortfolioValue` |
| Returns (`portfolios/performance_service.py`, `xirr_service.py`, `finance/twror.py`) | none | value metric, cumulative, time- and money-weighted return | `PortfolioValue`; solver, drawdowns, risk metrics and benchmarks are numerical and left out |
| Maturity and interest estimates, interest report, analytics | none of the books | decimal and floating-point reports | not modelled, except the income attributed to a portfolio |
| Sign-in, settings, diagnostics, front end | sessions, preferences | I/O around the books | not modelled |

### 1.2 How they interact

* Every deposit service calls the ledger: creation posts the opening debit, settlement and renewal
  the principal and interest legs, cancellation and repair the opening reversal, interest services
  the credit and its reversal. `create_cash_movement` is the only insert; it validates, inserts and
  then calls `refresh_bank_account_balance`, which rewrites `current_balance` from all the rows.
* Two services also rewrite ledger rows **in place**: editing an interest payment changes amount
  and date of its movement, and correcting the investment date of a deposit moves its opening debit.
* Deposits refer to accounts and portfolios; every `save` runs `clean`, which demands that both are
  active. So archiving a portfolio freezes its deposits without looking at them.
* A trade of a cash-aware portfolio has linked rows in the broker cash ledger. `update_transaction`
  and its twins call `sync_*_settlement` after every write; the manual services refuse to touch
  linked rows. A portfolio may become cash aware, or stop being it, at any time, and then trades with
  and without linked rows stand side by side until a backfill.
* The syncs are requests too: they read trades to find out which symbols, pairs and days are needed,
  ask external providers and upsert rows one by one. Everything that is *shown* is computed at each
  request from trades, ledgers and that cache; nothing computed is stored.
* Each request is one database transaction (`transaction.atomic`), except a sync, in which each row
  is one. No service in `backend/debt` or `backend/cash` takes a lock (`select_for_update` occurs
  nowhere there), so concurrent requests interleave at statement level under PostgreSQL's READ
  COMMITTED.

### 1.3 What is hard, and what makes each part correct

Hard behaviours: in-place edits of an otherwise append-only ledger; reversals that are built from
the deposit or the payment and not from the row they take back; two code paths (cancellation and the
repair command) that post the same refund; back-dated requests; deposits from before the ledger
existed, which have no opening row and may be moved between accounts; statuses that a PUT sets
freely; statement-level races. `PROJECT.json` lists each of them as a hazard with its line.

Correct means: the cache is the sum of the rows; a row is taken back at most once and by a row that
mirrors it; reversed rows are never rewritten; a standing opening agrees with its deposit, a payment
with its movement; a deposit settles once; a refunded deposit never pays anything else; a removed
deposit stays removed; and concurrent requests neither pay twice nor block each other.

For broker cash: balances are tested against the future, but each service tests another part of it;
linked rows of several types are written over, inserted and deleted in an order that decides which
row survives; trades move between portfolios that are cash aware and portfolios that are not. Correct
means that every trade has its own cash booked once where its portfolio says so, that no linked row
is left over, that a request which is tested never causes an overdraft, and that a preview that was
funded can be imported.

For market data: what the cache lacks is inferred from its first and last day; runs fail, die half
way and overlap with edits of trades; required days of rates are worked out in one place and used in
another; trades are rescaled by splits when they are read, closes when they were fetched. Correct
means that a run that reports success leaves no gap, and that the figures, each computed on its own
way, agree: the summary with the end of the series, a range with the whole history, the holdings and
the buckets with the summary, the time-weighted return with what the market did, the money-weighted
return with the gain, and none of them shows a number where the value is not known.

## 2. Modules

| Module | What it is |
|---|---|
| `BankLedger` | The ledger as data, no state: types of movements, signs, balances as of a day, the funding balance without reversed rows, the queries about openings and reversals. |
| `AuditLedger` | The abstract specification: one variable, `ledger`; a step inserts rows or corrects one row that stands. States, and proves, what follows for an auditor. |
| `FixedDeposits` | The detailed specification: seven tables, one action per request. `Audit == INSTANCE AuditLedger` and `AuditedLedger == Audit!Spec` state that it implements the abstract one. |
| `FixedDepositsConcurrent` | The same requests as programs of SQL statements with transactions, visibility and row locks, for one open deposit. |
| `FixedDeposits_proofs` | Type correctness and the cached balances. |
| `FixedDepositsAudit_proofs` | The refinement, the invariants that follow from it and from its inductive invariant, and what becomes of a deposit: removal and refund are final, a settlement owns its legs, reversed rows cancel out. |
| `FixedDepositsConcurrent_proofs` | What no interleaving of requests can break, for any number of them. |
| `CashBook` | The broker ledger as data: rows, balances, the tests for the days from a change on. |
| `PortfolioRegistry` | The table of portfolios and its requests. |
| `BrokerCash` | The manual requests on the ledger: entries, transfers, schedules, reversals. Extends the two above. |
| `Settlement` | Trades and the rows that settle them, backfill, CSV preview and import; composes registry, ledger and trades. |
| `SettlementContract` | The abstract specification: for each trade, the cash booked for it. `BooksTradesOnce == Contract!Spec` states that `Settlement` implements it under a refinement mapping. |
| `Lots` | Split adjustment, FIFO lots and their copies, oversell detection: pure operators on sequences of trades. |
| `FxLookup` | Lookup of a rate on a day, with fill and inverse pairs, and conversion. |
| `MarketSync` | The state machine: cache, trades, days, and the runs of the syncs with outages and crashes. |
| `ValueSeries` | Totals and daily series of stocks and funds in the currency of a portfolio. |
| `WealthSeries` | Broker cash, deposits and accounts as totals and series, and how they are merged into a series. |
| `PortfolioValue` | Summary, value metric, external flows, return series, gains, inputs of the money-weighted return. |
| `HoldingsView` | The rows of the holdings, the allocation, the buckets. |
| `MarketValue` | Composition of all of these with the properties that relate them. |
| `Settlement_proofs` | Registry, broker ledger and settlement: the inductive invariant, the refinement, complete backfills, no overdrafts, funded imports. |
| `MarketSync_proofs` | The cache has no gaps, and a full run that succeeds completes it. |
| `MarketValue_proofs` | The figures of a portfolio: lots and oversell, holdings against summary, a range against the whole series, days of unknown value, what a complete cache can value. |
| `FoldLemmas` | Induction over numbers and finite sets, and what it gives of the sums and folds the models are written with. |
| `MC...` | Constants, symmetry and ordering of requests for TLC. |

### 2.1 Correspondence with the code

*Tables are sequences and a primary key is an index*, because rows are inserted and never deleted.
A movement carries `reverses`, 0 for none; the code sets `is_reversal` and `reverses` together.

*One action is one request* in `FixedDeposits`: its guard is the conjunction of all validations of
the service function, its effect everything it writes, the refresh of the cache included. A request
whose validation fails is rolled back, so it is a disabled action. `Post(m)` is
`create_cash_movement`: `Admissible` holds its validations in the ledger it runs against, `Refresh`
the insert and the new cache. A settlement posts two legs through `PayOut`, the second against the
ledger the first has left. `Clean` is the `clean()` of the saved row. `RefundOpening` is shared by
`CancelFixedDeposit` and `RepairDeactivatedOpening` because both code paths do the same writes.

*Abstractions of data.*
* `"MANUAL"` stands for manual deposit, manual withdrawal and adjustment: given a direction, the
  code treats them alike. `REVERSIBLE_MANUAL_CASH_MOVEMENT_TYPES` is thus two types here.
* Gross interest and tax appear as the net amount, the only one that reaches the ledger.
* Descriptions, currencies, user ownership, maturity date and maturity amounts are left out: no
  guard modelled here depends on them (currency equality is a fixed fact of an account).
* A manual movement names no portfolio, so the archived-portfolio test matters to deposits only.
* Portfolios that can be archived are modelled, the default one cannot be; the limit on their number
  is left out.
* `Init` is a new database, or one that was in use before the ledger existed: a deposit without an
  opening, or the one that the repair command was written for, inactive with an opening that stands.

*In `FixedDepositsConcurrent`* a request is a row of `Program`: the statements in the order the
service runs them, one definition per service (`Withdraw`, `Cancel`, `Settle`, `Record`, ...). A statement sees committed data under the writes of its own transaction
(`View`, `VisibleRows`). The Python object keeps what the first SELECT loaded (`seen`), and it is
`seen`, not the database, that `MayProceed` tests for `status` and `is_active` and that
`update_fixed_deposit` and `update_bank_account` save in full. An UPDATE waits for the row lock
(`Write`), a settlement also for the unique key. A circle of waits is broken by an abort
(`AbortDeadlocked`), as PostgreSQL does. Everything happens on one day and a settlement pays its
principal leg only: neither dates nor the second leg change which statements conflict. Rows of an
aborted transaction stay in the variable and are visible to nobody, so indexes do not shift.

### 2.2 Broker cash and settlement

*Tables* are functions from primary keys to rows, since rows of broker cash and trades are deleted;
`NewId` is one more than any key in use, which abstracts a sequence whose numbers are never seen
again only in that a key may be reused after its row is gone; nothing refers to a deleted row.

*A request is one action*, as above. `Sync` is `_sync_settlement_specs`: surplus rows deleted but for
one (`BeginSync`), each wanted row written over a row of its own type, else over the spare one, else
inserted (`SyncSpec`), the spare deleted at the end if nothing was written over it. The loops of the
code are recursive functions of the number of turns done, so that they can be reasoned about.
The tests are made where the code makes them, in the state of the table at that moment, so the order matters and is kept. `Backfill` is
`sync_cash_settlements --apply`, `ImportFile` computes the preview's shortfalls, deposits them when
the user confirmed and creates the trades in file order.

*Amounts and decimals.* A row of the ledger has four decimals, but quantity times price plus fees may
have more. Amounts are therefore integers in a unit that may be finer than 0.0001, of which `CashQuant`
make 0.0001; `LedgerAmounts` are the amounts a row can hold, and `gross` need not be one. The three
places that use `gross` differ, and the model keeps the difference: the settlement rounds half up
(`Quantized`, `_quantize_cash_amount`), the preview simulates and proposes the unrounded amount
(`SimulateRow`, `ProposedDeposits`), and the deposit of a proposal with more than four decimals is
refused by `full_clean` (`DepositAll`), which ends the import. What is entered by hand, the `actual`
cash of a sale included, has at most the decimals of its field.

*Abstractions.* A trade is what its settlement depends on: settlement day, currency, `gross` and the
`actual` cash of a sale. `Entered` bounds the `gross` that single requests carry; files may carry all
of `Gross`. Names that differ only in case are one value. `Renames` bounds the names a
portfolio may take.

### 2.3 Market data and figures

*State.* `prices` maps each symbol to its cached days and closes, `rates` is a set of pair and day:
what a rate says is fixed by the constant `Worth`, so that a pair and its inverse agree. `job` is the
run in progress with the phases and the set of items it has left, of which `Due` is next (symbols by
name, indices by display name), and with the days of the trades as they were when the index phase
began (`anchor`: the code reads them once for all indices); trades may be written at any step of it.
`torn`, `current` and the counters are history variables. The provider is external: `Quotes` on open
days, restated by `Close` for every split since.

*Actions.* `StartSync`, `NextPhase` and `FinishSync` are `sync_all_market_data` around its phases,
`SyncItem` one symbol or pair with its start day (`SyncStart`, `StartOf`, `FxRequired`) and the rows
upserted, `Outage` a provider that fails, `Crash` the process dying between two rows of an item. A
run does not pass midnight and two runs do not overlap.

*Figures* are operators on the state, one per function of the code, and a property about them is an
invariant of the states in which no run is in progress. An amount without a rate is `Missing`.
Decimals are integers; `MCMarketValue` takes values, prices and quantities from powers of two, so that
every conversion and split ratio divides exactly and sums can be compared without rounding. The
ledgers of broker cash, deposits and accounts are constants here, read as of the current day: how
they come about is what the other modules are for.

*Loops and sorting.* A loop over trades is a `FoldLeft` of a named turn (`SplitBy`, `Taken`, `Booked`,
`Entered`, `Checked`), a sum is `Total`, and `sorted()` is `Sorted`: the element with n - 1 others
before it, by key and then by position, as Python's stable sort leaves them. `SortSeq` and `SelectSeq`
would say the same to TLC, but are recursive in a way that nothing can be proved about.

*Abstractions.* Fees are left out (the cost basis of the code ignores them), folios of one fund are
one folio, and the investment date of a fund is its trade date. A return is compared by the gain it
is computed from, before the division.

## 3. Runs

| Run | Bounds | What it shows |
|---|---|---|
| `fd_dates` | 1 account, 1 deposit, 1 payment, 3 rows, 2 days, 3 statuses that a PUT may write | the order of dated requests, edits, reversals, cancellation and repair keeps ledger, deposit and payment in agreement; refund and removal are final; refinement of `AuditLedger` |
| `fd_accounts` | 2 accounts (symmetric), 2 amounts, 1 deposit, 1 payment, 3 rows | caches are sums, reversals mirror their originals, and cancel out in the balance, when deposits move between accounts and amounts are edited |
| `fd_renewals` | 1 account, 2 deposits, 2 amounts, 2 rows | each settlement leg belongs to one settlement; a renewed deposit is settled, renewed and cancelled in turn |
| `fd_concurrent` | every multiset of 3 requests of 9 kinds, with and without an interest payment | what survives the missing locks, and that every request finishes |
| `settlement` | 1 currency, 2 days, 6 files, two of them of amounts that are rounded (4 units make 0.0001; a gross of 5 is rounded down to 4, one of 6 up to 8); together at most: 1 portfolio with 1 trade and 3 rows, or 2 trades and 2 rows; 2 portfolios with 1 trade and 1 row, or 3 rows; 3 portfolios with 1 row | linked rows agree, transfers and reversals keep their pairs, tested requests never overdraw, a funded import of amounts with four decimals goes through, backfills are complete, the limit on portfolios holds, refinement of `SettlementContract` |
| `market_value` | 2 portfolios, 2 stocks, 1 index, 1 fund, 3 currencies, 5 days, 4 histories of trades, 1 edit, 2 runs, 1 fault | the cache is complete when a run says so; the figures agree with each other |
| `overdraft`, `settled_contributes`, `renewal_unbalanced`, `refund_race`, `cache_race`, `terminal_value` | smaller instances | the findings of section 5 |

**Why these bounds are enough.** A row is reversed, edited or mirrored by reference to one other row,
one deposit and one payment. Three rows hold funding, opening and a third that takes one back or pays
interest; deposits from before the ledger need no funding, so three rows also hold interest, its edit,
its reversal and one more credit. Two days are what "earlier" and "later" need, two amounts what an
edit needs to be seen, two accounts what a wrong account needs. In `fd_dates` all amounts are equal and
in `fd_accounts` all days are, since dates and amounts are tested independently of each other except
in the overdraft check; `fd_dates` exercises that check across days, `fd_accounts` across amounts.
Every property of these three runs and every safety property of `fd_concurrent` is also proved for
all bounds (section 4). Two renewals in a chain would need three deposits; a renewal is
looked up only by its direct predecessor. Three concurrent requests allow one pair to race while a
third commits in between, and a circle of three waits.

In `settlement`, `Shapes` bounds how large the tables may be *at the same time*, since all at their
largest would be millions of states. A trade has at most two linked rows, so three rows leave one for
the funding of a buy; two trades meet in the balance and in a backfill; moving a trade needs two
portfolios with the row it has; transfers and reversals need two portfolios and three rows; the limit
on portfolios needs a third. Days are two because each test asks for "from this day on". What
takes larger tables, such as a trade with tax moved over a balance that two other trades share, is
covered by the proofs, which know no bound: every property of this run is a theorem (section 4). A
trade of a rounded amount is written, edited, back-filled and imported like any other, so the run would
notice a row that is not rounded (`SettlementTypeOK`). `FundedImportSucceeds` asks for amounts with four
decimals, files in date order and no zero amounts: of a finer amount the proposed deposit is refused, or the
row is rounded up to more than was deposited (5.2).

In `market_value`, portfolio P is not cash aware and Q is. The histories hold a stock quoted in
another currency than it is traded in, one that splits between its trades, sales on the day of a
purchase and beyond what is held, and a fund. Stock A is not quoted on day 3, rates exist on days 2 to
4 only and are filled for two days (the code: seven), so first days, last days, filled and missing
rates all occur. P has an account of its own, Q a deposit paid from an account outside its scope, and
one account belongs to both. Two runs with one edit between them or during the first is what a
backfill needs; one fault is what a gap needs. Each premise of a property was seen to hold in
reachable states for both portfolios and for the scope of all.

What the properties of `market_value` leave out, by naming it:
* `CachesUnbroken` and `CurrentCachesComplete` except the items a crash has cut short: the gap that
  leaves is permanent, because the next run looks only at the first and the last cached day
  (`docs/database.md:59` says syncs are incremental, not that they repair).
* `ReturnIsMarketMove` has two terms that are no gain but are shown as one: broker cash paid in before
  the first trade appears on the day of that trade when the whole history is asked for, and not in a
  range (`CashAppearing`); and deposits placed from, or paid back to, an account outside the scope
  appear as a gain or a loss (`Unbacked`).
* `XirrSumsToGain` leaves out interest paid to an account that two portfolios share: the scope of all
  counts it in the account and again as attributed income of the portfolio.
* `TerminalMatchesSummary` and the two returns are about portfolios kept in the display currency and
  valued with rates of one day (`Comparable`, `Traceable`); section 5 has what happens otherwise.
  `BucketsAddUp` asks for the currency only (`KeptInDisplay`), of a portfolio without trades too, which
  has the default currency; deposits, accounts and cash may be in any.

`CHECK_DEADLOCK FALSE` is given because a bounded ledger fills up, because all requests end, and
because days and runs are bounded.
`MCSpec` starts the requests in the order of their kinds: requests of the same kind are
interchangeable and otherwise differ in nothing but their kind.

**Fairness.** Only `FixedDepositsConcurrent` states a liveness property, `AllFinish`, under
`WF_vars(Next)`: as long as some worker can run a statement, some worker runs one. Every request has
a fixed number of statements and each step advances one request or ends it, so no fairness between
workers is needed and none is assumed. What `AllFinish` adds is that waits for locks and for the
unique key never leave everybody waiting: the circles that do arise (an edit locks payment, movement,
account; a reversal locks account, then payment) are exactly those an abort resolves.

**What survives the races, and what does not.** `SettledOnce`: one principal credit per deposit,
thanks to the one-to-one key alone. `PaymentMatchesMovement`: edit and reversal write disjoint
columns. `SolePosterKeepsCache`: the cache is right if only one of the concurrent requests touches
the account. The general statements `CacheIsFresh` and `RefundIsFinal` fail (section 5).

Every property of a passing run has one or more mutants, an operator beside the definition it replaces that
contains a plausible bug ("Mutant: ..."); under the mutant TLC finds the property violated.

## 4. Proofs

The theorems hold for every value of the constants: any number of accounts, portfolios, requests,
symbols, trades and days, and every bound. They assume only what the modules themselves assume of
their constants, which TLC evaluates on every run:

* `ConstantsAssumption`: amounts of bank cash are positive integers, keys and bounds natural numbers, there is at
  least one day, and the mark for "no portfolio" is no portfolio;
* `ConcurrencyAssumption`: finitely many requests, of the kinds there are, with positive amounts;
* `RegistryAssumption`, `BrokerCashAssumption`, `SettlementAssumption`: the two reserved names differ,
  the limit on portfolios is positive, `CashQuant` is positive, amounts entered are positive and have
  four decimals, computed amounts (`Gross`) are any integers, and files hold what the CSV parser and
  the validation of trades let through (a bought amount is not negative, a dividend has no cash);
* `MarketAssumption`, `QuoteAssumption`, `FxAssumption`: a symbol is a stock, an index or a fund,
  histories lie in the past of their day, closes and rates are positive;
* `WealthAssumption`: portfolios, broker cash, deposits and accounts are finitely many, of days and
  currencies there are; `name` is the key of a deposit or account and unique. A fund is bought and sold and never split (`Trades`), as the validation of trades has it.

| Theorem | Statement |
|---|---|
| **`FixedDeposits`** | |
| `TypeCorrect` | `Spec => []TypeOK`: the tables keep the shape of their rows, payments keep their foreign keys |
| `CacheCorrect` | `Spec => []CacheIsLedgerSum` |
| `AuditedAlways`, `TrailFrozen` (in `AuditLedger`) | the abstract specification implies single and exact reversal, and the frozen audit trail |
| `DepositsAudited` | `Spec => AuditedLedger`: `FixedDeposits` implements `AuditLedger` |
| `OneReversal`, `ReversalMirrors`, `AuditTrail` | the promises of `AuditLedger`, carried over by the refinement |
| `OpeningMirrors`, `PaymentMirrors` | a standing opening agrees with its deposit, a payment with its movement |
| `InactiveForGood` | no request brings a removed deposit back |
| `RefundsAreFinal` | a refunded deposit stays cancelled, without settlement and standing interest |
| `SettlementsOwnTheirLegs` | a deposit settles once, and its legs are rows of its account and amount |
| `ReversalsCancel` | all reversed rows and their reversals add up to zero |
| **`FixedDepositsConcurrent`** | |
| `TypesHold` | rows, locks and local copies keep their types under every interleaving |
| `SettlementPaysOnce` | of any number of concurrent settlements, one pays |
| `PaymentKeepsItsMovement` | however edits and reversals race, payment and row show one amount |
| `SolePosterKeepsItsCache` | with one poster, the cache is the sum of the ledger when all have ended |
| **`Settlement`** | |
| `TypesOfSettlement` | portfolios, trades and rows keep their types, signs and foreign keys, and no row of the ledger has more than four decimals |
| `ActivePortfoliosWithinLimit` | one active default portfolio, no more active ones than the limit |
| `ReversalsStayMirrored` | a reversal and its entry stay opposite, and an entry is reversed once |
| `TransfersKeepTheirLegs` | every transfer has exactly its two legs, as its group says |
| `LinkedRowsAlwaysAgree` | linked rows never outlive their trade and agree with one another |
| `TradesBookedOnce` | `Spec => BooksTradesOnce`: `Settlement` implements `SettlementContract` |
| `TestedRequestsAreSafe` | a request that tests later days never causes an overdraft on any day |
| `FundedImportsSucceed` | if its amounts have four decimals, none of the deposits the preview of a file in date order proposes is refused, and the import goes through with them |
| `BackfillIsComplete` | after a backfill of a portfolio there is nothing left to back-fill in it |
| **`MarketSync`** | |
| `MarketTypesHold` | the cache holds closes of open days up to today, and rates of pairs |
| `CachesStayUnbroken` | no open day is missing between two cached ones, crashes apart |
| `FullRunCompletes` | a full run that reports success over unchanged trades leaves no gap |
| **`MarketValue`** | |
| `FifoHolds` | of a holding that is never short, the lots left are the newest shares bought, however often it was split |
| `OversellHolds` | a holding is reported as oversold exactly when more was sold than bought up to the end of some day |
| `HoldingsSumToSummary` | the values of the stock holdings of a portfolio add up to the stocks of its summary, and both miss a rate for the same |
| `RangeHolds` | the base series of a range is that of the whole history on each of its days whose value is known |
| `BucketsHold` | buckets and slices of the allocation add up to the summary, in a portfolio and in all together |
| `UnknownHolds` | a past day on which the investments of a single portfolio lack a rate is unknown in its value and in its gain, whatever else is held |
| `ValuedHolds` | after a complete run every day and holding with a rate near enough has a value |

`InductiveInvariant`, `LedgerInvariant` and `ValueInvariant` state the inductive invariants of the
concurrent requests, of the broker ledger and of cache and trades themselves.

### 4.1 Fixed deposits

**Types.** `TypeOK` is inductive by itself. Its only non-local part is that a payment points at an
existing deposit and row; tables grow, so it survives every insert. The lemmas `Inserted` and
`Rewritten` say once what INSERT and UPDATE do to a table, and each action cites them.

**The cache.** The cache of the account whose rows changed is recomputed, so the point is that no
*other* account's rows changed. Inserts are harmless: the row carries the account that is refreshed.
`EditInterest` refreshes the account of the *payment* while it rewrites the row of its *movement*, so
the inductive invariant is `TypeOK /\ PaymentsFollowLedger /\ CacheIsLedgerSum`, with the payment
recorded on the account of its movement. An `UpdateFixedDeposit` that moves the opening changes its
date and refreshes nothing, which is sound because a balance does not depend on dates.

**The refinement.** The variable of `AuditLedger` is the ledger itself, so the mapping is the identity
and the burden is the step. A reversal must mirror the row it names although it is computed from other
tables; the guards of the code do not say so. The inductive invariant `AuditInv` therefore holds,
beside the types: the type of a row determines whether it reverses, its deposit and its direction
(`RowsCoherent`); a deposit has at most one opening (`OneOpening`, without which the query for the
*first* opening could miss the one that stands); a standing opening agrees with its deposit (the
refund is posted on the account of the deposit); a payment agrees with its movement, is its only
owner, and is marked exactly when it is reversed (the reversal is posted from the payment). Then every
request is an `Insert` or a `Correct` or leaves the ledger alone. `AuditLedger` in turn needs no
further strengthening: `OneReversalPerMovement` and `ReversalMirrorsOriginal` are inductive together.

**Outcomes.** `OutcomeInv == AuditInv /\ RefundIsFinal /\ SettlementOwnsItsLegs` is inductive. Instead of
one case per request its proof has three: a step settles a deposit (`SettleStep`), refunds an opening
(`RefundStep`) or does neither (`PlainStep`), and always leaves a removed deposit removed
(`DepositsKept`), records interest for deposits in the books only (`PaymentsKept`) and rewrites nothing
that settlements and refunds read (`RowsKept`). Cancellation and the repair command test different
conditions before they refund; what the proof needs of both is that the deposit is afterwards cancelled
and inactive, and that every request that pays tests one of the two. `RefundIsFinal` is a theorem about
requests that run one after the other; run concurrently they violate it (finding `refund_race`).

**Cancelling out.** `ReversalsCancelOut` is a sum over all rows. It follows from single and exact reversal:
"is reversed by" pairs the reversed rows with the reversals, one to one and with opposite signs, and
`SumCancels` of `FoldLemmas` is the induction over that pairing.

### 4.2 Concurrent requests

`IInv` ties every row to the request that inserted it and to how far that request has come
(`RowsOfRequests`), every column an open transaction has written to its program counter
(`OwnColumns`), the one-to-one key of settlements to its holder (`SettlementKey`), and the committed
columns of the payment to the requests that have committed (`PaymentColumns`). `Statements` says where
each statement stands in each program, so that a step is a step of a statement and not of nine programs.
`SettledOnce` then rests on the key alone, as in the code: whoever inserts the second settlement waits
for the first and fails. For `SolePosterKeepsCache` the invariant is extended to `CInv`: if one request
at most posts to the account, the committed balance is the sum of the committed rows, and what the
poster has summed is what it sees until it commits; the requests that save the account or the deposit
meanwhile may have loaded an old status, but not an old balance.

### 4.3 Broker cash and settlement

`LInv` says of the registry that there is one active default and that the limit holds; of the
ledger, that each row is of one of three kinds, **manual** (perhaps half of a reversal), **leg of a
transfer** or **linked to a trade**, and that each kind keeps its relation: reversal and entry are
opposite, a group has its two legs, the rows of a trade agree in portfolio, day and currency and are at
most one settlement and its tax. Every row is a whole number of 0.0001, which the rounding of the
settlement and the refusal of finer deposits together ensure. The kinds are needed because each request changes rows that it found
by one relation and must not disturb the other two. `Sync` is the difficult operation: the
surplus, the spare row and the order of the specifications decide which row survives. Its lemmas follow
the code turn by turn (`BeginSync`, `SyncSpec`, the last deletion) with the rows that are left after each
turn, and give that the trade ends with exactly the rows of its specifications, whatever it had before.

**The refinement.** What is booked for a trade is where its first linked row is and what its linked rows
add up to. A trade that a request writes has, after `Sync`, the rows of `SettlementSpecs`, whose total is
`NetCash`; every other trade keeps its rows. A file import is a sequence of such writes in one step,
and its proof an induction over the rows of the file; a backfill is one over the trades it plans.

**Backfills.** A second backfill finds nothing: every planned trade had its row inserted, because the
plan, a set, is listed without omission (`Listed`), and nothing of the first backfill adds to the plan.

**Overdrafts.** A request tests the balances from its own date to the last day with a row. That this is
enough for all days is the theorem: earlier days see the same rows as before, days after the last
row have its balance, and days without rows that of the day before. A schedule is tested with *all* its
rows while only those not yet there are inserted; `FewerWithdrawals` shows that this errs on the safe
side. The property speaks of overdrafts a request *causes*: untested requests may leave the balance
negative, as the code allows.

**Funded imports.** The preview simulates a file row by row and reports a gap where a buy lacks cash; the
import deposits the gaps, merged per day and currency, and books the same rows against them. The proof
runs the two side by side: on every day the balance of the import is that of the preview, without the
gaps filled so far and with all of them (`FundedGoesThrough`). A buy is covered in the preview by the gap
found for it, later gaps only add, and so it is covered in the import. Two facts carry this: the merged
deposits add up to the gaps on every day (`DepositsAddUp`, a sum over a partition), and a row has the
same effect on a balance in both (`PreviewOfRow`, `ImportOfRow`). The import's test looks at the day of
the row only, as the preview's does, which is why the two can agree. That amounts have four decimals
is used twice: the balances are whole numbers of 0.0001, so each gap and each merged deposit is one too and
`DepositAll` refuses none; and the settlement of a row takes just what the preview simulated.

### 4.4 Market data

`MInv` adds to `CachesUnbroken` and `CurrentCachesComplete` what a run in progress is (`JobOK`) and what
a full run over unchanged trades has completed so far (`RunSoFar`): the items of the phases behind it and
those of its phase that are done. The point that is easy to get wrong is that the items and the
days of the exchange-rate phase follow from the prices the same run has cached before. They may not
change while that phase runs, and `RatesNeededSame` shows that they do not. The induction over days
(`FillsUp`, `FillsFromFirst`) shows that continuing after the last cached day, or from the required
day when that is earlier, leaves no open day out.

### 4.5 Figures

Nothing computed is stored, so each property of `MarketValue` is a consequence of the state alone and
the inductive invariant is short: `VInv == MInv /\ TradesPast`, the invariant of the cache and that all
trades are of the past. The work is in the loops. `FoldsRun` turns a fold into the function of the turns
done, to which `NumberInduction` applies; `SortedIs` shows that `Sorted` is a bijection that respects its
keys, `SortedPicks` what it keeps of a selection.

**Lots.** `Newest` is the closed form of what the walk leaves: of each purchase, the shares left if what
is held is taken from the newest purchases first. The invariant over the turns is `Kept`: the lots are
that form for the shares held so far, and what was paid is invested or realised. A purchase comes first
among the newest (`LotsAppend`), and a sale takes from the oldest, lot by lot, which is what holding fewer
of the newest means (`SellStep`, `SellIs`). The metrics and the timelines walk the same trades in copies of
the code; `Walks` carries both through the turns and says that they keep the same lots.

**Oversell.** The check walks the trades with the purchases of a day first; the property looks at the end
of each day and knows of no order. The first trades in that order, up to the last of a day, are exactly
the trades of the days until then (`DayIsFirst`, `SumOfFirst`), so a balance at the end of a day is one
the walk passes. The other way, a day on which the walk is short is short at its end, because its sales
come last and only lower the balance further (`ShortAtEnd`).

**Holdings and summary, range and history.** Each of these pairs loads rates over a different span of
days and must look up the same one. `LookupFar` and `LookupWider` show that a span that begins
earlier changes nothing where the shorter one finds a rate near enough. With the same prices the totals
are the same sum, once over rows and once over symbols (`SumRenamed`). For a range, `SameNearest` and
`SameClose` do the same for closes: they need a close between the first trade of the portfolio and that
of the symbol, the hypothesis of the property.

**Buckets.** The summary of a scope adds portfolio by portfolio, the buckets row by row over the trades of
all portfolios merged. Both are sums of shares times price over portfolios and stocks, taken in the two
orders (`SumSwap`), once the shares of the merged trades are known to be those of the portfolios together.
Without splits, the shares are what was bought less what was sold, in whatever order, and a merged holding
is not short where none of its parts is (`MergedHeld`); with a split, one portfolio alone holds the stock
(`SoleHeld`), because the property excludes split stocks of two portfolios (`SplitsShared`, 5.2). Rows
are a set: that no two of them fall together is by their stock, or by the names of deposits and
accounts (`StockRows`, `WorthRows`), and those of different kinds are apart (`KindsApart`). The proof
asks for less than the run did at first: neither for rates of the same day nor for a summary
without missing rates, because a worth without a rate is left out on both sides.

**Unknown days.** The chain from the investments over broker cash, deposits and income to the display
currency is followed link by link (`CashKeepsUnknown` and the others): each leaves `Missing` as it is.
A link that replaced a day instead of adding to it would break the chain silently. That the days of the
links are the same ones is `SeriesDays` and `RangeStartIs`.

**Complete caches.** `CurrentCachesComplete` gives that the closes and rates the sync *takes to be
required* are there (`RatesThere`). That the valuations ask for no others near a day with a rate is
`PriceTold` for today and `DayTold` for a day of the series. The proof showed what the run, whose
portfolios hold each stock in one currency, could not: where the trades of a symbol begin in another
currency than those of the portfolio, the sync asks for one pair and the series converts with the other.
The property therefore says `BaseOf(s) = BaseCurrency(OfSymbol(ts, s))`.

### 4.6 Induction

The library's induction theorems take an operator as a parameter, which the provers used here cannot
instantiate. `FoldLemmas` states induction with *sets* in place of predicates (`NumberInduction`,
`SubsetInduction`, from the library's well-foundedness theorems): what is true of a number or a
subset is the set of those it is true of. That suffices for `FoldSet`, `SumFunctionOnSet` and recursive
functions over a number of turns; `AddsExists` and `AddsUnique` show that a sum does not depend on
the order that `CHOOSE` takes. Of sums over rows they give that a sum is an integer, natural if its
terms are, unchanged if they are, splits over a disjoint union or a partition, grows by what is added,
and cancels over a pairing. Recursion written with `RECURSIVE` stays out of reach, and no module that is
proved about has any.

### 4.7 Model-checked only

* `AllFinish`, a liveness property under fairness: out of the prover's reach, as is `ENABLED`.
* `SplitsAreNeutral`, `TerminalMatchesSummary`, `ReturnIsMarketMove` and `XirrSumsToGain` compare amounts
  after they were scaled by split ratios or converted by rates, on two ways. The code does this with
  decimals of many digits, the model with integers, which is exact for the powers of two of the run.
  For arbitrary numbers the division rounds, the two ways round differently, and the properties are not
  true as stated; a tolerance would be a statement about rounding that the code does not make.

## 5. Findings

Statements of the documentation or of the code's own messages that the runs refute:

1. **`overdraft`**: `validate_no_overdraft` looks at the balance on the day of the movement only. A
   back-dated withdrawal leaves a later day negative, while `docs/decisions.md` and
   `docs/fixed-deposits-accounting.md` disallow negative bank balances. (The broker cash ledger does
   check every later day.)
2. **`settled_contributes`**: a PUT sets the status of a settled deposit back to ACTIVE; it counts
   towards the portfolio value again while its principal is at the bank.
3. **`renewal_unbalanced`**: nothing relates `direct_reinvest_amount` and the payout to the principal
   of the old deposit, contrary to the invariant that `docs/fixed-deposits-accounting.md` states.
4. **`refund_race`**: cancellation tests for settlement, interest and an earlier reversal without a
   lock; two concurrent requests both commit what their messages exclude.
5. **`cache_race`**: `update_bank_account` saves the balance it loaded, and two refreshes overwrite
   each other; `current_balance` is then wrong until the next movement.

6. **`terminal_value`**: for one portfolio with trades that is kept in another currency than the
   display currency, `_align_terminal_value_with_summary` puts the summary's value, already in the
   display currency, at the end of the series, and the loop that follows converts it again. The last
   point is then not the value of the summary, contrary to `docs/architecture.md:86`.

### 5.1 Hazards without a property

`update_fixed_deposit` saves every column as it was loaded and can undo a cancellation or settlement
committed in between (it is in `FixedDepositsConcurrent` as `"put"`, but a status written this way
cannot be told from one a PUT may legally set); a payment recorded before its deposit was moved to
another account can no longer be edited or reversed (modelled by `PaymentClean`, a dead end rather
than a wrong book); the creation of a deposit and two withdrawals of broker cash test balances without
a lock; an edit of a sale is not tested against the purchases it paid for; holdings of several portfolios
that record the same split rescale their trades once too often (5.2).

### 5.2 Other differences between code and documentation, seen while modelling

The modules follow the code. Not checked as findings:

* Settlement: a deletion is tested up to the day of the last remaining row only, and the writes of
  trades are not tested against later days (`docs/cash-ledger.md:281`); a file that is not in date
  order may fail after a clean preview (`docs/cash-ledger.md:251`); a backfill books a sale without
  the tax withheld (`docs/product-rules.md:48`); an import whose amounts have more than four decimals may
  fail although every gap of its preview is deposited, because the preview computes with the amounts
  before rounding (`csv_cash_preview.py:159`, `:239`): the deposit is refused (`cash/services.py:587`,
  `cash/models.py:155`), or the settlement is rounded up to more than the deposit
  (`cash_settlement.py:48`), where `docs/api-design.md:339` has "deposits from fresh preview, then
  import"; a portfolio may come back under a name that is in use
  (`docs/api-design.md:161`).
* Funds: a filled rate counts as missing when the amounts of a fund are converted
  (`docs/mutual-funds.md:346`).
* Closes cached before a split are not fetched again by an incremental sync (`docs/architecture.md:85`
  demands adjusted closes); nor is today's close once it is cached.
* The rate of return of one asset drops splits before it adjusts for them, so its last flow values the
  shares of before the split at today's price.
* Deposits, accounts and broker cash of a single portfolio are converted to the display currency and
  then, with the rest of the summary, once more from the base currency of the portfolio.
* In a portfolio of several currencies the totals add amounts in the currency of each symbol as if
  they were in the base currency; the pairs from quotes to that base are not always synced.
* Flows of a portfolio that is not cash aware are measured in its base currency while its return series
  is in the display currency.
* A day of the scope of all sums the portfolios that know their value and leaves out the others.
* The holdings of all portfolios are computed from their trades taken together, their summary from one
  portfolio after the other. A split that two portfolios have each recorded then rescales the trades of
  both twice in the holdings (`backend/portfolios/holdings_service.py:364`) and once in the summary.
  `BucketsAddUp` is stated for scopes in which this does not occur (`SplitsShared`).

## 6. Plan and what is not modelled

What is left, in this order:

1. **More proofs**: the comparisons with rounding, for ratios that divide exactly.
2. **Concurrency, continued**: creation and renewal as request kinds; two writers of broker cash; a
   sync that overlaps another one.
3. **Bank account to portfolio assignment** as a state of its own instead of a constant.

Not modelled: compound interest, maturity estimates and schedules, the solver of the money-weighted
return, drawdowns, risk metrics, benchmarks and analytics (numerical analysis with decimals and floats
on the series modelled here, which TLC cannot evaluate and no other operation reads); the CSV parser,
serializers and views (formats); sign-in and sessions (the framework's); settings and diagnostics;
the front end, which holds no state of the books.

## 7. Running

```
tlc -workers 2 -config MCFixedDeposits.cfg MCFixedDeposits.tla
tlc -workers 2 -config MCFixedDepositsAccounts.cfg MCFixedDeposits.tla
tlc -workers 2 -config MCFixedDepositsRenewals.cfg MCFixedDeposits.tla
tlc -workers 2 -config MCFixedDepositsConcurrent.cfg MCFixedDepositsConcurrent.tla
tlc -workers 2 -config MCSettlement.cfg MCSettlement.tla
tlc -workers 2 -config MCMarketValue.cfg MCMarketValue.tla
for m in AuditLedger FixedDeposits_proofs FixedDepositsAudit_proofs FixedDepositsConcurrent_proofs \
         FoldLemmas MarketSync_proofs MarketValue_proofs Settlement_proofs
do tlapm $m.tla; done
```

The passing runs take from half a minute to three minutes each with two workers; the runs of section
5 (`MCNoOverdraft.cfg`, `MCSettledContributesNothing.cfg`, `MCRenewalConserves.cfg` on
`MCFixedDeposits`; `MCRefundIsFinal.cfg`, `MCCacheIsFresh.cfg` on `MCFixedDepositsConcurrent`;
`MCTerminalShowsSummary.cfg` on `MCMarketValue`) end with a counterexample within seconds.
