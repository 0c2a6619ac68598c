---------------------------- MODULE WealthSeries ----------------------------
(***************************************************************************)
(* Broker cash, fixed deposits and bank accounts as parts of a portfolio's *)
(* value (the display reports of cash/services.py and                      *)
(* debt/portfolio_value.py), and how they are added to a series.           *)
(*                                                                         *)
(* The ledgers are constants here; modules BrokerCash, Settlement and      *)
(* FixedDeposits model how they come about.  A row is on record from its   *)
(* day on, a deposit from the day it is invested, and its settlement from  *)
(* the day it is settled.  In a cash-aware portfolio each trade has its    *)
(* settlement row, as Settlement!BooksTradesOnce has it.                   *)
(***************************************************************************)
EXTENDS ValueSeries

CONSTANTS
  CashAware,      \* portfolios whose trades are settled in broker cash
  CashRows,       \* deposits and withdrawals: [portfolio, day, ccy, amount]
  Deposits,       \* fixed deposits: [name, portfolio, account,
                  \* ccy, principal, from, until]
  Accounts        \* included bank accounts: [name, ccy, portfolios, rows], a row being
                  \* [day, type, amount]

ASSUME WealthAssumption ==
  /\ IsFiniteSet(Portfolios) /\ CashAware \subseteq Portfolios
  /\ IsFiniteSet(CashRows) /\ IsFiniteSet(Deposits) /\ IsFiniteSet(Accounts)
  /\ \A x, y \in Deposits : x.name = y.name => x = y
  /\ \A x, y \in Accounts : x.name = y.name => x = y
  /\ \A r \in CashRows : /\ r.portfolio \in Portfolios /\ r.day \in Days
                         /\ r.ccy \in Currencies /\ r.amount \in Int
  /\ \A fd \in Deposits : /\ fd.portfolio \in Portfolios /\ fd.ccy \in Currencies
                          /\ fd.principal \in Nat /\ fd.from \in Days
                          /\ fd.until \in Nat /\ fd.from <= fd.until
  /\ \A a \in Accounts : /\ a.ccy \in Currencies /\ IsFiniteSet(a.rows)
                         /\ \A r \in a.rows : r.day \in Days /\ r.amount \in Int

-----------------------------------------------------------------------------
\* Broker cash.

Settled(p) == IF p \in CashAware THEN TradesIn({p}) ELSE <<>>

\* What settling a trade brings in, or takes.
Received(t) ==
  CASE t.type = "BUY" -> - (t.qty * t.price) [] t.type = "SELL" -> t.qty * t.price [] OTHER -> 0

Cash(p, c, d) ==
  Total(LAMBDA r : r.amount,
        {r \in CashRows : r.portfolio = p /\ r.ccy = c /\ r.day <= Lesser(d, today)})
  + Total(LAMBDA k : Received(Settled(p)[k]),
          {k \in DOMAIN Settled(p) : Settled(p)[k].day <= d /\ Settled(p)[k].ccy = c})

CashDays(ps) ==
  {r.day : r \in {s \in CashRows : s.portfolio \in ps /\ s.day <= today}}
  \cup UNION {TradeDays({t \in Range(Settled(p)) : ~IsSplit(t)}) : p \in ps}

CashOf(ps, c, d) == Total(LAMBDA p : Cash(p, c, d), ps)

\* What balances are worth: those without a rate are left out.
CashWorth(balance, held, unit, d, since) ==
  LET found == [c \in Currencies |-> Lookup(rates, c, unit, d, since)]
  IN  [value  |-> Total(LAMBDA c : Converted(balance[c], c, unit, found[c]),
                        {c \in Currencies : found[c].day # 0}),
       status |-> Combined({found[c].status : c \in held})]

Balances(ps, d) == [c \in Currencies |-> CashOf(ps, c, d)]

\* build_cash_display_summary: a portfolio's own balance counts for the status even when
\* the sum is zero.
CashToday(ps, unit) ==
  CashWorth(Balances(ps, today), {c \in Currencies : \E p \in ps : Cash(p, c, today) # 0},
            unit, today, today - FillDays)

\* build_cash_value_timeseries
CashSeries(ps, from, to) ==
  IF CashDays(ps) = {} THEN <<>>
  ELSE [d \in from..to |->
          CashWorth(Balances(ps, d), {c \in Currencies : CashOf(ps, c, d) # 0},
                    Display, d, from - FillDays)]

\* Mutant: cash stands in for an investment value that is not known.
CashInstead(series, cash) ==
  LET onDay(d) == IF d \in DOMAIN cash THEN cash[d] ELSE [value |-> 0, status |-> "ok"]
  IN  IF cash = <<>> THEN series
      ELSE IF series = <<>>
      THEN [d \in DOMAIN cash |->
              [value |-> cash[d].value, invested |-> 0, status |-> cash[d].status]]
      ELSE [d \in DOMAIN series |->
              [series[d] EXCEPT
                 !.value = IF @ = Missing THEN onDay(d).value ELSE @ + onDay(d).value,
                 !.status = Combined({@, onDay(d).status})]]

\* merge_cash_into_value_timeseries: an unknown value stays unknown.
WithCash(series, cash) ==
  LET onDay(d) == IF d \in DOMAIN cash THEN cash[d] ELSE [value |-> 0, status |-> "ok"]
  IN  IF cash = <<>> THEN series
      ELSE IF series = <<>>
      THEN [d \in DOMAIN cash |->
              [value |-> cash[d].value, invested |-> 0, status |-> cash[d].status]]
      ELSE [d \in DOMAIN series |->
              [series[d] EXCEPT
                 !.value = IF @ = Missing THEN Missing ELSE @ + onDay(d).value,
                 !.status = Combined({@, onDay(d).status})]]

-----------------------------------------------------------------------------
\* Fixed deposits and bank accounts.

OnRecord(ps) == {fd \in Deposits : fd.portfolio \in ps /\ fd.from <= today}
IsSettled(fd) == fd.until <= today

\* Mutant: the day of the settlement still counts.
CountsThroughSettlement(fd, d) == fd.from <= d /\ (IsSettled(fd) => d <= fd.until)

\* _fd_contributes_principal_on_date
Contributes(fd, d) == fd.from <= d /\ (IsSettled(fd) => d < fd.until)

RowsOf(a) == {r \in a.rows : r.day <= today}

\* bank_account_includable_in_scope: on its own, a portfolio gets the accounts that are
\* associated with it and with no other.
Includable(ps, all) ==
  {a \in Accounts : RowsOf(a) # {} /\ (all \/ a.portfolios = ps)}

Balance(a, d) == Total(LAMBDA r : r.amount, {r \in RowsOf(a) : r.day <= d})

\* What a set of amounts is worth: those without a rate are left out.
Worths(items, amount(_), unit, d, since) ==
  LET held == {i \in items : amount(i) > 0}
      found == [i \in held |-> Lookup(rates, i.ccy, unit, d, since)]
  IN  [value   |-> Total(LAMBDA i : Converted(amount(i), i.ccy, unit, found[i]),
                         {i \in held : found[i].day # 0}),
       missing |-> \E i \in held : found[i].day = 0]

AsTotals(worth) ==
  [invested |-> worth.value, value |-> worth.value, realized |-> 0, missing |-> worth.missing]

\* calculate_fd_holdings_for_scope and calculate_bank_cash_for_scope: rates of the day only.
DepositTotals(ps, unit) ==
  AsTotals(Worths({fd \in OnRecord(ps) : ~IsSettled(fd)}, LAMBDA fd : fd.principal,
                  unit, today, today))

BankTotals(ps, all, unit) ==
  AsTotals(Worths(Includable(ps, all), LAMBDA a : Balance(a, today), unit, today, today))

\* value_timeseries_inception_date, as a set with that day or none.
DebtStart(ps, all) ==
  LET days == {fd.from : fd \in OnRecord(ps)}
              \cup {r.day : r \in UNION {RowsOf(a) : a \in Includable(ps, all)}}
  IN  IF days = {} THEN {} ELSE {Min(days)}

\* build_fd_value_timeseries and build_bank_cash_value_timeseries.
DepositSeries(ps, from, to) ==
  IF OnRecord(ps) = {} THEN <<>>
  ELSE [d \in from..to |->
          Worths({fd \in OnRecord(ps) : Contributes(fd, d)}, LAMBDA fd : fd.principal, Display, d, from)]

BankSeries(ps, all, from, to) ==
  IF Includable(ps, all) = {} THEN <<>>
  ELSE [d \in from..to |-> Worths(Includable(ps, all), LAMBDA a : Balance(a, d), Display, d, from)]

\* merge_fd_bank_into_value_timeseries.  Days before the series count their deposits
\* and accounts alone, days after it go on from its last known value.
WithDebt(series, deposits, bank, from, to) ==
  LET none == [value |-> 0, missing |-> FALSE]
      onDay(s, d) == IF d \in DOMAIN s THEN s[d] ELSE none
      addon(d) == onDay(deposits, d).value + onDay(bank, d).value
      status(d) == IF onDay(deposits, d).missing \/ onDay(bank, d).missing
                   THEN "fx_unavailable" ELSE "ok"
      days == (DOMAIN series \cup DOMAIN deposits \cup DOMAIN bank) \cap from..to
      known(d) == {e \in DOMAIN series \cap from..d : series[e].value # Missing}
      row(d) == IF d \in DOMAIN series THEN series[d]
                ELSE [value    |-> IF known(d) = {} THEN 0 ELSE series[Max(known(d))].value,
                      invested |-> 0, status |-> "ok"]
  IN  IF deposits = <<>> /\ bank = <<>> THEN series
      ELSE IF series = <<>>
      THEN [d \in {e \in days : addon(e) > 0} |->
              [value |-> addon(d), invested |-> 0, status |-> status(d)]]
      ELSE [d \in days |->
              [row(d) EXCEPT !.value = IF @ = Missing THEN Missing ELSE @ + addon(d),
                             !.status = Combined({@, status(d)})]]

WithBoth(series, ps, all, from, to) ==
  WithDebt(series, DepositSeries(ps, from, to), BankSeries(ps, all, from, to), from, to)
=============================================================================
