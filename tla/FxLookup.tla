------------------------------ MODULE FxLookup ------------------------------
(***************************************************************************)
(* Conversions through cached exchange rates (fx/lookup.py).               *)
(*                                                                         *)
(* A cached rate is a triple <<from, to, day>>; what it says is given by   *)
(* Worth, what one unit of a currency is worth on a day, so a pair and its *)
(* inverse always agree.  Instances choose Worth and the amounts so that   *)
(* every division is exact.  An amount converted without a rate is Missing.*)
(***************************************************************************)
EXTENDS Integers, FiniteSets, FiniteSetsExt

CONSTANTS
  Currencies,
  Display,        \* the display currency of the settings
  Worth,          \* Worth[currency][day]
  LastDay,        \* bound on the days of an instance
  FillDays        \* max_fill_days and FX_LOOKBACK_DAYS, which are both 7

Days == 1..LastDay

ASSUME FxAssumption ==
  /\ Display \in Currencies
  /\ LastDay \in Nat \ {0} /\ FillDays \in Nat \ {0}
  /\ Worth \in [Currencies -> [Days -> Nat \ {0}]]

Missing == -1000000

Larger(a, b) == IF a < b THEN b ELSE a

\* Days up to d on which a rate of the pair, or of its inverse, is at hand.
RateDays(rates, from, to, since, d) ==
  {e \in since..d : <<from, to, e>> \in rates \/ <<to, from, e>> \in rates}

\* The rate of a day, else the latest one of those known.
Nearest(known, same, d) ==
  IF same \/ d \in known THEN [day |-> d, status |-> "ok"]
  ELSE IF known # {} THEN [day |-> Max(known), status |-> "filled"]
  ELSE [day |-> 0, status |-> "fx_unavailable"]

\* fx_lookup_from_maps on maps loaded with rates from `since` on: the rate of the day,
\* else the latest of the FillDays days before it.
Lookup(rates, from, to, d, since) ==
  Nearest(RateDays(rates, from, to, Larger(since, d - FillDays), d), from = to, d)

\* convert_amount_with_fill asks the database, where the fill alone is the limit.
LookupStored(rates, from, to, d) == Lookup(rates, from, to, d, 1)

Converted(amount, from, to, found) ==
  IF found.day = 0 THEN Missing
  ELSE (amount * Worth[from][found.day]) \div Worth[to][found.day]

\* _combine_fx_status
Combined(statuses) ==
  IF "fx_unavailable" \in statuses THEN "fx_unavailable"
  ELSE IF "filled" \in statuses THEN "filled"
  ELSE "ok"
=============================================================================
