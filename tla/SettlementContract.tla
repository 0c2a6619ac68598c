------------------------- MODULE SettlementContract -------------------------
(***************************************************************************)
(* What the settlement of trades promises, without rows, surpluses and     *)
(* tests: how much cash each trade has booked, and where.  A trade written *)
(* in a cash-aware portfolio has exactly its own cash, rounded, booked     *)
(* there, once; writing it elsewhere leaves what is booked alone; a trade  *)
(* disappears with its booking; a backfill books only trades that have     *)
(* nothing.                                                                *)
(* Settlement implements this.                                             *)
(***************************************************************************)
EXTENDS Integers

CONSTANT Rounded(_)   \* the amount of the ledger for what a trade costs or brings

VARIABLES
  trades,   \* a function from ids to trades
  booked,   \* for each trade, where its cash is booked and how much, or Nothing
  aware     \* for each portfolio, whether it is cash aware

contractVars == <<trades, booked, aware>>

Booking(trade, net) ==
  [portfolio |-> trade.portfolio, day |-> trade.day, currency |-> trade.currency, net |-> net]
Nothing == [net |-> 0]

Settles(trade) == trade.type \in {"BUY", "SELL"}

\* A sale brings what was really received when that is known.
NetCash(trade) ==
  IF trade.type = "BUY" THEN -Rounded(trade.gross)
  ELSE IF trade.actual = 0 THEN Rounded(trade.gross) ELSE trade.actual

ProperBooking(trade) == IF Settles(trade) THEN Booking(trade, NetCash(trade)) ELSE Nothing

\* A backfill books a sale without the tax that was withheld from it.
GrossBooking(trade) ==
  Booking(trade, IF trade.type = "BUY" THEN -Rounded(trade.gross) ELSE Rounded(trade.gross))

-----------------------------------------------------------------------------
Init == trades = <<>> /\ booked = <<>>

Untouched(t) ==
  /\ t \in DOMAIN trades
  /\ trades'[t] = trades[t] /\ booked'[t] = booked[t]

Written(t) ==
  booked'[t] = IF aware[trades'[t].portfolio] THEN ProperBooking(trades'[t])
               ELSE IF t \in DOMAIN trades THEN booked[t] ELSE Nothing

\* One trade, or the rows of a file: every other trade is untouched.
WriteTrades ==
  /\ DOMAIN trades \subseteq DOMAIN trades' /\ DOMAIN booked' = DOMAIN trades'
  /\ \A t \in DOMAIN trades' : Untouched(t) \/ Written(t)
  /\ UNCHANGED aware

RemoveTrade ==
  /\ \E t \in DOMAIN trades :
       /\ aware[trades[t].portfolio] \/ booked[t] = Nothing
       /\ trades' = [s \in DOMAIN trades \ {t} |-> trades[s]]
       /\ booked' = [s \in DOMAIN trades \ {t} |-> booked[s]]
  /\ UNCHANGED aware

Backfill ==
  /\ UNCHANGED <<trades, aware>>
  /\ DOMAIN booked' = DOMAIN trades
  /\ \A t \in DOMAIN trades :
       \/ booked'[t] = booked[t]
       \/ booked[t] = Nothing /\ Settles(trades[t]) /\ booked'[t] = GrossBooking(trades[t])

SwitchAwareness == UNCHANGED <<trades, booked>>

Next == SwitchAwareness \/ Backfill \/ WriteTrades \/ RemoveTrade

Spec == Init /\ [][Next]_contractVars
=============================================================================
