------------------------- MODULE PortfolioRegistry -------------------------
(***************************************************************************)
(* The user's portfolios (portfolios/services.py).  The first one is made  *)
(* at registration and stays the default.  Rows are never deleted, only    *)
(* deactivated, so the table is a sequence.  Names that differ only in     *)
(* case are one value, which is how the duplicate test compares them.      *)
(* Descriptions and the base currency are left out.                        *)
(***************************************************************************)
EXTENDS CashBook

CONSTANTS
  Names,          \* names a new portfolio may get
  Renames,        \* names an update may carry
  DefaultName,    \* DEFAULT_PORTFOLIO_NAME
  VirtualName,    \* "All Portfolios", which no row may have
  MaxActive,      \* MAX_ACTIVE_PORTFOLIOS
  MaxPortfolios   \* bound on the rows of the table

ASSUME RegistryAssumption ==
  /\ DefaultName # VirtualName
  /\ MaxActive \in Nat \ {0} /\ MaxPortfolios \in Nat \ {0}

VARIABLE portfolios

Portfolios == DOMAIN portfolios
IsActive(p) == portfolios[p].is_active
IsCashAware(p) == portfolios[p].cash_aware
ActivePortfolios == {p \in Portfolios : IsActive(p)}

RegistryTypeOK ==
  portfolios \in Seq([name : Names \cup Renames \cup {DefaultName}, is_default : BOOLEAN,
                      is_active : BOOLEAN, cash_aware : BOOLEAN])

-----------------------------------------------------------------------------
\* ensure_default_portfolio at registration: a cash-aware default.
RegistryInit ==
  portfolios = <<[name |-> DefaultName, is_default |-> TRUE,
                  is_active |-> TRUE, cash_aware |-> TRUE]>>

ActiveNameExists(name, exclude) ==
  \E p \in ActivePortfolios \ exclude : portfolios[p].name = name

RoomForActive == Cardinality(ActivePortfolios) < MaxActive

CreatePortfolio(name, aware) ==
  /\ Len(portfolios) < MaxPortfolios
  /\ name # VirtualName
  /\ ~ActiveNameExists(name, {})
  /\ RoomForActive
  /\ portfolios' = Append(portfolios,
       [name |-> name, is_default |-> FALSE, is_active |-> TRUE, cash_aware |-> aware])

\* Mutant: a portfolio that comes back is not counted.
UpdateWithoutLimit(p, names, active, aware) ==
  /\ \A name \in names : name # VirtualName /\ ~ActiveNameExists(name, {p})
  /\ ~active => ~portfolios[p].is_default
  /\ portfolios' = [portfolios EXCEPT
       ![p].name = IF names = {} THEN @ ELSE CHOOSE name \in names : TRUE,
       ![p].is_active = active, ![p].cash_aware = aware]

\* `names` is the name sent, as a singleton, or empty when none is sent.  The name
\* is compared only when it is sent: a portfolio can come back under its old name.
\* A flag left out is the same as the flag sent with its old value.
UpdatePortfolio(p, names, active, aware) ==
  /\ \A name \in names : name # VirtualName /\ ~ActiveNameExists(name, {p})
  /\ ~active => ~portfolios[p].is_default
  /\ active /\ ~IsActive(p) => RoomForActive
  /\ portfolios' = [portfolios EXCEPT
       ![p].name = IF names = {} THEN @ ELSE CHOOSE name \in names : TRUE,
       ![p].is_active = active, ![p].cash_aware = aware]

DeactivatePortfolio(p) ==
  /\ ~portfolios[p].is_default
  /\ portfolios' = [portfolios EXCEPT ![p].is_active = FALSE]

RegistryNext ==
  \/ \E name \in Names, aware \in BOOLEAN : CreatePortfolio(name, aware)
  \/ \E p \in Portfolios, active \in BOOLEAN, aware \in BOOLEAN :
       \E names \in {{}} \cup {{name} : name \in Renames} :
         UpdatePortfolio(p, names, active, aware)
  \/ \E p \in Portfolios : DeactivatePortfolio(p)

-----------------------------------------------------------------------------
\* However portfolios are created, switched off and brought back, one portfolio is
\* the default, it is active, and no more than the limit are active at once.
ActiveWithinLimit ==
  /\ \E p \in ActivePortfolios : \A q \in Portfolios : portfolios[q].is_default <=> q = p
  /\ Cardinality(ActivePortfolios) <= MaxActive
=============================================================================
