-------------------------------- MODULE Deals --------------------------------
(***************************************************************************)
(* Deals and the time they run                                             *)
(*   src/services/product/go/internal/handler/product.go                   *)
(*   src/services/product/go/internal/grpc/server.go                       *)
(*   src/services/product/go/internal/db/query.sql.go                      *)
(*                                                                         *)
(* A deal is written once and then only read: no statement updates or      *)
(* deletes it, and sales leave its remaining stock alone.                  *)
(***************************************************************************)
EXTENDS Integers, FiniteSets

CONSTANTS Products,
          Offers,         \* the deals that may be asked for
          MaxTime         \* bound: the last instant

Deal == [product: Products, price: Int, stock: Int, remaining: Int,
         starts: Nat, ends: Nat]

ASSUME OfferAssumption == Offers \subseteq Deal /\ IsFiniteSet(Offers)
ASSUME TimeAssumption == MaxTime \in Nat

VARIABLES now,     \* the clock
          deals    \* the deals created

dealVars == <<now, deals>>

DealsInit ==
  /\ now = 0
  /\ deals = {}

\* The CHECKs of the table.
Valid(d) ==
  /\ d.price >= 0
  /\ d.stock >= 1
  /\ d.remaining \in 0 .. d.stock
  /\ d.ends > d.starts

Tick ==
  /\ now < MaxTime
  /\ now' = now + 1
  /\ UNCHANGED deals

CreateDeal(d) ==
  /\ d \notin deals
  /\ Valid(d)
  /\ deals' = deals \cup {d}
  /\ UNCHANGED now

Running(d, t) == d.starts <= t /\ t <= d.ends

Active(t) == {d \in deals : Running(d, t) /\ d.remaining > 0}

\* The sets of deals a page may hold: the order is that of the starts, and
\* deals that start together come in any order.
ActivePages(t, limit, skip) ==
  {page \in SUBSET Active(t) :
     LET rest == Cardinality(Active(t)) - skip IN
     /\ Cardinality(page) = IF rest < 0 THEN 0 ELSE IF rest < limit THEN rest ELSE limit
     /\ \A d \in page : Cardinality({e \in Active(t) : e.starts > d.starts}) < skip + limit}

\* Slip: the count asks for the time again.
CountNow(t) == Cardinality(Active(now))
CountActiveDeals(t) == Cardinality(Active(t))

getDealStatus(d) == "active"

\* What the order service is told of a deal.
GetDeal(d) == [product |-> d.product, price |-> d.price, status |-> getDealStatus(d)]

DealsTypeOK ==
  /\ now \in 0 .. MaxTime
  /\ deals \subseteq Offers
=============================================================================
