----------------------------- MODULE ProductReads ----------------------------
(***************************************************************************)
(* What the product service promises to those who read products, whatever  *)
(* caches, fills and invalidations lie behind it.  A product has committed *)
(* versions 1 .. latest; a reader is shown some of the versions from       *)
(* oldest to latest, never one that is not committed and never one that    *)
(* has died out: what is older than every remaining copy does not return.  *)
(***************************************************************************)
EXTENDS Integers

CONSTANTS Products,       \* products that exist or may be created
          Readers         \* requests that read products

VARIABLES latest,   \* the newest committed version, 0 if there is none
          oldest,   \* the oldest version anyone may still be shown
          shown     \* the versions each reader was shown
vars == <<latest, oldest, shown>>

Version == [product: Products, version: Nat]

Init ==
  /\ latest \in [Products -> Nat]
  /\ oldest = latest
  /\ shown = [r \in Readers |-> {}]

\* Old copies are dropped, by a step of any kind or by none.
Forget ==
  /\ oldest' \in [Products -> Nat]
  /\ \A p \in Products : oldest'[p] \in oldest[p] .. latest'[p]

Write(p) ==
  /\ latest' = [latest EXCEPT ![p] = @ + 1]
  /\ UNCHANGED shown

\* A reader is shown one product or a page of them, once.
Show(r, versions) ==
  /\ shown[r] = {}
  /\ \A v \in versions : v.version \in oldest[v.product] .. latest[v.product]
  /\ shown' = [shown EXCEPT ![r] = versions]
  /\ UNCHANGED latest

Next ==
  /\ \/ UNCHANGED <<latest, shown>>
     \/ \E p \in Products : Write(p)
     \/ \E r \in Readers : shown'[r] \in SUBSET Version /\ Show(r, shown'[r])
  /\ Forget

Spec == Init /\ [][Next]_vars
=============================================================================
