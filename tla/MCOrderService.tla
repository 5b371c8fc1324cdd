--------------------------- MODULE MCOrderService ----------------------------
(***************************************************************************)
(* Small instances of OrderService: carts of one item, of two products, of *)
(* the same product twice, of a negative quantity, with a wrapped total;   *)
(* one or two units in stock and a column for two, so that carts           *)
(* compete, a second item is refused after the first was taken, and a      *)
(* stock that was added to overflows.                                      *)
(***************************************************************************)
EXTENDS OrderService, TLC

CONSTANTS p1, p2

Of(p, q) == [product |-> p, quantity |-> q, wraps |-> FALSE]
One(p) == Of(p, 1)
Wrapped == [One(p1) EXCEPT !.wraps = TRUE]
MCCarts ==
  {<<One(p1)>>, <<One(p1), One(p2)>>, <<One(p2), One(p2)>>, <<One(p1), Of(p2, -2)>>, <<Wrapped>>}
MCTwice == {<<One(p1), One(p1)>>}
MCPair == {<<One(p1), One(p2)>>}
MCStock == [p \in Products |-> IF p = p1 THEN 2 ELSE 1]
MCSymmetry == Permutations(Orders) \cup Permutations(Visits)
=============================================================================
