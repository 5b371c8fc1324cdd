------------------------------ MODULE MCCheckout ------------------------------
(***************************************************************************)
(* A small instance of Checkout: one product at two prices, a deal of it   *)
(* that runs at instants 0 and 1, and integers of four bits, so that a     *)
(* subtotal and a total wrap to negative and to positive amounts; a        *)
(* quantity of -2 makes a subtotal of either sign.                         *)
(***************************************************************************)
EXTENDS Checkout, TLC

CONSTANTS p1, p2

MCDeal == [product |-> p1, price |-> 1, stock |-> 2, remaining |-> 2, starts |-> 0, ends |-> 1]
MCOffers == {MCDeal}
MCPrices == [p \in Products |-> {3, 5}]
MCCarts == {
  <<[product |-> p1, deal |-> None, quantity |-> 1], [product |-> p1, deal |-> MCDeal, quantity |-> 3]>>,
  <<[product |-> p1, deal |-> None, quantity |-> 4]>>,
  <<[product |-> p1, deal |-> None, quantity |-> -2]>>,
  <<[product |-> p2, deal |-> MCDeal, quantity |-> 1]>>}
=============================================================================
