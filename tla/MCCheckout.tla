----------------------------- MODULE MCCheckout -----------------------------
(* One buyer with two checkouts of the same product.                       *)
EXTENDS Checkout, TLC

CONSTANTS h1, h2, h3, i1, i2

OneEach == [i \in Intents |-> 1]
Symmetric == Permutations(Handlers)
=============================================================================
