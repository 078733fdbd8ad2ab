----------------------------- MODULE MCSharing -----------------------------
(* Three checkouts of two customers.                                       *)
EXTENDS Sharing, TLC

CONSTANTS c1, c2, number, p1, p2, p3, anna, ben

Carts == (p1 :> anna) @@ (p2 :> anna) @@ (p3 :> ben)
=============================================================================
