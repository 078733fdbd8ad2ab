---------------------------- MODULE MCFulfilment ----------------------------
(* A small order and the handlers that work on it.                         *)
EXTENDS Fulfilment, TLC

CONSTANTS a, b, r1, r2

Alike == Permutations({a, b}) \cup Permutations({r1, r2})
=============================================================================
