----------------------------- MODULE MCRefunds -----------------------------
(* An order of up to three lines, and who works on it.                     *)
EXTENDS Refunds, TLC

CONSTANTS a, b, c, h1, h2, h3

MCPrice == [l \in Lines |-> IF l = b THEN 4 ELSE 2]

Desk == [h \in Handlers |-> {"admin", "return", "shelve"}]
HandlersAreAlike == Permutations(Handlers)
Buyer == [h \in Handlers |-> IF h = h1 THEN {"cancel"} ELSE {"hook"}]
=============================================================================
