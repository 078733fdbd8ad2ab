----------------------------- MODULE MCAccounts -----------------------------
(* One account with two addresses and one order.                           *)
EXTENDS Accounts, TLC

CONSTANTS home, work, o1, h1, h2

HandlersAreAlike == Permutations(Handlers)
=============================================================================
