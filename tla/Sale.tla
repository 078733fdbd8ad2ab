-------------------------------- MODULE Sale --------------------------------
(***************************************************************************)
(* What a checkout promises (services/checkout-intent.service.js), whatever *)
(* deliveries, pages, sweeps and failures make of it: whoever has paid gets  *)
(* one order at most, the units and the store credit of an order leave the   *)
(* stock and the wallet with it, together, and nothing else takes any.       *)
(***************************************************************************)
EXTENDS Integers

CONSTANTS
    Intents,        \* checkouts
    Qty,            \* the units of each
    InitialStock, InitialCredit

VARIABLES
    paid,     \* checkouts whose payment has succeeded
    sales,    \* their orders, with the store credit each captured
    stock,
    balance   \* store credit of the buyer

vars == <<paid, sales, stock, balance>>

Init ==
    /\ paid = {} /\ sales = {}
    /\ stock = InitialStock /\ balance = InitialCredit

Pay(i) ==
    /\ paid' = paid \cup {i}
    /\ UNCHANGED <<sales, stock, balance>>

Sell(i) ==
    /\ i \in paid /\ \A s \in sales : s.intent # i
    /\ \E credit \in 0 .. balance :
          /\ sales' = sales \cup {[intent |-> i, credit |-> credit]}
          /\ balance' = balance - credit
    /\ stock' = stock - Qty[i]
    /\ UNCHANGED paid

Next == \E i \in Intents : Pay(i) \/ Sell(i)

Spec == Init /\ [][Next]_vars
=============================================================================
