---------------------------- MODULE MCInventory ----------------------------
(* One new product row, sold from two units up, and one refurbished one.   *)
EXTENDS Inventory, TLC

CONSTANTS t1, t2, t3

MCMinSellable == [k \in Skus |-> IF k = "new" THEN 2 ELSE 1]

Symmetric == Permutations(Txs)
=============================================================================
