------------------------------ MODULE MCReturns ------------------------------
(* Two lines, the first of them bought twice, two submissions of either type. *)
EXTENDS Returns, TLC

CONSTANTS a, b, s1, s2, h1, h2

MCPurchased == [l \in Lines |-> IF l = a THEN 2 ELSE 1]
Mixed == [s \in Submissions |-> {"STANDARD", "REFURBISHMENT"}]
Alike == Permutations({s1, s2}) \cup Permutations({h1, h2})
=============================================================================
