----------------------------- MODULE SumTheorems -----------------------------
(***************************************************************************)
(* Sums over a finite set, of whatever the values of a function are: what   *)
(* SumFunctionOnSet of the community modules computes.  It is defined by    *)
(* recursion over the set, so each fact is proved by induction over finite  *)
(* sets, and the induction as the absence of a least counterexample, which  *)
(* needs no operator as a parameter.                                        *)
(***************************************************************************)
EXTENDS Integers, Functions, FiniteSets, FiniteSetTheorems, WellFoundedInduction, TLAPS

(* A set of numbers has a least one.                                        *)
LEMMA LeastNumber ==
    ASSUME NEW T \in SUBSET Nat, T # {}
    PROVE  \E n \in T : \A m \in T : n <= m
  <1> DEFINE R == {ss \in Nat \X Nat : ss[1] < ss[2]}
  <1>1. IsWellFoundedOn(R, Nat)
        BY Zenon, NatLessThanWellFounded DEF OpToRel
  <1>2. \E x \in T : \A y \in T : ~ (<<y, x>> \in R)
    <2> HIDE DEF R
    <2> QED  BY <1>1, WFMin
  <1>3. PICK n \in T : \A m \in T : ~ (<<m, n>> \in R)
        BY <1>2
  <1>4. ASSUME NEW m \in T PROVE n <= m
    <2>1. <<m, n>> \in Nat \X Nat /\ <<m, n>> \notin R
          BY <1>3
    <2>2. ~ (m < n)
          BY <2>1
    <2> QED  BY <2>2
  <1> QED  BY <1>4

(* A family of subsets of a finite set has one that contains no other.      *)
LEMMA LeastSet ==
    ASSUME NEW S, IsFiniteSet(S), NEW X \in SUBSET (SUBSET S), X # {}
    PROVE  \E T \in X : \A U \in SUBSET T : U # T => U \notin X
  <1> DEFINE sizes == {Cardinality(T) : T \in X}
  <1>1. \A T \in X : IsFiniteSet(T) /\ Cardinality(T) \in Nat
        BY FS_Subset, FS_CardinalityType
  <1>2. PICK n \in sizes : \A m \in sizes : n <= m
    <2>1. sizes \in SUBSET Nat /\ sizes # {}
          BY <1>1
    <2> HIDE DEF sizes
    <2> QED  BY <2>1, LeastNumber
  <1>3. PICK T \in X : Cardinality(T) = n
        OBVIOUS
  <1>4. ASSUME NEW U \in SUBSET T, U # T PROVE U \notin X
    <2>1. Cardinality(U) <= Cardinality(T) /\ Cardinality(U) # Cardinality(T)
          BY <1>1, <1>4, FS_Subset
    <2>2. SUFFICES ASSUME U \in X PROVE FALSE
          OBVIOUS
    <2> QED  BY <1>1, <1>2, <1>3, <2>1, <2>2
  <1> QED  BY <1>4

-----------------------------------------------------------------------------
(* g has the sum of f over each subset of S, taking its elements one by one *)
(* in the order of CHOOSE.                                                  *)
Pick(s) == CHOOSE x \in s : TRUE
Adds(g, f, S) ==
    g = [s \in SUBSET S |-> IF s = {} THEN 0 ELSE f[Pick(s)] + g[s \ {Pick(s)}]]

LEMMA SumIs ==
    ASSUME NEW f, NEW S
    PROVE  SumFunctionOnSet(f, S) = (CHOOSE g : Adds(g, f, S))[S]
  BY DEF SumFunctionOnSet, FoldFunctionOnSet, MapThenFoldSet, Adds, Pick

LEMMA AddsAt ==
    ASSUME NEW f, NEW S, NEW g, Adds(g, f, S)
    PROVE  /\ g[{}] = 0
           /\ \A s \in SUBSET S : s # {} => /\ Pick(s) \in s
                                            /\ g[s] = f[Pick(s)] + g[s \ {Pick(s)}]
  <1>1. \A s : s # {} => Pick(s) \in s
        BY DEF Pick
  <1>2. \A s \in SUBSET S : g[s] = IF s = {} THEN 0 ELSE f[Pick(s)] + g[s \ {Pick(s)}]
        BY DEF Adds
  <1> QED  BY <1>1, <1>2

(* Two of them agree.                                                       *)
LEMMA AddsAgree ==
    ASSUME NEW f, NEW S, NEW T, NEW g, NEW h, Adds(g, f, S), Adds(h, f, T),
           NEW U, IsFiniteSet(U), U \subseteq S, U \subseteq T
    PROVE  g[U] = h[U]
  <1> DEFINE X == {V \in SUBSET U : g[V] # h[V]}
  <1>1. SUFFICES ASSUME X # {} PROVE FALSE
        OBVIOUS
  <1>2. PICK V \in X : \A W \in SUBSET V : W # V => W \notin X
    <2>1. X \in SUBSET (SUBSET U)
          OBVIOUS
    <2> HIDE DEF X
    <2> QED  BY <1>1, <2>1, LeastSet
  <1>3. CASE V = {}
        BY <1>3, AddsAt
  <1>4. CASE V # {}
    <2>1. /\ Pick(V) \in V
          /\ g[V] = f[Pick(V)] + g[V \ {Pick(V)}]
          /\ h[V] = f[Pick(V)] + h[V \ {Pick(V)}]
          BY <1>4, AddsAt
    <2>2. V \ {Pick(V)} \in SUBSET V /\ V \ {Pick(V)} # V
          BY <2>1
    <2> QED  BY <1>2, <2>1, <2>2
  <1> QED  BY <1>3, <1>4

LEMMA AddsExist ==
    ASSUME NEW f, NEW S, IsFiniteSet(S)
    PROVE  \E g : Adds(g, f, S)
  <1> DEFINE X == {T \in SUBSET S : ~ \E g : Adds(g, f, T)}
             Sum(T) == (CHOOSE g : Adds(g, f, T))[T]
  <1>1. SUFFICES ASSUME X # {} PROVE FALSE
        OBVIOUS
  <1>2. PICK T \in X : \A U \in SUBSET T : U # T => U \notin X
    <2>1. X \in SUBSET (SUBSET S)
          OBVIOUS
    <2> HIDE DEF X
    <2> QED  BY <1>1, <2>1, LeastSet
  <1>3. ASSUME NEW U \in SUBSET T, U # T
        PROVE  Adds(CHOOSE g : Adds(g, f, U), f, U) /\ IsFiniteSet(U)
    <2>1. U \in SUBSET S
          OBVIOUS
    <2>2. \E g : Adds(g, f, U)
          BY <1>2, <1>3, <2>1
    <2> QED  BY <2>1, <2>2, FS_Subset
  <1>4. ASSUME NEW U \in SUBSET T, U # T
        PROVE  Sum(U) = IF U = {} THEN 0 ELSE f[Pick(U)] + Sum(U \ {Pick(U)})
    <2> DEFINE g == CHOOSE g : Adds(g, f, U)
               V == U \ {Pick(U)}
    <2>1. Adds(g, f, U)
          BY <1>3, <1>4
    <2>2. CASE U = {}
      <3> HIDE DEF g
      <3>1. g[{}] = 0
            BY <2>1, AddsAt
      <3> QED  BY <2>2, <3>1 DEF g
    <2>3. CASE U # {}
      <3>1. Pick(U) \in U /\ g[U] = f[Pick(U)] + g[V]
        <4> HIDE DEF g
        <4> QED  BY <2>1, <2>3, AddsAt
      <3>2. V \in SUBSET T /\ V # T /\ V \subseteq U
            BY <1>4, <3>1
      <3>3. g[V] = Sum(V)
        <4> DEFINE h == CHOOSE h : Adds(h, f, V)
        <4>1. Adds(h, f, V) /\ IsFiniteSet(V)
              BY <1>3, <3>2
        <4>2. g[V] = h[V]
          <5> HIDE DEF g, h
          <5> QED  BY <2>1, <3>2, <4>1, AddsAgree
        <4> QED  BY <4>2
      <3> QED  BY <2>3, <3>1, <3>3
    <2> QED  BY <2>2, <2>3
  <1>5. Adds([U \in SUBSET T |-> IF U = {} THEN 0 ELSE f[Pick(U)] + Sum(U \ {Pick(U)})], f, T)
    <2> HIDE DEF Sum
    <2> DEFINE g == [U \in SUBSET T |-> IF U = {} THEN 0 ELSE f[Pick(U)] + Sum(U \ {Pick(U)})]
    <2>1. ASSUME NEW U \in SUBSET T, U # T PROVE g[U] = Sum(U)
          BY <1>4, <2>1
    <2>2. ASSUME NEW U \in SUBSET T, U # {}
          PROVE  U \ {Pick(U)} \in SUBSET T /\ U \ {Pick(U)} # T
          BY <2>2 DEF Pick
    <2>3. g = [U \in SUBSET T |-> IF U = {} THEN 0 ELSE f[Pick(U)] + g[U \ {Pick(U)}]]
          BY <2>1, <2>2
    <2> QED  BY <2>3 DEF Adds
  <1> QED  BY <1>2, <1>5

-----------------------------------------------------------------------------
(* The sum over the empty set, and over a set from which one is taken.      *)
LEMMA SumEmpty == ASSUME NEW f PROVE SumFunctionOnSet(f, {}) = 0
  <1>1. PICK g : Adds(g, f, {})
        BY AddsExist, FS_EmptySet
  <1>2. Adds(CHOOSE h : Adds(h, f, {}), f, {})
        BY <1>1
  <1> QED  BY <1>2, AddsAt, SumIs

LEMMA SumPick ==
    ASSUME NEW f, NEW S, IsFiniteSet(S), S # {}
    PROVE  /\ Pick(S) \in S
           /\ SumFunctionOnSet(f, S) = f[Pick(S)] + SumFunctionOnSet(f, S \ {Pick(S)})
  <1> DEFINE g == CHOOSE g : Adds(g, f, S)
             V == S \ {Pick(S)}
             h == CHOOSE h : Adds(h, f, V)
  <1>1. IsFiniteSet(V)
        BY FS_RemoveElement
  <1>2. Adds(g, f, S) /\ Adds(h, f, V)
        BY <1>1, AddsExist
  <1>3. SumFunctionOnSet(f, S) = g[S] /\ SumFunctionOnSet(f, V) = h[V]
        BY SumIs
  <1> HIDE DEF g, h
  <1>4. Pick(S) \in S /\ g[S] = f[Pick(S)] + g[V]
        BY <1>2, AddsAt
  <1>5. g[V] = h[V]
        BY <1>1, <1>2, AddsAgree
  <1> QED  BY <1>3, <1>4, <1>5

(* The sum of integers is an integer.                                       *)
LEMMA SumInt ==
    ASSUME NEW f, NEW S, IsFiniteSet(S), \A x \in S : f[x] \in Int
    PROVE  SumFunctionOnSet(f, S) \in Int
  <1> DEFINE X == {T \in SUBSET S : SumFunctionOnSet(f, T) \notin Int}
  <1>1. SUFFICES ASSUME X # {} PROVE FALSE
        OBVIOUS
  <1>2. PICK T \in X : \A U \in SUBSET T : U # T => U \notin X
    <2>1. X \in SUBSET (SUBSET S)
          OBVIOUS
    <2> HIDE DEF X
    <2> QED  BY <1>1, <2>1, LeastSet
  <1>3. T # {} /\ IsFiniteSet(T)
    <2>1. CASE T = {}
      <3>1. SumFunctionOnSet(f, T) = 0
            BY <2>1, SumEmpty
      <3> QED  BY <3>1
    <2> QED  BY <2>1, FS_Subset
  <1>4. /\ Pick(T) \in T
        /\ SumFunctionOnSet(f, T) = f[Pick(T)] + SumFunctionOnSet(f, T \ {Pick(T)})
        BY <1>3, SumPick
  <1>5. T \ {Pick(T)} \in SUBSET T /\ T \ {Pick(T)} # T
        BY <1>4
  <1>6. SumFunctionOnSet(f, T \ {Pick(T)}) \in Int
        BY <1>2, <1>5
  <1> QED  BY <1>4, <1>6

(* Any element may be taken from the set.                                   *)
LEMMA SumRemove ==
    ASSUME NEW f, NEW S, IsFiniteSet(S), \A x \in S : f[x] \in Int, NEW x \in S
    PROVE  SumFunctionOnSet(f, S) = f[x] + SumFunctionOnSet(f, S \ {x})
  <1> DEFINE Sum(T) == SumFunctionOnSet(f, T)
             X == {T \in SUBSET S : \E y \in T : Sum(T) # f[y] + Sum(T \ {y})}
  <1>1. SUFFICES ASSUME X # {} PROVE FALSE
        OBVIOUS
  <1>2. PICK T \in X : \A U \in SUBSET T : U # T => U \notin X
    <2>1. X \in SUBSET (SUBSET S)
          OBVIOUS
    <2> HIDE DEF X
    <2> QED  BY <1>1, <2>1, LeastSet
  <1>3. PICK y \in T : Sum(T) # f[y] + Sum(T \ {y})
        OBVIOUS
  <1> DEFINE c == Pick(T)
  <1>4. \A U \in SUBSET S : IsFiniteSet(U) /\ Sum(U) \in Int
        BY SumInt, FS_Subset
  <1>5. c \in T /\ Sum(T) = f[c] + Sum(T \ {c})
        BY <1>4, SumPick
  <1> HIDE DEF Sum, c
  <1>6. Sum(T \ {c}) = f[y] + Sum((T \ {c}) \ {y})
    <2>1. c # y
          BY <1>3, <1>5
    <2>2. y \in T \ {c} /\ T \ {c} \in SUBSET T /\ T \ {c} # T
          BY <1>5, <2>1
    <2> QED  BY <1>2, <2>2
  <1>7. Sum(T \ {y}) = f[c] + Sum((T \ {y}) \ {c})
    <2>1. c # y
          BY <1>3, <1>5
    <2>2. c \in T \ {y} /\ T \ {y} \in SUBSET T /\ T \ {y} # T
          BY <1>5, <2>1
    <2> QED  BY <1>2, <2>2
  <1> DEFINE rest == Sum((T \ {c}) \ {y})
  <1>8. (T \ {c}) \ {y} = (T \ {y}) \ {c} /\ (T \ {c}) \ {y} \in SUBSET S
        OBVIOUS
  <1>9. f[c] \in Int /\ f[y] \in Int /\ rest \in Int
        BY <1>4, <1>5, <1>8
  <1>10. Sum(T) = f[c] + (f[y] + rest) /\ Sum(T \ {y}) = f[c] + rest
        BY <1>5, <1>6, <1>7, <1>8
  <1> HIDE DEF rest
  <1>11. Sum(T) = f[y] + Sum(T \ {y})
        BY <1>9, <1>10
  <1> QED  BY <1>3, <1>11 DEF Sum

LEMMA SumAdd ==
    ASSUME NEW f, NEW S, IsFiniteSet(S), NEW x, x \notin S, \A y \in S \cup {x} : f[y] \in Int
    PROVE  SumFunctionOnSet(f, S \cup {x}) = f[x] + SumFunctionOnSet(f, S)
  <1>1. IsFiniteSet(S \cup {x}) /\ (S \cup {x}) \ {x} = S
        BY FS_AddElement
  <1>2. SumFunctionOnSet(f, S \cup {x}) = f[x] + SumFunctionOnSet(f, (S \cup {x}) \ {x})
        BY <1>1, SumRemove
  <1> QED  BY <1>1, <1>2

LEMMA SumSingle ==
    ASSUME NEW f, NEW x, f[x] \in Int
    PROVE  SumFunctionOnSet(f, {x}) = f[x]
  <1>1. SumFunctionOnSet(f, {} \cup {x}) = f[x] + SumFunctionOnSet(f, {})
        BY SumAdd, FS_EmptySet
  <1>2. {} \cup {x} = {x}
        OBVIOUS
  <1> QED  BY <1>1, <1>2, SumEmpty

(* Of larger values the sum is larger.                                      *)
LEMMA SumGrows ==
    ASSUME NEW f, NEW g, NEW S, IsFiniteSet(S),
           \A x \in S : f[x] \in Int /\ g[x] \in Int /\ f[x] <= g[x]
    PROVE  SumFunctionOnSet(f, S) <= SumFunctionOnSet(g, S)
  <1> DEFINE X == {T \in SUBSET S : ~ (SumFunctionOnSet(f, T) <= SumFunctionOnSet(g, T))}
  <1>1. SUFFICES ASSUME X # {} PROVE FALSE
        OBVIOUS
  <1>2. PICK T \in X : \A U \in SUBSET T : U # T => U \notin X
    <2>1. X \in SUBSET (SUBSET S)
          OBVIOUS
    <2> HIDE DEF X
    <2> QED  BY <1>1, <2>1, LeastSet
  <1>3. T # {} /\ IsFiniteSet(T)
    <2>1. CASE T = {}
      <3>1. SumFunctionOnSet(f, T) = 0 /\ SumFunctionOnSet(g, T) = 0
            BY <2>1, SumEmpty
      <3> QED  BY <3>1
    <2> QED  BY <2>1, FS_Subset
  <1>4. PICK x \in T : TRUE
        BY <1>3
  <1> DEFINE V == T \ {x}
  <1>5. IsFiniteSet(V) /\ V \in SUBSET T /\ V # T
        BY <1>3, FS_RemoveElement
  <1>6. /\ SumFunctionOnSet(f, T) = f[x] + SumFunctionOnSet(f, V)
        /\ SumFunctionOnSet(g, T) = g[x] + SumFunctionOnSet(g, V)
        BY <1>3, SumRemove
  <1>7. SumFunctionOnSet(f, V) \in Int /\ SumFunctionOnSet(g, V) \in Int
        BY <1>5, SumInt
  <1>8. SumFunctionOnSet(f, V) <= SumFunctionOnSet(g, V)
        BY <1>2, <1>5
  <1> QED  BY <1>6, <1>7, <1>8

(* The sum depends on the values only.                                      *)
LEMMA SumSame ==
    ASSUME NEW f, NEW g, NEW S, IsFiniteSet(S),
           \A x \in S : f[x] \in Int /\ f[x] = g[x]
    PROVE  SumFunctionOnSet(f, S) = SumFunctionOnSet(g, S)
  <1>1. /\ SumFunctionOnSet(f, S) <= SumFunctionOnSet(g, S)
        /\ SumFunctionOnSet(g, S) <= SumFunctionOnSet(f, S)
        BY SumGrows
  <1>2. SumFunctionOnSet(f, S) \in Int /\ SumFunctionOnSet(g, S) \in Int
        BY SumInt
  <1> QED  BY <1>1, <1>2

(* One value changes.                                                       *)
LEMMA SumChange ==
    ASSUME NEW f, NEW g, NEW S, IsFiniteSet(S), NEW x \in S,
           \A y \in S : f[y] \in Int /\ g[y] \in Int,
           \A y \in S \ {x} : f[y] = g[y]
    PROVE  SumFunctionOnSet(g, S) = SumFunctionOnSet(f, S) - f[x] + g[x]
  <1>1. /\ SumFunctionOnSet(f, S) = f[x] + SumFunctionOnSet(f, S \ {x})
        /\ SumFunctionOnSet(g, S) = g[x] + SumFunctionOnSet(g, S \ {x})
        BY SumRemove
  <1>2. IsFiniteSet(S \ {x})
        BY FS_RemoveElement
  <1>3. SumFunctionOnSet(f, S \ {x}) = SumFunctionOnSet(g, S \ {x})
        BY <1>2, SumSame
  <1>4. SumFunctionOnSet(f, S \ {x}) \in Int
        BY <1>2, SumInt
  <1> QED  BY <1>1, <1>3, <1>4

(* Nothing adds up to nothing, and amounts to no less.                      *)
LEMMA SumZero ==
    ASSUME NEW f, NEW S, IsFiniteSet(S), \A x \in S : f[x] = 0
    PROVE  SumFunctionOnSet(f, S) = 0
  <1> DEFINE X == {T \in SUBSET S : SumFunctionOnSet(f, T) # 0}
  <1>1. SUFFICES ASSUME X # {} PROVE FALSE
        OBVIOUS
  <1>2. PICK T \in X : \A U \in SUBSET T : U # T => U \notin X
    <2>1. X \in SUBSET (SUBSET S)
          OBVIOUS
    <2> HIDE DEF X
    <2> QED  BY <1>1, <2>1, LeastSet
  <1>3. T # {} /\ IsFiniteSet(T)
    <2>1. CASE T = {}
      <3>1. SumFunctionOnSet(f, T) = 0
            BY <2>1, SumEmpty
      <3> QED  BY <3>1
    <2> QED  BY <2>1, FS_Subset
  <1>4. PICK x \in T : TRUE
        BY <1>3
  <1>5. T \ {x} \in SUBSET T /\ T \ {x} # T
        OBVIOUS
  <1>6. SumFunctionOnSet(f, T) = f[x] + SumFunctionOnSet(f, T \ {x})
        BY <1>3, SumRemove
  <1>7. SumFunctionOnSet(f, T \ {x}) = 0
        BY <1>2, <1>5
  <1> QED  BY <1>6, <1>7

LEMMA SumNat ==
    ASSUME NEW f, NEW S, IsFiniteSet(S), \A x \in S : f[x] \in Nat
    PROVE  SumFunctionOnSet(f, S) \in Nat
  <1> DEFINE g == [x \in S |-> 0]
  <1>1. SumFunctionOnSet(g, S) = 0
        BY SumZero
  <1>2. SumFunctionOnSet(g, S) <= SumFunctionOnSet(f, S)
    <2>1. \A x \in S : g[x] \in Int /\ f[x] \in Int /\ g[x] <= f[x]
          OBVIOUS
    <2> HIDE DEF g
    <2> QED  BY <2>1, SumGrows
  <1>3. SumFunctionOnSet(f, S) \in Int
        BY SumInt
  <1> QED  BY <1>1, <1>2, <1>3

(* A set in two parts.                                                      *)
LEMMA SumUnion ==
    ASSUME NEW f, NEW S, IsFiniteSet(S), \A x \in S : f[x] \in Int, NEW T \in SUBSET S
    PROVE  SumFunctionOnSet(f, S) = SumFunctionOnSet(f, T) + SumFunctionOnSet(f, S \ T)
  <1> DEFINE Sum(U) == SumFunctionOnSet(f, U)
             R == S \ T
             X == {U \in SUBSET T : Sum(U \cup R) # Sum(U) + Sum(R)}
  <1>1. \A U \in SUBSET S : IsFiniteSet(U) /\ Sum(U) \in Int
        BY SumInt, FS_Subset
  <1>2. X = {}
    <2>1. SUFFICES ASSUME X # {} PROVE FALSE
          OBVIOUS
    <2>2. PICK U \in X : \A V \in SUBSET U : V # U => V \notin X
      <3>1. X \in SUBSET (SUBSET T) /\ IsFiniteSet(T)
            BY <1>1
      <3> HIDE DEF X
      <3> QED  BY <2>1, <3>1, LeastSet
    <2>3. U # {}
      <3>1. CASE U = {}
        <4>1. Sum(U) = 0 /\ Sum(R) \in Int
              BY <1>1, <3>1, SumEmpty
        <4>2. U \cup R = R
              BY <3>1
        <4>3. Sum(U \cup R) = Sum(R)
              BY <4>2
        <4>4. Sum(U \cup R) = Sum(U) + Sum(R)
          <5> HIDE DEF Sum
          <5> QED  BY <4>1, <4>3
        <4> QED  BY <4>4
      <3> QED  BY <3>1
    <2>4. PICK x \in U : TRUE
          BY <2>3
    <2> DEFINE V == U \ {x}
    <2>5. Sum(V \cup R) = Sum(V) + Sum(R)
      <3>1. V \in SUBSET U /\ V # U /\ V \in SUBSET T
            OBVIOUS
      <3> QED  BY <2>2, <3>1
    <2>6. Sum(U) = f[x] + Sum(V)
          BY <1>1, SumRemove
    <2>7. Sum(U \cup R) = f[x] + Sum(V \cup R)
      <3>1. (U \cup R) \ {x} = V \cup R /\ U \cup R \in SUBSET S
            OBVIOUS
      <3> QED  BY <1>1, <3>1, SumRemove
    <2>8. f[x] \in Int /\ Sum(V) \in Int /\ Sum(R) \in Int
          BY <1>1
    <2> HIDE DEF Sum
    <2> QED  BY <2>5, <2>6, <2>7, <2>8
  <1>3. T \cup R = S
        OBVIOUS
  <1>4. T \notin X
    <2> HIDE DEF X
    <2> QED  BY <1>2
  <1> HIDE DEF Sum
  <1>5. Sum(T \cup R) = Sum(T) + Sum(R)
        BY <1>4
  <1> QED  BY <1>3, <1>5 DEF Sum

(* Amounts: a part is no more than the whole.                               *)
LEMMA SumPart ==
    ASSUME NEW f, NEW S, IsFiniteSet(S), \A x \in S : f[x] \in Nat, NEW T \in SUBSET S
    PROVE  SumFunctionOnSet(f, T) <= SumFunctionOnSet(f, S)
  <1>1. SumFunctionOnSet(f, S) = SumFunctionOnSet(f, T) + SumFunctionOnSet(f, S \ T)
        BY SumUnion
  <1>2. IsFiniteSet(T) /\ IsFiniteSet(S \ T)
        BY FS_Subset
  <1>3. SumFunctionOnSet(f, T) \in Nat /\ SumFunctionOnSet(f, S \ T) \in Nat
        BY <1>2, SumNat
  <1> QED  BY <1>1, <1>3

LEMMA SumMember ==
    ASSUME NEW f, NEW S, IsFiniteSet(S), \A x \in S : f[x] \in Nat, NEW y \in S
    PROVE  f[y] <= SumFunctionOnSet(f, S)
  <1>1. SumFunctionOnSet(f, {y}) <= SumFunctionOnSet(f, S)
        BY SumPart
  <1> QED  BY <1>1, SumSingle

(* Sums are added value by value.                                           *)
LEMMA SumPlus ==
    ASSUME NEW f, NEW g, NEW h, NEW S, IsFiniteSet(S),
           \A x \in S : f[x] \in Int /\ g[x] \in Int /\ h[x] = f[x] + g[x]
    PROVE  SumFunctionOnSet(h, S) = SumFunctionOnSet(f, S) + SumFunctionOnSet(g, S)
  <1> DEFINE X == {T \in SUBSET S : SumFunctionOnSet(h, T)
                                       # SumFunctionOnSet(f, T) + SumFunctionOnSet(g, T)}
  <1>1. SUFFICES ASSUME X # {} PROVE FALSE
        OBVIOUS
  <1>2. PICK T \in X : \A U \in SUBSET T : U # T => U \notin X
    <2>1. X \in SUBSET (SUBSET S)
          OBVIOUS
    <2> HIDE DEF X
    <2> QED  BY <1>1, <2>1, LeastSet
  <1>3. T # {} /\ IsFiniteSet(T)
    <2>1. CASE T = {}
      <3>1. /\ SumFunctionOnSet(f, T) = 0 /\ SumFunctionOnSet(g, T) = 0
            /\ SumFunctionOnSet(h, T) = 0
            BY <2>1, SumEmpty
      <3> QED  BY <3>1
    <2> QED  BY <2>1, FS_Subset
  <1>4. PICK x \in T : TRUE
        BY <1>3
  <1> DEFINE V == T \ {x}
  <1>5. IsFiniteSet(V) /\ V \in SUBSET T /\ V # T /\ V \in SUBSET S
        BY <1>3, FS_RemoveElement
  <1>6. /\ SumFunctionOnSet(f, T) = f[x] + SumFunctionOnSet(f, V)
        /\ SumFunctionOnSet(g, T) = g[x] + SumFunctionOnSet(g, V)
        /\ SumFunctionOnSet(h, T) = h[x] + SumFunctionOnSet(h, V)
        BY <1>3, SumRemove
  <1>7. SumFunctionOnSet(f, V) \in Int /\ SumFunctionOnSet(g, V) \in Int
        BY <1>5, SumInt
  <1>8. SumFunctionOnSet(h, V) = SumFunctionOnSet(f, V) + SumFunctionOnSet(g, V)
        BY <1>2, <1>5
  <1> QED  BY <1>6, <1>7, <1>8

(* Ones are counted.                                                        *)
LEMMA SumCount ==
    ASSUME NEW f, NEW S, IsFiniteSet(S), \A x \in S : f[x] = 1
    PROVE  SumFunctionOnSet(f, S) = Cardinality(S)
  <1> DEFINE X == {T \in SUBSET S : SumFunctionOnSet(f, T) # Cardinality(T)}
  <1>1. SUFFICES ASSUME X # {} PROVE FALSE
        OBVIOUS
  <1>2. PICK T \in X : \A U \in SUBSET T : U # T => U \notin X
    <2>1. X \in SUBSET (SUBSET S)
          OBVIOUS
    <2> HIDE DEF X
    <2> QED  BY <1>1, <2>1, LeastSet
  <1>3. T # {} /\ IsFiniteSet(T)
        BY SumEmpty, FS_EmptySet, FS_Subset
  <1>4. PICK x \in T : TRUE
        BY <1>3
  <1>5. T \ {x} \in SUBSET T /\ T \ {x} # T
        OBVIOUS
  <1>6. SumFunctionOnSet(f, T) = f[x] + SumFunctionOnSet(f, T \ {x})
        BY <1>3, SumRemove
  <1>7. SumFunctionOnSet(f, T \ {x}) = Cardinality(T \ {x})
        BY <1>2, <1>5
  <1>8. Cardinality(T \ {x}) = Cardinality(T) - 1 /\ Cardinality(T) \in Nat
        BY <1>3, FS_RemoveElement, FS_CardinalityType
  <1> QED  BY <1>6, <1>7, <1>8
(* What is named one to one adds up to the same under its names.            *)
LEMMA SumImage ==
    ASSUME NEW f, NEW g, NEW e, NEW S, IsFiniteSet(S), NEW T, IsFiniteSet(T),
           T = {e[x] : x \in S}, \A x, y \in S : e[x] = e[y] => x = y,
           \A x \in S : g[x] \in Int /\ f[e[x]] = g[x]
    PROVE  SumFunctionOnSet(f, T) = SumFunctionOnSet(g, S)
  <1> DEFINE Names(U) == {e[x] : x \in U}
             X == {U \in SUBSET S : SumFunctionOnSet(f, Names(U)) # SumFunctionOnSet(g, U)}
  <1>1. SUFFICES ASSUME X # {} PROVE FALSE
        OBVIOUS
  <1>2. PICK U \in X : \A V \in SUBSET U : V # U => V \notin X
    <2>1. X \in SUBSET (SUBSET S)
          OBVIOUS
    <2> HIDE DEF X
    <2> QED  BY <1>1, <2>1, LeastSet
  <1>3. U # {} /\ IsFiniteSet(U)
    <2>1. CASE U = {}
      <3>1. SumFunctionOnSet(f, {}) = 0 /\ SumFunctionOnSet(g, {}) = 0 /\ Names(U) = {}
            BY <2>1, SumEmpty
      <3> QED  BY <2>1, <3>1
    <2> QED  BY <2>1, FS_Subset
  <1>4. PICK x \in U : TRUE
        BY <1>3
  <1> DEFINE V == U \ {x}
  <1>5. /\ V \in SUBSET U /\ V # U /\ V \in SUBSET S
        /\ Names(U) \in SUBSET T /\ e[x] \in Names(U) /\ Names(U) \ {e[x]} = Names(V)
        OBVIOUS
  <1>6. IsFiniteSet(Names(U)) /\ \A n \in Names(U) : f[n] \in Int
    <2>1. \A n \in Names(U) : f[n] \in Int
          OBVIOUS
    <2> HIDE DEF Names
    <2> QED  BY <1>5, <2>1, FS_Subset
  <1>7. SumFunctionOnSet(f, Names(U)) = f[e[x]] + SumFunctionOnSet(f, Names(V))
    <2> HIDE DEF Names, V
    <2> QED  BY <1>5, <1>6, SumRemove
  <1>8. SumFunctionOnSet(g, U) = g[x] + SumFunctionOnSet(g, V)
        BY <1>3, SumRemove
  <1>9. SumFunctionOnSet(f, Names(V)) = SumFunctionOnSet(g, V)
        BY <1>2, <1>5
  <1>10. f[e[x]] = g[x]
        OBVIOUS
  <1> QED  BY <1>7, <1>8, <1>9, <1>10

(* What is grouped by its value adds up to the values times their number.    *)
LEMMA SumByValue ==
    ASSUME NEW S, IsFiniteSet(S), NEW V, IsFiniteSet(V), NEW e, \A x \in S : e[x] \in V,
           NEW w \in [V -> Int]
    PROVE  SumFunctionOnSet([v \in V |-> w[v] * Cardinality({x \in S : e[x] = v})], V)
               = SumFunctionOnSet([x \in S |-> w[e[x]]], S)
  <1> DEFINE Has(T, v) == {x \in T : e[x] = v}
             by(T) == [v \in V |-> w[v] * Cardinality(Has(T, v))]
             each == [x \in S |-> w[e[x]]]
             X == {T \in SUBSET S : SumFunctionOnSet(by(T), V) # SumFunctionOnSet(each, T)}
  <1>1. SUFFICES ASSUME X # {} PROVE FALSE
        OBVIOUS
  <1>2. PICK T \in X : \A U \in SUBSET T : U # T => U \notin X
    <2>1. X \in SUBSET (SUBSET S)
          OBVIOUS
    <2> HIDE DEF X
    <2> QED  BY <1>1, <2>1, LeastSet
  <1>3. IsFiniteSet(T) /\ T \in SUBSET S
        BY FS_Subset
  <1>4. T # {}
    <2>1. SUFFICES ASSUME T = {} PROVE FALSE
          OBVIOUS
    <2>2. \A v \in V : Has(T, v) = {}
          BY <2>1
    <2>3. Cardinality({}) = 0
          BY FS_EmptySet
    <2>4. ASSUME NEW v \in V PROVE by(T)[v] = 0
      <3>1. w[v] \in Int /\ w[v] * 0 = 0
            OBVIOUS
      <3>2. by(T)[v] = w[v] * Cardinality(Has(T, v))
            OBVIOUS
      <3> HIDE DEF Has, by
      <3> QED  BY <2>2, <2>3, <3>1, <3>2
    <2>5. SumFunctionOnSet(by(T), V) = 0
      <3> HIDE DEF by
      <3> QED  BY <2>4, SumZero
    <2>6. SumFunctionOnSet(each, T) = 0
          BY <2>1, SumEmpty
    <2> QED  BY <2>5, <2>6
  <1>5. PICK x \in T : TRUE
        BY <1>4
  <1> DEFINE U == T \ {x}
  <1>6. U \in SUBSET T /\ U # T /\ U \in SUBSET S /\ x \in S /\ e[x] \in V
        BY <1>3
  <1>7. \A v \in V : IsFiniteSet(Has(T, v)) /\ IsFiniteSet(Has(U, v))
    <2>1. \A v \in V : Has(T, v) \in SUBSET T /\ Has(U, v) \in SUBSET T
          BY <1>6
    <2> HIDE DEF Has
    <2> QED  BY <1>3, <2>1, FS_Subset
  <1>8. \A v \in V : Cardinality(Has(T, v)) \in Nat /\ Cardinality(Has(U, v)) \in Nat
    <2> HIDE DEF Has
    <2> QED  BY <1>7, FS_CardinalityType
  <1>9. \A v \in V \ {e[x]} : Has(T, v) = Has(U, v)
        BY <1>6
  <1>10. Cardinality(Has(T, e[x])) = Cardinality(Has(U, e[x])) + 1
    <2>1. x \in Has(T, e[x]) /\ Has(U, e[x]) = Has(T, e[x]) \ {x}
          BY <1>6
    <2>2. IsFiniteSet(Has(T, e[x])) /\ Cardinality(Has(T, e[x])) \in Nat
          BY <1>6, <1>7, <1>8
    <2> HIDE DEF Has
    <2>3. PICK A : A = Has(T, e[x])
          OBVIOUS
    <2>4. Cardinality(A \ {x}) = Cardinality(A) - 1
          BY Zenon, <2>1, <2>2, <2>3, FS_RemoveElement
    <2>5. PICK B : B = Has(U, e[x])
          OBVIOUS
    <2>6. B = A \ {x} /\ Cardinality(A) \in Nat
          BY <2>1, <2>2, <2>3, <2>5
    <2>7. Cardinality(A) = Cardinality(B) + 1
          BY <2>4, <2>6
    <2> QED  BY Zenon, <2>3, <2>5, <2>7
  <1>11. ASSUME NEW v \in V PROVE by(T)[v] \in Int /\ by(U)[v] \in Int
    <2>1. PICK k \in Int, m \in Nat, n \in Nat :
              k = w[v] /\ m = Cardinality(Has(T, v)) /\ n = Cardinality(Has(U, v))
          BY <1>8
    <2>2. by(T)[v] = k * m /\ by(U)[v] = k * n
          BY <2>1
    <2>3. k * m \in Int /\ k * n \in Int
          OBVIOUS
    <2> QED  BY <2>2, <2>3
  <1>12. \A v \in V \ {e[x]} : by(T)[v] = by(U)[v]
    <2> HIDE DEF Has
    <2> QED  BY <1>9
  <1>13. by(T)[e[x]] = by(U)[e[x]] + w[e[x]]
    <2>1. PICK m \in Nat : m = Cardinality(Has(U, e[x]))
          BY <1>6, <1>8
    <2>2. by(T)[e[x]] = w[e[x]] * (m + 1) /\ by(U)[e[x]] = w[e[x]] * m
      <3> HIDE DEF Has
      <3> QED  BY <1>6, <1>10, <2>1
    <2>3. PICK k \in Int : k = w[e[x]]
          BY <1>6
    <2>4. k * (m + 1) = k * m + k
          OBVIOUS
    <2> HIDE DEF by
    <2> QED  BY <2>2, <2>3, <2>4
  <1>14. SumFunctionOnSet(by(T), V) = SumFunctionOnSet(by(U), V) - by(U)[e[x]] + by(T)[e[x]]
    <2>1. PICK old, now : old = by(U) /\ now = by(T)
          OBVIOUS
    <2>2. \A v \in V : old[v] \in Int /\ now[v] \in Int
          BY <1>11, <2>1
    <2>3. \A v \in V \ {e[x]} : now[v] = old[v]
          BY <1>12, <2>1
    <2> HIDE DEF by
    <2>4. SumFunctionOnSet(now, V) = SumFunctionOnSet(old, V) - old[e[x]] + now[e[x]]
          BY <1>6, <2>2, <2>3, SumChange
    <2> QED  BY <2>1, <2>4
  <1>15. SumFunctionOnSet(by(U), V) \in Int
    <2>1. PICK old : old = by(U)
          OBVIOUS
    <2>2. \A v \in V : old[v] \in Int
          BY <1>11, <2>1
    <2> HIDE DEF by
    <2> QED  BY <2>1, <2>2, SumInt
  <1>16. SumFunctionOnSet(by(U), V) = SumFunctionOnSet(each, U)
        BY <1>2, <1>6
  <1>17. SumFunctionOnSet(each, T) = each[x] + SumFunctionOnSet(each, U)
    <2>1. \A y \in T : each[y] \in Int
          BY <1>3
    <2> HIDE DEF each
    <2> QED  BY <1>3, <2>1, SumRemove
  <1>18. each[x] = w[e[x]] /\ w[e[x]] \in Int
        BY <1>6
  <1>19. by(U)[e[x]] \in Int
        BY <1>6, <1>11
  <1>20. SumFunctionOnSet(by(T), V) = SumFunctionOnSet(each, T)
    <2> HIDE DEF by, each
    <2> QED  BY <1>13, <1>14, <1>15, <1>16, <1>17, <1>18, <1>19
  <1> QED  BY <1>20

-----------------------------------------------------------------------------
(* Sizes of sets that grow together, and of a set whose members change but    *)
(* stay apart.                                                               *)
LEMMA GrowthCounts ==
    ASSUME NEW A, NEW B, NEW C, NEW D, IsFiniteSet(B), IsFiniteSet(D),
           A \subseteq B, C \subseteq D, D \ C \subseteq B \ A
    PROVE  /\ Cardinality(A) \in Nat /\ Cardinality(B) \in Nat
           /\ Cardinality(C) \in Nat /\ Cardinality(D) \in Nat
           /\ Cardinality(D) - Cardinality(C) <= Cardinality(B) - Cardinality(A)
  <1>1. IsFiniteSet(A) /\ IsFiniteSet(C) /\ IsFiniteSet(B \ A) /\ IsFiniteSet(D \ C)
        BY FS_Subset, FS_Difference
  <1>2. /\ Cardinality(A) \in Nat /\ Cardinality(B) \in Nat
        /\ Cardinality(C) \in Nat /\ Cardinality(D) \in Nat
        BY <1>1, FS_CardinalityType
  <1>3. B \cap A = A /\ D \cap C = C
        OBVIOUS
  <1>4. /\ Cardinality(B \ A) = Cardinality(B) - Cardinality(A)
        /\ Cardinality(D \ C) = Cardinality(D) - Cardinality(C)
        BY <1>3, FS_Difference
  <1>5. Cardinality(D \ C) <= Cardinality(B \ A)
        BY <1>1, FS_Subset
  <1> QED  BY <1>2, <1>4, <1>5

LEMMA MappedCounts ==
    ASSUME NEW f, IsFiniteSet(DOMAIN f), \A x, y \in DOMAIN f : f[x] = f[y] => x = y,
           f = [x \in DOMAIN f |-> f[x]]
    PROVE  LET T == {f[x] : x \in DOMAIN f}
           IN  IsFiniteSet(T) /\ Cardinality(T) = Cardinality(DOMAIN f)
  <1> DEFINE T == {f[x] : x \in DOMAIN f}
  <1>1. f \in Surjection(DOMAIN f, T) /\ f \in Injection(DOMAIN f, T)
        BY DEF Surjection, Injection, IsInjective
  <1> HIDE DEF T
  <1>2. IsFiniteSet(T) /\ Cardinality(T) = Cardinality(DOMAIN f)
        BY <1>1, FS_Surjection
  <1> QED  BY <1>2 DEF T

LEMMA ImageIsFinite ==
    ASSUME NEW S, IsFiniteSet(S), NEW V, NEW f \in [S -> V],
           NEW T, \A t \in T : \E x \in S : t = f[x]
    PROVE  IsFiniteSet(T)
  <1> DEFINE U == {f[x] : x \in S}
  <1>1. f \in Surjection(S, U)
        BY DEF Surjection
  <1>2. IsFiniteSet(U)
        BY <1>1, FS_Surjection
  <1>3. T \subseteq U
        OBVIOUS
  <1> QED  BY <1>2, <1>3, FS_Subset

(* Members of a finite set of numbers are told apart by how many come first. *)
Rank(S, k) == Cardinality({j \in S : j <= k})

LEMMA Ranks ==
    ASSUME NEW n \in Nat, NEW S \in SUBSET (0 .. n)
    PROVE  /\ Cardinality(S) \in Nat
           /\ \A k \in S : Rank(S, k) \in 1 .. Cardinality(S)
           /\ \A k, m \in S : Rank(S, k) = Rank(S, m) => k = m
  <1>0. 0 \in Int /\ n \in Int /\ S \subseteq 0 .. n /\ \A j \in S : j \in Int
        OBVIOUS
  <1>1. IsFiniteSet(S)
        BY <1>0, FS_Interval, FS_Subset, Zenon
  <1> DEFINE Upto(k) == {j \in S : j <= k}
  <1>2. ASSUME NEW k PROVE IsFiniteSet(Upto(k)) /\ Cardinality(Upto(k)) <= Cardinality(S)
    <2>1. Upto(k) \in SUBSET S
          OBVIOUS
    <2> QED  BY <1>1, <2>1, FS_Subset, Zenon
  <1>3. Cardinality(S) \in Nat /\ \A k : Cardinality(Upto(k)) \in Nat
        BY <1>1, <1>2, FS_CardinalityType
  <1>4. ASSUME NEW k \in S PROVE Cardinality(Upto(k)) # 0
    <2>1. k \in Upto(k)
          BY <1>0
    <2>2. Upto(k) # {}
          BY <2>1
    <2> HIDE DEF Upto
    <2> QED  BY <1>2, <2>2, FS_EmptySet, Zenon
  <1>5. ASSUME NEW k \in S, NEW m \in S, k < m PROVE Cardinality(Upto(k)) # Cardinality(Upto(m))
    <2>0. k \in Int /\ m \in Int /\ m <= m /\ ~ (m <= k)
          BY <1>0, <1>5
    <2>3. ASSUME NEW j \in S, j <= k PROVE j <= m
          BY <1>0, <1>5, <2>0, <2>3
    <2>1. Upto(k) \in SUBSET Upto(m) /\ m \in Upto(m) /\ m \notin Upto(k)
          BY <2>0, <2>3
    <2>2. Upto(k) # Upto(m)
          BY <2>1
    <2> HIDE DEF Upto
    <2> QED  BY <1>2, <2>1, <2>2, FS_Subset, Zenon
  <1>6. ASSUME NEW k \in S PROVE Cardinality(Upto(k)) \in 1 .. Cardinality(S)
        BY <1>2, <1>3, <1>4
  <1>7. ASSUME NEW k \in S, NEW m \in S, Cardinality(Upto(k)) = Cardinality(Upto(m)) PROVE k = m
    <2>1. k \in Int /\ m \in Int
          BY <1>0
    <2>2. ~ (k < m) /\ ~ (m < k)
          BY <1>5, <1>7, Zenon
    <2> QED  BY <2>1, <2>2
  <1>8. \A k : Rank(S, k) = Cardinality(Upto(k))
        BY DEF Rank
  <1> QED  BY <1>3, <1>6, <1>7, <1>8

(* Amounts that are grouped add up to what they did.                         *)
LEMMA SumGroups ==
    ASSUME NEW S, IsFiniteSet(S), NEW V, IsFiniteSet(V), NEW e, \A x \in S : e[x] \in V,
           NEW f, \A x \in S : f[x] \in Int, NEW g,
           \A v \in V : g[v] = SumFunctionOnSet(f, {x \in S : e[x] = v})
    PROVE  SumFunctionOnSet(g, V) = SumFunctionOnSet(f, S)
  <1> DEFINE Has(T, v) == {x \in T : e[x] = v}
             by(T) == [v \in V |-> SumFunctionOnSet(f, Has(T, v))]
             X == {T \in SUBSET S : SumFunctionOnSet(by(T), V) # SumFunctionOnSet(f, T)}
  <1>0. \A T \in SUBSET S : /\ IsFiniteSet(T)
                            /\ \A v \in V : IsFiniteSet(Has(T, v)) /\ by(T)[v] \in Int
    <2>1. ASSUME NEW T \in SUBSET S, NEW v \in V PROVE IsFiniteSet(Has(T, v)) /\ by(T)[v] \in Int
      <3>1. Has(T, v) \in SUBSET S /\ \A x \in Has(T, v) : f[x] \in Int
            OBVIOUS
      <3>2. by(T)[v] = SumFunctionOnSet(f, Has(T, v))
            OBVIOUS
      <3> HIDE DEF Has, by
      <3>3. IsFiniteSet(Has(T, v))
            BY <3>1, FS_Subset
      <3> QED  BY <3>1, <3>2, <3>3, SumInt
    <2> QED  BY <2>1, FS_Subset
  <1>1. X = {}
    <2>1. SUFFICES ASSUME X # {} PROVE FALSE
          OBVIOUS
    <2>2. PICK T \in X : \A U \in SUBSET T : U # T => U \notin X
      <3>1. X \in SUBSET (SUBSET S)
            OBVIOUS
      <3> HIDE DEF X
      <3> QED  BY <2>1, <3>1, LeastSet
    <2>3. IsFiniteSet(T) /\ T \in SUBSET S
          BY <1>0
    <2>4. CASE T = {}
      <3>1. \A v \in V : Has(T, v) = {}
            BY <2>4
      <3>2. \A v \in V : by(T)[v] = 0
            BY <3>1, SumEmpty
      <3>3. SumFunctionOnSet(by(T), V) = 0
        <4> HIDE DEF by
        <4> QED  BY <3>2, SumZero
      <3>4. SumFunctionOnSet(f, T) = 0
            BY <2>4, SumEmpty
      <3> QED  BY <3>3, <3>4
    <2>5. CASE T # {}
      <3>1. PICK x \in T : TRUE
            BY <2>5
      <3> DEFINE U == T \ {x}
      <3>2. U \in SUBSET T /\ U # T /\ U \in SUBSET S /\ x \in S /\ e[x] \in V /\ f[x] \in Int
            BY <2>3
      <3>3. SumFunctionOnSet(by(U), V) = SumFunctionOnSet(f, U)
            BY <2>2, <3>2
      <3>4. \A v \in V \ {e[x]} : Has(T, v) = Has(U, v)
            BY <3>2
      <3>5. x \in Has(T, e[x]) /\ Has(U, e[x]) = Has(T, e[x]) \ {x}
            BY <3>2
      <3>6. \A y \in Has(T, e[x]) : f[y] \in Int
            BY <2>3
      <3>7. \A v \in V \ {e[x]} : by(U)[v] = by(T)[v]
        <4> HIDE DEF Has
        <4> QED  BY <3>4
      <3>8. by(T)[e[x]] = f[x] + by(U)[e[x]]
        <4>1. /\ by(T)[e[x]] = SumFunctionOnSet(f, Has(T, e[x]))
              /\ by(U)[e[x]] = SumFunctionOnSet(f, Has(U, e[x]))
              BY <3>2
        <4>2. IsFiniteSet(Has(T, e[x]))
              BY <1>0, <2>3, <3>2
        <4> HIDE DEF Has, by, U
        <4>3. SumFunctionOnSet(f, Has(T, e[x])) = f[x] + SumFunctionOnSet(f, Has(T, e[x]) \ {x})
              BY <3>5, <3>6, <4>2, SumRemove
        <4> QED  BY <3>5, <4>1, <4>3
      <3>9. SumFunctionOnSet(f, T) = f[x] + SumFunctionOnSet(f, U)
        <4>1. \A y \in T : f[y] \in Int
              BY <2>3
        <4> QED  BY <2>3, <4>1, SumRemove
      <3>10. /\ \A v \in V : by(T)[v] \in Int /\ by(U)[v] \in Int
             BY <1>0, <2>3, <3>2
      <3>11. SumFunctionOnSet(by(T), V) = SumFunctionOnSet(by(U), V) - by(U)[e[x]] + by(T)[e[x]]
        <4>1. PICK old, now : old = by(U) /\ now = by(T)
              OBVIOUS
        <4>2. \A v \in V : old[v] \in Int /\ now[v] \in Int
              BY <3>10, <4>1
        <4>3. \A v \in V \ {e[x]} : old[v] = now[v]
              BY <3>7, <4>1
        <4> HIDE DEF by
        <4>4. SumFunctionOnSet(now, V) = SumFunctionOnSet(old, V) - old[e[x]] + now[e[x]]
              BY <3>2, <4>2, <4>3, SumChange
        <4> QED  BY <4>1, <4>4
      <3>12. SumFunctionOnSet(f, U) \in Int /\ by(U)[e[x]] \in Int
        <4>1. IsFiniteSet(U) /\ \A y \in U : f[y] \in Int
              BY <1>0, <3>2
        <4> HIDE DEF U
        <4>2. SumFunctionOnSet(f, U) \in Int
              BY <4>1, SumInt
        <4> QED  BY <3>2, <3>10, <4>2
      <3>13. SumFunctionOnSet(by(T), V) = SumFunctionOnSet(f, T)
        <4> HIDE DEF by, U
        <4> QED  BY <3>2, <3>3, <3>8, <3>9, <3>11, <3>12
      <3> QED  BY <3>13
    <2> QED  BY <2>4, <2>5
  <1>2. SumFunctionOnSet(by(S), V) = SumFunctionOnSet(f, S)
        BY <1>1
  <1>3. \A v \in V : by(S)[v] = g[v]
        OBVIOUS
  <1>4. \A v \in V : by(S)[v] \in Int
        BY <1>0
  <1> HIDE DEF by
  <1> QED  BY <1>2, <1>3, <1>4, SumSame

-----------------------------------------------------------------------------
(* Rounded shares: what is divided is a quotient and a rest,                  *)
LEMMA TimesUp ==
    ASSUME NEW a \in Int, NEW b \in Int, NEW d \in Nat, a <= b
    PROVE  a * d \in Int /\ b * d \in Int /\ a * d <= b * d
  <1>1. PICK c \in Nat : b = a + c
    <2>1. b - a \in Nat /\ b = a + (b - a)
          OBVIOUS
    <2> QED  BY <2>1
  <1>2. b * d = a * d + c * d /\ c * d \in Nat /\ a * d \in Int
        BY <1>1
  <1> QED  BY <1>2

LEMMA Quotient ==
    ASSUME NEW x \in Int, NEW d \in Nat \ {0}
    PROVE  LET q == x \div d IN q \in Int /\ q * d <= x /\ x < q * d + d
  OBVIOUS

(* so that it grows with what is divided, and is the largest that fits.        *)
LEMMA QuotientAtMost ==
    ASSUME NEW x \in Int, NEW d \in Nat \ {0}, NEW y \in Int, x < y * d + d
    PROVE  x \div d <= y
  <1>1. PICK q : q = x \div d
        OBVIOUS
  <1>2. q \in Int /\ q * d <= x
        BY <1>1, Quotient
  <1>3. ASSUME ~ (q <= y) PROVE FALSE
    <2>1. y + 1 <= q /\ y + 1 \in Int
          BY <1>2, <1>3
    <2>2. (y + 1) * d <= q * d
          BY <1>2, <2>1, TimesUp
    <2>3. (y + 1) * d = y * d + d
          OBVIOUS
    <2> QED  BY <1>2, <2>2, <2>3
  <1> QED  BY <1>1, <1>3

LEMMA QuotientNat ==
    ASSUME NEW x \in Nat, NEW d \in Nat \ {0}
    PROVE  x \div d \in Nat
  OBVIOUS
=============================================================================
