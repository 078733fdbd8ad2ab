---------------------------- MODULE RefundsProofs ----------------------------
(* However many staff, deliveries and retries work on an order of however  *)
(* many lines: closing it puts each line back on the shelf once, and the   *)
(* total follows the refunds on record; with a buyer who cancels, the      *)
(* credit is conserved; and without losses what is cancelled is settled.   *)
EXTENDS Refunds, SumTheorems

NoCancel == \A h \in Handlers : "cancel" \notin Serves[h]

OrderShape ==
    order = [pay |-> order.pay, status |-> order.status, total |-> order.total,
             credit |-> order.credit, cancelled |-> order.cancelled,
             applied |-> order.applied]

(* A request or delivery at work.                                          *)
Shape(j) ==
    j = [at |-> j.at, by |-> j.by, lines |-> j.lines, seen |-> j.seen,
         base |-> j.base, amount |-> j.amount, pay |-> j.pay,
         cancelled |-> j.cancelled, applied |-> j.applied, last |-> j.last]

(* No handler is in the transaction of a cancellation.                     *)
JobsShape ==
    /\ job = [h \in Handlers |-> job[h]]
    /\ \A h \in Handlers :
         \/ job[h] = Idle
         \/ /\ Shape(job[h])
            /\ job[h].by \in Serves[h]
            /\ job[h].at \notin {"idle", "read", "count", "commit"}

ShelfShape == restocked \in [Kinds -> [Lines -> Nat]]

(* Lines go back on the shelf for a closing that is on record, and the     *)
(* order stays closed.                                                     *)
ClosingOnRecord ==
    \/ \A l \in Lines : restocked["admin"][l] = 0
    \/ /\ order.status = "REFUNDED"
       /\ \E i \in order.applied : i.by = "admin"
       /\ \A l \in Lines : restocked["admin"][l] <= 1

IInv == OrderShape /\ JobsShape /\ ShelfShape /\ ClosingOnRecord

-----------------------------------------------------------------------------
LEMMA IInvInit == Init => IInv
  <1> SUFFICES ASSUME Init PROVE IInv
      OBVIOUS
  <1>1. OrderShape
        BY DEF Init, OrderShape
  <1>2. JobsShape
        BY DEF Init, JobsShape
  <1>3. ShelfShape
        BY DEF Init, ShelfShape
  <1>4. ClosingOnRecord
        BY DEF Init, ClosingOnRecord, Kinds
  <1> QED  BY <1>1, <1>2, <1>3, <1>4 DEF IInv

(* The order and the shelf are as they were, or the order has changed in   *)
(* payment and total only, or closed without a trace.                      *)
LEMMA RecordIsKept ==
    ASSUME IInv, OrderShape',
           UNCHANGED restocked["admin"],
           order'.applied = order.applied,
           order'.status \in {order.status, "REFUNDED"}
    PROVE  ClosingOnRecord'
  BY DEF IInv, ClosingOnRecord

(* A handler goes on to another place, with what it has learnt.            *)
LEMMA JobMoves ==
    ASSUME JobsShape, NEW h \in Handlers, NEW j, Shape(j), j.by \in Serves[h],
           j.at \notin {"idle", "read", "count", "commit"},
           job' = [job EXCEPT ![h] = j]
    PROVE  JobsShape'
  BY DEF JobsShape, Shape, Idle

LEMMA ShapeMoves ==
    ASSUME NEW j, Shape(j), NEW x, NEW k, k = [j EXCEPT !.at = x]
    PROVE  Shape(k) /\ k.at = x /\ k.by = j.by
  BY DEF Shape

LEMMA JobEnds ==
    ASSUME JobsShape, NEW h \in Handlers, End(h)
    PROVE  JobsShape'
  BY DEF JobsShape, End, Shape

LEMMA JobGoes ==
    ASSUME JobsShape, NEW h \in Handlers, Shape(job[h]), job[h].by \in Serves[h],
           NEW place, place \notin {"idle", "read", "count", "commit"},
           Goto(h, place)
    PROVE  JobsShape'
  <1> DEFINE j == [job[h] EXCEPT !.at = place]
  <1>1. job' = [job EXCEPT ![h] = j] /\ j = [job[h] EXCEPT !.at = place]
        BY DEF Goto
  <1> HIDE DEF j
  <1>2. Shape(j) /\ j.at = place /\ j.by = job[h].by
        BY <1>1, ShapeMoves
  <1> QED  BY <1>1, <1>2, JobMoves

(* A handler that is busy has the shape, and is not in a cancellation.     *)
LEMMA Busy ==
    ASSUME JobsShape, NoCancel, NEW h \in Handlers, job[h].at # "idle"
    PROVE  /\ Shape(job[h]) /\ job[h].by \in Serves[h]
           /\ job[h].by # "cancel"
           /\ job[h].at \notin {"read", "count", "commit"}
  BY DEF JobsShape, NoCancel, Idle

-----------------------------------------------------------------------------
(* A new request or delivery.                                              *)
LEMMA ServeKeeps ==
    ASSUME IInv, NEW h \in Handlers, NEW kind, NEW S,
           NEW place \in {"balance", "restock"}, Serve(h, kind, S, place)
    PROVE  IInv'
  <1>1. JobsShape'
    <2> DEFINE j == [at |-> place, by |-> kind, lines |-> S, seen |-> order,
                     base |-> 0, amount |-> 0, pay |-> order.pay,
                     cancelled |-> {}, applied |-> {}, last |-> FALSE]
    <2>1. job' = [job EXCEPT ![h] = j] /\ kind \in Serves[h]
          BY DEF Serve
    <2>2. Shape(j) /\ j.by = kind /\ j.at = place
          BY DEF Shape
    <2> HIDE DEF j
    <2> QED  BY <2>1, <2>2, JobMoves DEF IInv
  <1>2. UNCHANGED <<order, restocked>>
        BY DEF Serve
  <1> QED  BY <1>1, <1>2 DEF IInv, OrderShape, ShelfShape, ClosingOnRecord

(* A step that leaves the order and the shelf alone.                       *)
LEMMA AsideKeeps ==
    ASSUME IInv, JobsShape', UNCHANGED <<order, restocked>>
    PROVE  IInv'
  BY DEF IInv, OrderShape, ShelfShape, ClosingOnRecord

LEMMA BalanceKeeps ==
    ASSUME IInv, NoCancel, NEW h \in Handlers, Balance(h)
    PROVE  IInv'
  <1>1. Shape(job[h]) /\ job[h].by \in Serves[h] /\ ~NothingDue(h)
        BY Busy DEF IInv, Balance, At, By, NothingDue
  <1>2. CASE Asked(h) \in 1 .. Remaining(h)
    <2> DEFINE refunded == charge.refunded
               asked == Asked(h)
               i == [job[h] EXCEPT !.at = "refund"]
               k == [i EXCEPT !.amount = asked]
               j == [k EXCEPT !.base = refunded]
    <2>1. job' = [job EXCEPT ![h].at = "refund", ![h].amount = Asked(h),
                             ![h].base = charge.refunded]
          BY <1>1, <1>2 DEF Balance
    <2>2. /\ job' = [job EXCEPT ![h] = j]
          /\ i = [job[h] EXCEPT !.at = "refund"]
          /\ k = [i EXCEPT !.amount = asked]
          /\ j = [k EXCEPT !.base = refunded]
          BY <2>1
    <2> HIDE DEF refunded, asked, i, k, j
    <2>3. Shape(i) /\ i.at = "refund" /\ i.by = job[h].by
          BY <1>1, <2>2, ShapeMoves
    <2>4. Shape(k) /\ k.at = "refund" /\ k.by = job[h].by
          BY <2>2, <2>3 DEF Shape
    <2>5. Shape(j) /\ j.at = "refund" /\ j.by = job[h].by
          BY <2>2, <2>4 DEF Shape
    <2>6. JobsShape'
          BY <1>1, <2>2, <2>5, JobMoves DEF IInv
    <2> QED  BY <2>6, AsideKeeps DEF Balance
  <1>3. CASE Asked(h) \notin 1 .. Remaining(h)
    <2>1. End(h)
          BY <1>1, <1>3 DEF Balance
    <2> QED  BY <2>1, JobEnds, AsideKeeps DEF IInv, Balance
  <1> QED  BY <1>2, <1>3

LEMMA AfterKeeps ==
    ASSUME IInv, NoCancel, NEW h \in Handlers, After(h)
    PROVE  IInv'
  <1>1. Shape(job[h]) /\ job[h].by \in Serves[h]
        BY Busy DEF IInv, After, At
  <1>2. PICK pay : job' = [job EXCEPT ![h].at = "persist", ![h].pay = pay]
        BY DEF After
  <1> DEFINE k == [job[h] EXCEPT !.at = "persist"]
             j == [k EXCEPT !.pay = pay]
  <1>3. /\ job' = [job EXCEPT ![h] = j]
        /\ k = [job[h] EXCEPT !.at = "persist"]
        /\ j = [k EXCEPT !.pay = pay]
        BY <1>2
  <1> HIDE DEF k, j
  <1>4. Shape(k) /\ k.at = "persist" /\ k.by = job[h].by
        BY <1>1, <1>3, ShapeMoves
  <1>5. Shape(j) /\ j.at = "persist" /\ j.by = job[h].by
        BY <1>3, <1>4 DEF Shape
  <1>6. JobsShape'
        BY <1>1, <1>3, <1>5, JobMoves DEF IInv
  <1> QED  BY <1>6, AsideKeeps DEF After

LEMMA StripeKeeps ==
    ASSUME IInv, NoCancel, NEW h \in Handlers,
           StripeRefunds(h) \/ StripeRefuses(h) \/ StripeLost(h)
    PROVE  IInv'
  <1>1. Shape(job[h]) /\ job[h].by \in Serves[h] /\ ~By(h, "cancel")
        BY Busy DEF IInv, StripeRefunds, StripeRefuses, StripeLost, StripeMay, At, By
  <1>2. Goto(h, "after") \/ End(h)
        BY <1>1 DEF StripeRefunds, StripeRefuses, StripeLost
  <1>3. JobsShape'
        BY <1>1, <1>2, JobGoes, JobEnds DEF IInv
  <1>4. UNCHANGED <<order, restocked>>
        BY DEF StripeRefunds, StripeRefuses, StripeLost, Refund
  <1> QED  BY <1>3, <1>4, AsideKeeps

-----------------------------------------------------------------------------
(* The order is closed once: it is not refunded before, so no line is back *)
(* on the shelf for it, and it is refunded after.                          *)
LEMMA AdminPersistKeeps ==
    ASSUME IInv, NEW h \in Handlers, AdminPersist(h)
    PROVE  IInv'
  <1>1. JobsShape'
        BY JobEnds DEF IInv, AdminPersist
  <1>2. CASE UNCHANGED <<order, restocked>>
        BY <1>1, <1>2, AsideKeeps
  <1>3. CASE /\ order.status # "REFUNDED"
             /\ order' = [order EXCEPT !.pay = job[h].pay, !.status = "REFUNDED",
                              !.total = @ - job[h].amount,
                              !.applied = @ \cup {RefundId(h)}]
             /\ Restock("admin", Lines \ order.cancelled)
    <2>1. /\ OrderShape'
          /\ order'.status = "REFUNDED"
          /\ order'.applied = order.applied \cup {RefundId(h)}
          BY <1>3 DEF IInv, OrderShape
    <2>2. RefundId(h).by = "admin"
          BY DEF RefundId, AdminPersist, By
    <2>3. \A l \in Lines : restocked["admin"][l] = 0
          BY <1>3 DEF IInv, ClosingOnRecord
    <2>4. /\ ShelfShape'
          /\ \A l \in Lines : restocked'["admin"][l] \in {0, 1}
          BY <1>3, <2>3 DEF IInv, ShelfShape, Restock, Kinds
    <2>5. ClosingOnRecord'
          BY <2>1, <2>2, <2>4 DEF ClosingOnRecord
    <2> QED  BY <1>1, <2>1, <2>4, <2>5 DEF IInv
  <1> QED  BY <1>2, <1>3 DEF AdminPersist

(* A return is taken off the total; the status is left alone.              *)
LEMMA ReturnPersistKeeps ==
    ASSUME IInv, NoCancel, NEW h \in Handlers, ReturnPersist(h)
    PROVE  IInv'
  <1>1. Shape(job[h]) /\ job[h].by \in Serves[h]
        BY Busy DEF IInv, ReturnPersist, At
  <1>2. Goto(h, "reread") \/ End(h)
        BY DEF ReturnPersist
  <1>3. JobsShape'
        BY <1>1, <1>2, JobGoes, JobEnds DEF IInv
  <1>4. UNCHANGED restocked
        BY DEF ReturnPersist
  <1>5. CASE UNCHANGED order
        BY <1>3, <1>4, <1>5, AsideKeeps
  <1>6. CASE order' = [order EXCEPT !.pay = job[h].pay, !.total = @ - job[h].amount]
    <2>1. OrderShape' /\ order'.status = order.status /\ order'.applied = order.applied
          BY <1>6 DEF IInv, OrderShape
    <2>2. ClosingOnRecord'
          BY <1>4, <2>1, RecordIsKept
    <2> QED  BY <1>3, <1>4, <2>1, <2>2 DEF IInv, ShelfShape
  <1> QED  BY <1>5, <1>6 DEF ReturnPersist

(* The shelf counts what returns put on it apart.                          *)
LEMMA ReturnRestockKeeps ==
    ASSUME IInv, NoCancel, NEW h \in Handlers, Reread(h) \/ Reshelve(h)
    PROVE  IInv'
  <1>1. Shape(job[h]) /\ job[h].by \in Serves[h]
        BY Busy DEF IInv, Reread, Reshelve, At
  <1>2. CASE Reread(h)
    <2>1. Goto(h, "restock") \/ End(h)
          BY <1>2 DEF Reread
    <2> QED  BY <1>1, <1>2, <2>1, JobGoes, JobEnds, AsideKeeps DEF IInv, Reread
  <1>3. CASE Reshelve(h)
    <2>1. JobsShape' /\ OrderShape'
          BY <1>3, JobEnds DEF IInv, Reshelve, OrderShape
    <2>2. ShelfShape' /\ restocked'["admin"] = restocked["admin"]
          BY <1>3 DEF IInv, Reshelve, ShelfShape, Restock, Kinds
    <2>3. ClosingOnRecord'
          BY <1>3, <2>1, <2>2, RecordIsKept DEF Reshelve
    <2> QED  BY <2>1, <2>2, <2>3 DEF IInv
  <1> QED  BY <1>2, <1>3

(* What Stripe reports may close an order, never open it.                  *)
LEMMA HookKeeps ==
    ASSUME IInv, NoCancel, NEW h \in Handlers, HookBalance(h) \/ HookSync(h)
    PROVE  IInv'
  <1>1. Shape(job[h]) /\ job[h].by \in Serves[h]
        BY Busy DEF IInv, HookBalance, HookSync, At
  <1>2. CASE HookBalance(h)
    <2>1. CASE End(h)
          BY <1>2, <2>1, JobEnds, AsideKeeps DEF IInv, HookBalance
    <2>2. CASE job' = [job EXCEPT ![h].at = "sync", ![h].base = charge.refunded,
                                  ![h].pay = Derived(charge.refunded)]
      <3> DEFINE refunded == charge.refunded
                 pay == Derived(charge.refunded)
                 i == [job[h] EXCEPT !.at = "sync"]
                 k == [i EXCEPT !.base = refunded]
                 j == [k EXCEPT !.pay = pay]
      <3>1. /\ job' = [job EXCEPT ![h] = j]
            /\ i = [job[h] EXCEPT !.at = "sync"]
            /\ k = [i EXCEPT !.base = refunded]
            /\ j = [k EXCEPT !.pay = pay]
            BY <2>2
      <3> HIDE DEF refunded, pay, i, k, j
      <3>2. Shape(i) /\ i.at = "sync" /\ i.by = job[h].by
            BY <1>1, <3>1, ShapeMoves
      <3>3. Shape(k) /\ k.at = "sync" /\ k.by = job[h].by
            BY <3>1, <3>2 DEF Shape
      <3>4. Shape(j) /\ j.at = "sync" /\ j.by = job[h].by
            BY <3>1, <3>3 DEF Shape
      <3>5. JobsShape'
            BY <1>1, <3>1, <3>4, JobMoves DEF IInv
      <3> QED  BY <1>2, <3>5, AsideKeeps DEF HookBalance
    <2> QED  BY <1>2, <2>1, <2>2 DEF HookBalance
  <1>3. CASE HookSync(h)
    <2>1. JobsShape' /\ UNCHANGED restocked
          BY <1>3, JobEnds DEF IInv, HookSync
    <2>2. /\ OrderShape' /\ order'.applied = order.applied
          /\ order'.status \in {order.status, "REFUNDED"}
          BY <1>3 DEF IInv, HookSync, OrderShape
    <2>3. ClosingOnRecord'
          BY <2>1, <2>2, RecordIsKept
    <2> QED  BY <2>1, <2>2, <2>3 DEF IInv, ShelfShape
  <1> QED  BY <1>2, <1>3

LEMMA IInvStep == IInv /\ NoCancel /\ [Next]_vars => IInv'
  <1> SUFFICES ASSUME IInv, NoCancel, [Next]_vars PROVE IInv'
      OBVIOUS
  <1>1. CASE UNCHANGED vars
        BY <1>1 DEF vars, IInv, OrderShape, JobsShape, Shape, ShelfShape, ClosingOnRecord
  <1>2. ASSUME NEW h \in Handlers, Admin(h) \/ Hook(h) PROVE IInv'
        BY <1>2, ServeKeeps DEF Admin, Hook, Begin
  <1>3. ASSUME NEW h \in Handlers, NEW S, Cancel(h, S) PROVE FALSE
        BY <1>3 DEF Cancel, Begin, Serve, NoCancel
  <1>4. ASSUME NEW h \in Handlers, NEW l \in Lines,
               Return(h, l) \/ Shelve(h, l, "return") \/ Shelve(h, l, "shelve")
        PROVE  IInv'
        BY <1>4, ServeKeeps DEF Return, Shelve, Begin
  <1>5. ASSUME NEW h \in Handlers, CancelRead(h) \/ CancelCount(h) \/ CancelCommit(h)
        PROVE  FALSE
        BY <1>5, Busy DEF IInv, CancelRead, CancelCount, CancelCommit, At
  <1>6. ASSUME NEW h \in Handlers, Abort(h) PROVE IInv'
        BY <1>6, JobEnds, AsideKeeps DEF IInv, Abort
  <1> QED  BY <1>1, <1>2, <1>3, <1>4, <1>5, <1>6, BalanceKeeps, StripeKeeps, AfterKeeps,
              AdminPersistKeeps, ReturnPersistKeeps, ReturnRestockKeeps, HookKeeps
           DEF Next

-----------------------------------------------------------------------------
(* ClosedOnce, of orders that are refunded, returned and reported on by    *)
(* any number of handlers, with answers lost and transactions failing.     *)
THEOREM ClosesOnce ==
    ASSUME NoCancel
    PROVE  Spec => []ClosedOnce
  <1>1. IInv => ClosedOnce
        BY DEF IInv, ClosingOnRecord, ClosedOnce, ShelfShape, Kinds
  <1>2. IInv /\ [Next]_vars => IInv'
        BY IInvStep
  <1> QED  BY <1>1, <1>2, IInvInit, PTL DEF Spec

-----------------------------------------------------------------------------
(* The desk alone: staff who refund, refund returns and restock.           *)
DeskOnly == \A h \in Handlers : Serves[h] \subseteq {"admin", "return", "shelve"}

(* The refund Stripe makes of a return in full.                            *)
ReturnId(l) == [by |-> "return", amount |-> Price[l], lines |-> {l}]

(* What a handler of the desk knows is right: whom it serves, the line of  *)
(* a return with its price, and that a refund it records was made.         *)
Knows(j, made) ==
    /\ j.seen.total \in 0 .. Paid /\ j.amount \in 0 .. Paid /\ j.pay \in PayStatuses
    /\ \/ j.by = "admin" /\ j.lines = {}
       \/ j.by \in {"return", "shelve"} /\ \E l \in Lines : j.lines = {l}
    /\ j.at \in {"balance", "refund", "after", "persist", "reread", "restock"}
    /\ j.at = "balance" => j.by # "shelve"
    /\ j.at \in {"refund", "after", "persist"} =>
         /\ j.amount > 0
         /\ j.by = "admin" \/ \E l \in Lines :
              j.by = "return" /\ j.lines = {l} /\ j.amount = Price[l]
    /\ j.at \in {"after", "persist"} =>
         [by |-> j.by, amount |-> j.amount, lines |-> j.lines] \in made

JobsKnow == \A h \in Handlers : job[h] = Idle \/ Knows(job[h], charge.refunds)

(* Stripe has made the refunds on record, and the sums are theirs.         *)
Ledger ==
    /\ IsFiniteSet(charge.refunds)
    /\ charge.refunded = Amounts(charge.refunds)
    /\ order.applied \subseteq {i \in charge.refunds : i.by = "admin"}
    /\ \A l \in RefundedReturns : ReturnId(l) \in charge.refunds
    /\ order.total = Paid - Amounts(order.applied) - Value(RefundedReturns)

LInv == TypeOK /\ JobsKnow /\ Ledger

(* Prices add up, and what was paid is not negative.                       *)
LEMMA Prices ==
    ASSUME NEW S \in SUBSET Lines
    PROVE  IsFiniteSet(S) /\ Value(S) \in Nat /\ Paid \in Nat
  <1>1. IsFiniteSet(Lines) /\ \A l \in Lines : Price[l] \in Nat
        BY RefundAssumption
  <1>2. IsFiniteSet(S) /\ Value(S) \in Nat /\ Value(Lines) \in Nat
        BY <1>1, FS_Subset, SumNat DEF Value
  <1>3. Shipping \in Nat /\ Credit \in Nat /\ Credit <= Value(Lines) + Shipping
        BY RefundAssumption, CreditAssumption
  <1> QED  BY <1>2, <1>3 DEF Paid

LEMMA PriceOfOne ==
    ASSUME NEW l \in Lines
    PROVE  Price[l] \in Nat /\ Value({l}) = Price[l]
  BY RefundAssumption, SumSingle DEF Value

LEMMA PricesAdd ==
    ASSUME NEW S \in SUBSET Lines, NEW l \in Lines \ S
    PROVE  Value(S \cup {l}) = Value(S) + Price[l]
  <1>1. IsFiniteSet(S) /\ Price[l] \in Nat /\ Value(S) \in Nat
        BY Prices, PriceOfOne
  <1>2. \A y \in S \cup {l} : Price[y] \in Int
        BY RefundAssumption
  <1>3. Value(S \cup {l}) = Price[l] + Value(S)
        BY <1>1, <1>2, SumAdd DEF Value
  <1> QED  BY <1>1, <1>3

LEMMA AmountsAdd ==
    ASSUME NEW ids \in SUBSET Ids, IsFiniteSet(ids), NEW i \in Ids \ ids
    PROVE  /\ IsFiniteSet(ids \cup {i})
           /\ Amounts(ids) \in Nat
           /\ Amounts(ids \cup {i}) = Amounts(ids) + i.amount
  <1> DEFINE f == [x \in ids |-> x.amount]
             g == [x \in ids \cup {i} |-> x.amount]
  <1>1. \A x \in ids \cup {i} : x.amount \in Nat
        BY Prices DEF Ids
  <1>2. /\ \A x \in ids : f[x] \in Nat /\ f[x] \in Int /\ f[x] = g[x]
        /\ \A x \in ids \cup {i} : g[x] \in Int
        /\ g[i] = i.amount
        BY <1>1
  <1>3. Amounts(ids) = SumFunctionOnSet(f, ids)
        /\ Amounts(ids \cup {i}) = SumFunctionOnSet(g, ids \cup {i})
        BY DEF Amounts
  <1> HIDE DEF f, g
  <1>4. SumFunctionOnSet(g, ids \cup {i}) = g[i] + SumFunctionOnSet(g, ids)
        BY <1>2, SumAdd
  <1>5. SumFunctionOnSet(f, ids) = SumFunctionOnSet(g, ids)
        BY <1>2, SumSame
  <1>6. SumFunctionOnSet(f, ids) \in Nat
        BY <1>2, SumNat
  <1>7. IsFiniteSet(ids \cup {i}) /\ i.amount \in Nat
        BY <1>1, FS_AddElement
  <1> QED  BY <1>2, <1>3, <1>4, <1>5, <1>6, <1>7

(* What is recorded is part of what Stripe has refunded.                   *)
LEMMA LedgerSound == LInv => LedgerIsRight
  <1> SUFFICES ASSUME LInv PROVE LedgerIsRight
      OBVIOUS
  <1> DEFINE A == order.applied
             C == charge.refunds
             RR == RefundedReturns
             e == [l \in Lines |-> ReturnId(l)]
             R == {e[l] : l \in RR}
             f == [i \in C |-> i.amount]
  <1>1. /\ TypeOK /\ IsFiniteSet(C) /\ A \subseteq C /\ \A i \in A : i.by = "admin"
        /\ C \subseteq Ids /\ RR \subseteq Lines
        /\ \A l \in RR : e[l] \in C
        /\ charge.refunded = Amounts(C)
        /\ order.total = Paid - Amounts(A) - Value(RR)
        BY DEF LInv, Ledger, TypeOK, Orders, RefundedReturns
  <1>2. /\ \A l \in Lines : e[l].by = "return" /\ e[l].amount = Price[l] /\ Price[l] \in Int
        /\ \A l, m \in Lines : e[l] = e[m] => l = m
        BY PriceOfOne DEF ReturnId
  <1>3. /\ R \subseteq C /\ A \cap R = {} /\ A \subseteq A \cup R /\ A \cup R \subseteq C
        /\ (A \cup R) \ A = R
        BY <1>1, <1>2
  <1>4. \A i \in C : f[i] \in Nat /\ f[i] \in Int
        BY <1>1, Prices DEF Ids
  <1>5. /\ IsFiniteSet(A) /\ IsFiniteSet(R) /\ IsFiniteSet(A \cup R) /\ IsFiniteSet(RR)
        BY <1>1, <1>3, FS_Subset, Prices
  <1>6. Amounts(C) = SumFunctionOnSet(f, C)
        BY DEF Amounts
  <1>7. Amounts(A) = SumFunctionOnSet(f, A)
    <2> DEFINE g == [i \in A |-> i.amount]
    <2>1. \A i \in A : g[i] \in Int /\ g[i] = f[i]
          BY <1>1, <1>4
    <2>2. Amounts(A) = SumFunctionOnSet(g, A)
          BY DEF Amounts
    <2> HIDE DEF f, g, A
    <2> QED  BY <1>5, <2>1, <2>2, SumSame
  <1>8. SumFunctionOnSet(f, R) = Value(RR)
    <2>1. /\ \A l, m \in RR : e[l] = e[m] => l = m
          /\ \A l \in RR : Price[l] \in Int /\ f[e[l]] = Price[l]
          BY <1>1, <1>2
    <2>2. R = {e[l] : l \in RR}
          OBVIOUS
    <2> HIDE DEF f, e, R, RR
    <2>3. SumFunctionOnSet(f, R) = SumFunctionOnSet(Price, RR)
          BY <1>5, <2>1, <2>2, SumImage
    <2> QED  BY <2>3 DEF Value
  <1> HIDE DEF f, R
  <1>9. SumFunctionOnSet(f, A \cup R) = SumFunctionOnSet(f, A) + SumFunctionOnSet(f, R)
    <2>1. \A i \in A \cup R : f[i] \in Int
          BY <1>3, <1>4
    <2> QED  BY <1>3, <1>5, <2>1, SumUnion
  <1>10. SumFunctionOnSet(f, A \cup R) <= SumFunctionOnSet(f, C)
         BY <1>1, <1>3, <1>4, SumPart
  <1>11. SumFunctionOnSet(f, A) \in Nat /\ Value(RR) \in Nat /\ Paid \in Nat
         BY <1>1, <1>4, <1>5, SumNat, Prices
  <1>12. SumFunctionOnSet(f, C) \in Nat
         BY <1>1, <1>4, SumNat
  <1>13. order.total >= Paid - charge.refunded
         BY <1>1, <1>6, <1>7, <1>8, <1>9, <1>10, <1>11, <1>12
  <1> QED  BY <1>1, <1>13 DEF LedgerIsRight

-----------------------------------------------------------------------------
LEMMA KnowsMore ==
    ASSUME NEW j, NEW made, NEW more, made \subseteq more, Knows(j, made)
    PROVE  Knows(j, more)
  BY DEF Knows

(* One handler goes on, or is done.                                        *)
LEMMA OneKnows ==
    ASSUME JobsShape, JobsKnow, NEW h \in Handlers, NEW j,
           j = Idle \/ Knows(j, charge'.refunds),
           job' = [job EXCEPT ![h] = j],
           charge.refunds \subseteq charge'.refunds
    PROVE  JobsKnow'
  <1>1. \A g \in Handlers : job'[g] = IF g = h THEN j ELSE job[g]
        BY DEF JobsShape
  <1>2. ASSUME NEW g \in Handlers
        PROVE  job'[g] = Idle \/ Knows(job'[g], charge'.refunds)
    <2>1. CASE g = h
          BY <1>1, <2>1
    <2>2. CASE g # h
      <3>1. job'[g] = job[g] /\ (job[g] = Idle \/ Knows(job[g], charge.refunds))
            BY <1>1, <2>2 DEF JobsKnow
      <3> QED  BY <3>1, KnowsMore
    <2> QED  BY <2>1, <2>2
  <1> QED  BY <1>2 DEF JobsKnow

LEMMA EndKnows ==
    ASSUME JobsShape, JobsKnow, NEW h \in Handlers, End(h), charge.refunds \subseteq charge'.refunds
    PROVE  JobsKnow'
  BY OneKnows DEF End

(* A handler goes to a place where it need not know more.                  *)
LEMMA GoKnows ==
    ASSUME JobsShape, JobsKnow, NEW h \in Handlers, Shape(job[h]),
           NEW place, Goto(h, place),
           Knows(job[h], charge.refunds), charge.refunds \subseteq charge'.refunds,
           \/ place \in {"reread", "restock"}
           \/ /\ place = "after" /\ job[h].at = "refund"
              /\ [by |-> job[h].by, amount |-> job[h].amount,
                  lines |-> job[h].lines] \in charge'.refunds
    PROVE  JobsKnow'
  <1> DEFINE j == [job[h] EXCEPT !.at = place]
  <1>1. /\ job' = [job EXCEPT ![h] = j] /\ j.at = place
        /\ j.by = job[h].by /\ j.lines = job[h].lines /\ j.amount = job[h].amount
        /\ j.seen = job[h].seen /\ j.pay = job[h].pay
        BY DEF Goto, Shape
  <1> HIDE DEF j
  <1>2. Knows(j, charge'.refunds)
        BY <1>1 DEF Knows
  <1> QED  BY <1>1, <1>2, OneKnows

(* Whoever is at work knows what it does.                                  *)
LEMMA BusyKnows ==
    ASSUME IInv, LInv, DeskOnly, NEW h \in Handlers, job[h].at # "idle"
    PROVE  /\ NoCancel /\ Shape(job[h]) /\ job[h].by \in Serves[h]
           /\ Knows(job[h], charge.refunds)
           /\ ~By(h, "cancel") /\ ~By(h, "hook")
           /\ RefundId(h) = [by |-> job[h].by, amount |-> job[h].amount, lines |-> job[h].lines]
  <1>1. NoCancel
        BY DEF DeskOnly, NoCancel
  <1>2. /\ Shape(job[h]) /\ job[h].by \in Serves[h] /\ job[h].by # "cancel"
        BY <1>1, Busy DEF IInv
  <1>3. Knows(job[h], charge.refunds)
        BY DEF LInv, JobsKnow, Idle
  <1>4. job[h].by # "hook"
        BY <1>2 DEF DeskOnly
  <1> QED  BY <1>1, <1>2, <1>3, <1>4 DEF By, RefundId

(* Nothing of the record changes.                                          *)
LEMMA LedgerAside ==
    ASSUME LInv, IInv', JobsKnow', UNCHANGED <<order, charge, wallet>>,
           returns' \in [Lines -> SUBSET {"approved", "refunded", "restocked"}],
           RefundedReturns' = RefundedReturns,
           served' \in 0 .. MaxRequests
    PROVE  LInv'
  <1>1. TypeOK'
    <2>1. /\ order \in Orders /\ charge \in [refunded : 0 .. Paid, refunds : SUBSET Ids]
          /\ wallet.restored \in Nat
          BY DEF LInv, TypeOK
    <2>2. /\ restocked' \in [Kinds -> [Lines -> Nat]]
          /\ \A h \in Handlers : job'[h] = Idle \/ job'[h].by \in Serves[h]
          BY DEF IInv, JobsShape, ShelfShape
    <2> QED  BY <2>1, <2>2 DEF TypeOK
  <1>2. Ledger'
        BY DEF LInv, Ledger
  <1> QED  BY <1>1, <1>2 DEF LInv

LEMMA ServeLedger ==
    ASSUME IInv, IInv', LInv, NEW h \in Handlers, NEW kind, NEW S,
           NEW place \in {"balance", "restock"}, Serve(h, kind, S, place),
           \/ kind = "admin" /\ S = {}
           \/ kind \in {"return", "shelve"} /\ \E l \in Lines : S = {l},
           place = "balance" => kind # "shelve"
    PROVE  LInv'
  <1> DEFINE j == [at |-> place, by |-> kind, lines |-> S, seen |-> order,
                   base |-> 0, amount |-> 0, pay |-> order.pay,
                   cancelled |-> {}, applied |-> {}, last |-> FALSE]
  <1>1. job' = [job EXCEPT ![h] = j] /\ charge' = charge
        BY DEF Serve
  <1>2. Knows(j, charge.refunds)
    <2>1. order.total \in 0 .. Paid /\ order.pay \in PayStatuses /\ 0 \in 0 .. Paid
      <3>1. {} \in SUBSET Lines
            OBVIOUS
      <3>2. 0 \in 0 .. Paid
            BY <3>1, Prices
      <3>3. order \in Orders
            BY DEF LInv, TypeOK
      <3> QED  BY <3>2, <3>3 DEF Orders
    <2> QED  BY <2>1 DEF Knows
  <1> HIDE DEF j
  <1>3. JobsKnow'
        BY <1>1, <1>2, OneKnows DEF IInv, LInv
  <1>4. /\ UNCHANGED <<order, charge, wallet>> /\ returns' = returns
        /\ served' \in 0 .. MaxRequests
        BY RefundAssumption DEF Serve, LInv, TypeOK
  <1> QED  BY <1>3, <1>4, LedgerAside DEF LInv, TypeOK, RefundedReturns

LEMMA BalanceLedger ==
    ASSUME IInv, IInv', LInv, DeskOnly, NEW h \in Handlers, Balance(h)
    PROVE  LInv'
  <1>1. /\ Shape(job[h]) /\ Knows(job[h], charge.refunds) /\ job[h].at = "balance"
        /\ job[h].by \in {"admin", "return"} /\ ~NothingDue(h)
    <2>1. job[h].at = "balance"
          BY DEF Balance, At
    <2> QED  BY <2>1, BusyKnows DEF Knows, NothingDue
  <1>2. CASE Asked(h) \in 1 .. Remaining(h)
    <2> DEFINE refunded == charge.refunded
               asked == Asked(h)
               i == [job[h] EXCEPT !.at = "refund"]
               k == [i EXCEPT !.amount = asked]
               j == [k EXCEPT !.base = refunded]
    <2>1. job' = [job EXCEPT ![h].at = "refund", ![h].amount = Asked(h),
                             ![h].base = charge.refunded]
          BY <1>1, <1>2 DEF Balance
    <2>2. /\ job' = [job EXCEPT ![h] = j]
          /\ i = [job[h] EXCEPT !.at = "refund"]
          /\ k = [i EXCEPT !.amount = asked]
          /\ j = [k EXCEPT !.base = refunded]
          BY <2>1
    <2>3. asked \in 1 .. Paid
      <3>1. /\ job[h].seen.total \in 0 .. Paid /\ charge.refunded \in 0 .. Paid
            /\ {} \in SUBSET Lines
            BY <1>1 DEF Knows, LInv, TypeOK
      <3>2. Paid \in Nat
            BY <3>1, Prices
      <3> QED  BY <1>2, <3>1, <3>2 DEF Remaining, Least
    <2>4. job[h].by = "return" => \E l \in Lines : job[h].lines = {l} /\ asked = Price[l]
      <3>1. ASSUME job[h].by = "return"
            PROVE  asked = Value(job[h].lines) /\ \E l \in Lines : job[h].lines = {l}
            BY <1>1, <3>1 DEF Asked, By, Knows
      <3> QED  BY <3>1, PriceOfOne
    <2> HIDE DEF refunded, asked, i, k, j
    <2>5. /\ i.at = "refund" /\ i.by = job[h].by /\ i.lines = job[h].lines
          /\ i.seen = job[h].seen /\ i.pay = job[h].pay /\ Shape(i)
          BY <1>1, <2>2 DEF Shape
    <2>6. /\ k.at = "refund" /\ k.by = job[h].by /\ k.lines = job[h].lines
          /\ k.seen = job[h].seen /\ k.pay = job[h].pay /\ k.amount = asked /\ Shape(k)
          BY <2>2, <2>5 DEF Shape
    <2>7. /\ j.at = "refund" /\ j.by = job[h].by /\ j.lines = job[h].lines
          /\ j.seen = job[h].seen /\ j.pay = job[h].pay /\ j.amount = asked
          BY <2>2, <2>6 DEF Shape
    <2>8. Knows(j, charge.refunds)
      <3>1. asked > 0 /\ asked \in 0 .. Paid
            BY <2>3
      <3> QED  BY <1>1, <2>4, <2>7, <3>1 DEF Knows
    <2>9. JobsKnow'
          BY <2>2, <2>8, OneKnows DEF IInv, LInv, Balance
    <2> QED  BY <2>9, LedgerAside DEF Balance, LInv, TypeOK, RefundedReturns
  <1>3. CASE Asked(h) \notin 1 .. Remaining(h)
    <2>1. End(h)
          BY <1>1, <1>3 DEF Balance
    <2>2. JobsKnow'
          BY <2>1, EndKnows DEF IInv, LInv, Balance
    <2> QED  BY <2>2, LedgerAside DEF Balance, LInv, TypeOK, RefundedReturns
  <1> QED  BY <1>2, <1>3

LEMMA AfterLedger ==
    ASSUME IInv, IInv', LInv, DeskOnly, NEW h \in Handlers, After(h)
    PROVE  LInv'
  <1>1. /\ Shape(job[h]) /\ Knows(job[h], charge.refunds) /\ job[h].at = "after"
        BY BusyKnows DEF After, At
  <1>2. PICK n : job' = [job EXCEPT ![h].at = "persist", ![h].pay = Derived(n)]
        BY DEF After
  <1> DEFINE pay == Derived(n)
             k == [job[h] EXCEPT !.at = "persist"]
             j == [k EXCEPT !.pay = pay]
  <1>3. /\ job' = [job EXCEPT ![h] = j]
        /\ k = [job[h] EXCEPT !.at = "persist"]
        /\ j = [k EXCEPT !.pay = pay]
        /\ pay \in PayStatuses
        BY <1>2 DEF Derived, PayStatuses, Refundable
  <1> HIDE DEF pay, k, j
  <1>4. /\ k.at = "persist" /\ k.by = job[h].by /\ k.lines = job[h].lines
        /\ k.seen = job[h].seen /\ k.amount = job[h].amount /\ Shape(k)
        BY <1>1, <1>3 DEF Shape
  <1>5. /\ j.at = "persist" /\ j.by = job[h].by /\ j.lines = job[h].lines
        /\ j.seen = job[h].seen /\ j.amount = job[h].amount /\ j.pay = pay
        BY <1>3, <1>4 DEF Shape
  <1>6. Knows(j, charge.refunds)
        BY <1>1, <1>3, <1>5 DEF Knows
  <1>7. JobsKnow'
        BY <1>3, <1>6, OneKnows DEF IInv, LInv, After
  <1> QED  BY <1>7, LedgerAside DEF After, LInv, TypeOK, RefundedReturns

(* Stripe makes a refund it has the balance for, once under its key.       *)
LEMMA RefundLedger ==
    ASSUME IInv, IInv', LInv, DeskOnly, NEW h \in Handlers,
           StripeRefunds(h) \/ StripeLost(h)
    PROVE  LInv'
  <1>1. /\ Shape(job[h]) /\ Knows(job[h], charge.refunds) /\ job[h].at = "refund"
        /\ ~By(h, "cancel")
        /\ RefundId(h) = [by |-> job[h].by, amount |-> job[h].amount, lines |-> job[h].lines]
        BY BusyKnows DEF StripeRefunds, StripeLost, StripeMay, At
  <1>2. StripeMay(h) /\ Refund(h)
        BY DEF StripeRefunds, StripeLost
  <1> DEFINE id == RefundId(h)
  <1>3. id \in Ids /\ id.amount = job[h].amount /\ job[h].amount \in 0 .. Paid
        BY <1>1 DEF Knows, Ids, Kinds
  <1>4. Paid \in Nat
    <2>1. {} \in SUBSET Lines
          OBVIOUS
    <2> QED  BY <2>1, Prices
  <1>5. /\ charge \in [refunded : 0 .. Paid, refunds : SUBSET Ids]
        /\ IsFiniteSet(charge.refunds) /\ charge.refunded = Amounts(charge.refunds)
        BY DEF LInv, TypeOK, Ledger
  <1>6. /\ charge' \in [refunded : 0 .. Paid, refunds : SUBSET Ids]
        /\ IsFiniteSet(charge'.refunds) /\ charge'.refunded = Amounts(charge'.refunds)
        /\ charge.refunds \subseteq charge'.refunds /\ id \in charge'.refunds
    <2>1. CASE id \in charge.refunds
          BY <1>2, <1>5, <2>1 DEF Refund
    <2>2. CASE id \notin charge.refunds
      <3> HIDE DEF id
      <3>1. /\ charge' = [refunded |-> charge.refunded + job[h].amount,
                          refunds |-> charge.refunds \cup {id}]
            /\ job[h].amount <= Paid - charge.refunded
            BY <1>2, <2>2 DEF Refund, StripeMay, id
      <3>2. charge'.refunded = charge.refunded + job[h].amount
            /\ charge'.refunds = charge.refunds \cup {id}
            BY <3>1
      <3>3. charge.refunded \in 0 .. Paid /\ charge.refunds \in SUBSET Ids
            BY <1>5
      <3>4. charge.refunded + job[h].amount \in 0 .. Paid
            BY <1>3, <1>4, <3>1, <3>3
      <3>5. charge.refunds \cup {id} \in SUBSET Ids
            BY <1>3, <3>3
      <3>6. charge' \in [refunded : 0 .. Paid, refunds : SUBSET Ids]
            BY <3>1, <3>4, <3>5
      <3>7. /\ IsFiniteSet(charge.refunds \cup {id})
            /\ Amounts(charge.refunds \cup {id}) = Amounts(charge.refunds) + id.amount
            BY <1>3, <1>5, <2>2, <3>3, AmountsAdd
      <3> QED  BY <1>3, <1>5, <3>2, <3>6, <3>7
    <2> QED  BY <2>1, <2>2
  <1>7. JobsKnow'
    <2>1. CASE End(h)
          BY <1>6, <2>1, EndKnows DEF IInv, LInv
    <2>2. CASE Goto(h, "after")
          BY <1>1, <1>6, <2>2, GoKnows DEF IInv, LInv
    <2> QED  BY <1>1, <2>1, <2>2 DEF StripeRefunds, StripeLost
  <1>8. UNCHANGED <<order, returns, wallet, served>>
        BY <1>2 DEF Refund
  <1>9. TypeOK'
    <2>1. /\ order \in Orders /\ wallet.restored \in Nat
          /\ returns \in [Lines -> SUBSET {"approved", "refunded", "restocked"}]
          /\ served \in 0 .. MaxRequests
          BY DEF LInv, TypeOK
    <2>2. /\ restocked' \in [Kinds -> [Lines -> Nat]]
          /\ \A g \in Handlers : job'[g] = Idle \/ job'[g].by \in Serves[g]
          BY DEF IInv, JobsShape, ShelfShape
    <2> QED  BY <1>6, <1>8, <2>1, <2>2 DEF TypeOK
  <1>10. Ledger'
    <2>1. RefundedReturns' = RefundedReturns
          BY <1>8 DEF RefundedReturns
    <2> QED  BY <1>6, <1>8, <2>1 DEF LInv, Ledger
  <1> QED  BY <1>7, <1>9, <1>10 DEF LInv

(* The staff's refund is taken off the total once.                         *)
LEMMA AdminLedger ==
    ASSUME IInv, IInv', LInv, DeskOnly, NEW h \in Handlers, AdminPersist(h)
    PROVE  LInv'
  <1>1. /\ Knows(job[h], charge.refunds) /\ job[h].at = "persist" /\ job[h].by = "admin"
        /\ RefundId(h) = [by |-> job[h].by, amount |-> job[h].amount, lines |-> job[h].lines]
        BY BusyKnows DEF AdminPersist, At, By
  <1>2. /\ UNCHANGED <<charge, returns, wallet, served>> /\ End(h)
        BY DEF AdminPersist
  <1>3. JobsKnow'
        BY <1>2, EndKnows DEF IInv, LInv
  <1>4. CASE UNCHANGED order
        BY <1>2, <1>3, <1>4, LedgerAside DEF LInv, TypeOK, RefundedReturns
  <1>5. CASE order' # order
    <2> DEFINE id == RefundId(h)
               pay == job[h].pay
               amount == job[h].amount
    <2>1. /\ MayRecord(h) /\ id \notin order.applied
          /\ order' = [order EXCEPT !.pay = pay, !.status = "REFUNDED",
                           !.total = @ - amount, !.applied = @ \cup {id}]
          BY <1>5 DEF AdminPersist
    <2>2. /\ id \in charge.refunds /\ id.by = "admin" /\ id.amount = amount
          /\ amount \in 0 .. Paid /\ pay \in PayStatuses /\ amount <= order.total
          BY <1>1, <2>1 DEF Knows, MayRecord
    <2>3. /\ order \in Orders /\ charge.refunds \in SUBSET Ids /\ IsFiniteSet(charge.refunds)
          /\ order.applied \subseteq {i \in charge.refunds : i.by = "admin"}
          /\ order.total = Paid - Amounts(order.applied) - Value(RefundedReturns)
          BY DEF LInv, TypeOK, Ledger
    <2> HIDE DEF id, pay, amount
    <2>4. /\ order' = [pay |-> pay, status |-> "REFUNDED", total |-> order.total - amount,
                       credit |-> order.credit, cancelled |-> order.cancelled,
                       applied |-> order.applied \cup {id}]
          /\ order.total \in 0 .. Paid /\ order.applied \in SUBSET Ids
          BY <2>1, <2>3 DEF Orders
    <2>5. /\ Paid \in Nat /\ RefundedReturns \in SUBSET Lines /\ Value(RefundedReturns) \in Nat
          BY Prices DEF RefundedReturns
    <2>6. order' \in Orders
      <3>1. order.total - amount \in 0 .. Paid
            BY <2>2, <2>4, <2>5
      <3>2. order.applied \cup {id} \in SUBSET Ids
            BY <2>2, <2>3, <2>4
      <3> QED  BY <2>2, <2>3, <2>4, <3>1, <3>2 DEF Orders
    <2>7. /\ order'.total = order.total - amount
          /\ order'.applied = order.applied \cup {id}
          BY <2>4
    <2>8. Amounts(order.applied \cup {id}) = Amounts(order.applied) + amount
          /\ Amounts(order.applied) \in Nat
      <3>1. IsFiniteSet(order.applied)
            BY <2>3, FS_Subset
      <3>2. order.applied \in SUBSET Ids /\ id \in Ids \ order.applied
            BY <2>1, <2>2, <2>3
      <3> QED  BY <2>2, <3>1, <3>2, AmountsAdd
    <2>9. RefundedReturns' = RefundedReturns
          BY <1>2 DEF RefundedReturns
    <2>10. Ledger'
      <3>1. order'.total = Paid - Amounts(order'.applied) - Value(RefundedReturns)
            BY <2>2, <2>3, <2>4, <2>5, <2>7, <2>8
      <3>2. order'.applied \subseteq {i \in charge.refunds : i.by = "admin"}
            BY <2>2, <2>3, <2>7
      <3> QED  BY <1>2, <2>9, <3>1, <3>2 DEF Ledger, LInv
    <2>11. TypeOK'
      <3>1. /\ restocked' \in [Kinds -> [Lines -> Nat]]
            /\ \A g \in Handlers : job'[g] = Idle \/ job'[g].by \in Serves[g]
            BY DEF IInv, JobsShape, ShelfShape
      <3> QED  BY <1>2, <2>6, <3>1 DEF LInv, TypeOK
    <2> QED  BY <1>3, <2>10, <2>11 DEF LInv
  <1> QED  BY <1>4, <1>5

(* The refund of a return is taken off the total once.                     *)
LEMMA ReturnLedger ==
    ASSUME IInv, IInv', LInv, DeskOnly, NEW h \in Handlers, ReturnPersist(h)
    PROVE  LInv'
  <1>1. /\ Shape(job[h])
        /\ Knows(job[h], charge.refunds) /\ job[h].at = "persist" /\ job[h].by = "return"
        BY BusyKnows DEF ReturnPersist, At, By
  <1>2. /\ UNCHANGED <<charge, restocked, wallet, served>> /\ (End(h) \/ Goto(h, "reread"))
        BY DEF ReturnPersist
  <1>3. JobsKnow'
        BY <1>1, <1>2, EndKnows, GoKnows DEF IInv, LInv, ReturnPersist
  <1>4. CASE UNCHANGED <<order, returns>>
        BY <1>3, <1>4, LedgerAside DEF LInv, TypeOK, RefundedReturns, ReturnPersist
  <1>5. CASE ~UNCHANGED <<order, returns>>
    <2> DEFINE pay == job[h].pay
               amount == job[h].amount
    <2>1. /\ MayRecord(h) /\ \A l \in job[h].lines : "refunded" \notin returns[l]
          /\ order' = [order EXCEPT !.pay = pay, !.total = @ - amount]
          /\ Note(h, "refunded") /\ UNCHANGED <<charge, restocked, wallet, served>>
          BY <1>5 DEF ReturnPersist
    <2>2. PICK l \in Lines : job[h].lines = {l} /\ amount = Price[l]
          BY <1>1 DEF Knows
    <2>3. /\ ReturnId(l) \in charge.refunds
          /\ amount \in 0 .. Paid /\ pay \in PayStatuses /\ amount <= order.total
          BY <1>1, <2>1, <2>2 DEF Knows, ReturnId, MayRecord
    <2>4. /\ order \in Orders
          /\ \A m \in RefundedReturns : ReturnId(m) \in charge.refunds
          /\ order.total = Paid - Amounts(order.applied) - Value(RefundedReturns)
          /\ returns \in [Lines -> SUBSET {"approved", "refunded", "restocked"}]
          BY DEF LInv, TypeOK, Ledger
    <2>5. /\ RefundedReturns \in SUBSET Lines /\ l \in Lines \ RefundedReturns
          /\ RefundedReturns' = RefundedReturns \cup {l}
          BY <2>1, <2>2, <2>4 DEF RefundedReturns, Note
    <2>6. returns' \in [Lines -> SUBSET {"approved", "refunded", "restocked"}]
          BY <2>1, <2>4 DEF Note
    <2> HIDE DEF pay, amount
    <2>7. /\ order' = [pay |-> pay, status |-> order.status, total |-> order.total - amount,
                       credit |-> order.credit, cancelled |-> order.cancelled,
                       applied |-> order.applied]
          /\ order.total \in 0 .. Paid /\ order.applied \in SUBSET Ids
          BY <2>1, <2>4 DEF Orders
    <2>8. order' \in Orders
      <3>1. order.total - amount \in 0 .. Paid
            BY <2>3, <2>5, <2>7, Prices
      <3> QED  BY <2>3, <2>4, <2>7, <3>1 DEF Orders
    <2>9. Ledger'
      <3>1. order'.total = order.total - amount /\ order'.applied = order.applied
            BY <2>7
      <3>2. Value(RefundedReturns') = Value(RefundedReturns) + amount
            BY <2>2, <2>5, PricesAdd
      <3>3. Amounts(order.applied) \in Int
        <4>1. IsFiniteSet(order.applied) /\ order.applied \in SUBSET Ids
              BY <2>7, FS_Subset DEF LInv, Ledger
        <4> DEFINE f == [i \in order.applied |-> i.amount]
        <4>2. \A i \in order.applied : f[i] \in Int
              BY <4>1 DEF Ids
        <4> HIDE DEF f
        <4>3. SumFunctionOnSet(f, order.applied) \in Int
              BY <4>1, <4>2, SumInt
        <4> QED  BY <4>3 DEF f, Amounts
      <3>4. Paid \in Nat /\ Value(RefundedReturns) \in Nat /\ amount \in Nat
            BY <2>3, <2>5, Prices
      <3>5. order'.total = Paid - Amounts(order'.applied) - Value(RefundedReturns')
            BY <2>4, <3>1, <3>2, <3>3, <3>4
      <3>6. \A m \in RefundedReturns' : ReturnId(m) \in charge.refunds
            BY <2>3, <2>4, <2>5
      <3> QED  BY <2>1, <3>1, <3>5, <3>6 DEF LInv, Ledger
    <2>10. TypeOK'
      <3>1. /\ restocked' \in [Kinds -> [Lines -> Nat]]
            /\ \A g \in Handlers : job'[g] = Idle \/ job'[g].by \in Serves[g]
            BY DEF IInv, JobsShape, ShelfShape
      <3> QED  BY <2>1, <2>6, <2>8, <3>1 DEF LInv, TypeOK
    <2> QED  BY <1>3, <2>9, <2>10 DEF LInv
  <1> QED  BY <1>4, <1>5

(* What goes on the shelf leaves the money alone.                          *)
LEMMA ShelfLedger ==
    ASSUME IInv, IInv', LInv, DeskOnly, NEW h \in Handlers, Reread(h) \/ Reshelve(h)
    PROVE  LInv'
  <1>1. Shape(job[h]) /\ Knows(job[h], charge.refunds)
        BY BusyKnows DEF Reread, Reshelve, At
  <1>2. /\ UNCHANGED <<order, charge, wallet, served>> /\ (End(h) \/ Goto(h, "restock"))
        BY DEF Reread, Reshelve
  <1>3. UNCHANGED <<order, charge, wallet, served>>
        BY DEF Reread, Reshelve
  <1>4. JobsKnow'
        BY <1>1, <1>2, <1>3, EndKnows, GoKnows DEF IInv, LInv
  <1>5. /\ returns' \in [Lines -> SUBSET {"approved", "refunded", "restocked"}]
        /\ RefundedReturns' = RefundedReturns
        BY DEF LInv, TypeOK, RefundedReturns, Reread, Reshelve, Note
  <1> QED  BY <1>3, <1>4, <1>5, LedgerAside DEF LInv, TypeOK

LEMMA LInvInit == Init => LInv
  <1> SUFFICES ASSUME Init PROVE LInv
      OBVIOUS
  <1>1. /\ Paid \in Nat /\ Value({}) = 0 /\ Amounts({}) = 0 /\ IsFiniteSet({})
    <2>1. {} \in SUBSET Lines
          OBVIOUS
    <2> QED  BY <2>1, Prices, SumEmpty, FS_EmptySet DEF Value, Amounts
  <1>2. order \in Orders /\ order.applied = {} /\ order.total = Paid
    <2>1. 0 \in 0 .. Paid /\ Paid \in 0 .. Paid /\ Credit \in 0 .. Credit
          BY <1>1, RefundAssumption
    <2> QED  BY <2>1 DEF Init, Orders, PayStatuses, Refundable
  <1>3. charge = [refunded |-> 0, refunds |-> {}] /\ 0 \in 0 .. Paid
        BY <1>1 DEF Init
  <1>4. TypeOK
    <2>1. returns \in [Lines -> SUBSET {"approved", "refunded", "restocked"}]
          BY DEF Init
    <2>2. restocked \in [Kinds -> [Lines -> Nat]] /\ wallet.restored \in Nat
          BY DEF Init
    <2>3. served \in 0 .. MaxRequests
          BY RefundAssumption DEF Init
    <2> QED  BY <1>2, <1>3, <2>1, <2>2, <2>3 DEF TypeOK, Init
  <1>5. RefundedReturns = {}
        BY DEF Init, RefundedReturns
  <1>6. Ledger
        BY <1>1, <1>2, <1>3, <1>5 DEF Ledger
  <1>7. JobsKnow
        BY DEF Init, JobsKnow
  <1> QED  BY <1>4, <1>6, <1>7 DEF LInv

LEMMA LInvStep == IInv /\ IInv' /\ LInv /\ DeskOnly /\ [Next]_vars => LInv'
  <1> SUFFICES ASSUME IInv, IInv', LInv, DeskOnly, [Next]_vars PROVE LInv'
      OBVIOUS
  <1>2. CASE UNCHANGED vars
        BY <1>2 DEF vars, LInv, TypeOK, JobsKnow, Ledger, RefundedReturns
  <1>3. ASSUME NEW h \in Handlers, Admin(h) \/ Hook(h) PROVE LInv'
        BY <1>3, ServeLedger DEF Admin, Hook, Begin, Serve, DeskOnly
  <1>4. ASSUME NEW h \in Handlers, NEW S, Cancel(h, S) PROVE FALSE
        BY <1>4 DEF Cancel, Begin, Serve, DeskOnly
  <1>5. ASSUME NEW h \in Handlers, NEW l \in Lines,
               Return(h, l) \/ Shelve(h, l, "return") \/ Shelve(h, l, "shelve")
        PROVE  LInv'
        BY <1>5, ServeLedger DEF Return, Shelve, Begin
  <1>6. ASSUME NEW h \in Handlers,
               CancelRead(h) \/ CancelCount(h) \/ CancelCommit(h) \/ HookBalance(h) \/ HookSync(h)
        PROVE  FALSE
    <2>1. job[h].at \in {"read", "count", "commit", "sync"} \/ By(h, "hook")
          BY <1>6 DEF CancelRead, CancelCount, CancelCommit, HookBalance, HookSync, At
    <2>2. job[h].at # "idle"
          BY <1>6 DEF CancelRead, CancelCount, CancelCommit, HookBalance, HookSync, At
    <2> QED  BY <2>1, <2>2, BusyKnows DEF Knows
  <1>7. ASSUME NEW h \in Handlers, Abort(h) \/ StripeRefuses(h) PROVE LInv'
    <2>1. End(h) /\ UNCHANGED <<order, charge, returns, restocked, wallet, served>>
          BY <1>7 DEF Abort, StripeRefuses
    <2>2. JobsKnow'
          BY <2>1, EndKnows DEF IInv, LInv
    <2> QED  BY <2>1, <2>2, LedgerAside DEF LInv, TypeOK, RefundedReturns
  <1> QED  BY <1>2, <1>3, <1>4, <1>5, <1>6, <1>7, BalanceLedger, RefundLedger,
              AfterLedger, AdminLedger, ReturnLedger, ShelfLedger
           DEF Next

(* LedgerIsRight, of orders that the desk alone works on: for any number   *)
(* of lines, staff requests and returns, with answers lost and             *)
(* transactions failing, the total is what was paid less the refunds on    *)
(* record, and never below what Stripe still has.                          *)
THEOREM LedgerHolds ==
    ASSUME DeskOnly
    PROVE  Spec => []LedgerIsRight
  <1>1. IInv /\ [Next]_vars => IInv'
    <2>1. NoCancel
          BY DEF NoCancel, DeskOnly
    <2> QED  BY <2>1, IInvStep
  <1>2. IInv /\ IInv' /\ LInv /\ [Next]_vars => LInv'
        BY LInvStep
  <1>3. Init => IInv /\ LInv
        BY IInvInit, LInvInit
  <1> QED  BY <1>1, <1>2, <1>3, LedgerSound, PTL DEF Spec

-----------------------------------------------------------------------------
(* A buyer cancels from an order once at a time; the staff, returns and    *)
(* Stripe do what they like meanwhile.                                     *)
OneBuyer == \A g, h \in Handlers : "cancel" \in Serves[g] /\ "cancel" \in Serves[h] => g = h

(* What a cancellation has refunded is cancelled.                          *)
Gone(i, cancelled) == i.by = "cancel" => i.lines # {} /\ i.lines \subseteq cancelled

(* A handler at work while the order has this credit and these lines are   *)
(* cancelled: a cancellation has seen both, and is of other lines.         *)
Works(h, j, credit, cancelled) ==
    /\ Shape(j) /\ j.by \in Serves[h] /\ j.at # "idle"
    /\ j.at \in {"read", "count", "commit"} => j.by = "cancel"
    /\ j.by = "cancel" =>
         /\ j.lines # {} /\ j.lines \subseteq Lines \ cancelled
         /\ j.seen.cancelled = cancelled /\ j.seen.credit = credit
    /\ \A i \in j.applied : Gone(i, cancelled)

AllWork ==
    /\ job = [h \in Handlers |-> job[h]]
    /\ \A h \in Handlers :
         job[h] = Idle \/ Works(h, job[h], order.credit, order.cancelled)

CreditInv ==
    /\ OrderShape /\ AllWork
    /\ order.cancelled \subseteq Lines
    /\ order.credit \in 0 .. Credit /\ wallet.restored \in Nat
    /\ \A i \in order.applied : Gone(i, order.cancelled)
    /\ \A i \in wallet.keys : i.by = "cancel" /\ Gone(i, order.cancelled)
    /\ CreditConserved

(* A share of what there is, v of w parts of it.                           *)
LEMMA ShareOf ==
    ASSUME NEW c \in Nat, NEW v \in Nat, NEW w \in Nat, v <= w, w # 0
    PROVE  (c * v) \div w \in 0 .. c
  <1> DEFINE s == (c * v) \div w
             r == (c * v) % w
  <1>1. c * v \in Nat /\ c * v <= c * w
        OBVIOUS
  <1>2. s \in Nat /\ r \in 0 .. (w - 1) /\ c * v = w * s + r
        BY <1>1
  <1> HIDE DEF s, r
  <1>3. ASSUME s > c PROVE FALSE
    <2>1. w * s >= w * (c + 1)
          BY <1>2, <1>3
    <2>2. w * (c + 1) = c * w + w
          OBVIOUS
    <2> QED  BY <1>1, <1>2, <2>1, <2>2
  <1> QED  BY <1>2, <1>3 DEF s

(* A cancellation restores no more credit than there is.                   *)
LEMMA ShareFits ==
    ASSUME NEW h, job[h].lines \subseteq Lines \ job[h].seen.cancelled,
           job[h].seen.credit \in Nat
    PROVE  CreditShare(h) \in 0 .. job[h].seen.credit
  <1> DEFINE c == job[h].seen.credit
             A == Lines \ job[h].seen.cancelled
             v == Value(job[h].lines)
             w == Value(A)
  <1>1. CreditShare(h) = IF CancelsAll(h) \/ w = 0 THEN c ELSE (c * v) \div w
        BY DEF CreditShare
  <1>2. job[h].lines \in SUBSET A /\ A \in SUBSET Lines
        OBVIOUS
  <1> HIDE DEF c, A
  <1>3. v \in Nat /\ w \in Nat /\ v <= w /\ c \in Nat
    <2>1. v \in Nat /\ w \in Nat
          BY <1>2, Prices
    <2>2. IsFiniteSet(A) /\ \A x \in A : Price[x] \in Nat
          BY <1>2, Prices, RefundAssumption
    <2>3. v <= w
          BY <1>2, <2>2, SumPart DEF Value
    <2> QED  BY <2>1, <2>3 DEF c
  <1> HIDE DEF v, w
  <1>4. CreditShare(h) \in 0 .. c
    <2>1. CASE CancelsAll(h) \/ w = 0
          BY <1>1, <1>3, <2>1
    <2>2. CASE ~CancelsAll(h) /\ w # 0
          BY <1>1, <1>3, <2>2, ShareOf
    <2> QED  BY <2>1, <2>2
  <1> QED  BY <1>4 DEF c

-----------------------------------------------------------------------------
LEMMA CreditInit == Init => CreditInv
  <1> SUFFICES ASSUME Init PROVE CreditInv
      OBVIOUS
  <1>1. OrderShape /\ order.cancelled = {} /\ order.applied = {} /\ order.credit = Credit
        BY DEF Init, OrderShape
  <1>2. AllWork /\ wallet.keys = {} /\ wallet.restored = 0
        BY DEF Init, AllWork
  <1> QED  BY <1>1, <1>2, RefundAssumption DEF CreditInv, CreditConserved

(* Whoever works on an order whose credit and lines stay goes on so.       *)
LEMMA WorkGoesOn ==
    ASSUME CreditInv, NEW h \in Handlers, NEW j,
           j = Idle \/ Works(h, j, order.credit, order.cancelled),
           job' = [job EXCEPT ![h] = j],
           OrderShape', order'.credit = order.credit, order'.cancelled = order.cancelled,
           \A i \in order'.applied : Gone(i, order.cancelled), wallet' = wallet
    PROVE  CreditInv'
  <1>1. \A g \in Handlers : job'[g] = IF g = h THEN j ELSE job[g]
        BY DEF CreditInv, AllWork
  <1>2. job' = [g \in Handlers |-> job'[g]]
        BY DEF CreditInv, AllWork
  <1>3. AllWork'
        BY <1>1, <1>2 DEF CreditInv, AllWork
  <1> QED  BY <1>3 DEF CreditInv, CreditConserved

LEMMA WorkAside ==
    ASSUME CreditInv, NEW h \in Handlers, NEW j,
           j = Idle \/ Works(h, j, order.credit, order.cancelled),
           job' = [job EXCEPT ![h] = j], UNCHANGED <<order, wallet>>
    PROVE  CreditInv'
  <1>1. OrderShape' /\ order' = order
        BY DEF CreditInv, OrderShape
  <1> QED  BY <1>1, WorkGoesOn DEF CreditInv

(* A handler whose lines, first reading and applied refunds stay.          *)
LEMMA WorksOn ==
    ASSUME NEW h, NEW j, NEW k, NEW credit, NEW cancelled,
           Works(h, j, credit, cancelled), Shape(k),
           k.by = j.by, k.lines = j.lines, k.seen = j.seen,
           k.applied = j.applied, k.at # "idle",
           k.at \in {"read", "count", "commit"} => j.by = "cancel"
    PROVE  Works(h, k, credit, cancelled)
  BY DEF Works

LEMMA AtWork ==
    ASSUME CreditInv, NEW h \in Handlers, job[h].at # "idle"
    PROVE  Works(h, job[h], order.credit, order.cancelled) /\ Shape(job[h])
  BY DEF CreditInv, AllWork, Works, Idle

LEMMA GoWorks ==
    ASSUME CreditInv, NEW h \in Handlers, job[h].at # "idle", NEW place, Goto(h, place),
           place # "idle", place \in {"read", "count", "commit"} => job[h].by = "cancel"
    PROVE  \E j : job' = [job EXCEPT ![h] = j] /\ Works(h, j, order.credit, order.cancelled)
  <1> DEFINE j == [job[h] EXCEPT !.at = place]
  <1>1. Works(h, job[h], order.credit, order.cancelled) /\ Shape(job[h])
        BY AtWork
  <1>2. /\ Shape(j) /\ j.at = place /\ j.by = job[h].by /\ j.lines = job[h].lines
        /\ j.seen = job[h].seen /\ j.applied = job[h].applied
        BY <1>1 DEF Shape
  <1>3. job' = [job EXCEPT ![h] = j]
        BY DEF Goto
  <1> HIDE DEF j
  <1>4. Works(h, j, order.credit, order.cancelled)
        BY <1>1, <1>2, WorksOn
  <1> QED  BY <1>3, <1>4

LEMMA ServeCredit ==
    ASSUME CreditInv, NEW h \in Handlers, NEW kind, NEW S,
           NEW place \in {"balance", "restock"}, Serve(h, kind, S, place),
           kind = "cancel" => S # {} /\ S \subseteq Lines \ order.cancelled
    PROVE  CreditInv'
  <1> DEFINE j == [at |-> place, by |-> kind, lines |-> S, seen |-> order,
                   base |-> 0, amount |-> 0, pay |-> order.pay,
                   cancelled |-> {}, applied |-> {}, last |-> FALSE]
  <1>1. job' = [job EXCEPT ![h] = j] /\ kind \in Serves[h] /\ UNCHANGED <<order, wallet>>
        BY DEF Serve
  <1>2. Works(h, j, order.credit, order.cancelled)
        BY <1>1 DEF Works, Shape
  <1> HIDE DEF j
  <1> QED  BY <1>1, <1>2, WorkAside

(* Whatever of a handler changes other than its lines and first reading.   *)
LEMMA MovesCredit ==
    ASSUME CreditInv, NEW h \in Handlers,
           \/ Balance(h) \/ StripeRefunds(h) \/ After(h) \/ Reread(h)
           \/ CancelRead(h) \/ CancelCount(h) \/ HookBalance(h)
    PROVE  CreditInv'
  <1>1. Works(h, job[h], order.credit, order.cancelled) /\ Shape(job[h])
        BY AtWork DEF Balance, StripeRefunds, StripeMay, After, Reread, CancelRead, CancelCount,
                      HookBalance, At
  <1>2. UNCHANGED <<order, wallet>>
        BY DEF Balance, StripeRefunds, Refund, After, Reread, CancelRead, CancelCount, HookBalance
  <1>3. job[h].at # "idle"
        BY <1>1 DEF Works
  <1>4. SUFFICES \/ End(h)
                 \/ \E j : /\ job' = [job EXCEPT ![h] = j]
                           /\ Works(h, j, order.credit, order.cancelled)
        BY <1>2, WorkAside DEF End
  <1>5. CASE \/ \E place : /\ Goto(h, place) /\ place # "idle"
                           /\ place \in {"read", "count", "commit"} => job[h].by = "cancel"
             \/ End(h)
        BY <1>3, <1>5, GoWorks
  <1>6. CASE Reread(h) \/ StripeRefunds(h)
    <2>1. \/ End(h) \/ Goto(h, "restock") \/ Goto(h, "after")
          \/ Goto(h, "read") /\ job[h].by = "cancel"
          BY <1>6 DEF Reread, StripeRefunds, By
    <2> QED  BY <1>5, <2>1
  <1>7. CASE Balance(h)
    <2>1. CASE NothingDue(h)
          BY <1>5, <1>7, <2>1 DEF Balance, NothingDue, By
    <2>2. CASE ~NothingDue(h) /\ Asked(h) \notin 1 .. Remaining(h)
          BY <1>5, <1>7, <2>2 DEF Balance
    <2>3. CASE ~NothingDue(h) /\ Asked(h) \in 1 .. Remaining(h)
      <3> DEFINE refunded == charge.refunded
                 asked == Asked(h)
                 i == [job[h] EXCEPT !.at = "refund"]
                 k == [i EXCEPT !.amount = asked]
                 j == [k EXCEPT !.base = refunded]
      <3>1. job' = [job EXCEPT ![h].at = "refund", ![h].amount = Asked(h),
                               ![h].base = charge.refunded]
            BY <1>7, <2>3 DEF Balance
      <3>2. /\ job' = [job EXCEPT ![h] = j] /\ i = [job[h] EXCEPT !.at = "refund"]
            /\ k = [i EXCEPT !.amount = asked] /\ j = [k EXCEPT !.base = refunded]
            BY <3>1
      <3> HIDE DEF refunded, asked, i, k, j
      <3>3. /\ Shape(i) /\ i.at = "refund" /\ i.by = job[h].by /\ i.lines = job[h].lines
            /\ i.seen = job[h].seen /\ i.applied = job[h].applied
            BY <1>1, <3>2 DEF Shape
      <3>4. /\ Shape(k) /\ k.at = "refund" /\ k.by = job[h].by /\ k.lines = job[h].lines
            /\ k.seen = job[h].seen /\ k.applied = job[h].applied
            BY <3>2, <3>3 DEF Shape
      <3>5. /\ Shape(j) /\ j.at = "refund" /\ j.by = job[h].by /\ j.lines = job[h].lines
            /\ j.seen = job[h].seen /\ j.applied = job[h].applied
            BY <3>2, <3>4 DEF Shape
      <3>6. Works(h, j, order.credit, order.cancelled)
            BY <1>1, <3>5, WorksOn
      <3> QED  BY <3>2, <3>6
    <2> QED  BY <2>1, <2>2, <2>3
  <1>8. CASE After(h)
    <2>1. PICK n : job' = [job EXCEPT ![h].at = "persist", ![h].pay = Derived(n)]
          BY <1>8 DEF After
    <2> DEFINE pay == Derived(n)
               k == [job[h] EXCEPT !.at = "persist"]
               j == [k EXCEPT !.pay = pay]
    <2>2. /\ job' = [job EXCEPT ![h] = j] /\ k = [job[h] EXCEPT !.at = "persist"]
          /\ j = [k EXCEPT !.pay = pay]
          BY <2>1
    <2> HIDE DEF pay, k, j
    <2>3. /\ Shape(k) /\ k.at = "persist" /\ k.by = job[h].by /\ k.lines = job[h].lines
          /\ k.seen = job[h].seen /\ k.applied = job[h].applied
          BY <1>1, <2>2 DEF Shape
    <2>4. /\ Shape(j) /\ j.at = "persist" /\ j.by = job[h].by /\ j.lines = job[h].lines
          /\ j.seen = job[h].seen /\ j.applied = job[h].applied
          BY <2>2, <2>3 DEF Shape
    <2>5. Works(h, j, order.credit, order.cancelled)
          BY <1>1, <2>4, WorksOn
    <2> QED  BY <2>2, <2>5
  <1>9. CASE HookBalance(h)
    <2> DEFINE refunded == charge.refunded
               pay == Derived(charge.refunded)
               i == [job[h] EXCEPT !.at = "sync"]
               k == [i EXCEPT !.base = refunded]
               j == [k EXCEPT !.pay = pay]
    <2>1. \/ End(h)
          \/ job' = [job EXCEPT ![h].at = "sync", ![h].base = charge.refunded,
                                ![h].pay = Derived(charge.refunded)]
          BY <1>9 DEF HookBalance
    <2>2. /\ End(h) \/ job' = [job EXCEPT ![h] = j]
          /\ i = [job[h] EXCEPT !.at = "sync"]
          /\ k = [i EXCEPT !.base = refunded] /\ j = [k EXCEPT !.pay = pay]
          BY <2>1
    <2> HIDE DEF refunded, pay, i, k, j
    <2>3. /\ Shape(i) /\ i.at = "sync" /\ i.by = job[h].by /\ i.lines = job[h].lines
          /\ i.seen = job[h].seen /\ i.applied = job[h].applied
          BY <1>1, <2>2 DEF Shape
    <2>4. /\ Shape(k) /\ k.at = "sync" /\ k.by = job[h].by /\ k.lines = job[h].lines
          /\ k.seen = job[h].seen /\ k.applied = job[h].applied
          BY <2>2, <2>3 DEF Shape
    <2>5. /\ Shape(j) /\ j.at = "sync" /\ j.by = job[h].by /\ j.lines = job[h].lines
          /\ j.seen = job[h].seen /\ j.applied = job[h].applied
          BY <2>2, <2>4 DEF Shape
    <2>6. Works(h, j, order.credit, order.cancelled)
          BY <1>1, <2>5, WorksOn
    <2> QED  BY <2>2, <2>6
  <1>10. CASE CancelRead(h)
    <2> DEFINE gone == order.cancelled
               applied == order.applied
               i == [job[h] EXCEPT !.at = "count"]
               k == [i EXCEPT !.cancelled = gone]
               j == [k EXCEPT !.applied = applied]
    <2>1. job[h].at = "read"
          /\ job' = [job EXCEPT ![h].at = "count", ![h].cancelled = order.cancelled,
                                ![h].applied = order.applied]
          BY <1>10 DEF CancelRead, At
    <2>2. /\ job' = [job EXCEPT ![h] = j] /\ i = [job[h] EXCEPT !.at = "count"]
          /\ k = [i EXCEPT !.cancelled = gone] /\ j = [k EXCEPT !.applied = applied]
          BY <2>1
    <2> HIDE DEF gone, i, k, j
    <2>3. /\ Shape(i) /\ i.at = "count" /\ i.by = job[h].by /\ i.lines = job[h].lines
          /\ i.seen = job[h].seen
          BY <1>1, <2>2 DEF Shape
    <2>4. /\ Shape(k) /\ k.at = "count" /\ k.by = job[h].by /\ k.lines = job[h].lines
          /\ k.seen = job[h].seen
          BY <2>2, <2>3 DEF Shape
    <2>5. /\ Shape(j) /\ j.at = "count" /\ j.by = job[h].by /\ j.lines = job[h].lines
          /\ j.seen = job[h].seen /\ j.applied = order.applied
          BY <2>2, <2>4 DEF Shape
    <2>6. Works(h, j, order.credit, order.cancelled)
          BY <1>1, <2>1, <2>5 DEF CreditInv, Works
    <2> QED  BY <2>2, <2>6
  <1>11. CASE CancelCount(h)
    <2> DEFINE last == Lines \subseteq order.cancelled \cup job[h].lines
               k == [job[h] EXCEPT !.at = "commit"]
               j == [k EXCEPT !.last = last]
    <2>1. job[h].at = "count"
          /\ job' = [job EXCEPT ![h].at = "commit",
                                ![h].last = (Lines \subseteq order.cancelled \cup job[h].lines)]
          BY <1>11 DEF CancelCount, At
    <2>2. /\ job' = [job EXCEPT ![h] = j] /\ k = [job[h] EXCEPT !.at = "commit"]
          /\ j = [k EXCEPT !.last = last]
          BY <2>1
    <2> HIDE DEF last, k, j
    <2>3. /\ Shape(k) /\ k.at = "commit" /\ k.by = job[h].by /\ k.lines = job[h].lines
          /\ k.seen = job[h].seen /\ k.applied = job[h].applied
          BY <1>1, <2>2 DEF Shape
    <2>4. /\ Shape(j) /\ j.at = "commit" /\ j.by = job[h].by /\ j.lines = job[h].lines
          /\ j.seen = job[h].seen /\ j.applied = job[h].applied
          BY <2>2, <2>3 DEF Shape
    <2>5. Works(h, j, order.credit, order.cancelled)
          BY <1>1, <2>1, <2>4, WorksOn DEF Works
    <2> QED  BY <2>2, <2>5
  <1> QED  BY <1>6, <1>7, <1>8, <1>9, <1>10, <1>11

(* A handler is done, and the order has its credit and its lines.          *)
LEMMA EndsCredit ==
    ASSUME CreditInv, OneBuyer, NEW h \in Handlers,
           \/ StripeRefuses(h) \/ StripeLost(h) \/ AdminPersist(h) \/ Reshelve(h)
           \/ HookSync(h) \/ Abort(h)
    PROVE  CreditInv'
  <1>1. End(h) /\ UNCHANGED wallet
        BY DEF StripeRefuses, StripeLost, Refund, AdminPersist, Reshelve, HookSync, Abort
  <1>2. /\ OrderShape' /\ order'.credit = order.credit /\ order'.cancelled = order.cancelled
        /\ \A i \in order'.applied : i \in order.applied \/ i.by = "admin"
    <2>1. CASE UNCHANGED order
          BY <2>1 DEF CreditInv, OrderShape
    <2>2. CASE HookSync(h)
          BY <2>2 DEF HookSync, CreditInv, OrderShape
    <2>3. CASE AdminPersist(h) /\ ~UNCHANGED order
      <3>1. order' = [order EXCEPT !.pay = job[h].pay, !.status = "REFUNDED",
                          !.total = @ - job[h].amount,
                          !.applied = @ \cup {RefundId(h)}]
            BY <2>3 DEF AdminPersist
      <3>2. RefundId(h).by = "admin"
            BY <2>3 DEF AdminPersist, By, RefundId
      <3> QED  BY <3>1, <3>2 DEF CreditInv, OrderShape
    <2> QED  BY <2>1, <2>2, <2>3 DEF StripeRefuses, StripeLost, Refund, Reshelve, Abort
  <1>3. \A i \in order'.applied : Gone(i, order.cancelled)
        BY <1>2 DEF CreditInv, Gone
  <1> QED  BY <1>1, <1>2, <1>3, WorkGoesOn DEF End

LEMMA ReturnCredit ==
    ASSUME CreditInv, NEW h \in Handlers, ReturnPersist(h)
    PROVE  CreditInv'
  <1>1. /\ (End(h) \/ Goto(h, "reread")) /\ UNCHANGED wallet
        BY DEF ReturnPersist
  <1>2. /\ OrderShape' /\ order'.credit = order.credit /\ order'.cancelled = order.cancelled
        /\ order'.applied = order.applied
        BY DEF ReturnPersist, CreditInv, OrderShape
  <1>3. job[h].at # "idle"
        BY DEF ReturnPersist, At
  <1>4. \E j : /\ job' = [job EXCEPT ![h] = j]
               /\ j = Idle \/ Works(h, j, order.credit, order.cancelled)
        BY <1>1, <1>3, GoWorks DEF End
  <1> QED  BY <1>1, <1>2, <1>4, WorkGoesOn DEF CreditInv, ReturnPersist

(* What a cancellation refunds was never refunded before.                  *)
LEMMA FreshRefund ==
    ASSUME CreditInv, NEW h \in Handlers, job[h].at # "idle", job[h].by = "cancel"
    PROVE  /\ RefundId(h).by = "cancel"
           /\ Gone(RefundId(h), order.cancelled \cup job[h].lines)
           /\ ~Gone(RefundId(h), order.cancelled)
           /\ ~Applied(h) /\ RefundId(h) \notin wallet.keys
           /\ CancelsAll(h) <=> job[h].lines = Lines \ order.cancelled
           /\ job[h].lines # {} /\ job[h].lines \subseteq Lines \ order.cancelled
           /\ job[h].seen.cancelled = order.cancelled /\ job[h].seen.credit = order.credit
  <1> DEFINE gone == order.cancelled
             S == job[h].lines
             id == RefundId(h)
  <1>1. /\ S # {} /\ S \subseteq Lines \ gone
        /\ job[h].seen.cancelled = gone /\ job[h].seen.credit = order.credit
        /\ \A i \in job[h].applied : Gone(i, gone)
        BY AtWork DEF Works
  <1>2. /\ id.by = "cancel" /\ Gone(id, gone \cup S) /\ ~Gone(id, gone)
    <2>1. CASE CancelsAll(h)
      <3>1. id.by = "cancel" /\ id.lines = Lines
            BY <2>1 DEF RefundId, By
      <3>2. Lines \subseteq gone \cup S /\ Lines # {} /\ ~(Lines \subseteq gone)
            BY <1>1, <2>1 DEF CancelsAll
      <3> QED  BY <3>1, <3>2 DEF Gone
    <2>2. CASE ~CancelsAll(h)
      <3>1. id.by = "cancel" /\ id.lines = S
            BY <2>2 DEF RefundId, By
      <3> QED  BY <1>1, <3>1 DEF Gone
    <2> QED  BY <2>1, <2>2
  <1> HIDE DEF id
  <1>3. ~Applied(h) /\ id \notin wallet.keys
        BY <1>1, <1>2 DEF Applied, CreditInv, id
  <1>4. CancelsAll(h) <=> S = Lines \ gone
        BY <1>1 DEF CancelsAll
  <1> QED  BY <1>1, <1>2, <1>3, <1>4 DEF id

(* What a cancellation writes.                                             *)
LEMMA CommitsOrder ==
    ASSUME CreditInv, NEW h \in Handlers, CancelCommit(h)
    PROVE  /\ job[h].at = "commit" /\ job[h].by = "cancel" /\ job[h].by \in Serves[h]
           /\ CreditShare(h) \in 0 .. order.credit
           /\ order'.credit = order.credit - CreditShare(h)
           /\ order'.cancelled = order.cancelled \cup job[h].lines
           /\ order'.applied = NowApplied(h) /\ OrderShape'
           /\ order'.status = IF job[h].last THEN "CANCELLED" ELSE job[h].seen.status
           /\ order'.total = IF CancelsAll(h) THEN 0
                             ELSE Positive(job[h].seen.total - job[h].amount)
  <1> DEFINE seen == job[h].seen
             share == CreditShare(h)
             pay == IF job[h].last THEN "REFUNDED" ELSE "PARTIALLY_REFUNDED"
             status == IF job[h].last THEN "CANCELLED" ELSE seen.status
             total == IF CancelsAll(h) THEN 0 ELSE Positive(seen.total - job[h].amount)
             left == Positive(seen.credit - share)
             applied == NowApplied(h)
             lines == order.cancelled \cup job[h].lines
  <1>1. job[h].at = "commit"
        BY DEF CancelCommit, At
  <1>2. /\ job[h].by = "cancel" /\ job[h].by \in Serves[h]
        /\ job[h].lines \subseteq Lines \ order.cancelled
        /\ seen.cancelled = order.cancelled /\ seen.credit = order.credit
        BY <1>1, AtWork DEF Works
  <1>3. order.credit \in Nat
        BY RefundAssumption DEF CreditInv
  <1>4. share \in 0 .. order.credit
        BY <1>2, <1>3, ShareFits
  <1>5. left = order.credit - share
        BY <1>2, <1>3, <1>4 DEF Positive
  <1>6. order' = [pay |-> pay, status |-> status, total |-> total, credit |-> left,
                  cancelled |-> lines, applied |-> applied]
        BY DEF CancelCommit
  <1> HIDE DEF pay, status, total, left, applied, lines
  <1>7. /\ order'.credit = left /\ order'.cancelled = lines /\ order'.applied = applied
        /\ order'.status = status /\ order'.total = total /\ OrderShape'
        BY <1>6 DEF OrderShape
  <1> QED  BY <1>1, <1>2, <1>4, <1>5, <1>7 DEF status, total, applied, lines

(* The credit that is restored leaves the order, once.                     *)
LEMMA CommitCredit ==
    ASSUME CreditInv, OneBuyer, NEW h \in Handlers, CancelCommit(h)
    PROVE  CreditInv'
  <1> DEFINE credit == order.credit
             gone == order.cancelled
             S == job[h].lines
             share == CreditShare(h)
             id == RefundId(h)
  <1>1. job[h].at = "commit" /\ End(h) /\ RestoreCredit(h)
        BY DEF CancelCommit, At
  <1>2. /\ Works(h, job[h], credit, gone) /\ By(h, "cancel") /\ job[h].by \in Serves[h]
        /\ S # {} /\ S \subseteq Lines \ gone
        /\ \A i \in job[h].applied : Gone(i, gone)
        BY <1>1, AtWork DEF Works, By
  <1>3. credit \in Nat /\ credit <= Credit /\ gone \subseteq Lines
        BY RefundAssumption DEF CreditInv
  <1>4. share \in 0 .. credit
        BY CommitsOrder
  <1>5. /\ order'.credit = credit - share
        /\ order'.cancelled = gone \cup S
        /\ order'.applied = NowApplied(h) /\ OrderShape'
        BY CommitsOrder
  <1>7. /\ id.by = "cancel" /\ Gone(id, gone \cup S)
        /\ ~Applied(h) /\ id \notin wallet.keys
        BY <1>1, <1>2, FreshRefund DEF By
  <1> HIDE DEF id
  <1>9. /\ wallet'.restored = wallet.restored + share
        /\ wallet'.keys \subseteq wallet.keys \cup {id}
    <2>1. CASE share = 0
      <3>1. wallet' = wallet
            BY <1>1, <2>1 DEF RestoreCredit
      <3>2. wallet.restored \in Nat
            BY DEF CreditInv
      <3> QED  BY <2>1, <3>1, <3>2
    <2>2. CASE share # 0
      <3>1. wallet' = [restored |-> wallet.restored + share, keys |-> wallet.keys \cup {id}]
            BY <1>1, <1>7, <2>2 DEF RestoreCredit, id
      <3> QED  BY <3>1
    <2> QED  BY <2>1, <2>2
  <1>10. \A i \in order'.applied \cup wallet'.keys : Gone(i, gone \cup S)
    <2>1. NowApplied(h) \subseteq job[h].applied \cup {id} \cup order.applied
          BY DEF NowApplied, id
    <2>2. \A i : Gone(i, gone) => Gone(i, gone \cup S)
          BY DEF Gone
    <2>3. \A i \in job[h].applied \cup order.applied \cup wallet.keys : Gone(i, gone)
          BY <1>2 DEF CreditInv
    <2> QED  BY <1>5, <1>7, <1>9, <2>1, <2>2, <2>3
  <1>11. AllWork'
    <2>1. job' = [g \in Handlers |-> job'[g]]
          BY <1>1 DEF CreditInv, AllWork, End
    <2>2. ASSUME NEW g \in Handlers
          PROVE  job'[g] = Idle \/ Works(g, job'[g], order'.credit, order'.cancelled)
      <3>1. CASE g = h
            BY <1>1, <3>1 DEF End, CreditInv, AllWork
      <3>2. CASE g # h
        <4>1. job'[g] = job[g] /\ (job[g] = Idle \/ Works(g, job[g], credit, gone))
              BY <1>1, <3>2 DEF End, CreditInv, AllWork
        <4>2. ASSUME Works(g, job[g], credit, gone)
              PROVE  Works(g, job[g], order'.credit, order'.cancelled)
          <5>1. job[g].by # "cancel"
                BY <1>2, <3>2, <4>2 DEF OneBuyer, Works, By
          <5>2. \A i \in job[g].applied : Gone(i, gone \cup S)
                BY <4>2 DEF Works, Gone
          <5> QED  BY <1>5, <4>2, <5>1, <5>2 DEF Works
        <4> QED  BY <4>1, <4>2
      <3> QED  BY <3>1, <3>2
    <2> QED  BY <2>1, <2>2 DEF AllWork
  <1>12. \A i \in wallet'.keys : i.by = "cancel"
         BY <1>7, <1>9 DEF CreditInv
  <1>13. CreditConserved'
    <2>1. wallet.restored + credit = Credit /\ wallet.restored \in Nat
          BY <1>3 DEF CreditInv, CreditConserved
    <2>2. wallet'.restored + order'.credit = Credit
          BY <1>3, <1>4, <1>5, <1>9, <2>1
    <2> QED  BY <2>2 DEF CreditConserved
  <1>14. /\ order'.credit \in 0 .. Credit /\ order'.cancelled \subseteq Lines
         /\ wallet'.restored \in Nat
    <2>1. wallet.restored \in Nat
          BY DEF CreditInv
    <2> QED  BY <1>2, <1>3, <1>4, <1>5, <1>9, <2>1, RefundAssumption
  <1> QED  BY <1>5, <1>10, <1>11, <1>12, <1>13, <1>14 DEF CreditInv

LEMMA CreditStep == CreditInv /\ OneBuyer /\ [Next]_vars => CreditInv'
  <1> SUFFICES ASSUME CreditInv, OneBuyer, [Next]_vars PROVE CreditInv'
      OBVIOUS
  <1>1. CASE UNCHANGED vars
        BY <1>1 DEF vars, CreditInv, OrderShape, AllWork, CreditConserved
  <1>2. ASSUME NEW h \in Handlers, Admin(h) \/ Hook(h) PROVE CreditInv'
        BY <1>2, ServeCredit DEF Admin, Hook, Begin
  <1>3. ASSUME NEW h \in Handlers, NEW S, Cancel(h, S) PROVE CreditInv'
        BY <1>3, ServeCredit DEF Cancel, Begin
  <1>4. ASSUME NEW h \in Handlers, NEW l \in Lines,
               Return(h, l) \/ Shelve(h, l, "return") \/ Shelve(h, l, "shelve")
        PROVE  CreditInv'
        BY <1>4, ServeCredit DEF Return, Shelve, Begin
  <1> QED  BY <1>1, <1>2, <1>3, <1>4, MovesCredit, EndsCredit, ReturnCredit, CommitCredit
           DEF Next

(* CreditConserved, of orders of any lines, prices and credit that one     *)
(* buyer cancels from in any parts and however often, while any number of  *)
(* staff requests and deliveries of Stripe are at work, with answers lost  *)
(* and transactions failing.                                               *)
THEOREM CreditIsConserved ==
    ASSUME OneBuyer
    PROVE  Spec => []CreditConserved
  <1>1. CreditInv /\ [Next]_vars => CreditInv'
        BY CreditStep
  <1>2. CreditInv => CreditConserved
        BY DEF CreditInv
  <1> QED  BY <1>1, <1>2, CreditInit, PTL DEF Spec

-----------------------------------------------------------------------------
(* A buyer and Stripe's reports alone, with no answer lost, on an order    *)
(* that pays for shipping and whose credit is no more than its lines.      *)
BuyerOnly ==
    /\ OneBuyer /\ \A h \in Handlers : Serves[h] \subseteq {"cancel", "hook"}
    /\ Lossy = FALSE
    /\ Lines # {} /\ Shipping > 0 /\ Credit <= Value(Lines)

Closed == order.status \in {"CANCELLED", "REFUNDED"}

(* What the card has still paid for: the lines that are left with the      *)
(* shipping, less the credit that is left.                                 *)
Left ==
    IF order.cancelled = Lines THEN 0
    ELSE Value(Lines \ order.cancelled) + Shipping - order.credit

(* What the card gets back by a cancellation.                              *)
Owes(h) == IF CancelsAll(h) THEN Left ELSE Value(job[h].lines) - CreditShare(h)

AllSettled ==
    /\ charge.refunded = Paid - Left
    /\ \A i \in charge.refunds : i.by = "cancel" /\ Gone(i, order.cancelled)
    /\ Closed <=> order.cancelled = Lines

(* The refund of this cancellation is made and not yet recorded.           *)
OneUnsettled(h) ==
    /\ charge.refunded = Paid - Left + job[h].amount
    /\ \A i \in charge.refunds : i.by = "cancel" /\ (Gone(i, order.cancelled) \/ i = RefundId(h))
    /\ Closed => CancelsAll(h)

Underway(h) == job[h] # Idle /\ job[h].by = "cancel"

BuyerKnows(h) ==
    /\ job[h].at \in {"balance", "refund", "read", "count", "commit"}
    /\ job[h].seen.total \in Nat /\ job[h].seen.total >= Left
    /\ job[h].seen.status = "PROCESSING"
    /\ job[h].amount = IF job[h].at = "balance" THEN 0 ELSE Owes(h)
    /\ job[h].at \in {"count", "commit"} => job[h].cancelled = order.cancelled
    /\ job[h].at = "commit" => job[h].last = IF CancelsAll(h) THEN TRUE ELSE FALSE
    /\ IF job[h].at \in {"balance", "refund"} THEN AllSettled ELSE OneUnsettled(h)

(* What Stripe reported is not more than it has refunded.                  *)
HookKnows(h) ==
    /\ job[h].at \in {"balance", "sync"}
    /\ job[h].at = "sync" =>
         /\ job[h].base \in 0 .. charge.refunded
         /\ job[h].pay = "REFUNDED" => job[h].base >= Paid

BuyerInv ==
    /\ order.total \in Nat /\ charge.refunded \in Nat
    /\ order.total >= Paid - charge.refunded
    /\ order.credit <= Value(Lines \ order.cancelled)
    /\ restocked \in [Kinds -> [Lines -> Nat]]
    /\ \A l \in Lines : restocked["cancel"][l] = IF l \in order.cancelled THEN 1 ELSE 0
    /\ \A h \in Handlers :
         /\ Underway(h) => BuyerKnows(h)
         /\ job[h] # Idle /\ job[h].by = "hook" => HookKnows(h)
    /\ (\A h \in Handlers : ~Underway(h)) => AllSettled

(* The rest of the credit is no more than the rest of the lines.           *)
LEMMA RestOfShare ==
    ASSUME NEW c \in Nat, NEW v \in Nat, NEW w \in Nat, v <= w, c <= w, w # 0
    PROVE  /\ (c * v) \div w \in Nat
           /\ (c * v) \div w <= v
           /\ c - (c * v) \div w <= w - v
  <1> DEFINE s == (c * v) \div w
             r == (c * v) % w
  <1>1. c * v \in Nat /\ c * v <= w * v
        OBVIOUS
  <1>2. s \in Nat /\ r \in 0 .. (w - 1) /\ c * v = w * s + r
        BY <1>1
  <1> HIDE DEF s, r
  <1>3. ASSUME s > v PROVE FALSE
    <2>1. w * s >= w * (v + 1)
          BY <1>2, <1>3
    <2>2. w * (v + 1) = w * v + w
          OBVIOUS
    <2> QED  BY <1>1, <1>2, <2>1, <2>2
  <1>4. ASSUME s < c + v - w PROVE FALSE
    <2> DEFINE d == w - c
               e == w - v
    <2>1. d \in Nat /\ e \in Nat /\ d * e \in Nat
          OBVIOUS
    <2>2. d * e = w * w - w * c - w * v + c * v
          OBVIOUS
    <2>3. w * s <= w * (c + v - w - 1)
          BY <1>2, <1>4
    <2>4. w * (c + v - w - 1) = w * c + w * v - w * w - w
          OBVIOUS
    <2>5. c * v < w * s + w
          BY <1>2
    <2>6. w * c \in Int /\ w * v \in Int /\ w * w \in Int /\ w * s \in Int
          BY <1>2
    <2> HIDE DEF d, e
    <2> QED  BY <1>1, <2>1, <2>2, <2>3, <2>4, <2>5, <2>6
  <1> QED  BY <1>2, <1>3, <1>4 DEF s

(* Lines that are cancelled and lines that are left make up the order.     *)
LEMMA TwoParts ==
    ASSUME NEW S \in SUBSET Lines, NEW T \in SUBSET S
    PROVE  Value(S) = Value(T) + Value(S \ T)
  <1>1. IsFiniteSet(S) /\ \A x \in S : Price[x] \in Int
        BY Prices, RefundAssumption
  <1> QED  BY <1>1, SumUnion DEF Value

LEMMA LeftIs ==
    ASSUME CreditInv, BuyerOnly, order.credit <= Value(Lines \ order.cancelled)
    PROVE  /\ Value(Lines \ order.cancelled) \in Nat /\ order.credit \in Nat
           /\ Left \in Nat /\ Paid \in Nat
           /\ order.cancelled # Lines => Left > 0
           /\ Paid - Left = IF order.cancelled = Lines THEN Paid
                            ELSE Value(order.cancelled) - wallet.restored
  <1> DEFINE w == Value(Lines \ order.cancelled)
             u == Value(order.cancelled)
             t == Value(Lines)
             n == wallet.restored
             c == order.credit
  <1>1. order.cancelled \subseteq Lines /\ c \in 0 .. Credit /\ n \in Nat /\ n + c = Credit
        BY DEF CreditInv, CreditConserved
  <1>2. w \in Nat /\ u \in Nat /\ t \in Nat /\ Paid \in Nat
    <2>1. /\ order.cancelled \in SUBSET Lines /\ Lines \in SUBSET Lines
          /\ Lines \ order.cancelled \in SUBSET Lines
          BY <1>1
    <2> QED  BY <2>1, Prices
  <1>3. t = u + w
        BY <1>1, TwoParts
  <1>4. Shipping \in Nat /\ Credit \in Nat /\ Shipping > 0 /\ Paid = t + Shipping - Credit
        BY RefundAssumption DEF BuyerOnly, Paid
  <1>5. Left = IF order.cancelled = Lines THEN 0 ELSE w + Shipping - c
        BY DEF Left
  <1>6. c <= w
        OBVIOUS
  <1> HIDE DEF w, u, t, n, c
  <1>7. Left \in Nat /\ (order.cancelled # Lines => Left > 0)
        BY <1>1, <1>2, <1>4, <1>5, <1>6
  <1>8. order.cancelled # Lines => Paid - Left = u - n
        BY <1>1, <1>2, <1>3, <1>4, <1>5
  <1>9. c \in Nat
        BY <1>1, <1>4
  <1> QED  BY <1>2, <1>5, <1>7, <1>8, <1>9 DEF w, u, n, c

(* A part of the lines is owed less than what is left, and leaves the      *)
(* credit that is left within the lines that are left.                     *)
LEMMA OwesIs ==
    ASSUME CreditInv, BuyerOnly, order.credit <= Value(Lines \ order.cancelled),
           NEW h \in Handlers, job[h].at # "idle", job[h].by = "cancel"
    PROVE  /\ order.cancelled # Lines
           /\ Owes(h) \in 0 .. Left
           /\ CancelsAll(h) => /\ Owes(h) = Left /\ Owes(h) > 0
                               /\ order.cancelled \cup job[h].lines = Lines
                               /\ CreditShare(h) = order.credit
           /\ ~CancelsAll(h) =>
                /\ Owes(h) < Left
                /\ Owes(h) = Value(job[h].lines) - CreditShare(h)
                /\ order.cancelled \cup job[h].lines # Lines
                /\ CreditShare(h) \in 0 .. order.credit
                /\ order.credit - CreditShare(h)
                     <= Value(Lines \ (order.cancelled \cup job[h].lines))
                /\ Left - Owes(h) = Value(Lines \ (order.cancelled \cup job[h].lines))
                                       + Shipping - (order.credit - CreditShare(h))
  <1> DEFINE A == Lines \ order.cancelled
             S == job[h].lines
             w == Value(A)
             v == Value(S)
             x == Value(Lines \ (order.cancelled \cup S))
             c == order.credit
             s == CreditShare(h)
  <1>1. /\ S # {} /\ S \subseteq A
        /\ CancelsAll(h) <=> S = A
        /\ job[h].seen.cancelled = order.cancelled /\ job[h].seen.credit = c
        BY FreshRefund
  <1>2. /\ order.cancelled # Lines /\ Left \in Nat /\ Left > 0 /\ w \in Nat /\ c \in Nat
        /\ Left = w + Shipping - c /\ c <= w
    <2>1. order.cancelled # Lines
          BY <1>1
    <2>2. Left = w + Shipping - c
          BY <2>1 DEF Left
    <2> QED  BY <2>1, <2>2, LeftIs
  <1>3. Lines \ (order.cancelled \cup S) = A \ S /\ A \in SUBSET Lines /\ S \in SUBSET A
        BY <1>1
  <1>4. w = v + x /\ v \in Nat /\ x \in Nat
    <2>1. A \ S \in SUBSET Lines /\ S \in SUBSET Lines
          BY <1>3
    <2> QED  BY <1>3, <2>1, TwoParts, Prices
  <1>5. s = IF CancelsAll(h) \/ w = 0 THEN c ELSE (c * v) \div w
        BY <1>1 DEF CreditShare
  <1>6. Owes(h) = IF CancelsAll(h) THEN Left ELSE v - s
        BY DEF Owes
  <1>7. order.cancelled \cup S = Lines <=> S = A
    <2>1. order.cancelled \subseteq Lines
          BY DEF CreditInv
    <2>2. S = A => order.cancelled \cup S = Lines
          BY <2>1
    <2>3. order.cancelled \cup S = Lines => S = A
          BY <1>1
    <2> QED  BY <2>2, <2>3
  <1>8. Shipping \in Nat /\ Shipping > 0
        BY RefundAssumption DEF BuyerOnly
  <1>9. CASE CancelsAll(h)
    <2>1. Owes(h) = Left /\ s = c
          BY <1>5, <1>6, <1>9
    <2>2. order.cancelled \cup S = Lines
          BY <1>1, <1>7, <1>9
    <2> HIDE DEF w, v, x, s, A
    <2>3. Owes(h) \in 0 .. Left /\ Owes(h) > 0
          BY <1>2, <2>1
    <2> QED  BY <1>2, <1>9, <2>1, <2>2, <2>3 DEF s
  <1>10. CASE ~CancelsAll(h)
    <2> HIDE DEF A, S, w, v, x, c, s
    <2>1. s \in Nat /\ s <= v /\ c - s <= w - v /\ s <= c
      <3>1. CASE w = 0
            BY <1>2, <1>4, <1>5, <3>1
      <3>2. CASE w # 0
        <4>1. v <= w
              BY <1>4
        <4>2. s = (c * v) \div w
              BY <1>5, <1>10, <3>2
        <4>3. s \in Nat /\ s <= v /\ c - s <= w - v
              BY <1>2, <1>4, <3>2, <4>1, <4>2, RestOfShare
        <4>4. s \in 0 .. c
              BY <1>2, <1>4, <3>2, <4>1, <4>2, ShareOf
        <4> QED  BY <1>2, <4>3, <4>4
      <3> QED  BY <3>1, <3>2
    <2>2. Owes(h) = v - s
          BY <1>6, <1>10
    <2>3. /\ Owes(h) \in 0 .. Left /\ Owes(h) < Left /\ s \in 0 .. c /\ c - s <= x
          /\ Left - Owes(h) = x + Shipping - (c - s)
          BY <1>2, <1>4, <1>8, <2>1, <2>2
    <2> QED  BY <1>1, <1>2, <1>7, <1>10, <2>2, <2>3 DEF A, S, v, x, c, s
  <1> QED  BY <1>9, <1>10

-----------------------------------------------------------------------------
LEMMA BuyerInit == Init /\ BuyerOnly => BuyerInv
  <1> SUFFICES ASSUME Init, BuyerOnly PROVE BuyerInv
      OBVIOUS
  <1>1. /\ order.cancelled = {} /\ order.credit = Credit /\ order.total = Paid
        /\ order.status \in {"PROCESSING", "DELIVERED"}
        /\ charge.refunded = 0 /\ charge.refunds = {}
        BY DEF Init
  <1>2. /\ CreditInv /\ Lines \ {} = Lines /\ Lines # {} /\ Credit <= Value(Lines)
        /\ wallet.restored = 0
        BY CreditInit DEF BuyerOnly, Init
  <1>3. Paid \in Nat /\ Paid - Left = 0 /\ Left \in Nat
    <2>1. Value({}) = 0
          BY SumEmpty DEF Value
    <2>2. order.credit <= Value(Lines \ order.cancelled)
          BY <1>1, <1>2
    <2>3. order.cancelled # Lines
          BY <1>1, <1>2
    <2>4. Paid - Left = Value(order.cancelled) - wallet.restored /\ Paid \in Nat /\ Left \in Nat
          BY <1>2, <2>2, <2>3, LeftIs
    <2>5. Value(order.cancelled) = 0
          BY <1>1, <2>1
    <2> QED  BY <1>2, <2>4, <2>5
  <1>4. AllSettled
    <2>1. ~Closed
          BY <1>1 DEF Closed
    <2> QED  BY <1>1, <1>2, <1>3, <2>1 DEF AllSettled
  <1>5. \A h \in Handlers : job[h] = Idle
        BY DEF Init
  <1>6. /\ restocked \in [Kinds -> [Lines -> Nat]]
        /\ \A l \in Lines : restocked["cancel"][l] = 0
        BY DEF Init, Kinds
  <1> QED  BY <1>1, <1>2, <1>3, <1>4, <1>5, <1>6 DEF BuyerInv, Underway

(* Nobody else cancels.                                                    *)
LEMMA OnlyOne ==
    ASSUME CreditInv, BuyerOnly, NEW g \in Handlers, NEW h \in Handlers, "cancel" \in Serves[h],
           Underway(g)
    PROVE  g = h
  <1>1. Works(g, job[g], order.credit, order.cancelled)
        BY DEF Underway, CreditInv, AllWork
  <1> QED  BY <1>1 DEF Works, Underway, BuyerOnly, OneBuyer

(* What a handler owes follows from what it has read.                      *)
LEMMA SameHandler ==
    ASSUME NEW h, job'[h].lines = job[h].lines, job'[h].seen = job[h].seen,
           job'[h].by = job[h].by
    PROVE  /\ CancelsAll(h)' <=> CancelsAll(h)
           /\ CreditShare(h)' = CreditShare(h)
           /\ order' = order => Owes(h)' = Owes(h)
           /\ job'[h].amount = job[h].amount => RefundId(h)' = RefundId(h)
  <1>1. CancelsAll(h)' <=> CancelsAll(h)
        BY DEF CancelsAll
  <1>2. CreditShare(h)' = CreditShare(h)
        BY <1>1 DEF CreditShare
  <1>3. order' = order => Left' = Left
        BY DEF Left
  <1>4. order' = order => Owes(h)' = Owes(h)
        BY <1>1, <1>2, <1>3 DEF Owes
  <1>5. By(h, "cancel")' <=> By(h, "cancel")
        BY DEF By
  <1> QED  BY <1>1, <1>2, <1>4, <1>5 DEF RefundId

(* One handler moves while the money and the shelf stay as they are.       *)
LEMMA BuyerAside ==
    ASSUME BuyerInv, CreditInv, NEW h \in Handlers, NEW j, job' = [job EXCEPT ![h] = j],
           UNCHANGED <<order, charge, restocked>>,
           Underway(h) => Underway(h)',
           Underway(h)' => BuyerKnows(h)',
           job'[h] # Idle /\ job'[h].by = "hook" => HookKnows(h)'
    PROVE  BuyerInv'
  <1>1. \A g \in Handlers : g # h => job'[g] = job[g]
        BY DEF CreditInv, AllWork
  <1>2. AllSettled => AllSettled'
        BY DEF AllSettled, Left, Closed
  <1>3. ASSUME NEW g \in Handlers
        PROVE  /\ Underway(g)' => BuyerKnows(g)'
               /\ job'[g] # Idle /\ job'[g].by = "hook" => HookKnows(g)'
               /\ Underway(g) => Underway(g)'
    <2>1. CASE g = h
          BY <2>1
    <2>2. CASE g # h
      <3>1. job'[g] = job[g]
            BY <1>1, <2>2
      <3>2. /\ CancelsAll(g)' <=> CancelsAll(g)
            /\ Owes(g)' = Owes(g) /\ RefundId(g)' = RefundId(g)
            BY <3>1, SameHandler
      <3>3. Underway(g)' <=> Underway(g)
            BY <3>1 DEF Underway
      <3>4. Left' = Left
            BY DEF Left
      <3>5. OneUnsettled(g) => OneUnsettled(g)'
            BY <3>1, <3>2, <3>4 DEF OneUnsettled, Closed, Gone
      <3>6. BuyerKnows(g) => BuyerKnows(g)'
            BY <1>2, <3>1, <3>2, <3>4, <3>5 DEF BuyerKnows
      <3>7. HookKnows(g) => HookKnows(g)'
            BY <3>1 DEF HookKnows
      <3> QED  BY <3>1, <3>3, <3>6, <3>7 DEF BuyerInv
    <2> QED  BY <2>1, <2>2
  <1>4. (\A g \in Handlers : ~Underway(g)') => AllSettled'
        BY <1>2, <1>3 DEF BuyerInv
  <1> QED  BY <1>3, <1>4 DEF BuyerInv

(* Whoever is at work is the buyer or a delivery.                          *)
LEMMA BuyerOrHook ==
    ASSUME BuyerInv, CreditInv, BuyerOnly, NEW h \in Handlers, job[h].at # "idle"
    PROVE  /\ Shape(job[h])
           /\ \/ Underway(h) /\ BuyerKnows(h) /\ job[h].by = "cancel" /\ "cancel" \in Serves[h]
              \/ job[h].by = "hook" /\ HookKnows(h)
  <1>1. Works(h, job[h], order.credit, order.cancelled) /\ Shape(job[h]) /\ job[h] # Idle
        BY AtWork DEF Idle
  <1>2. job[h].by \in {"cancel", "hook"} /\ job[h].by \in Serves[h]
        BY <1>1 DEF Works, BuyerOnly
  <1> QED  BY <1>1, <1>2 DEF BuyerInv, Underway

LEMMA ServeBuyer ==
    ASSUME BuyerInv, CreditInv, BuyerOnly, NEW h \in Handlers, NEW kind, NEW S,
           Serve(h, kind, S, "balance"),
           kind = "cancel" => order.status = "PROCESSING"
    PROVE  BuyerInv'
  <1> DEFINE j == [at |-> "balance", by |-> kind, lines |-> S, seen |-> order,
                   base |-> 0, amount |-> 0, pay |-> order.pay,
                   cancelled |-> {}, applied |-> {}, last |-> FALSE]
  <1>1. /\ job' = [job EXCEPT ![h] = j] /\ job[h] = Idle /\ kind \in Serves[h]
        /\ UNCHANGED <<order, charge, restocked>>
        BY DEF Serve
  <1>2. /\ job'[h] = j /\ j.at = "balance" /\ j.by = kind /\ j.seen = order /\ j.amount = 0
        BY <1>1 DEF CreditInv, AllWork
  <1> HIDE DEF j
  <1>3. ASSUME kind = "cancel" PROVE BuyerKnows(h)'
    <2>1. \A g \in Handlers : ~Underway(g)
          BY <1>1, <1>3, OnlyOne DEF Underway
    <2>2. AllSettled
          BY <2>1 DEF BuyerInv
    <2>3. AllSettled' /\ Left' = Left
          BY <1>1, <2>2 DEF AllSettled, Left, Closed
    <2>4. order.total \in Nat /\ order.total >= Left
      <3>1. Paid \in Nat /\ Left \in Nat
            BY LeftIs DEF BuyerInv
      <3> QED  BY <2>2, <3>1 DEF BuyerInv, AllSettled
    <2>5. /\ job'[h].at = "balance" /\ job'[h].seen.total = order.total
          /\ job'[h].seen.status = "PROCESSING" /\ job'[h].amount = 0
          BY <1>2, <1>3
    <2> QED  BY <2>3, <2>4, <2>5 DEF BuyerKnows
  <1>4. Underway(h)' => kind = "cancel"
        BY <1>2 DEF Underway
  <1>5. HookKnows(h)'
        BY <1>2 DEF HookKnows
  <1>6. ~Underway(h)
        BY <1>1 DEF Underway
  <1> QED  BY <1>1, <1>3, <1>4, <1>5, <1>6, BuyerAside

(* The buyer's handler goes on with what it has read.                      *)
LEMMA GoesOn ==
    ASSUME NEW h, job'[h].lines = job[h].lines, job'[h].seen = job[h].seen,
           job'[h].by = job[h].by, Underway(h), BuyerKnows(h),
           UNCHANGED <<order, charge>>,
           job'[h].amount = Owes(h) /\ job'[h].at # "balance",
           \/ job'[h].at = "refund" /\ job[h].at = "balance"
           \/ job'[h].at = "read" /\ job[h].at = "balance" /\ Owes(h) = 0
           \/ /\ job'[h].at \in {"count", "commit"} /\ job[h].at \in {"read", "count", "commit"}
              /\ job'[h].cancelled = order.cancelled
              /\ job'[h].amount = job[h].amount
              /\ job'[h].at = "commit" => job'[h].last = IF CancelsAll(h) THEN TRUE ELSE FALSE,
           Left \in Nat, Paid \in Nat, CancelsAll(h) \/ order.cancelled # Lines
    PROVE  BuyerKnows(h)' /\ Underway(h)'
  <1>1. /\ CancelsAll(h)' <=> CancelsAll(h)
        /\ Owes(h)' = Owes(h)
        /\ job'[h].amount = job[h].amount => RefundId(h)' = RefundId(h)
        BY SameHandler
  <1>2. Left' = Left /\ (AllSettled => AllSettled')
        BY DEF AllSettled, Left, Closed
  <1>3. Underway(h)'
    <2>1. job'[h].at \in {"refund", "read", "count", "commit"}
          OBVIOUS
    <2>2. job'[h] # Idle
          BY <2>1 DEF Idle
    <2> QED  BY <2>2 DEF Underway
  <1>4. IF job'[h].at \in {"balance", "refund"} THEN AllSettled' ELSE OneUnsettled(h)'
    <2>1. CASE job'[h].at = "refund" /\ job[h].at = "balance"
          BY <1>2, <2>1 DEF BuyerKnows
    <2>2. CASE job'[h].at = "read" /\ job[h].at = "balance" /\ Owes(h) = 0
      <3>1. AllSettled /\ job'[h].amount = 0
            BY <2>2 DEF BuyerKnows
      <3>2. charge'.refunded = Paid - Left + job'[h].amount
            BY <3>1 DEF AllSettled
      <3> QED  BY <1>1, <1>2, <2>2, <3>1, <3>2 DEF AllSettled, OneUnsettled, Closed
    <2>3. CASE /\ job'[h].at \in {"count", "commit"} /\ job[h].at \in {"read", "count", "commit"}
               /\ job'[h].amount = job[h].amount
      <3>1. OneUnsettled(h)
            BY <2>3 DEF BuyerKnows
      <3> QED  BY <1>1, <1>2, <2>3, <3>1 DEF OneUnsettled, Closed, Gone
    <2> QED  BY <2>1, <2>2, <2>3
  <1> QED  BY <1>1, <1>2, <1>3, <1>4 DEF BuyerKnows

LEMMA BalanceBuyer ==
    ASSUME BuyerInv, CreditInv, BuyerOnly, NEW h \in Handlers, Balance(h)
    PROVE  BuyerInv'
  <1>1. /\ job[h].at = "balance" /\ Underway(h) /\ BuyerKnows(h) /\ job[h].by = "cancel"
        /\ Shape(job[h])
        BY BuyerOrHook DEF Balance, At, By
  <1>2. /\ order.cancelled # Lines /\ Owes(h) \in 0 .. Left
        /\ CancelsAll(h) => Owes(h) = Left
        /\ ~CancelsAll(h) => Owes(h) = Value(job[h].lines) - CreditShare(h)
        BY <1>1, OwesIs DEF BuyerInv
  <1>3. Left \in Nat /\ Paid \in Nat /\ Left > 0
        BY <1>2, LeftIs DEF BuyerInv
  <1>4. charge.refunded = Paid - Left /\ job[h].seen.total >= Left /\ job[h].seen.total \in Nat
        /\ job[h].amount = 0
        BY <1>1 DEF BuyerKnows, AllSettled
  <1>5. Remaining(h) = Left
        BY <1>3, <1>4 DEF Remaining, Least
  <1>6. CancelDue(h) = IF CancelsAll(h) THEN job[h].seen.total ELSE Owes(h)
        BY <1>2, <1>3 DEF CancelDue, Positive
  <1>7. Asked(h) = Owes(h)
    <2>1. Asked(h) = Least(CancelDue(h), Remaining(h))
          BY <1>1 DEF Asked, By
    <2> QED  BY <1>2, <1>3, <1>4, <1>5, <1>6, <2>1 DEF Least
  <1>8. UNCHANGED <<order, charge, restocked>>
        BY DEF Balance
  <1>9. CASE Owes(h) = 0
    <2>1. Goto(h, "read")
          BY <1>1, <1>2, <1>3, <1>6, <1>9 DEF Balance, NothingDue, By
    <2> DEFINE j == [job[h] EXCEPT !.at = "read"]
    <2>2. job' = [job EXCEPT ![h] = j]
          BY <2>1 DEF Goto
    <2>3. /\ j.at = "read" /\ j.by = job[h].by /\ j.lines = job[h].lines
          /\ j.seen = job[h].seen /\ j.amount = 0
          BY <1>1, <1>4 DEF Shape
    <2> HIDE DEF j
    <2>4. job'[h] = j
          BY <2>2 DEF CreditInv, AllWork
    <2>5. BuyerKnows(h)' /\ Underway(h)'
          BY <1>1, <1>2, <1>3, <1>8, <1>9, <2>3, <2>4, GoesOn
    <2> QED  BY <1>1, <1>8, <2>2, <2>3, <2>4, <2>5, BuyerAside
  <1>10. CASE Owes(h) # 0
    <2>1. /\ ~NothingDue(h) /\ Asked(h) \in 1 .. Remaining(h)
          BY <1>2, <1>3, <1>4, <1>5, <1>6, <1>7, <1>10 DEF NothingDue
    <2> DEFINE refunded == charge.refunded
               asked == Asked(h)
               i == [job[h] EXCEPT !.at = "refund"]
               k == [i EXCEPT !.amount = asked]
               j == [k EXCEPT !.base = refunded]
    <2>2. job' = [job EXCEPT ![h].at = "refund", ![h].amount = Asked(h),
                             ![h].base = charge.refunded]
          BY <2>1 DEF Balance
    <2>3. /\ job' = [job EXCEPT ![h] = j] /\ i = [job[h] EXCEPT !.at = "refund"]
          /\ k = [i EXCEPT !.amount = asked] /\ j = [k EXCEPT !.base = refunded]
          BY <2>2
    <2>4. asked = Owes(h)
          BY <1>7
    <2> HIDE DEF refunded, asked, i, k, j
    <2>5. /\ Shape(i) /\ i.at = "refund" /\ i.by = job[h].by /\ i.lines = job[h].lines
          /\ i.seen = job[h].seen
          BY <1>1, <2>3 DEF Shape
    <2>6. /\ Shape(k) /\ k.at = "refund" /\ k.by = job[h].by /\ k.lines = job[h].lines
          /\ k.seen = job[h].seen /\ k.amount = asked
          BY <2>3, <2>5 DEF Shape
    <2>7. /\ j.at = "refund" /\ j.by = job[h].by /\ j.lines = job[h].lines
          /\ j.seen = job[h].seen /\ j.amount = asked
          BY <2>3, <2>6 DEF Shape
    <2>8. job'[h] = j
          BY <2>3 DEF CreditInv, AllWork
    <2>9. BuyerKnows(h)' /\ Underway(h)'
          BY <1>1, <1>2, <1>3, <1>8, <2>4, <2>7, <2>8, GoesOn
    <2> QED  BY <1>1, <1>8, <2>3, <2>7, <2>8, <2>9, BuyerAside
  <1> QED  BY <1>9, <1>10

LEMMA ReadBuyer ==
    ASSUME BuyerInv, CreditInv, BuyerOnly, NEW h \in Handlers, CancelRead(h) \/ CancelCount(h)
    PROVE  BuyerInv'
  <1>1. /\ job[h].at \in {"read", "count"} /\ Underway(h) /\ BuyerKnows(h) /\ job[h].by = "cancel"
        /\ Shape(job[h])
        BY BuyerOrHook DEF CancelRead, CancelCount, At, HookKnows
  <1>2. /\ order.cancelled # Lines /\ Left \in Nat /\ Paid \in Nat
        /\ order.cancelled \subseteq Lines
        /\ job[h].seen.cancelled = order.cancelled /\ job[h].lines \subseteq Lines \ order.cancelled
        /\ job[h].amount = Owes(h)
        BY <1>1, OwesIs, LeftIs, FreshRefund DEF BuyerInv, CreditInv, BuyerKnows
  <1>3. UNCHANGED <<order, charge, restocked>>
        BY DEF CancelRead, CancelCount
  <1>4. PICK j : /\ job' = [job EXCEPT ![h] = j]
                 /\ j.by = job[h].by /\ j.lines = job[h].lines
                 /\ j.seen = job[h].seen /\ j.amount = job[h].amount
                 /\ j.at \in {"count", "commit"} /\ j.cancelled = order.cancelled
                 /\ j.at = "commit" => j.last = IF CancelsAll(h) THEN TRUE ELSE FALSE
    <2>1. CASE CancelRead(h)
      <3> DEFINE gone == order.cancelled
                 applied == order.applied
                 i == [job[h] EXCEPT !.at = "count"]
                 k == [i EXCEPT !.cancelled = gone]
                 j == [k EXCEPT !.applied = applied]
      <3>1. job' = [job EXCEPT ![h].at = "count", ![h].cancelled = order.cancelled,
                               ![h].applied = order.applied]
            BY <2>1 DEF CancelRead
      <3>2. /\ job' = [job EXCEPT ![h] = j] /\ i = [job[h] EXCEPT !.at = "count"]
            /\ k = [i EXCEPT !.cancelled = gone] /\ j = [k EXCEPT !.applied = applied]
            BY <3>1
      <3> HIDE DEF gone, applied, i, k, j
      <3>3. /\ Shape(i) /\ i.at = "count" /\ i.by = job[h].by /\ i.lines = job[h].lines
            /\ i.seen = job[h].seen /\ i.amount = job[h].amount
            BY <1>1, <3>2 DEF Shape
      <3>4. /\ Shape(k) /\ k.at = "count" /\ k.by = job[h].by /\ k.lines = job[h].lines
            /\ k.seen = job[h].seen /\ k.amount = job[h].amount /\ k.cancelled = gone
            BY <3>2, <3>3 DEF Shape
      <3>5. /\ j.at = "count" /\ j.by = job[h].by /\ j.lines = job[h].lines
            /\ j.seen = job[h].seen /\ j.amount = job[h].amount /\ j.cancelled = gone
            BY <3>2, <3>4 DEF Shape
      <3> QED  BY <3>2, <3>5 DEF gone
    <2>2. CASE CancelCount(h)
      <3> DEFINE last == Lines \subseteq order.cancelled \cup job[h].lines
                 k == [job[h] EXCEPT !.at = "commit"]
                 j == [k EXCEPT !.last = last]
      <3>1. /\ job' = [job EXCEPT ![h].at = "commit",
                                ![h].last = (Lines \subseteq order.cancelled \cup job[h].lines)]
            /\ job[h].at = "count"
            BY <2>2 DEF CancelCount, At
      <3>2. /\ job' = [job EXCEPT ![h] = j] /\ k = [job[h] EXCEPT !.at = "commit"]
            /\ j = [k EXCEPT !.last = last]
            BY <3>1
      <3>3. last = IF CancelsAll(h) THEN TRUE ELSE FALSE
        <4>1. CancelsAll(h) <=> Lines \subseteq order.cancelled \cup job[h].lines
              BY <1>2 DEF CancelsAll
        <4> QED  BY <4>1
      <3> HIDE DEF last, k, j
      <3>4. /\ Shape(k) /\ k.at = "commit" /\ k.by = job[h].by /\ k.lines = job[h].lines
            /\ k.seen = job[h].seen /\ k.amount = job[h].amount /\ k.cancelled = job[h].cancelled
            BY <1>1, <3>2 DEF Shape
      <3>5. /\ j.at = "commit" /\ j.by = job[h].by /\ j.lines = job[h].lines
            /\ j.seen = job[h].seen /\ j.amount = job[h].amount /\ j.cancelled = job[h].cancelled
            /\ j.last = last
            BY <3>2, <3>4 DEF Shape
      <3>6. job[h].cancelled = order.cancelled
            BY <1>1, <3>1 DEF BuyerKnows
      <3> QED  BY <3>2, <3>3, <3>5, <3>6
    <2> QED  BY <2>1, <2>2
  <1>5. job'[h] = j
        BY <1>4 DEF CreditInv, AllWork
  <1>6. BuyerKnows(h)' /\ Underway(h)'
        BY <1>1, <1>2, <1>3, <1>4, <1>5, GoesOn
  <1> QED  BY <1>1, <1>3, <1>4, <1>5, <1>6, BuyerAside

LEMMA HookBuyer ==
    ASSUME BuyerInv, CreditInv, BuyerOnly, NEW h \in Handlers, HookBalance(h)
    PROVE  BuyerInv'
  <1>1. /\ job[h].at = "balance" /\ job[h].by = "hook" /\ Shape(job[h])
        BY BuyerOrHook DEF HookBalance, At, By, Underway
  <1>2. UNCHANGED <<order, charge, restocked>> /\ ~Underway(h)
        BY <1>1 DEF HookBalance, Underway
  <1>3. PICK j : /\ job' = [job EXCEPT ![h] = j]
                 /\ \/ j = Idle
                    \/ /\ j.at = "sync" /\ j.by = "hook" /\ j.base = charge.refunded
                       /\ j.pay = Derived(charge.refunded)
    <2>1. CASE End(h)
          BY <2>1 DEF End
    <2>2. CASE ~End(h)
      <3> DEFINE refunded == charge.refunded
                 pay == Derived(charge.refunded)
                 i == [job[h] EXCEPT !.at = "sync"]
                 k == [i EXCEPT !.base = refunded]
                 j == [k EXCEPT !.pay = pay]
      <3>1. job' = [job EXCEPT ![h].at = "sync", ![h].base = charge.refunded,
                               ![h].pay = Derived(charge.refunded)]
            BY <2>2 DEF HookBalance
      <3>2. /\ job' = [job EXCEPT ![h] = j] /\ i = [job[h] EXCEPT !.at = "sync"]
            /\ k = [i EXCEPT !.base = refunded] /\ j = [k EXCEPT !.pay = pay]
            BY <3>1
      <3> HIDE DEF refunded, pay, i, k, j
      <3>3. Shape(i) /\ i.at = "sync" /\ i.by = "hook"
            BY <1>1, <3>2 DEF Shape
      <3>4. Shape(k) /\ k.at = "sync" /\ k.by = "hook" /\ k.base = refunded
            BY <3>2, <3>3 DEF Shape
      <3>5. j.at = "sync" /\ j.by = "hook" /\ j.base = refunded /\ j.pay = pay
            BY <3>2, <3>4 DEF Shape
      <3> QED  BY <3>2, <3>5 DEF refunded, pay
    <2> QED  BY <2>1, <2>2
  <1>4. job'[h] = j
        BY <1>3 DEF CreditInv, AllWork
  <1>5. ~Underway(h)'
        BY <1>3, <1>4 DEF Underway
  <1>6. job'[h] # Idle => HookKnows(h)'
    <2>1. charge.refunded \in Nat
          BY DEF BuyerInv
    <2>2. Derived(charge.refunded) = "REFUNDED" => charge.refunded >= Paid
          BY DEF Derived
    <2> QED  BY <1>2, <1>3, <1>4, <2>1, <2>2 DEF HookKnows
  <1> QED  BY <1>2, <1>3, <1>5, <1>6, BuyerAside

(* Stripe has refunded no more than was paid, and all of it only when      *)
(* nothing is left.                                                        *)
LEMMA ChargeFits ==
    ASSUME BuyerInv, CreditInv, BuyerOnly
    PROVE  /\ charge.refunded <= Paid
           /\ AllSettled /\ charge.refunded >= Paid => order.cancelled = Lines
           /\ \A h \in Handlers :
                Underway(h) /\ OneUnsettled(h) /\ job[h].amount = Owes(h) /\ charge.refunded >= Paid
                  => CancelsAll(h)
  <1>1. Left \in Nat /\ Paid \in Nat /\ charge.refunded \in Nat
        BY LeftIs DEF BuyerInv
  <1>2. order.cancelled # Lines => Left > 0
        BY LeftIs DEF BuyerInv
  <1>3. charge.refunded <= Paid
    <2>1. CASE \A h \in Handlers : ~Underway(h)
          BY <1>1, <2>1 DEF BuyerInv, AllSettled
    <2>2. ASSUME NEW h \in Handlers, Underway(h) PROVE charge.refunded <= Paid
      <3>1. Owes(h) \in 0 .. Left /\ BuyerKnows(h)
            BY <2>2, OwesIs DEF BuyerInv, Underway, CreditInv, AllWork, Works
      <3>2. \/ charge.refunded = Paid - Left
            \/ charge.refunded = Paid - Left + Owes(h)
            BY <3>1 DEF BuyerKnows, AllSettled, OneUnsettled
      <3> QED  BY <1>1, <3>1, <3>2
    <2> QED  BY <2>1, <2>2
  <1>4. AllSettled /\ charge.refunded >= Paid => order.cancelled = Lines
        BY <1>1, <1>2 DEF AllSettled
  <1>5. ASSUME NEW h \in Handlers, Underway(h), OneUnsettled(h), job[h].amount = Owes(h),
               charge.refunded >= Paid
        PROVE  CancelsAll(h)
    <2>1. Owes(h) \in 0 .. Left
          BY <1>5, OwesIs DEF BuyerInv, Underway, CreditInv, AllWork, Works
    <2>2. ~CancelsAll(h) => Owes(h) < Left
          BY <1>5, OwesIs DEF BuyerInv, Underway, CreditInv, AllWork, Works
    <2>3. charge.refunded = Paid - Left + Owes(h)
          BY <1>5 DEF OneUnsettled
    <2> QED  BY <1>1, <1>5, <2>1, <2>2, <2>3
  <1> QED  BY <1>3, <1>4, <1>5

LEMMA StripeBuyer ==
    ASSUME BuyerInv, CreditInv, BuyerOnly, NEW h \in Handlers, StripeRefunds(h)
    PROVE  BuyerInv'
  <1>1. /\ job[h].at = "refund" /\ Underway(h) /\ BuyerKnows(h) /\ job[h].by = "cancel"
        /\ Shape(job[h]) /\ "cancel" \in Serves[h]
        BY BuyerOrHook DEF StripeRefunds, StripeMay, At, HookKnows
  <1>2. /\ Owes(h) \in 0 .. Left /\ order.cancelled # Lines
        /\ Left \in Nat /\ Paid \in Nat
        BY <1>1, OwesIs, LeftIs DEF BuyerInv
  <1>3. /\ AllSettled /\ job[h].amount = Owes(h)
        BY <1>1 DEF BuyerKnows
  <1> DEFINE id == RefundId(h)
  <1>4. id \notin charge.refunds /\ id.by = "cancel"
        BY <1>1, <1>3, FreshRefund DEF AllSettled
  <1>5. /\ charge'.refunded = charge.refunded + job[h].amount
        /\ charge'.refunds = charge.refunds \cup {id}
        BY <1>4 DEF StripeRefunds, Refund
  <1>6. UNCHANGED <<order, restocked>> /\ Goto(h, "read")
        BY <1>1 DEF StripeRefunds, Refund, By
  <1> HIDE DEF id
  <1> DEFINE j == [job[h] EXCEPT !.at = "read"]
  <1>7. job' = [job EXCEPT ![h] = j]
        BY <1>6 DEF Goto
  <1>8. /\ j.at = "read" /\ j.by = job[h].by /\ j.lines = job[h].lines
        /\ j.seen = job[h].seen /\ j.amount = job[h].amount
        BY <1>1 DEF Shape
  <1> HIDE DEF j
  <1>9. job'[h] = j /\ \A g \in Handlers : g # h => job'[g] = job[g]
        BY <1>7 DEF CreditInv, AllWork
  <1>10. /\ CancelsAll(h)' <=> CancelsAll(h)
         /\ Owes(h)' = Owes(h) /\ RefundId(h)' = id
         BY <1>6, <1>8, <1>9, SameHandler DEF id
  <1>11. Left' = Left
         BY <1>6 DEF Left
  <1>12. Underway(h)'
    <2>1. job'[h].at # "idle" /\ job'[h].by = "cancel"
          BY <1>1, <1>8, <1>9
    <2> QED  BY <2>1 DEF Underway, Idle
  <1>13. charge'.refunded = Paid - Left + Owes(h) /\ charge.refunded = Paid - Left
         BY <1>3, <1>5 DEF AllSettled
  <1>14. BuyerKnows(h)'
    <2>1. OneUnsettled(h)'
      <3>1. \A i \in charge'.refunds : i.by = "cancel" /\ (Gone(i, order'.cancelled) \/ i = id)
            BY <1>3, <1>4, <1>5, <1>6 DEF AllSettled
      <3>2. ~Closed'
            BY <1>2, <1>3, <1>6 DEF AllSettled, Closed
      <3>3. job'[h].amount = Owes(h)
            BY <1>3, <1>8, <1>9
      <3> QED  BY <1>10, <1>11, <1>13, <3>1, <3>2, <3>3 DEF OneUnsettled
    <2> QED  BY <1>1, <1>3, <1>8, <1>9, <1>10, <1>11, <2>1 DEF BuyerKnows
  <1>15. ASSUME NEW g \in Handlers
         PROVE  /\ Underway(g)' => BuyerKnows(g)'
                /\ job'[g] # Idle /\ job'[g].by = "hook" => HookKnows(g)'
    <2>1. CASE g = h
          BY <1>1, <1>8, <1>9, <1>14, <2>1
    <2>2. CASE g # h
      <3>1. job'[g] = job[g]
            BY <1>9, <2>2
      <3>2. ~Underway(g)'
            BY <1>1, <2>2, <3>1, OnlyOne DEF Underway
      <3>3. HookKnows(g) => HookKnows(g)'
            BY <1>2, <1>13, <3>1 DEF HookKnows
      <3> QED  BY <3>1, <3>2, <3>3 DEF BuyerInv
    <2> QED  BY <2>1, <2>2
  <1>16. /\ charge'.refunded \in Nat /\ order'.total \in Nat
         /\ order'.total >= Paid - charge'.refunded
    <2>1. /\ charge.refunded \in Nat /\ order.total \in Nat
          /\ order.total >= Paid - charge.refunded
          BY DEF BuyerInv
    <2> QED  BY <1>2, <1>6, <1>13, <2>1
  <1> QED  BY <1>6, <1>12, <1>15, <1>16 DEF BuyerInv

(* The refund is recorded, and all is settled again.                       *)
LEMMA CommitBuyer ==
    ASSUME BuyerInv, CreditInv, BuyerOnly, NEW h \in Handlers, CancelCommit(h)
    PROVE  BuyerInv'
  <1> DEFINE gone == order.cancelled
             S == job[h].lines
             share == CreditShare(h)
             id == RefundId(h)
             amount == job[h].amount
             seen == job[h].seen
  <1>1. /\ job[h].at = "commit" /\ job[h].by = "cancel" /\ "cancel" \in Serves[h]
        /\ share \in 0 .. order.credit /\ order'.credit = order.credit - share
        /\ order'.cancelled = gone \cup S
        /\ order'.status = IF job[h].last THEN "CANCELLED" ELSE seen.status
        /\ order'.total = IF CancelsAll(h) THEN 0 ELSE Positive(seen.total - amount)
        BY CommitsOrder
  <1>2. Underway(h) /\ BuyerKnows(h)
        BY <1>1, BuyerOrHook
  <1>3. /\ gone # Lines /\ Owes(h) \in 0 .. Left /\ Left \in Nat /\ Paid \in Nat
        /\ gone \subseteq Lines /\ order.credit \in Nat
        /\ order.credit <= Value(Lines \ gone)
        BY <1>1, OwesIs, LeftIs DEF BuyerInv, CreditInv
  <1>4. /\ amount = Owes(h) /\ OneUnsettled(h) /\ job[h].cancelled = gone
        /\ job[h].last = IF CancelsAll(h) THEN TRUE ELSE FALSE
        /\ seen.status = "PROCESSING" /\ seen.total \in Nat /\ seen.total >= Left
        BY <1>1, <1>2 DEF BuyerKnows
  <1>5. /\ Gone(id, gone \cup S) /\ ~Applied(h)
        /\ S \subseteq Lines \ gone
        BY <1>1, FreshRefund
  <1>6. /\ UNCHANGED charge /\ End(h) /\ RestockCancelled(h)
        BY DEF CancelCommit
  <1>7. /\ charge.refunded = Paid - Left + amount
        /\ \A i \in charge.refunds : i.by = "cancel" /\ (Gone(i, gone) \/ i = id)
        BY <1>4 DEF OneUnsettled
  <1>8. /\ CancelsAll(h) => /\ Owes(h) = Left /\ gone \cup S = Lines
                            /\ share = order.credit
        /\ ~CancelsAll(h) =>
              /\ gone \cup S # Lines
              /\ order.credit - share <= Value(Lines \ (gone \cup S))
              /\ Left - Owes(h) = Value(Lines \ (gone \cup S)) + Shipping - (order.credit - share)
        BY <1>1, OwesIs DEF BuyerInv
  <1>9. Left' = Left - amount
    <2>1. CASE CancelsAll(h)
          BY <1>1, <1>3, <1>4, <1>8, <2>1 DEF Left
    <2>2. CASE ~CancelsAll(h)
          BY <1>1, <1>4, <1>8, <2>2 DEF Left
    <2> QED  BY <2>1, <2>2
  <1>10. AllSettled'
    <2>1. charge'.refunded = Paid - Left'
          BY <1>3, <1>4, <1>6, <1>7, <1>9
    <2>2. \A i \in charge'.refunds : i.by = "cancel" /\ Gone(i, order'.cancelled)
      <3>1. \A i : Gone(i, gone) => Gone(i, gone \cup S)
            BY DEF Gone
      <3> QED  BY <1>1, <1>5, <1>6, <1>7, <3>1
    <2>3. Closed' <=> order'.cancelled = Lines
      <3>1. CASE CancelsAll(h)
            BY <1>1, <1>4, <1>8, <3>1 DEF Closed
      <3>2. CASE ~CancelsAll(h)
            BY <1>1, <1>4, <1>8, <3>2 DEF Closed
      <3> QED  BY <3>1, <3>2
    <2> QED  BY <2>1, <2>2, <2>3 DEF AllSettled
  <1>11. /\ job'[h] = Idle /\ \A g \in Handlers : g # h => job'[g] = job[g]
         BY <1>6 DEF End, CreditInv, AllWork
  <1>12. ASSUME NEW g \in Handlers
         PROVE  /\ ~Underway(g)'
                /\ job'[g] # Idle /\ job'[g].by = "hook" => HookKnows(g)'
    <2>1. CASE g = h
          BY <1>11, <2>1 DEF Underway
    <2>2. CASE g # h
      <3>1. job'[g] = job[g]
            BY <1>11, <2>2
      <3>2. ~Underway(g)'
            BY <1>1, <2>2, <3>1, OnlyOne DEF Underway
      <3>3. HookKnows(g) => HookKnows(g)'
            BY <1>6, <3>1 DEF HookKnows
      <3> QED  BY <3>1, <3>2, <3>3 DEF BuyerInv
    <2> QED  BY <2>1, <2>2
  <1>13. /\ order'.total \in Nat /\ order'.total >= Paid - charge'.refunded
    <2>1. Paid - charge'.refunded = Left - amount
          BY <1>3, <1>4, <1>6, <1>7
    <2>2. CASE CancelsAll(h)
          BY <1>1, <1>3, <1>4, <1>8, <2>1, <2>2
    <2>3. CASE ~CancelsAll(h)
          BY <1>1, <1>3, <1>4, <2>1, <2>3 DEF Positive
    <2> QED  BY <2>2, <2>3
  <1>14. order'.credit <= Value(Lines \ order'.cancelled)
    <2>1. CASE CancelsAll(h)
      <3>1. order'.credit = 0
            BY <1>1, <1>3, <1>8, <2>1
      <3>2. Value(Lines \ order'.cancelled) \in Nat
        <4>1. Lines \ order'.cancelled \in SUBSET Lines
              OBVIOUS
        <4> QED  BY <4>1, Prices
      <3> QED  BY <3>1, <3>2
    <2>2. CASE ~CancelsAll(h)
          BY <1>1, <1>8, <2>2
    <2> QED  BY <2>1, <2>2
  <1>15. /\ restocked' \in [Kinds -> [Lines -> Nat]]
         /\ \A l \in Lines : restocked'["cancel"][l] = IF l \in order'.cancelled THEN 1 ELSE 0
    <2>1. Restock("cancel", S \ gone)
          BY <1>4, <1>5, <1>6 DEF RestockCancelled
    <2>2. /\ restocked \in [Kinds -> [Lines -> Nat]]
          /\ \A l \in Lines : restocked["cancel"][l] = IF l \in gone THEN 1 ELSE 0
          BY DEF BuyerInv
    <2>3. restocked' = [restocked EXCEPT !["cancel"]
                          = [l \in Lines |-> @[l] + IF l \in S \ gone THEN 1 ELSE 0]]
          BY <2>1 DEF Restock
    <2>4. restocked' \in [Kinds -> [Lines -> Nat]]
          BY <2>2, <2>3 DEF Kinds
    <2>5. ASSUME NEW l \in Lines
          PROVE  restocked'["cancel"][l] = IF l \in order'.cancelled THEN 1 ELSE 0
      <3>1. restocked'["cancel"][l] = restocked["cancel"][l] + IF l \in S \ gone THEN 1 ELSE 0
            BY <2>2, <2>3 DEF Kinds
      <3> QED  BY <1>1, <1>5, <2>2, <3>1
    <2> QED  BY <2>4, <2>5
  <1>16. charge'.refunded \in Nat
         BY <1>6 DEF BuyerInv
  <1> QED  BY <1>10, <1>12, <1>13, <1>14, <1>15, <1>16 DEF BuyerInv

(* A report never closes an order that has lines left.                     *)
LEMMA SyncBuyer ==
    ASSUME BuyerInv, CreditInv, BuyerOnly, NEW h \in Handlers, HookSync(h)
    PROVE  BuyerInv'
  <1> DEFINE base == job[h].base
  <1>1. job[h].at = "sync" /\ job[h].by = "hook" /\ HookKnows(h)
        BY BuyerOrHook DEF HookSync, At, BuyerKnows
  <1>2. base \in 0 .. charge.refunded /\ (job[h].pay = "REFUNDED" => base >= Paid)
        BY <1>1 DEF HookKnows
  <1>3. charge.refunded \in Nat /\ charge.refunded <= Paid /\ Paid \in Nat
        BY ChargeFits, LeftIs DEF BuyerInv
  <1>4. /\ UNCHANGED <<charge, restocked>> /\ End(h)
        /\ order'.total = Paid - base
        /\ order'.status = IF job[h].pay = "REFUNDED" THEN "REFUNDED" ELSE order.status
        /\ order'.credit = order.credit /\ order'.cancelled = order.cancelled
        BY DEF HookSync, CreditInv, OrderShape
  <1>5. Left' = Left
        BY <1>4 DEF Left
  <1>6. job[h].pay = "REFUNDED" => charge.refunded >= Paid
        BY <1>2, <1>3
  <1>7. AllSettled => AllSettled'
    <2>1. ASSUME AllSettled PROVE Closed' <=> order'.cancelled = Lines
      <3>1. CASE job[h].pay = "REFUNDED"
            BY <1>4, <1>6, <2>1, <3>1, ChargeFits DEF Closed
      <3>2. CASE job[h].pay # "REFUNDED"
            BY <1>4, <2>1, <3>2 DEF AllSettled, Closed
      <3> QED  BY <3>1, <3>2
    <2> QED  BY <1>4, <1>5, <2>1 DEF AllSettled
  <1>8. /\ job'[h] = Idle /\ \A g \in Handlers : g # h => job'[g] = job[g]
         BY <1>4 DEF End, CreditInv, AllWork
  <1>9. ~Underway(h) /\ ~Underway(h)'
        BY <1>1, <1>8 DEF Underway
  <1>10. ASSUME NEW g \in Handlers, g # h
         PROVE  /\ Underway(g)' <=> Underway(g)
                /\ Underway(g)' => BuyerKnows(g)'
                /\ job'[g] # Idle /\ job'[g].by = "hook" => HookKnows(g)'
    <2>1. job'[g] = job[g]
          BY <1>8, <1>10
    <2>2. Underway(g)' <=> Underway(g)
          BY <2>1 DEF Underway
    <2>3. HookKnows(g) => HookKnows(g)'
          BY <1>4, <2>1 DEF HookKnows
    <2>4. /\ CancelsAll(g)' <=> CancelsAll(g)
          /\ RefundId(g)' = RefundId(g) /\ CreditShare(g)' = CreditShare(g)
          BY <2>1, SameHandler
    <2>5. Owes(g)' = Owes(g)
          BY <1>5, <2>1, <2>4 DEF Owes
    <2>6. Underway(g) /\ OneUnsettled(g) /\ job[g].amount = Owes(g) => OneUnsettled(g)'
      <3> SUFFICES ASSUME Underway(g), OneUnsettled(g), job[g].amount = Owes(g)
                   PROVE  OneUnsettled(g)'
          OBVIOUS
      <3>1. Closed' => CancelsAll(g)
        <4>1. CASE job[h].pay = "REFUNDED"
              BY <1>6, <4>1, ChargeFits
        <4>2. CASE job[h].pay # "REFUNDED"
              BY <1>4, <4>2 DEF Closed, OneUnsettled
        <4> QED  BY <4>1, <4>2
      <3> QED  BY <1>4, <1>5, <2>1, <2>4, <3>1 DEF OneUnsettled, Gone
    <2>7. Underway(g) /\ BuyerKnows(g) => BuyerKnows(g)'
          BY <1>4, <1>5, <1>7, <2>1, <2>4, <2>5, <2>6 DEF BuyerKnows
    <2> QED  BY <2>1, <2>2, <2>3, <2>7 DEF BuyerInv
  <1>11. (\A g \in Handlers : ~Underway(g)') => AllSettled'
         BY <1>7, <1>9, <1>10 DEF BuyerInv
  <1>12. ASSUME NEW g \in Handlers
         PROVE  /\ Underway(g)' => BuyerKnows(g)'
                /\ job'[g] # Idle /\ job'[g].by = "hook" => HookKnows(g)'
         BY <1>8, <1>9, <1>10
  <1>13. order'.total \in Nat /\ order'.total >= Paid - charge'.refunded
         BY <1>2, <1>3, <1>4
  <1> QED  BY <1>4, <1>11, <1>12, <1>13 DEF BuyerInv

LEMMA BuyerStep == CreditInv /\ BuyerInv /\ BuyerOnly /\ [Next]_vars => BuyerInv'
  <1> SUFFICES ASSUME CreditInv, BuyerInv, BuyerOnly, [Next]_vars PROVE BuyerInv'
      OBVIOUS
  <1>1. CASE UNCHANGED vars
    <2>1. UNCHANGED <<order, charge, restocked, job>>
          BY <1>1 DEF vars
    <2>2. /\ Left' = Left /\ AllSettled => AllSettled'
          BY <2>1 DEF Left, AllSettled, Closed
    <2>3. ASSUME NEW g \in Handlers
          PROVE  /\ Underway(g)' <=> Underway(g)
                 /\ BuyerKnows(g) => BuyerKnows(g)'
                 /\ HookKnows(g) => HookKnows(g)'
      <3>1. /\ CancelsAll(g)' <=> CancelsAll(g)
            /\ RefundId(g)' = RefundId(g) /\ Owes(g)' = Owes(g)
            BY <2>1, SameHandler
      <3>2. OneUnsettled(g) => OneUnsettled(g)'
            BY <2>1, <2>2, <3>1 DEF OneUnsettled, Gone, Closed, Left
      <3>3. BuyerKnows(g) => BuyerKnows(g)'
            BY <2>1, <2>2, <3>1, <3>2 DEF BuyerKnows, Left, AllSettled, Closed
      <3> QED  BY <2>1, <3>3 DEF Underway, HookKnows
    <2>4. (\A g \in Handlers : ~Underway(g)') => AllSettled'
          BY <2>1, <2>3 DEF BuyerInv, AllSettled, Closed, Left
    <2>5. \A g \in Handlers : /\ Underway(g)' => BuyerKnows(g)'
                              /\ job'[g] # Idle /\ job'[g].by = "hook" => HookKnows(g)'
          BY <2>1, <2>3 DEF BuyerInv
    <2> QED  BY <2>1, <2>4, <2>5 DEF BuyerInv
  <1>2. ASSUME NEW h \in Handlers, Admin(h) PROVE FALSE
        BY <1>2 DEF Admin, Begin, Serve, BuyerOnly
  <1>3. ASSUME NEW h \in Handlers, Hook(h) PROVE BuyerInv'
        BY <1>3, ServeBuyer DEF Hook, Begin
  <1>4. ASSUME NEW h \in Handlers, NEW S, Cancel(h, S) PROVE BuyerInv'
        BY <1>4, ServeBuyer DEF Cancel, Begin
  <1>5. ASSUME NEW h \in Handlers, NEW l \in Lines,
               Return(h, l) \/ Shelve(h, l, "return") \/ Shelve(h, l, "shelve")
        PROVE  FALSE
        BY <1>5 DEF Return, Shelve, Begin, Serve, BuyerOnly
  <1>6. ASSUME NEW h \in Handlers,
               \/ After(h) \/ AdminPersist(h) \/ ReturnPersist(h) \/ Reread(h) \/ Reshelve(h)
               \/ StripeLost(h) \/ Abort(h)
        PROVE  FALSE
    <2>1. \/ job[h].at \in {"after", "persist", "reread", "restock"}
          \/ Lossy
          BY <1>6 DEF After, AdminPersist, ReturnPersist, Reread, Reshelve, StripeLost, Abort, At
    <2>2. ~Lossy
          BY DEF BuyerOnly
    <2>3. job[h].at \in {"after", "persist", "reread", "restock"}
          BY <2>1, <2>2
    <2> QED  BY <2>3, BuyerOrHook DEF BuyerKnows, HookKnows
  <1>7. ASSUME NEW h \in Handlers, StripeRefuses(h) PROVE FALSE
    <2>1. job[h].at = "refund" /\ Underway(h) /\ BuyerKnows(h) /\ job[h].by = "cancel"
          BY <1>7, BuyerOrHook DEF StripeRefuses, At, HookKnows
    <2>2. /\ Owes(h) \in 0 .. Left /\ Left \in Nat /\ Paid \in Nat
          BY <2>1, OwesIs, LeftIs DEF BuyerInv
    <2>3. charge.refunded = Paid - Left /\ job[h].amount = Owes(h)
          BY <2>1 DEF BuyerKnows, AllSettled
    <2>4. job[h].amount <= Paid - charge.refunded
          BY <2>2, <2>3
    <2> QED  BY <1>7, <2>4 DEF StripeRefuses, StripeMay, At
  <1> QED  BY <1>1, <1>2, <1>3, <1>4, <1>5, <1>6, <1>7, BalanceBuyer, StripeBuyer,
              ReadBuyer, CommitBuyer, HookBuyer, SyncBuyer
           DEF Next

(* With nobody at work, what was settled is what the property says.        *)
LEMMA BuyerSound == CreditInv /\ BuyerInv /\ BuyerOnly => CancelledAreSettled
  <1> SUFFICES ASSUME CreditInv, BuyerInv, BuyerOnly PROVE CancelledAreSettled
      OBVIOUS
  <1>1. Quiet => AllSettled
        BY DEF Quiet, BuyerInv, Underway
  <1>2. Paid - Left = IF order.cancelled = Lines THEN Paid
                      ELSE Value(order.cancelled) - wallet.restored
        BY LeftIs DEF BuyerInv
  <1>3. \A l \in Lines : restocked["cancel"][l] = IF l \in order.cancelled THEN 1 ELSE 0
        BY DEF BuyerInv
  <1> QED  BY <1>1, <1>2, <1>3 DEF CancelledAreSettled, AllSettled, Closed

(* CancelledAreSettled, of a buyer who cancels an order of any lines and   *)
(* prices, in any parts, while any number of deliveries report Stripe's    *)
(* refunds at any time: as long as no answer is lost, the order pays for   *)
(* shipping and its credit is no more than the lines.                      *)
THEOREM CancellationsSettle ==
    ASSUME BuyerOnly
    PROVE  Spec => []CancelledAreSettled
  <1>1. CreditInv /\ [Next]_vars => CreditInv'
    <2>1. OneBuyer
          BY DEF BuyerOnly
    <2> QED  BY <2>1, CreditStep
  <1>2. CreditInv /\ BuyerInv /\ [Next]_vars => BuyerInv'
        BY BuyerStep
  <1>3. Init => CreditInv /\ BuyerInv
        BY CreditInit, BuyerInit
  <1>4. CreditInv /\ BuyerInv => CancelledAreSettled
        BY BuyerSound
  <1> QED  BY <1>1, <1>2, <1>3, <1>4, PTL DEF Spec
=============================================================================
