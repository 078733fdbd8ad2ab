------------------------------- MODULE Refunds -------------------------------
(***************************************************************************)
(* Money going back on one paid order.  Four handlers change it: the staff *)
(* refund what remains (refundOrder, services/order.service.js), the buyer *)
(* cancels lines (finalizeOrderCancellation, same file), the staff refund  *)
(* an approved return (services/return-refund.service.js), and Stripe      *)
(* reports what has been refunded (markOrderRefundedBySessionId,           *)
(* services/payment.service.js).                                           *)
(*                                                                         *)
(* What was returned may also be put back on the shelf (approveAndSettle,   *)
(* restockReturn, services/returns.service.js).                            *)
(*                                                                         *)
(* Each reads the order, asks Stripe for the balance of the charge, has    *)
(* Stripe refund under an idempotency key, and records the refund in a     *)
(* transaction of its own: between any two of these the others may act.    *)
(* Taxes are left out; prices are whole numbers and divide evenly.         *)
(***************************************************************************)
EXTENDS Integers, FiniteSets, Functions

CONSTANTS
    Lines,         \* the order's items
    Price,         \* Price[l]: price times quantity of a line
    Shipping,
    Credit,        \* store credit the order was paid with
    Returnable,    \* lines with an approved return once the order is delivered
    Handlers,      \* requests and deliveries in flight
    Serves,        \* Serves[h]: what handler h may be asked for
    Lossy,         \* whether Stripe's answers get lost and transactions fail
    MaxRequests    \* bound: requests and deliveries served altogether

Kinds == {"admin", "cancel", "return", "shelve", "hook"}

ASSUME RefundAssumption ==
    /\ IsFiniteSet(Lines) /\ Price \in [Lines -> Nat] /\ Shipping \in Nat /\ Credit \in Nat
    /\ Returnable \subseteq Lines
    /\ Serves \in [Handlers -> SUBSET Kinds]
    /\ Lossy \in BOOLEAN /\ MaxRequests \in Nat

VARIABLES
    order,      \* the Order row, with the items that are cancelled
    charge,     \* the Stripe charge: how much and by which refunds
    returns,    \* what the ReturnRequest of each line says
    restocked,  \* how often each line's units went back on the shelf, by whom
    wallet,     \* credit restored, and the sourceKeys it was restored under
    job,        \* what each handler is doing
    served      \* requests and deliveries so far

vars == <<order, charge, returns, restocked, wallet, job, served>>

Value(S) == SumFunctionOnSet(Price, S)
Paid == Value(Lines) + Shipping - Credit

(* createOrder takes at most the amount due from the wallet.               *)
ASSUME CreditAssumption == Credit <= Value(Lines) + Shipping

Refundable == {"PAID", "PARTIALLY_REFUNDED"}
PayStatuses == Refundable \cup {"REFUNDED"}

(* The id of a Stripe refund stands for its idempotency key: Stripe answers *)
(* a key it knows with the refund it made for it.                          *)
Ids == [by : Kinds, lines : SUBSET Lines, amount : 0 .. Paid]

Orders == [pay : PayStatuses, status : {"PROCESSING", "DELIVERED", "CANCELLED", "REFUNDED"},
           total : 0 .. Paid, credit : 0 .. Credit,
           cancelled : SUBSET Lines, applied : SUBSET Ids]

(* A handler: where it is, what it does to which lines, the order as first *)
(* read, the refunded amount Stripe reported, the amount it refunds, the   *)
(* payment status it has derived, the items and applied refunds its        *)
(* transaction has read, and whether it has counted no active item.        *)
Idle == [at |-> "idle"]

TypeOK ==
    /\ order \in Orders
    /\ charge \in [refunded : 0 .. Paid, refunds : SUBSET Ids]
    /\ returns \in [Lines -> SUBSET {"approved", "refunded", "restocked"}]
    /\ restocked \in [Kinds -> [Lines -> Nat]]
    /\ wallet.restored \in Nat
    /\ \A h \in Handlers : job[h] = Idle \/ job[h].by \in Serves[h]
    /\ served \in 0 .. MaxRequests

Init ==
    /\ charge = [refunded |-> 0, refunds |-> {}]
    /\ \E status \in {"PROCESSING", "DELIVERED"} :
        /\ order = [pay |-> "PAID", status |-> status, total |-> Paid, credit |-> Credit,
                    cancelled |-> {}, applied |-> {}]
        /\ returns = [l \in Lines |-> IF status = "DELIVERED" /\ l \in Returnable
                                      THEN {"approved"} ELSE {}]
    /\ restocked = [k \in Kinds |-> [l \in Lines |-> 0]]
    /\ wallet = [restored |-> 0, keys |-> {}]
    /\ job = [h \in Handlers |-> Idle]
    /\ served = 0

-----------------------------------------------------------------------------
Least(m, n) == IF m < n THEN m ELSE n
Positive(n) == IF n > 0 THEN n ELSE 0

(* derivePaymentStatusFromRefundTotals                                     *)
Derived(refunded) ==
    IF refunded = 0 THEN "PAID" ELSE IF refunded >= Paid THEN "REFUNDED"
    ELSE "PARTIALLY_REFUNDED"

At(h, place) == job[h].at = place
By(h, kind) == job[h].by = kind
Goto(h, place) == job' = [job EXCEPT ![h].at = place]
End(h) == job' = [job EXCEPT ![h] = Idle]

Serve(h, kind, lines, place) ==
    /\ job[h] = Idle /\ kind \in Serves[h]
    /\ served < MaxRequests
    /\ served' = served + 1
    /\ job' = [job EXCEPT ![h] =
                 [at |-> place, by |-> kind, lines |-> lines, seen |-> order,
                  base |-> 0, amount |-> 0, pay |-> order.pay,
                  cancelled |-> {}, applied |-> {}, last |-> FALSE]]
    /\ UNCHANGED <<order, charge, returns, restocked, wallet>>

Begin(h, kind, lines) == Serve(h, kind, lines, "balance")

(* refundOrder; its controller names no amount, so it is for all that      *)
(* remains.                                                                *)
Admin(h) ==
    /\ order.pay \in Refundable /\ order.status # "REFUNDED"
    /\ Begin(h, "admin", {})

(* cancelOrderByUser within its 60 minutes: the order is not yet packed.   *)
Cancel(h, S) ==
    /\ order.status = "PROCESSING" /\ order.pay \in Refundable
    /\ S # {} /\ S \subseteq Lines \ order.cancelled
    /\ Begin(h, "cancel", S)

Return(h, l) ==
    /\ returns[l] \cap {"approved", "refunded"} = {"approved"}
    /\ order.pay \in Refundable
    /\ Begin(h, "return", {l})

(* restockReturn, and approveAndSettle of a return that is refunded: all   *)
(* that is left is to put the line on the shelf.                           *)
Shelve(h, l, kind) ==
    /\ "approved" \in returns[l] /\ "restocked" \notin returns[l]
    /\ kind = "shelve" \/ "refunded" \in returns[l]
    /\ Serve(h, kind, {l}, "restock")

(* Stripe reports refunds any number of times, any time after.             *)
Hook(h) ==
    /\ charge.refunded > 0
    /\ Begin(h, "hook", {})

-----------------------------------------------------------------------------
(* computeOrderCancellationBreakdown of the order as first read.           *)
CancelsAll(h) == job[h].lines = Lines \ job[h].seen.cancelled

CreditShare(h) ==
    LET seen == job[h].seen
        active == Value(Lines \ seen.cancelled)
    IN  IF CancelsAll(h) \/ active = 0 THEN seen.credit
        ELSE (seen.credit * Value(job[h].lines)) \div active

(* Fault: a part of the order is refunded to the card at its full price.   *)
CancelDueGross(h) == IF CancelsAll(h) THEN job[h].seen.total ELSE Value(job[h].lines)

CancelDue(h) ==
    IF CancelsAll(h) THEN job[h].seen.total
    ELSE Positive(Value(job[h].lines) - CreditShare(h))

(* What is asked for, and what remains: the less of Stripe's balance and   *)
(* the order's total.                                                      *)
Remaining(h) == Least(Paid - charge.refunded, job[h].seen.total)

Asked(h) ==
    CASE By(h, "admin") -> Remaining(h)
      [] By(h, "return") -> Value(job[h].lines)
      [] By(h, "cancel") -> Least(CancelDue(h), Remaining(h))

(* A cancellation that owes the card nothing goes without Stripe.          *)
NothingDue(h) == By(h, "cancel") /\ CancelDue(h) = 0

Balance(h) ==
    /\ At(h, "balance") /\ ~By(h, "hook")
    /\ IF NothingDue(h) THEN Goto(h, "read")
       ELSE IF Asked(h) \in 1 .. Remaining(h)
       THEN job' = [job EXCEPT ![h].at = "refund", ![h].amount = Asked(h),
                               ![h].base = charge.refunded]
       ELSE End(h)
    /\ UNCHANGED <<order, charge, returns, restocked, wallet, served>>

RefundId(h) ==
    [by |-> job[h].by, amount |-> job[h].amount,
     lines |-> IF By(h, "cancel") /\ CancelsAll(h) THEN Lines ELSE job[h].lines]

(* stripe.refunds.create                                                   *)
Refund(h) ==
    /\ charge' = IF RefundId(h) \in charge.refunds THEN charge
                 ELSE [refunded |-> charge.refunded + job[h].amount,
                       refunds |-> charge.refunds \cup {RefundId(h)}]
    /\ UNCHANGED <<order, returns, restocked, wallet, served>>

StripeMay(h) ==
    /\ At(h, "refund")
    /\ RefundId(h) \in charge.refunds \/ job[h].amount <= Paid - charge.refunded

StripeRefunds(h) ==
    /\ StripeMay(h)
    /\ Refund(h)
    /\ Goto(h, IF By(h, "cancel") THEN "read" ELSE "after")

StripeRefuses(h) ==
    /\ At(h, "refund") /\ ~StripeMay(h)
    /\ End(h)
    /\ UNCHANGED <<order, charge, returns, restocked, wallet, served>>

(* The refund is made and its answer is lost: "No local refund was         *)
(* recorded - safe to retry".                                              *)
StripeLost(h) ==
    /\ Lossy
    /\ StripeMay(h)
    /\ Refund(h)
    /\ End(h)

(* The balance is fetched again; failing that, the former one is used.     *)
After(h) ==
    /\ At(h, "after")
    /\ \/ job' = [job EXCEPT ![h].at = "persist", ![h].pay = Derived(charge.refunded)]
       \/ /\ Lossy
          /\ job' = [job EXCEPT ![h].at = "persist",
                                ![h].pay = Derived(job[h].base + job[h].amount)]
    /\ UNCHANGED <<order, charge, returns, restocked, wallet, served>>

-----------------------------------------------------------------------------
Restock(by, S) ==
    restocked' = [restocked EXCEPT ![by] = [l \in Lines |-> @[l] + IF l \in S THEN 1 ELSE 0]]

Note(h, word) ==
    returns' = [l \in Lines |-> returns[l] \cup IF l \in job[h].lines THEN {word} ELSE {}]

(* What both transactions check of the order they have locked.             *)
MayRecord(h) == order.pay \in Refundable /\ job[h].amount <= order.total

(* Fault: the refund is taken off the order as first read, unchecked.      *)
AdminPersistStale(h) ==
    /\ At(h, "persist") /\ By(h, "admin")
    /\ End(h)
    /\ order' = [order EXCEPT !.pay = job[h].pay, !.status = "REFUNDED",
                     !.total = job[h].seen.total - job[h].amount,
                     !.applied = @ \cup {RefundId(h)}]
    /\ Restock("admin", Lines \ order.cancelled)
    /\ UNCHANGED <<charge, returns, wallet, served>>

(* The transaction of refundOrder, under the lock of the order row.        *)
AdminPersist(h) ==
    /\ At(h, "persist") /\ By(h, "admin")
    /\ End(h)
    /\ IF MayRecord(h) /\ order.status # "REFUNDED" /\ RefundId(h) \notin order.applied
       THEN /\ order' = [order EXCEPT !.pay = job[h].pay, !.status = "REFUNDED",
                             !.total = @ - job[h].amount,
                             !.applied = @ \cup {RefundId(h)}]
            /\ Restock("admin", Lines \ order.cancelled)
       ELSE UNCHANGED <<order, restocked>>
    /\ UNCHANGED <<charge, returns, wallet, served>>

(* Fault: a return that is not looked at again under the lock.             *)
ReturnPersistAgain(h) ==
    /\ At(h, "persist") /\ By(h, "return")
    /\ End(h)
    /\ MayRecord(h)
    /\ order' = [order EXCEPT !.pay = job[h].pay, !.total = @ - job[h].amount]
    /\ Note(h, "refunded")
    /\ UNCHANGED <<charge, restocked, wallet, served>>

(* persistReturnRefundAndOrderState, under the locks of both rows.         *)
ReturnPersist(h) ==
    /\ At(h, "persist") /\ By(h, "return")
    /\ IF \E l \in job[h].lines : "refunded" \in returns[l]
       THEN Goto(h, "reread") /\ UNCHANGED <<order, returns>>
       ELSE IF MayRecord(h)
       THEN /\ order' = [order EXCEPT !.pay = job[h].pay, !.total = @ - job[h].amount]
            /\ Note(h, "refunded")
            /\ Goto(h, "reread")
       ELSE End(h) /\ UNCHANGED <<order, returns>>
    /\ UNCHANGED <<charge, restocked, wallet, served>>

(* processRefund is done; approveAndSettle reads the return again ...      *)
Reread(h) ==
    /\ At(h, "reread")
    /\ \/ End(h)
       \/ /\ \A l \in job[h].lines : "restocked" \notin returns[l]
          /\ Goto(h, "restock")
    /\ UNCHANGED <<order, charge, returns, restocked, wallet, served>>

(* ... and what it has read decides on the transaction that restocks.      *)
Reshelve(h) ==
    /\ At(h, "restock")
    /\ Restock("return", job[h].lines)
    /\ Note(h, "restocked")
    /\ End(h)
    /\ UNCHANGED <<order, charge, wallet, served>>

-----------------------------------------------------------------------------
(* The transaction of a cancellation locks nothing first: it reads the     *)
(* items and the applied refunds ...                                       *)
CancelRead(h) ==
    /\ At(h, "read")
    /\ job' = [job EXCEPT ![h].at = "count", ![h].cancelled = order.cancelled,
                          ![h].applied = order.applied]
    /\ UNCHANGED <<order, charge, returns, restocked, wallet, served>>

(* ... writes stock and items, on which it waits for another one that has  *)
(* written the same, and counts the items that are left ...                *)
CancelCount(h) ==
    /\ At(h, "count")
    /\ \A g \in Handlers : At(g, "commit") => job[g].lines \cap job[h].lines = {}
    /\ job' = [job EXCEPT ![h].at = "commit",
                          ![h].last = Lines \subseteq order.cancelled \cup job[h].lines]
    /\ UNCHANGED <<order, charge, returns, restocked, wallet, served>>

Applied(h) == job[h].amount > 0 /\ RefundId(h) \in job[h].applied

(* Fault: credit is restored whole for a part of the order.                *)
RestoreCreditWhole(h) ==
    wallet' = [restored |-> wallet.restored + job[h].seen.credit,
               keys |-> wallet.keys \cup {RefundId(h)}]

RestoreCredit(h) ==
    IF Applied(h) \/ CreditShare(h) = 0 \/ RefundId(h) \in wallet.keys THEN UNCHANGED wallet
    ELSE wallet' = [restored |-> wallet.restored + CreditShare(h),
                    keys |-> wallet.keys \cup {RefundId(h)}]

RestockCancelled(h) ==
    IF Applied(h) THEN UNCHANGED restocked ELSE Restock("cancel", job[h].lines \ job[h].cancelled)

NowApplied(h) ==
    LET ids == job[h].applied \cup IF job[h].amount > 0 THEN {RefundId(h)} ELSE {}
    IN  IF ids = {} THEN order.applied ELSE ids

(* ... and overwrites the order with what follows from its first reading.  *)
CancelCommit(h) ==
    LET seen == job[h].seen
        last == job[h].last
    IN  /\ At(h, "commit")
        /\ RestockCancelled(h)
        /\ RestoreCredit(h)
        /\ order' = [pay |-> IF last THEN "REFUNDED" ELSE "PARTIALLY_REFUNDED",
                     status |-> IF last THEN "CANCELLED" ELSE seen.status,
                     total |-> IF CancelsAll(h) THEN 0
                               ELSE Positive(seen.total - job[h].amount),
                     credit |-> Positive(seen.credit - CreditShare(h)),
                     cancelled |-> order.cancelled \cup job[h].lines,
                     applied |-> NowApplied(h)]
        /\ End(h)
        /\ UNCHANGED <<charge, returns, served>>

-----------------------------------------------------------------------------
(* The event fetches the balance for the order it has read ...             *)
HookBalance(h) ==
    /\ At(h, "balance") /\ By(h, "hook")
    /\ LET pay == Derived(charge.refunded)
       IN  IF pay = job[h].seen.pay /\ pay # "REFUNDED" THEN End(h)
           ELSE job' = [job EXCEPT ![h].at = "sync", ![h].base = charge.refunded,
                                   ![h].pay = pay]
    /\ UNCHANGED <<order, charge, returns, restocked, wallet, served>>

(* ... and overwrites payment status and total by it.                      *)
HookSync(h) ==
    /\ At(h, "sync")
    /\ order' = [order EXCEPT !.pay = job[h].pay, !.total = Paid - job[h].base,
                              !.status = IF job[h].pay = "REFUNDED" THEN "REFUNDED" ELSE @]
    /\ End(h)
    /\ UNCHANGED <<charge, returns, restocked, wallet, served>>

(* A transaction is rolled back, or its process dies before it.            *)
Abort(h) ==
    /\ Lossy
    /\ job[h].at \in {"persist", "read", "count", "commit", "reread", "restock"}
    /\ End(h)
    /\ UNCHANGED <<order, charge, returns, restocked, wallet, served>>

-----------------------------------------------------------------------------
Next ==
    \E h \in Handlers :
        \/ Admin(h) \/ Hook(h)
        \/ \E S \in SUBSET Lines : Cancel(h, S)
        \/ \E l \in Lines : Return(h, l) \/ Shelve(h, l, "return") \/ Shelve(h, l, "shelve")
        \/ Balance(h) \/ StripeRefunds(h) \/ StripeRefuses(h) \/ StripeLost(h) \/ After(h)
        \/ AdminPersist(h) \/ ReturnPersist(h) \/ Reread(h) \/ Reshelve(h)
        \/ CancelRead(h) \/ CancelCount(h) \/ CancelCommit(h)
        \/ HookBalance(h) \/ HookSync(h)
        \/ Abort(h)

Spec == Init /\ [][Next]_vars

-----------------------------------------------------------------------------
Amounts(ids) == SumFunctionOnSet([i \in ids |-> i.amount], ids)
RefundedReturns == {l \in Lines : "refunded" \in returns[l]}
Quiet == \A h \in Handlers : job[h] = Idle

(* Concurrent staff refunds and return refunds, retried after losses, are  *)
(* each taken off the order's total exactly once, and "Local               *)
(* order.totalAmount is a secondary ledger cap (kept in sync by cancel,    *)
(* return refunds, and admin order refunds)"                               *)
(* (lib/order-refund-balance.js:5-6): it never denies a refund that the    *)
(* charge still has the balance for.                                       *)
LedgerIsRight ==
    /\ TypeOK
    /\ order.total = Paid - Amounts(order.applied) - Value(RefundedReturns)
    /\ order.total >= Paid - charge.refunded

(* However many times it is asked for, retried or answered late, closing   *)
(* an order puts each of its lines back on the shelf once at most, and     *)
(* only with the refund on record.                                         *)
ClosedOnce ==
    \A l \in Lines :
        restocked["admin"][l] <= IF \E i \in order.applied : i.by = "admin" THEN 1 ELSE 0

(* The store credit of the order is restored in shares: none of it is lost *)
(* or restored twice.                                                      *)
CreditConserved == wallet.restored + order.credit = Credit

(* What a buyer has cancelled, in however many parts, and nothing else is  *)
(* back on the shelf; and when all is done the card has been refunded what *)
(* was paid for it, with the shipping once no line is left, and the order  *)
(* is closed exactly then.                                                 *)
CancelledAreSettled ==
    /\ \A l \in Lines : restocked["cancel"][l] = IF l \in order.cancelled THEN 1 ELSE 0
    /\ Quiet =>
      /\ order.status \in {"CANCELLED", "REFUNDED"} <=> order.cancelled = Lines
      /\ charge.refunded = IF order.cancelled = Lines THEN Paid
                           ELSE Value(order.cancelled) - wallet.restored
=============================================================================
