------------------------------ MODULE Checkout ------------------------------
(***************************************************************************)
(* From cart to paid order: the life of a CheckoutIntent                   *)
(* (services/checkout-intent.service.js) while its stock is reserved       *)
(* (services/inventory-reservation.js), its store credit is held           *)
(* (services/wallet.service.js) and the Stripe events and thank-you page   *)
(* of services/payment.service.js fulfil it or give it up.                 *)
(*                                                                         *)
(* Everything runs in handlers: requests, webhook deliveries and scheduled *)
(* sweeps, each a sequence of database transactions and calls that others  *)
(* interleave with.  A transaction is READ COMMITTED: what it reads        *)
(* without a lock may have changed when it writes.  Each intent has one    *)
(* line, all of the same stock row, and all intents belong to one buyer:   *)
(* they share a row of stock and a wallet.                                 *)
(***************************************************************************)
EXTENDS Integers, FiniteSets, Functions

CONSTANTS
    Intents,       \* checkout intents
    Handlers,      \* requests, deliveries and sweeps in flight
    Qty,           \* Qty[i]: the units of the intent's line
    Ask,           \* Ask[i]: the store credit the buyer asks to apply
    MinSellable,   \* minSellableUnits of the product
    InitialStock,
    InitialCredit,
    Hosted,        \* paid on a hosted Checkout Session, not by PaymentIntent
    Faulty         \* intents during whose handlers processes die and calls fail

ASSUME CheckoutAssumption ==
    /\ IsFiniteSet(Intents)
    /\ Qty \in [Intents -> Nat \ {0}] /\ Ask \in [Intents -> Nat]
    /\ MinSellable \in Nat \ {0}
    /\ InitialStock \in Nat /\ InitialCredit \in Nat
    /\ Hosted \in BOOLEAN /\ Faulty \subseteq Intents

VARIABLES
    intent,    \* the CheckoutIntent rows
    row,       \* the stock row: stock and reservedStock
    wallet,    \* the StoreCreditWallet: balance and heldBalance
    orders,    \* the Order rows made from intents
    paid,      \* the intents whose payment has succeeded at Stripe
    declined,  \* those for which Stripe has reported a failed payment
    job,       \* what each handler is doing
    owns       \* units of reservedStock the ledger's RESERVE, RELEASE and
               \* COMMIT events leave to each intent

vars == <<intent, row, wallet, orders, paid, declined, job, owns>>

Statuses == {"none", "PENDING", "FAILED", "EXPIRED", "CONSUMED"}

(* stripePaymentIntentId holds the id of the Checkout Session until an     *)
(* event replaces it by that of the PaymentIntent.                         *)
Keys == {"none", "cs", "pi"}

IntentRows == [status : Statuses, credit : Nat, key : Keys, order : Keys]
OrderRows == [intent : Intents, key : Keys, credit : Nat, captured : Nat]

(* A handler at work: where it is, on which intent, whether it knows the   *)
(* payment to have succeeded (ok), the credit it holds or is to hold       *)
(* again, what its transaction has read, and the status a release is to    *)
(* end in, unless the intent has left PENDING and forced is FALSE.         *)
Places == {"quote", "hold", "total", "lookup", "rehold", "read", "write",
           "failed", "relread", "relwrite", "mark"}
Seen == [status : Statuses, credit : Nat, key : Keys, reserved : Int]
Jobs == [at : Places, on : Intents, ok : BOOLEAN, amount : Nat, seen : Seen,
         final : {"FAILED", "EXPIRED"}, forced : BOOLEAN]
Idle == [at |-> "idle"]

TypeOK ==
    /\ intent \in [Intents -> IntentRows]
    /\ row \in [stock : Int, reserved : Int]
    /\ wallet \in [balance : Int, held : Int]
    /\ orders \subseteq OrderRows
    /\ paid \subseteq Intents /\ declined \subseteq Intents
    /\ job \in [Handlers -> Jobs \cup {Idle}]
    /\ owns \in [Intents -> Int]

Unseen == [status |-> "none", credit |-> 0, key |-> "none", reserved |-> 0]

Init ==
    /\ intent = [i \in Intents |->
                   [status |-> "none", credit |-> 0, key |-> "none", order |-> "none"]]
    /\ row = [stock |-> InitialStock, reserved |-> 0]
    /\ wallet = [balance |-> InitialCredit, held |-> 0]
    /\ orders = {}
    /\ paid = {} /\ declined = {}
    /\ job = [h \in Handlers |-> Idle]
    /\ owns = [i \in Intents |-> 0]

-----------------------------------------------------------------------------
Least(m, n) == IF m < n THEN m ELSE n
Positive(n) == IF n > 0 THEN n ELSE 0

(* variantAvailableStock, and what reserveOrderLineStock asks of it.       *)
Available == Positive(row.stock - row.reserved)
CanReserve(i) == Available >= MinSellable /\ Available >= Qty[i]

(* Fault: credit that is held can be held again.                           *)
SpendableHeld == Positive(wallet.balance)

(* availableBalance of the wallet                                          *)
Spendable == Positive(wallet.balance - wallet.held)

At(h, place) == job[h].at = place
On(h) == job[h].on

Start(h, place, i, ok, final, forced) ==
    /\ job[h] = Idle
    /\ job' = [job EXCEPT ![h] =
                 [at |-> place, on |-> i, ok |-> ok, amount |-> 0,
                  seen |-> Unseen, final |-> final, forced |-> forced]]

(* What was read is of no use past the transaction that read it.           *)
Goto(h, place) ==
    job' = [job EXCEPT ![h].at = place, ![h].amount = 0, ![h].seen = Unseen]

Done(h) == job' = [job EXCEPT ![h] = Idle]

-----------------------------------------------------------------------------
(* createCheckoutIntent.  The first transaction reserves the line and      *)
(* creates the intent PENDING; the optimistic check on stockVersion makes  *)
(* the reservation as good as atomic (module Inventory).                   *)
Create(h, i) ==
    /\ intent[i].status = "none"
    /\ CanReserve(i)
    /\ row' = [row EXCEPT !.reserved = @ + Qty[i]]
    /\ owns' = [owns EXCEPT ![i] = @ + Qty[i]]
    /\ intent' = [intent EXCEPT ![i].status = "PENDING"]
    /\ Start(h, "quote", i, FALSE, "FAILED", TRUE)
    /\ UNCHANGED <<wallet, orders, paid, declined>>

(* Shipping rates arrive, or the request gives the intent up.              *)
Quote(h) ==
    /\ At(h, "quote")
    /\ Goto(h, IF Ask[On(h)] > 0 THEN "hold" ELSE "total")
    /\ UNCHANGED <<intent, row, wallet, orders, paid, declined, owns>>

(* Fault: a request that gives up on its quote releases nothing.           *)
QuoteFailsUnreleased(h) ==
    /\ At(h, "quote")
    /\ Goto(h, "mark")
    /\ UNCHANGED <<intent, row, wallet, orders, paid, declined, owns>>

QuoteFails(h) ==
    /\ At(h, "quote")
    /\ Goto(h, "relread")
    /\ UNCHANGED <<intent, row, wallet, orders, paid, declined, owns>>

(* holdCredit, in a transaction of its own with the wallet row locked.     *)
Hold(h) ==
    /\ At(h, "hold")
    /\ Spendable > 0
    /\ LET amount == Least(Ask[On(h)], Spendable)
       IN  /\ wallet' = [wallet EXCEPT !.held = @ + amount]
           /\ job' = [job EXCEPT ![h].at = "total", ![h].amount = amount]
    /\ UNCHANGED <<intent, row, orders, paid, declined, owns>>

HoldFails(h) ==
    /\ At(h, "hold")
    /\ Spendable = 0 \/ On(h) \in Faulty
    /\ Goto(h, "relread")
    /\ UNCHANGED <<intent, row, wallet, orders, paid, declined, owns>>

(* The final update writes the totals and storeCreditApplied.              *)
Total(h) ==
    /\ At(h, "total")
    /\ intent' = [intent EXCEPT ![On(h)].credit = job[h].amount]
    /\ Done(h)
    /\ UNCHANGED <<row, wallet, orders, paid, declined, owns>>

-----------------------------------------------------------------------------
(* resolveCheckoutIntent hands a PENDING intent, also one another request  *)
(* is still creating, to the payment page, which stores Stripe's id.       *)
AttachPayment(i) ==
    /\ intent[i].status = "PENDING"
    /\ intent[i].key = "none"
    /\ intent' = [intent EXCEPT ![i].key = IF Hosted THEN "cs" ELSE "pi"]
    /\ UNCHANGED <<row, wallet, orders, paid, declined, job, owns>>

(* Stripe: an attempt is declined, perhaps before another one succeeds.    *)
Decline(i) ==
    /\ intent[i].key # "none"
    /\ i \notin paid
    /\ declined' = declined \cup {i}
    /\ UNCHANGED <<intent, row, wallet, orders, paid, job, owns>>

Pay(i) ==
    /\ intent[i].key # "none"
    /\ paid' = paid \cup {i}
    /\ UNCHANGED <<intent, row, wallet, orders, declined, job, owns>>

-----------------------------------------------------------------------------
(* handleCheckoutIntentPaymentCompleted, entered from a webhook, which     *)
(* first stores the PaymentIntent's id, or from the thank-you page, which  *)
(* does not.  Retrieving the payment from Stripe may fail: ok is FALSE.    *)
Webhook(h, i) ==
    /\ i \in paid
    /\ intent' = [intent EXCEPT ![i].key = "pi"]
    /\ \E ok \in BOOLEAN : Start(h, "lookup", i, ok, "FAILED", FALSE)
    /\ UNCHANGED <<row, wallet, orders, paid, declined, owns>>

ThankYou(h, i) ==
    /\ i \in paid
    /\ \E ok \in BOOLEAN : Start(h, "lookup", i, ok, "FAILED", FALSE)
    /\ UNCHANGED <<intent, row, wallet, orders, paid, declined, owns>>

(* createPaidOrderFromCheckoutIntent: an intent that failed or expired is  *)
(* still fulfilled if the payment is known to have succeeded.              *)
Recoverable(status, ok) == ok /\ status \in {"FAILED", "EXPIRED"}

Lookup(h) ==
    LET now == intent[On(h)]
    IN  /\ At(h, "lookup")
        /\ \/ now.status = "CONSUMED" /\ Done(h)
           \/ now.status = "PENDING" /\ Goto(h, "read")
           \/ /\ Recoverable(now.status, job[h].ok)
              /\ IF now.credit > 0
                 THEN job' = [job EXCEPT ![h].at = "rehold", ![h].amount = now.credit]
                 ELSE Goto(h, "read")
           \/ /\ now.status \in {"FAILED", "EXPIRED"} /\ ~job[h].ok
              /\ Goto(h, "failed")
        /\ UNCHANGED <<intent, row, wallet, orders, paid, declined, owns>>

(* The credit of a recovered intent is held again before its transaction.  *)
Rehold(h) ==
    /\ At(h, "rehold")
    /\ IF Spendable > 0
       THEN /\ wallet' = [wallet EXCEPT !.held = @ + Least(job[h].amount, Spendable)]
            /\ Goto(h, "read")
       ELSE Goto(h, "failed") /\ UNCHANGED wallet
    /\ UNCHANGED <<intent, row, orders, paid, declined, owns>>

(* The transaction reads the intent and checks the line: a PENDING one     *)
(* must find its units reserved and on hand, a recovered one reserves them *)
(* anew (checked when it writes).                                          *)
ReadIntent(h) ==
    LET now == intent[On(h)]
        n == Qty[On(h)]
    IN  /\ At(h, "read")
        /\ \/ now.status = "CONSUMED" /\ Done(h)
           \/ /\ \/ now.status = "PENDING" /\ row.reserved >= n /\ row.stock >= n
                 \/ Recoverable(now.status, job[h].ok)
              /\ job' = [job EXCEPT ![h].at = "write",
                            ![h].seen = [Unseen EXCEPT !.status = now.status,
                                          !.credit = now.credit, !.key = now.key]]
           \/ /\ \/ now.status = "PENDING" /\ (row.reserved < n \/ row.stock < n)
                 \/ now.status \in {"FAILED", "EXPIRED"} /\ ~job[h].ok
              /\ Goto(h, "failed")
        /\ UNCHANGED <<intent, row, wallet, orders, paid, declined, owns>>

(* Fault: the orders' Stripe ids are not unique.                           *)
KeyFree(i, key) == FALSE

(* The order's Stripe ids are unique.                                      *)
KeyTaken(i, key) == \E o \in orders : o.intent = i /\ o.key = key

(* The transaction commits: the order, the sale of its units (a decrement  *)
(* that checks nothing more), the capture of the held credit, CONSUMED.    *)
WriteOrder(h) ==
    LET i == On(h)
        seen == job[h].seen
        anew == seen.status # "PENDING"
        captured == Least(wallet.held, seen.credit)
    IN  /\ At(h, "write")
        /\ ~KeyTaken(i, seen.key)
        /\ anew => CanReserve(i)
        /\ row' = [stock |-> row.stock - Qty[i],
                   reserved |-> IF anew THEN row.reserved ELSE row.reserved - Qty[i]]
        /\ owns' = [owns EXCEPT ![i] = IF anew THEN @ ELSE @ - Qty[i]]
        /\ wallet' = [balance |-> wallet.balance - captured, held |-> wallet.held - captured]
        /\ orders' = orders \cup {[intent |-> i, key |-> seen.key, credit |-> seen.credit,
                                   captured |-> captured]}
        /\ intent' = [intent EXCEPT ![i].status = "CONSUMED", ![i].order = seen.key]
        /\ Done(h)
        /\ UNCHANGED <<paid, declined>>

(* It is aborted by the unique key, by the new reservation (short of stock *)
(* or overtaken by another, STOCK_CONFLICT) or by a failing call.          *)
WriteFails(h) ==
    /\ At(h, "write")
    /\ \/ KeyTaken(On(h), job[h].seen.key)
       \/ job[h].seen.status # "PENDING"
       \/ On(h) \in Faulty
    /\ Goto(h, "failed")
    /\ UNCHANGED <<intent, row, wallet, orders, paid, declined, owns>>

(* The handler swallows the error: it answers with the order if there is   *)
(* one by now, and gives the intent up if it cannot tell that it was paid. *)
HandleError(h) ==
    /\ At(h, "failed")
    /\ IF intent[On(h)].status = "CONSUMED" \/ job[h].ok THEN Done(h) ELSE Goto(h, "relread")
    /\ UNCHANGED <<intent, row, wallet, orders, paid, declined, owns>>

-----------------------------------------------------------------------------
(* The ways an intent is given up: Stripe reports a failed payment or an   *)
(* expired session (any number of times, in any order with success), the   *)
(* sweep finds it too old, or another checkout of its buyer supersedes it. *)
PaymentFailed(h, i) ==
    /\ i \in declined
    /\ Start(h, "relread", i, FALSE, "FAILED", FALSE)
    /\ UNCHANGED <<intent, row, wallet, orders, paid, declined, owns>>

(* The sweep goes through what it selected one by one under the job lease, *)
(* so one is in flight at a time, and takes intents of at least            *)
(* pendingOrderTtlMinutes: no request is still creating them.              *)
Sweeping == \E h \in Handlers : job[h] # Idle /\ job[h].final = "EXPIRED"

BeingCreated(i) ==
    \E h \in Handlers : job[h] # Idle /\ On(h) = i /\ job[h].at \in {"quote", "hold", "total"}

Expire(h, i) ==
    /\ ~Sweeping /\ ~BeingCreated(i)
    /\ intent[i].status = "PENDING"
    /\ Start(h, "relread", i, FALSE, "EXPIRED", FALSE)
    /\ UNCHANGED <<intent, row, wallet, orders, paid, declined, owns>>

Supersede(h, i) ==
    /\ intent[i].status = "PENDING"
    /\ \E j \in Intents \ {i} : intent[j].status = "PENDING"
    /\ Start(h, "relread", i, FALSE, "FAILED", FALSE)
    /\ UNCHANGED <<intent, row, wallet, orders, paid, declined, owns>>

(* releaseIntentResources, which turns back for a CONSUMED intent only.    *)
ReadRelease(h) ==
    LET now == intent[On(h)]
    IN  /\ At(h, "relread")
        /\ IF now.status = "CONSUMED"
           THEN Goto(h, "mark")
           ELSE job' = [job EXCEPT ![h].at = "relwrite",
                           ![h].seen = [Unseen EXCEPT !.credit = now.credit,
                                                      !.reserved = row.reserved]]
        /\ UNCHANGED <<intent, row, wallet, orders, paid, declined, owns>>

WriteRelease(h) ==
    LET i == On(h)
        seen == job[h].seen
        units == Positive(Least(seen.reserved, Qty[i]))
    IN  /\ At(h, "relwrite")
        /\ row' = [row EXCEPT !.reserved = @ - units]
        /\ owns' = [owns EXCEPT ![i] = @ - units]
        /\ wallet' = [wallet EXCEPT !.held = @ - Least(@, seen.credit)]
        /\ Goto(h, "mark")
        /\ UNCHANGED <<intent, orders, paid, declined>>

(* Its errors are logged and the caller goes on.                           *)
ReleaseFails(h) ==
    /\ job[h].at \in {"relread", "relwrite"}
    /\ On(h) \in Faulty
    /\ Goto(h, "mark")
    /\ UNCHANGED <<intent, row, wallet, orders, paid, declined, owns>>

(* Fault: the status is overwritten.                                         *)
MarkAnyway(h) ==
    /\ At(h, "mark")
    /\ intent' = [intent EXCEPT ![On(h)].status = job[h].final]
    /\ Done(h)
    /\ UNCHANGED <<row, wallet, orders, paid, declined, owns>>

(* A separate update then marks the intent: WHERE status is PENDING, but   *)
(* unconditionally for a request that failed to create it.                 *)
Mark(h) ==
    LET i == On(h)
    IN  /\ At(h, "mark")
        /\ intent' = IF job[h].forced \/ intent[i].status = "PENDING"
                     THEN [intent EXCEPT ![i].status = job[h].final]
                     ELSE intent
        /\ Done(h)
        /\ UNCHANGED <<row, wallet, orders, paid, declined, owns>>

(* The process dies between two steps of a handler.                        *)
Crash(h) ==
    /\ job[h] # Idle
    /\ On(h) \in Faulty
    /\ Done(h)
    /\ UNCHANGED <<intent, row, wallet, orders, paid, declined, owns>>

-----------------------------------------------------------------------------
Step(h) ==
    \/ Quote(h) \/ QuoteFails(h) \/ Hold(h) \/ HoldFails(h) \/ Total(h)
    \/ Lookup(h) \/ Rehold(h) \/ ReadIntent(h) \/ WriteOrder(h) \/ WriteFails(h)
    \/ HandleError(h)
    \/ ReadRelease(h) \/ WriteRelease(h) \/ ReleaseFails(h) \/ Mark(h)
    \/ Crash(h)

Next ==
    \/ \E i \in Intents : AttachPayment(i) \/ Decline(i) \/ Pay(i)
    \/ \E h \in Handlers :
        \/ Step(h)
        \/ \E i \in Intents :
            \/ Create(h, i) \/ Webhook(h, i) \/ ThankYou(h, i)
            \/ PaymentFailed(h, i) \/ Expire(h, i) \/ Supersede(h, i)

Spec == Init /\ [][Next]_vars

-----------------------------------------------------------------------------
Sales == {[intent |-> o.intent, credit |-> o.captured] : o \in orders}
Sold == INSTANCE Sale WITH
            sales <- Sales, stock <- row.stock, balance <- wallet.balance

(* A paid checkout becomes one order, and only a paid one, however many     *)
(* deliveries, thank-you pages and retries fulfil it at the same time:      *)
(* "Create a paid Order from a consumed checkout intent (idempotent)"       *)
(* (services/checkout-intent.service.js:488).  Stock and store credit leave *)
(* with their order, in one step, and nothing takes them otherwise: the     *)
(* checkout implements the abstract Sale.                                   *)
ImplementsSale == Sold!Spec

(* No checkout, recovery or sale promises units or store credit that are    *)
(* promised to another.                                                     *)
NothingOverdrawn ==
    /\ TypeOK
    /\ row.reserved <= row.stock
    /\ 0 <= wallet.held /\ wallet.held <= wallet.balance

(* Handlers that are between reading an intent for release and marking it. *)
Releasing(i) == \E h \in Handlers : job[h] # Idle /\ On(h) = i /\ job[h].at \in {"relwrite", "mark"}

(* An intent whose release was cut short stays PENDING without its units.  *)
Live == {i \in Intents \ Faulty : intent[i].status = "PENDING" /\ ~Releasing(i)}

UnitsOf(S) == SumFunctionOnSet(Qty, S)

(* Every checkout has come to its end and no handler is at work.           *)
Settled == /\ \A h \in Handlers : job[h] = Idle
           /\ \A i \in Intents : intent[i].status # "PENDING"

(* "In-progress checkout (stock/credit held)" (prisma/schema.prisma:541):  *)
(* the units of every checkout in progress are reserved, unless an intent  *)
(* has given back more than it had: a second release of an intent is the   *)
(* only thing that takes them away.  Nor are units kept from sale by       *)
(* checkouts that are over: at most those of an intent whose release a     *)
(* failure has cut short.                                                  *)
UnitsAccounted ==
    /\ (\A i \in Intents : owns[i] >= 0) => row.reserved >= UnitsOf(Live)
    /\ Settled => row.reserved <= UnitsOf(Faulty)

(* Once consumed an intent is never put up for payment or recovery again,  *)
(* except by the very request that created it and failed afterwards.       *)
ConsumedIsFinal ==
    [][\A i \in Intents :
         intent[i].status = "CONSUMED" /\ intent'[i].status # "CONSUMED"
           => \E h \in Handlers : At(h, "mark") /\ On(h) = i /\ job[h].forced]_vars
=============================================================================
