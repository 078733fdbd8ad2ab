----------------------------- MODULE Transfers -----------------------------
(***************************************************************************)
(* The money of one checkout between Stripe accounts: the payment made for    *)
(* it by card form or on Stripe's own page, the split of a charge with a       *)
(* membership between two accounts once it is paid, and the reversal of what    *)
(* was transferred as the charge is refunded (ensureCheckoutPaymentIntent,      *)
(* createOrderCheckoutSession, applyOrderTransferSplit and                    *)
(* reverseOrderTransfersForCharge of services/payment.service.js).  The order   *)
(* that a payment leads to is in Checkout, the claim on an event in            *)
(* StripeWebhook; events come in any order, and again.                        *)
(***************************************************************************)
EXTENDS Desk, FiniteSetsExt

CONSTANTS
    Items, Fee, Shipping   \* what a checkout costs, in cents

ASSUME TransfersAssumption == Items \in Nat \ {0} /\ Fee \in Nat \ {0} /\ Shipping \in Nat

VARIABLES
    bill,       \* the CheckoutIntent: with a membership, its total, its payment, still pending
    pay,        \* payments at Stripe, with what was refunded of each
    leg,        \* the transfers made for this checkout, and what of each is reversed
    reversals,  \* idempotency keys of reversals that Stripe has taken
    split       \* history: whole total seen by a call that ended, a second payment beside the
                \*   first, failed calls, refunds followed

transfers == <<bill, pay, leg, reversals, split>>

NoPayment == 0
Whole == Items + Shipping + (IF bill.bundled THEN Fee ELSE 0)
Legs == {"membership", "store"}
NoLeg == [amount |-> 0, charge |-> NoPayment, reversed |-> 0]
Made == {l \in Legs : leg[l] # NoLeg}

(* The total lacks shipping until the rates have come.                       *)
TransfersInit ==
    /\ \E bundled \in BOOLEAN :
          bill = [bundled |-> bundled, total |-> Items + (IF bundled THEN Fee ELSE 0),
                  current |-> NoPayment, pending |-> TRUE]
    /\ pay = <<>> /\ leg = [l \in Legs |-> NoLeg] /\ reversals = {}
    /\ split = [seen |-> FALSE, second |-> FALSE, failed |-> FALSE, followed |-> {}]

NewPayment(hosted, amount) ==
    [hosted |-> hosted, amount |-> amount, known |-> FALSE, paid |-> FALSE, late |-> FALSE,
     refunded |-> 0, totals |-> {}]

-----------------------------------------------------------------------------
(* The rates come, and with them the whole total.                            *)
AddRates(h) ==
    /\ bill.total # Whole /\ Begin(h, "rates", <<>>, {})
    /\ bill' = [bill EXCEPT !.total = Whole]
    /\ UNCHANGED <<pay, leg, reversals, split>>

(* ensureCheckoutPaymentIntent reads the checkout.                           *)
AskPayment(h) ==
    /\ bill.pending
    /\ Begin(h, "card", <<"payment">>, [total |-> bill.total, had |-> bill.current])
    /\ UNCHANGED transfers

(* A payment not yet made is used again, with the total read; one that is made *)
(* already is refused; the id of a page is none of a payment.  A payment that    *)
(* Stripe does not return, or that it is about to make, gets a second.         *)
Reusable(p) == p # NoPayment /\ ~ pay[p].hosted /\ ~ pay[p].paid
Settled(p) == p # NoPayment /\ ~ pay[p].hosted /\ pay[p].paid

MakePayment(h) ==
    LET had == req[h].read.had
        total == req[h].read.total
    IN  /\ At(h, "payment")
        /\ \/ /\ Reusable(had) /\ Stop(h)
              /\ pay' = [pay EXCEPT ![had].amount = total]
              /\ split' = [split EXCEPT !.seen = @ \/ total = Whole]
           \/ /\ Settled(had) /\ Stop(h)
              /\ UNCHANGED <<pay, split>>
           \/ /\ pay' = Append(pay, NewPayment(FALSE, total))
              /\ GoOn(h, <<"point">>, [which |-> Len(pay) + 1, whole |-> total = Whole])
              /\ split' = [split EXCEPT !.second = @ \/ Reusable(had) \/ Settled(had)]
        /\ UNCHANGED <<bill, leg, reversals>>

(* createOrderCheckoutSession: the page lists the items and the membership.   *)
OpenPage(h) ==
    /\ bill.pending /\ Begin(h, "hosted", <<"session">>, <<>>)
    /\ UNCHANGED transfers

MakeSession(h) ==
    /\ At(h, "session")
    /\ pay' = Append(pay, NewPayment(TRUE, Items + (IF bill.bundled THEN Fee ELSE 0)))
    /\ GoOn(h, <<"point">>, [which |-> Len(pay) + 1, whole |-> FALSE])
    /\ UNCHANGED <<bill, leg, reversals, split>>

(* The checkout notes its payment, and the buyer is given it.                *)
PointAt(h) ==
    LET read == req[h].read
    IN  /\ At(h, "point") /\ Stop(h)
        /\ bill' = [bill EXCEPT !.current = read.which]
        /\ pay' = [pay EXCEPT ![read.which].known = TRUE]
        /\ split' = [split EXCEPT !.seen = @ \/ read.whole]
        /\ UNCHANGED <<leg, reversals>>

(* The buyer pays, at Stripe.                                                *)
Pays(h) ==
    \E p \in DOMAIN pay :
        /\ pay[p].known /\ ~ pay[p].paid /\ Begin(h, "buyer", <<>>, {})
        /\ pay' = [pay EXCEPT ![p].paid = TRUE, ![p].late = split.seen]
        /\ UNCHANGED <<bill, leg, reversals, split>>

-----------------------------------------------------------------------------
(* The event of a payment: the checkout is fulfilled, and a charge with a      *)
(* membership is split (splitOrderTransfersIfBundled).                       *)
Succeeded(h) ==
    \E p \in DOMAIN pay :
        /\ pay[p].paid
        /\ Begin(h, "event", IF bill.bundled THEN <<"membership", "store">> ELSE <<>>, [which |-> p])
        /\ bill' = [bill EXCEPT !.pending = FALSE]
        /\ UNCHANGED <<pay, leg, reversals, split>>

Part(l, amount) == LET fee == Min({Fee, amount}) IN IF l = "membership" THEN fee ELSE amount - fee

(* One transfer.  Its key is that of the checkout and the leg: what was made    *)
(* under it is not made again, and not for another charge; a call that fails    *)
(* is logged and forgotten.                                                  *)
TransferLeg(h) ==
    \E l \in Legs :
        LET p == req[h].read.which
            amount == Part(l, pay[p].amount)
            made == [leg EXCEPT ![l] = [NoLeg EXCEPT !.amount = amount, !.charge = p]]
        IN  /\ At(h, l) /\ Proceed(h)
            /\ \/ /\ amount > 0 /\ l \notin Made
                  /\ leg' = made /\ UNCHANGED split
               \/ /\ leg' = leg
                  /\ split' = [split EXCEPT !.failed = @ \/ (amount > 0 /\ leg[l] # made[l])]
            /\ UNCHANGED <<bill, pay, reversals>>

-----------------------------------------------------------------------------
(* Staff refund part of a charge; Stripe will report the total until then.    *)
Refunds(h) ==
    \E p \in DOMAIN pay :
        /\ pay[p].paid
        /\ \E total \in pay[p].refunded + 1 .. pay[p].amount :
              /\ Begin(h, "refund", <<>>, {})
              /\ pay' = [pay EXCEPT ![p].refunded = total, ![p].totals = @ \cup {total}]
        /\ UNCHANGED <<bill, leg, reversals, split>>

(* reverseOrderTransfersForCharge lists the transfers of the checkout, with    *)
(* what of each is reversed already.                                         *)
Refunded(h) ==
    \E p \in DOMAIN pay : \E total \in pay[p].totals :
        /\ Begin(h, "undo", IF bill.bundled THEN <<"list">> ELSE <<>>, [charge |-> p, total |-> total])
        /\ UNCHANGED transfers

ListTransfers(h) ==
    /\ At(h, "list")
    /\ \/ /\ GoOn(h, IF Made = {} THEN <<>> ELSE [i \in 1 .. Cardinality(Made) |-> "reverse"],
                  [charge |-> req[h].read.charge, total |-> req[h].read.total,
                   seen |-> [l \in Made |-> leg[l].reversed], left |-> Made])
          /\ UNCHANGED split
       \/ Stop(h) /\ split' = [split EXCEPT !.failed = TRUE]
    /\ UNCHANGED <<bill, pay, leg, reversals>>

(* Math.round(amount * part / whole)                                         *)
Share(amount, part, whole) == (2 * amount * part + whole) \div (2 * whole)

Outstanding(target, already) == target - already

(* The key is that of the transfer and what it comes to; Stripe refuses more    *)
(* than is left of a transfer, and a key that was used for another amount.     *)
Undo(h) ==
    \E l \in Legs :
        LET read == req[h].read
            target == Min({leg[l].amount, Share(leg[l].amount, read.total, pay[read.charge].amount)})
            delta == Outstanding(target, read.seen[l])
            key == [leg |-> l, target |-> target]
            known == \E k \in reversals : k.key = key
            taken == ~ known /\ leg[l].reversed + delta <= leg[l].amount
            replayed == [key |-> key, amount |-> delta] \in reversals
            last == read.left = {l}
            ended(failed) ==
                split' = [split EXCEPT !.failed = @ \/ failed,
                                       !.followed = IF last /\ DOMAIN read.seen = Legs
                                                    THEN @ \cup {read.total} ELSE @]
        IN  /\ At(h, "reverse") /\ l \in read.left
            /\ GoOn(h, Tail(req[h].todo), [read EXCEPT !.left = @ \ {l}])
            /\ \/ /\ delta > 0 /\ taken
                  /\ leg' = [leg EXCEPT ![l].reversed = @ + delta]
                  /\ reversals' = reversals \cup {[key |-> key, amount |-> delta]}
                  /\ ended(FALSE)
               \/ /\ UNCHANGED <<leg, reversals>>
                  /\ ended(delta > 0 /\ ~ replayed)
            /\ UNCHANGED <<bill, pay>>

TransfersStep(h) ==
    \/ AddRates(h) \/ AskPayment(h) \/ MakePayment(h) \/ OpenPage(h) \/ MakeSession(h) \/ PointAt(h)
    \/ Pays(h) \/ Succeeded(h) \/ TransferLeg(h)
    \/ Refunds(h) \/ Refunded(h) \/ ListTransfers(h) \/ Undo(h)

-----------------------------------------------------------------------------
(* A checkout is paid once, unless two payments were asked for at once, one      *)
(* could not be looked up, or Stripe's page was opened too; and with its whole   *)
(* total, once a call that saw it had ended.  If it is paid once, what both      *)
(* accounts got is the charge, no part of a transfer is reversed beyond the part *)
(* of the charge refunded ("never over-reverse"), and refunds that were followed *)
(* up are reversed in full and to the cent, unless calls failed or two events    *)
(* overlapped.                                                               *)
Paid == {p \in DOMAIN pay : pay[p].paid}
SplitsAddUp ==
    /\ Apart("card", "card") /\ ~ split.second /\ (\A p \in DOMAIN pay : ~ pay[p].hosted) =>
          /\ Cardinality(Paid) <= 1
          /\ \A p \in Paid : pay[p].late => pay[p].amount = Whole
    /\ Cardinality(Paid) = 1 /\ Apart("undo", "undo") => \A p \in Paid :
          /\ Made = Legs => leg["membership"].amount + leg["store"].amount = pay[p].amount
          /\ \A l \in Made : leg[l].reversed <= Share(leg[l].amount, pay[p].refunded, pay[p].amount)
          /\ ~ split.failed => \A total \in split.followed : \A l \in Made :
                leg[l].reversed >= Share(leg[l].amount, total, pay[p].amount)
          /\ leg["membership"].reversed + leg["store"].reversed <= pay[p].refunded + 1
=============================================================================
