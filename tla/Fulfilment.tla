----------------------------- MODULE Fulfilment -----------------------------
(***************************************************************************)
(* A paid order on its way from the warehouse to the buyer                  *)
(* (services/order.service.js, lib/order-*.js).  The staff pick it, by hand *)
(* or by scanner, buy its label, add its tracking and mark it shipped or    *)
(* delivered; the buyer and the staff cancel lines; Stripe and the staff    *)
(* refund it; a job asks UPS where the parcel is.                           *)
(*                                                                         *)
(* Each handler reads the row, builds the fields it will update from what   *)
(* it has read, and updates them later, with no version check: req[r].data  *)
(* is that update, req[r].seen the row it was built from.  The state of an  *)
(* order is in three fields of its own (status, paymentStatus,              *)
(* fulfillmentStatus); the shop and the admin show one word for it          *)
(* (deriveOrderPresentation) and sort orders into queues by other           *)
(* predicates (lib/order-query-filters.js).                                 *)
(***************************************************************************)
EXTENDS Integers, FiniteSets

CONSTANTS
    Items,         \* lines of the order
    Quantity,      \* units of each line
    Requests,      \* handlers at work at once
    MaxRequests    \* bound: requests served altogether

ASSUME FulfilmentAssumption ==
    /\ IsFiniteSet(Items) /\ Quantity \in Nat \ {0}
    /\ MaxRequests \in Nat

VARIABLES
    order,       \* the Order row
    picked,      \* pickedQuantity of each line
    cancelled,   \* lines with cancelledAt set
    req,         \* what each handler is about to write
    sync,        \* the tracking job
    carrier,     \* where UPS has the parcel
    window,      \* whether the buyer's 60 minutes are running
    served       \* requests so far

vars == <<order, picked, cancelled, req, sync, carrier, window, served>>

Statuses == {"PROCESSING", "SHIPPED", "DELIVERED", "CANCELLED", "REFUNDED"}
Carrying == {"SHIPPED", "IN_TRANSIT", "OUT_FOR_DELIVERY"}
Stages == {"null", "ACCEPTED", "PICKUP_READY", "DELIVERED"} \cup Carrying
Orders == [status : Statuses, pay : {"PAID", "PARTIALLY_REFUNDED", "REFUNDED"},
           fulfil : Stages, tracked : BOOLEAN, labelled : BOOLEAN,
           shippedAt : BOOLEAN, deliveredAt : BOOLEAN]

(* An update overwrites the fields it names.                               *)
Updated(row, data) == [f \in DOMAIN row |-> IF f \in DOMAIN data THEN data[f] ELSE row[f]]

Idle == [at |-> "idle"]
Places == {"idle", "write", "pick", "refresh", "cancel"}

TypeOK ==
    /\ order \in Orders
    /\ picked \in [Items -> 0 .. Quantity]
    /\ cancelled \subseteq Items
    /\ \A r \in Requests : req[r].at \in Places
    /\ sync.at \in {"idle", "asked", "write"}
    /\ carrier \in {"LABEL", "DELIVERED"} \cup Carrying

(* fulfillUnpaidOrderAfterPayment, fulfillPaidIntentTx: a paid order is     *)
(* accepted at once.                                                       *)
postPaymentFulfillmentFields == [fulfil |-> "ACCEPTED"]

Init ==
    /\ order = Updated([status |-> "PROCESSING", pay |-> "PAID", fulfil |-> "null",
                        tracked |-> FALSE, labelled |-> FALSE,
                        shippedAt |-> FALSE, deliveredAt |-> FALSE],
                       postPaymentFulfillmentFields)
    /\ picked = [i \in Items |-> 0]
    /\ cancelled = {}
    /\ req = [r \in Requests |-> Idle]
    /\ sync = Idle
    /\ carrier = "LABEL"
    /\ window = TRUE
    /\ served = 0

-----------------------------------------------------------------------------
(* What the shop and the admin derive from the row.                         *)
ForWarehouse(o) == o.pay \in {"PAID", "PARTIALLY_REFUNDED"}

isDeliveredPresentation(o) ==
    o.fulfil = "DELIVERED" \/ o.deliveredAt \/ o.status = "DELIVERED"
isPhysicallyShipped(o) ==
    o.fulfil \in Carrying \cup {"DELIVERED"} \/ o.shippedAt
        \/ (o.fulfil = "null" /\ o.status = "SHIPPED")

deriveOrderPresentation(o, gone) ==
    IF o.status = "CANCELLED" \/ gone THEN "cancelled"
    ELSE IF o.status = "REFUNDED" \/ o.pay = "REFUNDED" THEN "refunded"
    ELSE IF isDeliveredPresentation(o) THEN "delivered"
    ELSE IF o.fulfil \in Carrying \/ (o.fulfil = "null" /\ isPhysicallyShipped(o)) THEN "carrying"
    ELSE IF ForWarehouse(o) /\ o.fulfil = "PICKUP_READY" THEN "pickup_ready"
    ELSE IF ForWarehouse(o) /\ o.fulfil = "ACCEPTED" THEN "accepted"
    ELSE "processing"

Presented == deriveOrderPresentation(order, cancelled = Items)

(* The admin's queues.                                                     *)
NotTerminal(o) == o.status \notin {"CANCELLED", "REFUNDED"}
buildToFulfillWhere(o) == o.fulfil = "ACCEPTED" /\ ForWarehouse(o) /\ NotTerminal(o)
buildPickupReadyWhere(o) == o.fulfil = "PICKUP_READY" /\ ForWarehouse(o) /\ NotTerminal(o)
buildShippedWhere(o) == o.fulfil \in Carrying
buildDeliveredWhere(o) == o.fulfil = "DELIVERED" \/ o.deliveredAt \/ o.status = "DELIVERED"

(* The buyer's tabs.                                                       *)
matchCustomerDelivered(o) ==
    o.status = "DELIVERED" \/ o.fulfil = "DELIVERED" \/ o.deliveredAt
(* Fault: active goes by the status alone.                                 *)
ActiveByStatus(o) == o.status # "DELIVERED" /\ NotTerminal(o)
matchCustomerActive(o) == ~ matchCustomerDelivered(o) /\ NotTerminal(o)
matchCustomerInTransit(o) ==
    /\ matchCustomerActive(o)
    /\ o.fulfil \in Carrying \/ (o.status = "SHIPPED" /\ o.fulfil = "null")

(* createPickupList takes an order into a pick wave.                        *)
Closed == {"CANCELLED", "SHIPPED", "DELIVERED", "REFUNDED"}
PastPick == Carrying \cup {"PICKUP_READY", "DELIVERED"}
InPickWave(o) == o.status \notin Closed /\ ForWarehouse(o) /\ o.fulfil \notin PastPick

-----------------------------------------------------------------------------
(* Of the row as read, what later steps still use.                         *)
Seen(o) == [status |-> o.status, pay |-> o.pay, fulfil |-> o.fulfil]

Serve(r, job) ==
    /\ req[r] = Idle /\ served < MaxRequests
    /\ served' = served + 1
    /\ req' = [req EXCEPT ![r] = job]

(* A handler has read the row and built its update.                         *)
WillWrite(r, by, data) ==
    /\ Serve(r, [at |-> "write", by |-> by, seen |-> Seen(order), data |-> data])
    /\ UNCHANGED <<order, picked, cancelled, sync, carrier, window>>

(* patchOrderFulfillment, action by action.  An order already past picking  *)
(* is answered without a write.                                            *)
PatchPickupReady(r) ==
    /\ ForWarehouse(order) /\ order.status \notin Closed
    /\ order.fulfil \notin PastPick
    /\ WillWrite(r, "desk", [fulfil |-> "PICKUP_READY"])

isPreShipOrderStatus(status) == status = "PROCESSING"

(* Tracking, a label, or a reason why there is neither.                     *)
PatchMarkShipped(r, reason) ==
    /\ order.tracked \/ order.labelled \/ reason
    /\ WillWrite(r, "desk",
         [fulfil |-> "SHIPPED", shippedAt |-> TRUE,
          status |-> IF isPreShipOrderStatus(order.status) THEN "SHIPPED" ELSE order.status])

PatchMarkDelivered(r) ==
    WillWrite(r, "desk", [fulfil |-> "DELIVERED", deliveredAt |-> TRUE, status |-> "DELIVERED"])

shouldManualShipFromTracking(status, tracking) == tracking /\ isPreShipOrderStatus(status)
manualShipFromTrackingFields == [status |-> "SHIPPED", fulfil |-> "SHIPPED", shippedAt |-> TRUE]

(* updateAdminShipping: tracking or not, and a label set, cleared or left.  *)
Shipping(tracking, label) ==
    LET fields == (IF tracking THEN {"tracked"} ELSE {})
                  \cup (IF label = "keep" THEN {} ELSE {"labelled"})
                  \cup (IF shouldManualShipFromTracking(order.status, tracking)
                        THEN DOMAIN manualShipFromTrackingFields ELSE {})
    IN  [f \in fields |-> IF f = "tracked" THEN TRUE
                          ELSE IF f = "labelled" THEN label = "set"
                          ELSE manualShipFromTrackingFields[f]]

UpdateAdminShipping(r, tracking, label) ==
    WillWrite(r, "desk", Shipping(tracking, label))

(* addTracking: a number is required.                                      *)
AddTracking(r) == WillWrite(r, "desk", Shipping(TRUE, "keep"))

(* persistOutboundShippingLabel, once UPS has sold the label.               *)
PastLabel == Carrying \cup {"DELIVERED"}
assertOrderAllowsOutboundLabelPersist(o) == o.status \notin {"CANCELLED", "REFUNDED"}
shouldSetPickupReadyFromOutboundLabel(o) ==
    o.status \notin {"SHIPPED", "DELIVERED"} /\ o.fulfil \notin PastLabel

(* Fault: a label always makes the order ready.                            *)
LabelMakesReady(o) ==
    [f \in {"tracked", "labelled", "fulfil"} |-> IF f = "fulfil" THEN "PICKUP_READY" ELSE TRUE]

buildOutboundLabelPersistData(o) ==
    [f \in {"tracked", "labelled"}
           \cup (IF shouldSetPickupReadyFromOutboundLabel(o) THEN {"fulfil"} ELSE {})
     |-> IF f = "fulfil" THEN "PICKUP_READY" ELSE TRUE]

PersistLabel(r) ==
    /\ assertOrderAllowsOutboundLabelPersist(order)
    /\ WillWrite(r, "label", buildOutboundLabelPersistData(order))

(* The update itself.                                                      *)
Write(r) ==
    /\ req[r].at = "write"
    /\ order' = Updated(order, req[r].data)
    /\ req' = [req EXCEPT ![r] = Idle]
    /\ UNCHANGED <<picked, cancelled, sync, carrier, window, served>>

-----------------------------------------------------------------------------
(* Picking.  pickOrderItem writes the quantity it is given; the scanner     *)
(* gives it one more than the quantity it has read.                        *)
PickByHand(r, i, n) ==
    /\ Serve(r, [at |-> "pick", line |-> i, quantity |-> n])
    /\ UNCHANGED <<order, picked, cancelled, sync, carrier, window>>

PickByScan(r, i) ==
    /\ order.pay = "PAID"
    /\ i \notin cancelled /\ picked[i] < Quantity
    /\ Serve(r, [at |-> "pick", line |-> i, quantity |-> picked[i] + 1])
    /\ UNCHANGED <<order, picked, cancelled, sync, carrier, window>>

PickOrderItem(r) ==
    /\ req[r].at = "pick"
    /\ picked' = [picked EXCEPT ![req[r].line] = req[r].quantity]
    /\ req' = [req EXCEPT ![r] = [at |-> "refresh"]]
    /\ UNCHANGED <<order, cancelled, sync, carrier, window, served>>

(* It reads the order again; with every line picked, the cancelled ones     *)
(* too, an accepted order becomes ready.                                   *)
AllPicked == \A i \in Items : picked[i] >= Quantity

PickRefresh(r) ==
    /\ req[r].at = "refresh"
    /\ req' = [req EXCEPT ![r] =
                 IF AllPicked /\ order.fulfil = "ACCEPTED" /\ order.pay = "PAID"
                 THEN [at |-> "write", by |-> "pick", seen |-> Seen(order),
                       data |-> [fulfil |-> "PICKUP_READY"]]
                 ELSE Idle]
    /\ UNCHANGED <<order, picked, cancelled, sync, carrier, window, served>>

-----------------------------------------------------------------------------
(* Cancelling.  The buyer may while the warehouse has not started; the      *)
(* staff always (updateOrderStatus), whole orders only.                    *)
canCustomerCancelOrder ==
    /\ order.status \notin Closed /\ ~ order.deliveredAt
    /\ order.fulfil \notin PastPick
    /\ window
    /\ cancelled # Items

WillCancel(r, by, S) ==
    /\ S # {} /\ S \subseteq Items \ cancelled
    /\ Serve(r, [at |-> "cancel", by |-> by, seen |-> Seen(order), lines |-> S])
    /\ UNCHANGED <<order, picked, cancelled, sync, carrier, window>>

CancelOrderByUser(r, S) == canCustomerCancelOrder /\ WillCancel(r, "buyer", S)
UpdateOrderStatus(r) ==
    order.status # "CANCELLED" /\ WillCancel(r, "staff", Items \ cancelled)

(* The transaction of finalizeOrderCancellation counts the lines left, and  *)
(* otherwise writes back the state it was called with.                     *)
FinalizeOrderCancellation(r) ==
    /\ req[r].at = "cancel"
    /\ cancelled' = cancelled \cup req[r].lines
    /\ LET seen == req[r].seen
           none == cancelled' = Items
       IN  order' = Updated(order,
             [status |-> IF none THEN "CANCELLED" ELSE seen.status,
              fulfil |-> IF none THEN "null" ELSE seen.fulfil,
              pay |-> IF seen.pay # "PAID" THEN seen.pay
                      ELSE IF none THEN "REFUNDED" ELSE "PARTIALLY_REFUNDED"])
    /\ req' = [req EXCEPT ![r] = Idle]
    /\ UNCHANGED <<picked, sync, carrier, window, served>>

(* A refund recorded on the row as it is (Refunds.tla has its steps).       *)
RecordRefund(full) ==
    /\ ForWarehouse(order) /\ served < MaxRequests
    /\ order' = Updated(order, IF full THEN [pay |-> "REFUNDED", status |-> "REFUNDED"]
                                       ELSE [pay |-> "PARTIALLY_REFUNDED"])
    /\ served' = served + 1
    /\ UNCHANGED <<picked, cancelled, req, sync, carrier, window>>

CancelWindowEnds ==
    /\ window
    /\ window' = FALSE
    /\ UNCHANGED <<order, picked, cancelled, req, sync, carrier, served>>

-----------------------------------------------------------------------------
(* UPS moves a parcel that has a label.                                     *)
CarrierMoves ==
    /\ order.tracked
    /\ \/ carrier = "LABEL" /\ carrier' = "IN_TRANSIT"
       \/ carrier = "IN_TRANSIT" /\ carrier' = "OUT_FOR_DELIVERY"
       \/ carrier = "OUT_FOR_DELIVERY" /\ carrier' = "DELIVERED"
    /\ UNCHANGED <<order, picked, cancelled, req, sync, window, served>>

(* syncUpsTrackingBatch reads its orders, asks UPS about one after the      *)
(* other, and writes what it learns over whatever they have become.        *)
SyncSelects(o) == o.tracked /\ o.status \notin {"DELIVERED", "CANCELLED", "REFUNDED"}

SyncRead ==
    /\ sync = Idle
    /\ SyncSelects(order)
    /\ sync' = [at |-> "asked", seen |-> Seen(order)]
    /\ UNCHANGED <<order, picked, cancelled, req, carrier, window, served>>

(* Fault: the word UPS has for a delivery is not known.                    *)
SyncUndelivered(seen, says) ==
    IF says \in {"LABEL", "DELIVERED"} THEN [fulfil |-> seen.fulfil] ELSE [fulfil |-> says]

(* A parcel UPS has not scanned keeps the stage that was read.              *)
SyncData(seen, says) ==
    IF says = "LABEL" THEN [fulfil |-> seen.fulfil]
    ELSE IF says = "DELIVERED"
         THEN [fulfil |-> "DELIVERED", status |-> "DELIVERED", deliveredAt |-> TRUE]
    ELSE [fulfil |-> says]

SyncAnswer ==
    /\ sync.at = "asked"
    /\ sync' = [at |-> "write", seen |-> sync.seen, data |-> SyncData(sync.seen, carrier)]
    /\ UNCHANGED <<order, picked, cancelled, req, carrier, window, served>>

(* Errors of UPS are ignored; the next run tries again.                     *)
SyncFails ==
    /\ sync.at = "asked"
    /\ sync' = Idle
    /\ UNCHANGED <<order, picked, cancelled, req, carrier, window, served>>

SyncWrite ==
    /\ sync.at = "write"
    /\ order' = Updated(order, sync.data)
    /\ sync' = Idle
    /\ UNCHANGED <<picked, cancelled, req, carrier, window, served>>

-----------------------------------------------------------------------------
Staff(r) ==
    \/ PatchPickupReady(r)
    \/ \E reason \in BOOLEAN : PatchMarkShipped(r, reason)
    \/ PatchMarkDelivered(r)
    \/ \E tracking \in BOOLEAN, label \in {"keep", "clear", "set"} :
          UpdateAdminShipping(r, tracking, label)
    \/ AddTracking(r)
    \/ PersistLabel(r)
    \/ \E i \in Items, n \in 0 .. Quantity : PickByHand(r, i, n)
    \/ \E i \in Items : PickByScan(r, i)
    \/ UpdateOrderStatus(r)

Step(r) ==
    Write(r) \/ PickOrderItem(r) \/ PickRefresh(r) \/ FinalizeOrderCancellation(r)

Sync == SyncRead \/ SyncAnswer \/ SyncFails \/ SyncWrite

Next ==
    \/ \E r \in Requests : Staff(r) \/ Step(r)
    \/ \E r \in Requests, S \in SUBSET Items : CancelOrderByUser(r, S)
    \/ \E full \in BOOLEAN : RecordRefund(full)
    \/ CancelWindowEnds
    \/ CarrierMoves
    \/ Sync

Spec == Init /\ [][Next]_vars

(* The job runs every 15 minutes, its writes succeed, and UPS does not       *)
(* fail it for ever.                                                       *)
SyncFairness == WF_vars(SyncRead) /\ SF_vars(SyncAnswer) /\ WF_vars(SyncWrite)
FairSpec == Spec /\ SyncFairness

-----------------------------------------------------------------------------
(* Every order is in the queue of the word it is shown under: what waits    *)
(* for the warehouse is in one of its two queues, what is with the carrier  *)
(* or delivered in theirs, and an order is in the buyer's in-transit count  *)
(* only if it is shown so.  Pick waves take orders the buyer still sees     *)
(* waiting, and only such.                                                 *)
ShownAsQueued ==
    /\ TypeOK
    /\ Presented = "accepted" => buildToFulfillWhere(order)
    /\ Presented = "pickup_ready" => buildPickupReadyWhere(order)
    /\ Presented = "carrying" => buildShippedWhere(order) /\ matchCustomerInTransit(order)
    /\ Presented = "delivered" => buildDeliveredWhere(order) /\ ~ matchCustomerActive(order)
    /\ Presented # "processing"
    /\ InPickWave(order) => buildToFulfillWhere(order)

(* How far the parcel has come.                                            *)
Phase(o) ==
    IF o.fulfil = "DELIVERED" THEN 2 ELSE IF o.fulfil \in Carrying THEN 1 ELSE 0

Stale(job) == job.seen.fulfil # order.fulfil \/ job.seen.status # order.status

(* 'Do not regress to PICKUP_READY' (lib/order-outbound-label-persist.js),  *)
(* and cancelling only before shipment: a parcel goes back to an earlier    *)
(* phase, or loses a line on its way, only when the staff say so or when    *)
(* the handler that writes has read a state that is no longer true; and     *)
(* what has been shown as delivered is never shown on its way again.        *)
OnlyStaleRegresses ==
    [][/\ Presented = "delivered" => Presented' \in {"delivered", "cancelled", "refunded"}
       /\ (Phase(order') < Phase(order) \/ (Phase(order) > 0 /\ cancelled' # cancelled)) =>
            \/ sync.at = "write" /\ sync' = Idle /\ Stale(sync)
            \/ \E r \in Requests :
                  /\ req[r] # Idle /\ req'[r] = Idle
                  /\ Stale(req[r]) \/ req[r].by \in {"desk", "staff"}]_vars

(* A parcel UPS has delivered is recorded as delivered, unless its order is *)
(* cancelled, refunded or already delivered.                               *)
DeliveredIsNoticed ==
    (carrier = "DELIVERED" /\ order.tracked)
        ~> (order.fulfil = "DELIVERED" \/ order.status \in Closed \ {"SHIPPED"})
=============================================================================
