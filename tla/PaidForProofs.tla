---------------------------- MODULE PaidForProofs ----------------------------
(***************************************************************************)
(* What a customer has paid for, and gets: the parcel of an order, the      *)
(* membership with its term and reminders, and the price that a member      *)
(* shares.  For any number of lines, handlers, payments, codes and buyers.  *)
(***************************************************************************)
EXTENDS Fulfilment, Membership, Sharing, FiniteSetTheorems, TLAPS

-----------------------------------------------------------------------------
(* Fulfilment, for any number of lines, of units and of handlers.           *)

(* A row, as it is or as a handler has read it: one without a stage has     *)
(* lost its last line, one that says delivered has been delivered.          *)
Honest(o, gone, done) ==
    /\ o.status \in Statuses /\ o.fulfil \in Stages
    /\ o.pay \in {"PAID", "PARTIALLY_REFUNDED", "REFUNDED"}
    /\ o.fulfil = "null" => gone /\ o.status \in {"CANCELLED", "REFUNDED"}
    /\ o.fulfil = "DELIVERED" => o.status \in {"DELIVERED", "CANCELLED", "REFUNDED"}
    /\ o.fulfil = "DELIVERED" \/ o.status = "DELIVERED" => done

(* An update never takes the stage away, sets no status without a stage,    *)
(* and delivers in all three fields.                                        *)
Flags == {"tracked", "labelled", "shippedAt", "deliveredAt"}
SoundUpdate(data, done) ==
    /\ DOMAIN data \subseteq {"status", "fulfil"} \cup Flags
    /\ \A f \in Flags \cap DOMAIN data : data[f] \in BOOLEAN
    /\ "deliveredAt" \in DOMAIN data => data.deliveredAt
    /\ "fulfil" \in DOMAIN data =>
          /\ data.fulfil \in Stages \ {"null"}
          /\ data.fulfil = "DELIVERED" =>
                {"status", "deliveredAt"} \subseteq DOMAIN data /\ data.status = "DELIVERED"
    /\ "status" \in DOMAIN data =>
          /\ data.status \in Statuses /\ "fulfil" \in DOMAIN data
          /\ data.status = "DELIVERED" => done \/ "deliveredAt" \in DOMAIN data

(* What a handler is about to do, and on what grounds.                      *)
Handler(work, gone, done) ==
    /\ work.at \in Places
    /\ work.at = "write" =>
          /\ SoundUpdate(work.data, done)
          /\ \/ work.by = "desk"
             \/ work.by = "label" /\ ("fulfil" \in DOMAIN work.data => work.seen.fulfil \notin PastLabel)
             \/ work.by = "pick" /\ work.seen.fulfil = "ACCEPTED"
    /\ work.at = "pick" => work.line \in Items /\ work.quantity \in 0 .. Quantity
    /\ work.at = "cancel" =>
          /\ Honest(work.seen, gone, done)
          /\ work.lines \subseteq Items
          /\ work.by = "staff" \/ (work.by = "buyer" /\ work.seen.fulfil \notin PastPick)

(* What the tracking job has read and is about to write.                    *)
Tracker(work, done) ==
    /\ work.at \in {"idle", "asked", "write"}
    /\ work.at # "idle" => work.seen.fulfil \in Stages \ {"null", "DELIVERED"}
    /\ work.at = "write" =>
          /\ SoundUpdate(work.data, done)
          /\ "fulfil" \in DOMAIN work.data
          /\ work.data.fulfil \in {work.seen.fulfil, "DELIVERED"} \cup Carrying

ParcelInv ==
    /\ TypeOK
    /\ req = [r \in Requests |-> req[r]]
    /\ Honest(order, cancelled = Items, order.deliveredAt)
    /\ \A r \in Requests : Handler(req[r], cancelled = Items, order.deliveredAt)
    /\ Tracker(sync, order.deliveredAt)

(* What Updated leaves of a row.                                            *)
LEMMA UpdatedFields ==
  ASSUME NEW o \in Orders, NEW data
  PROVE  /\ Updated(o, data).status = IF "status" \in DOMAIN data THEN data.status ELSE o.status
         /\ Updated(o, data).fulfil = IF "fulfil" \in DOMAIN data THEN data.fulfil ELSE o.fulfil
         /\ Updated(o, data).pay = IF "pay" \in DOMAIN data THEN data.pay ELSE o.pay
         /\ Updated(o, data).deliveredAt =
               IF "deliveredAt" \in DOMAIN data THEN data.deliveredAt ELSE o.deliveredAt
<1>1. DOMAIN o = {"status", "pay", "fulfil"} \cup Flags
  BY DEF Orders, Flags
<1> QED
  BY <1>1 DEF Updated, Flags

LEMMA UpdatedIsRow ==
  ASSUME NEW o \in Orders, NEW data,
         \A f \in Flags \cap DOMAIN data : data[f] \in BOOLEAN,
         "status" \in DOMAIN data => data.status \in Statuses,
         "fulfil" \in DOMAIN data => data.fulfil \in Stages,
         "pay" \in DOMAIN data => data.pay \in {"PAID", "PARTIALLY_REFUNDED", "REFUNDED"}
  PROVE  Updated(o, data) \in Orders
<1>1. DOMAIN o = {"status", "pay", "fulfil"} \cup Flags
  BY DEF Orders, Flags
<1> DEFINE u == Updated(o, data)
<1>2. u = [status |-> u.status, pay |-> u.pay, fulfil |-> u.fulfil, tracked |-> u.tracked,
           labelled |-> u.labelled, shippedAt |-> u.shippedAt, deliveredAt |-> u.deliveredAt]
  BY <1>1 DEF Updated, Flags
<1>3. /\ u.status \in Statuses /\ u.fulfil \in Stages
      /\ u.pay \in {"PAID", "PARTIALLY_REFUNDED", "REFUNDED"}
  BY <1>1 DEF Updated, Orders, Flags
<1>4. u.tracked \in BOOLEAN /\ u.labelled \in BOOLEAN /\ u.shippedAt \in BOOLEAN /\ u.deliveredAt \in BOOLEAN
  BY <1>1 DEF Updated, Orders, Flags
<1> QED
  BY <1>2, <1>3, <1>4 DEF Orders

(* A sound update keeps the row honest and delivered.                       *)
LEMMA UpdateIsSound ==
  ASSUME NEW o \in Orders, NEW data, NEW gone \in BOOLEAN,
         Honest(o, gone, o.deliveredAt), SoundUpdate(data, o.deliveredAt)
  PROVE  /\ Updated(o, data) \in Orders
         /\ Honest(Updated(o, data), gone, Updated(o, data).deliveredAt)
         /\ o.deliveredAt => Updated(o, data).deliveredAt
<1>1. Updated(o, data) \in Orders
  <2>1. "pay" \notin DOMAIN data
    BY DEF SoundUpdate, Flags
  <2> QED
    BY <2>1, UpdatedIsRow DEF SoundUpdate
<1>2. "pay" \notin DOMAIN data
  BY DEF SoundUpdate, Flags
<1> DEFINE u == Updated(o, data)
<1>3. /\ u.status = IF "status" \in DOMAIN data THEN data.status ELSE o.status
      /\ u.fulfil = IF "fulfil" \in DOMAIN data THEN data.fulfil ELSE o.fulfil
      /\ u.pay = o.pay
      /\ u.deliveredAt = IF "deliveredAt" \in DOMAIN data THEN data.deliveredAt ELSE o.deliveredAt
  BY <1>2, UpdatedFields
<1>4. o.deliveredAt => u.deliveredAt
  BY <1>3 DEF SoundUpdate
<1>5. u.status \in Statuses /\ u.fulfil \in Stages /\ u.pay \in {"PAID", "PARTIALLY_REFUNDED", "REFUNDED"}
  BY <1>1 DEF Orders
<1>6. u.fulfil = "null" => gone /\ u.status \in {"CANCELLED", "REFUNDED"}
  BY <1>3 DEF Honest, SoundUpdate
<1>7. u.fulfil = "DELIVERED" => u.status \in {"DELIVERED", "CANCELLED", "REFUNDED"}
  BY <1>3 DEF Honest, SoundUpdate
<1>8. u.fulfil = "DELIVERED" \/ u.status = "DELIVERED" => u.deliveredAt
  BY <1>3 DEF Honest, SoundUpdate
<1> HIDE DEF u
<1>9. Honest(u, gone, u.deliveredAt)
  BY <1>5, <1>6, <1>7, <1>8 DEF Honest
<1> QED
  BY <1>1, <1>4, <1>9 DEF u

(* Lines and deliveries are never taken back, and what has been read stays  *)
(* good.                                                                   *)
LEMMA GroundsStay ==
  ASSUME NEW work, NEW gone \in BOOLEAN, NEW done \in BOOLEAN,
         NEW later \in BOOLEAN, NEW still \in BOOLEAN, gone => later, done => still
  PROVE  /\ Handler(work, gone, done) => Handler(work, later, still)
         /\ Tracker(work, done) => Tracker(work, still)
<1>1. Honest(work.seen, gone, done) => Honest(work.seen, later, still)
  BY DEF Honest
<1>2. SoundUpdate(work.data, done) => SoundUpdate(work.data, still)
  BY DEF SoundUpdate
<1> QED
  BY <1>1, <1>2 DEF Handler, Tracker

LEMMA ParcelStarts == Init => ParcelInv
<1> SUFFICES ASSUME Init PROVE ParcelInv
  OBVIOUS
<1> DEFINE new == [status |-> "PROCESSING", pay |-> "PAID", fulfil |-> "null",
                   tracked |-> FALSE, labelled |-> FALSE,
                   shippedAt |-> FALSE, deliveredAt |-> FALSE]
<1>1. new \in Orders
  BY DEF Orders, Statuses, Stages
<1>2. order = Updated(new, postPaymentFulfillmentFields)
  BY DEF Init
<1> HIDE DEF new
<1>3. order \in Orders
  BY <1>1, <1>2, UpdatedIsRow DEF postPaymentFulfillmentFields, Flags, Stages
<1>4. order.fulfil = "ACCEPTED" /\ order.status = "PROCESSING"
  BY <1>1, <1>2, UpdatedFields DEF postPaymentFulfillmentFields, new
<1>5. Honest(order, cancelled = Items, order.deliveredAt)
  BY <1>3, <1>4 DEF Honest, Orders
<1>6. TypeOK
  BY <1>3, FulfilmentAssumption DEF Init, TypeOK, Idle, Places, FulfilmentAssumption
<1>7. \A r \in Requests : Handler(req[r], cancelled = Items, order.deliveredAt)
  BY DEF Init, Idle, Handler, Places
<1>8. Tracker(sync, order.deliveredAt)
  BY DEF Init, Idle, Tracker
<1>9. req = [r \in Requests |-> req[r]]
  BY DEF Init
<1> QED
  BY <1>5, <1>6, <1>7, <1>8, <1>9 DEF ParcelInv

(* Whatever leaves the row, the lines and the tracking job alone and gives  *)
(* one handler sound work keeps the invariant.                              *)
LEMMA HandlerMoves ==
  ASSUME ParcelInv, NEW r \in Requests, NEW work,
         Handler(work, cancelled = Items, order.deliveredAt),
         req' = [req EXCEPT ![r] = work], picked' \in [Items -> 0 .. Quantity],
         UNCHANGED <<order, cancelled, sync, carrier>>
  PROVE  ParcelInv'
<1>1. \A s \in Requests : req'[s] = IF s = r THEN work ELSE req[s]
  BY DEF ParcelInv
<1>2. \A s \in Requests : Handler(req'[s], cancelled' = Items, order'.deliveredAt)
  BY <1>1 DEF ParcelInv
<1>3. TypeOK'
  BY <1>2 DEF ParcelInv, TypeOK, Handler
<1>4. req' = [s \in Requests |-> req'[s]]
  BY DEF ParcelInv
<1> QED
  BY <1>2, <1>3, <1>4 DEF ParcelInv

LEMMA HandlerServed ==
  ASSUME ParcelInv, NEW r \in Requests, NEW work, Serve(r, work),
         Handler(work, cancelled = Items, order.deliveredAt),
         UNCHANGED <<order, picked, cancelled, sync, carrier>>
  PROVE  ParcelInv'
<1>1. picked' \in [Items -> 0 .. Quantity]
  BY DEF ParcelInv, TypeOK
<1> QED
  BY <1>1, HandlerMoves DEF Serve

LEMMA HandlerWillWrite ==
  ASSUME ParcelInv, NEW r \in Requests, NEW by, NEW data, WillWrite(r, by, data),
         SoundUpdate(data, order.deliveredAt),
         \/ by = "desk"
         \/ by = "label" /\ ("fulfil" \in DOMAIN data => order.fulfil \notin PastLabel)
         \/ by = "pick" /\ order.fulfil = "ACCEPTED"
  PROVE  ParcelInv'
<1> DEFINE work == [at |-> "write", by |-> by, seen |-> Seen(order), data |-> data]
<1>1. Handler(work, cancelled = Items, order.deliveredAt)
  BY DEF Handler, Seen, Places
<1>2. Serve(r, work)
  BY DEF WillWrite
<1> HIDE DEF work
<1> QED
  BY <1>1, <1>2, HandlerServed DEF WillWrite

(* The handlers' updates are sound.                                         *)
Delivery == [fulfil |-> "DELIVERED", deliveredAt |-> TRUE, status |-> "DELIVERED"]

LEMMA DeliveryIsSound == ASSUME NEW done PROVE SoundUpdate(Delivery, done)
<1>1. /\ DOMAIN Delivery = {"fulfil", "deliveredAt", "status"}
      /\ Delivery.fulfil = "DELIVERED" /\ Delivery.status = "DELIVERED"
      /\ Delivery.deliveredAt = TRUE
  BY DEF Delivery
<1>2. \A f \in Flags \cap DOMAIN Delivery : Delivery[f] \in BOOLEAN
  BY <1>1 DEF Flags
<1> QED
  BY <1>1, <1>2 DEF SoundUpdate, Flags, Stages, Statuses

LEMMA DeskWrites ==
  ASSUME ParcelInv, NEW r \in Requests,
         \/ PatchPickupReady(r)
         \/ \E reason \in BOOLEAN : PatchMarkShipped(r, reason)
         \/ PatchMarkDelivered(r)
  PROVE  ParcelInv'
<1>1. CASE PatchPickupReady(r)
  <2>1. SoundUpdate([fulfil |-> "PICKUP_READY"], order.deliveredAt)
    BY DEF SoundUpdate, Flags, Stages
  <2> QED
    BY <1>1, <2>1, HandlerWillWrite DEF PatchPickupReady
<1>2. ASSUME NEW reason \in BOOLEAN, PatchMarkShipped(r, reason) PROVE ParcelInv'
  <2> DEFINE status == IF isPreShipOrderStatus(order.status) THEN "SHIPPED" ELSE order.status
             data == [fulfil |-> "SHIPPED", shippedAt |-> TRUE, status |-> status]
  <2>1. status \in Statuses /\ (status = "DELIVERED" => order.deliveredAt)
    BY DEF ParcelInv, Honest, Statuses
  <2> HIDE DEF status
  <2>2. SoundUpdate(data, order.deliveredAt)
    <3>1. /\ DOMAIN data = {"fulfil", "shippedAt", "status"}
          /\ data.fulfil = "SHIPPED" /\ data.shippedAt = TRUE /\ data.status = status
      OBVIOUS
    <3> HIDE DEF data
    <3>2. \A f \in Flags \cap DOMAIN data : data[f] \in BOOLEAN
      BY <3>1 DEF Flags
    <3> QED
      BY <2>1, <3>1, <3>2 DEF SoundUpdate, Flags, Stages, Carrying
  <2>3. WillWrite(r, "desk", data)
    BY <1>2 DEF PatchMarkShipped, status
  <2> QED
    BY <2>2, <2>3, HandlerWillWrite
<1>3. CASE PatchMarkDelivered(r)
  <2>1. SoundUpdate(Delivery, order.deliveredAt)
    BY DeliveryIsSound
  <2> QED
    BY <1>3, <2>1, HandlerWillWrite DEF PatchMarkDelivered, Delivery
<1> QED
  BY <1>1, <1>2, <1>3

LEMMA ShippingIsSound ==
  ASSUME NEW tracking \in BOOLEAN, NEW label \in {"keep", "clear", "set"}, NEW done \in BOOLEAN
  PROVE  SoundUpdate(Shipping(tracking, label), done)
<1> DEFINE data == Shipping(tracking, label)
           F == DOMAIN manualShipFromTrackingFields
<1>1. /\ F = {"status", "fulfil", "shippedAt"}
      /\ manualShipFromTrackingFields.status = "SHIPPED"
      /\ manualShipFromTrackingFields.fulfil = "SHIPPED"
      /\ manualShipFromTrackingFields.shippedAt = TRUE
  BY DEF manualShipFromTrackingFields
<1>2. /\ DOMAIN data \subseteq {"tracked", "labelled"} \cup F
      /\ "status" \in DOMAIN data => "fulfil" \in DOMAIN data
  BY <1>1 DEF Shipping
<1>3. \A f \in DOMAIN data :
         data[f] = IF f = "tracked" THEN TRUE
                   ELSE IF f = "labelled" THEN label = "set"
                   ELSE manualShipFromTrackingFields[f]
  BY DEF Shipping
<1> HIDE DEF data
<1>4. DOMAIN data \subseteq {"status", "fulfil"} \cup Flags
  BY <1>1, <1>2 DEF Flags
<1>5. \A f \in Flags \cap DOMAIN data : data[f] \in BOOLEAN
  BY <1>1, <1>2, <1>3 DEF Flags
<1>6. "deliveredAt" \notin DOMAIN data
  BY <1>1, <1>2
<1>7. "fulfil" \in DOMAIN data => data.fulfil = "SHIPPED"
  BY <1>1, <1>3
<1>8. "status" \in DOMAIN data => data.status = "SHIPPED"
  BY <1>1, <1>3
<1> QED
  BY <1>2, <1>4, <1>5, <1>6, <1>7, <1>8 DEF SoundUpdate, Stages, Statuses, Carrying, data

LEMMA LabelIsSound ==
  ASSUME NEW o \in Orders, NEW done \in BOOLEAN
  PROVE  /\ SoundUpdate(buildOutboundLabelPersistData(o), done)
         /\ "fulfil" \in DOMAIN buildOutboundLabelPersistData(o) => o.fulfil \notin PastLabel
<1> DEFINE data == buildOutboundLabelPersistData(o)
<1>1. /\ DOMAIN data \subseteq {"tracked", "labelled", "fulfil"}
      /\ "fulfil" \in DOMAIN data => shouldSetPickupReadyFromOutboundLabel(o)
      /\ \A f \in DOMAIN data : data[f] = IF f = "fulfil" THEN "PICKUP_READY" ELSE TRUE
  BY DEF buildOutboundLabelPersistData
<1> HIDE DEF data
<1>2. SoundUpdate(data, done)
  BY <1>1 DEF SoundUpdate, Stages, Flags
<1> QED
  BY <1>1, <1>2 DEF data, shouldSetPickupReadyFromOutboundLabel

LEMMA StaffKeeps ==
  ASSUME ParcelInv, NEW r \in Requests, Staff(r)
  PROVE  ParcelInv'
<1> DEFINE gone == cancelled = Items
<1>0. order \in Orders /\ order.deliveredAt \in BOOLEAN
  BY DEF ParcelInv, TypeOK, Orders
<1>1. CASE \/ PatchPickupReady(r)
           \/ \E reason \in BOOLEAN : PatchMarkShipped(r, reason)
           \/ PatchMarkDelivered(r)
  BY <1>1, DeskWrites
<1>2. ASSUME NEW tracking \in BOOLEAN, NEW label \in {"keep", "clear", "set"},
             UpdateAdminShipping(r, tracking, label)
      PROVE  ParcelInv'
  BY <1>0, <1>2, ShippingIsSound, HandlerWillWrite DEF UpdateAdminShipping
<1>3. CASE AddTracking(r)
  <2>1. SoundUpdate(Shipping(TRUE, "keep"), order.deliveredAt)
    BY <1>0, ShippingIsSound
  <2> QED
    BY <1>3, <2>1, HandlerWillWrite DEF AddTracking
<1>4. CASE PersistLabel(r)
  BY <1>0, <1>4, LabelIsSound, HandlerWillWrite DEF PersistLabel
<1>5. ASSUME NEW i \in Items, NEW n \in 0 .. Quantity, PickByHand(r, i, n) PROVE ParcelInv'
  <2> DEFINE work == [at |-> "pick", line |-> i, quantity |-> n]
  <2>1. Handler(work, gone, order.deliveredAt)
    BY DEF Handler, Places
  <2>2. Serve(r, work)
    BY <1>5 DEF PickByHand
  <2> HIDE DEF work
  <2> QED
    BY <1>5, <2>1, <2>2, HandlerServed DEF PickByHand
<1>6. ASSUME NEW i \in Items, PickByScan(r, i) PROVE ParcelInv'
  <2> DEFINE work == [at |-> "pick", line |-> i, quantity |-> picked[i] + 1]
  <2>1. picked[i] + 1 \in 0 .. Quantity
    BY <1>6, FulfilmentAssumption DEF PickByScan, ParcelInv, TypeOK, FulfilmentAssumption
  <2>2. Handler(work, gone, order.deliveredAt)
    BY <2>1 DEF Handler, Places
  <2>3. Serve(r, work)
    BY <1>6 DEF PickByScan
  <2> HIDE DEF work
  <2> QED
    BY <1>6, <2>2, <2>3, HandlerServed DEF PickByScan
<1>7. CASE UpdateOrderStatus(r)
  <2> DEFINE work == [at |-> "cancel", by |-> "staff", seen |-> Seen(order), lines |-> Items \ cancelled]
  <2>1. Honest(Seen(order), gone, order.deliveredAt)
    BY DEF ParcelInv, Honest, Seen
  <2>2. Handler(work, gone, order.deliveredAt)
    BY <2>1 DEF Handler, Places
  <2>3. Serve(r, work)
    BY <1>7 DEF UpdateOrderStatus, WillCancel
  <2> HIDE DEF work
  <2> QED
    BY <1>7, <2>2, <2>3, HandlerServed DEF UpdateOrderStatus, WillCancel
<1> QED
  BY <1>1, <1>2, <1>3, <1>4, <1>5, <1>6, <1>7 DEF Staff

LEMMA BuyerKeeps ==
  ASSUME ParcelInv, NEW r \in Requests, NEW S \in SUBSET Items, CancelOrderByUser(r, S)
  PROVE  ParcelInv'
<1> DEFINE work == [at |-> "cancel", by |-> "buyer", seen |-> Seen(order), lines |-> S]
<1>1. Honest(Seen(order), cancelled = Items, order.deliveredAt)
  BY DEF ParcelInv, Honest, Seen
<1>2. Handler(work, cancelled = Items, order.deliveredAt)
  BY <1>1 DEF Handler, Places, CancelOrderByUser, canCustomerCancelOrder, Seen
<1>3. Serve(r, work)
  BY DEF CancelOrderByUser, WillCancel
<1> HIDE DEF work
<1> QED
  BY <1>2, <1>3, HandlerServed DEF CancelOrderByUser, WillCancel

(* The row moves, for better: what has been read stays good.                *)
LEMMA RowMoves ==
  ASSUME ParcelInv, cancelled \subseteq cancelled', cancelled' \subseteq Items,
         order' \in Orders, Honest(order', cancelled' = Items, order'.deliveredAt),
         order.deliveredAt => order'.deliveredAt,
         req' = [s \in Requests |-> req'[s]],
         \A s \in Requests : req'[s] = req[s] \/ req'[s] = Idle,
         sync' = sync \/ sync' = Idle, UNCHANGED <<picked, carrier>>
  PROVE  ParcelInv'
<1>1. /\ order.deliveredAt \in BOOLEAN /\ order'.deliveredAt \in BOOLEAN
      /\ cancelled = Items => cancelled' = Items
  BY DEF ParcelInv, TypeOK, Orders
<1>2. ASSUME NEW s \in Requests PROVE Handler(req'[s], cancelled' = Items, order'.deliveredAt)
  <2>1. CASE req'[s] = Idle
    BY <2>1 DEF Handler, Idle, Places
  <2>2. CASE req'[s] = req[s]
    <3>1. Handler(req[s], cancelled = Items, order.deliveredAt)
      BY DEF ParcelInv
    <3> DEFINE gone == cancelled = Items
               later == cancelled' = Items
               done == order.deliveredAt
               still == order'.deliveredAt
    <3>2. gone \in BOOLEAN /\ later \in BOOLEAN /\ done \in BOOLEAN /\ still \in BOOLEAN
      BY <1>1
    <3>3. Handler(req[s], gone, done) /\ (gone => later) /\ (done => still)
      BY <1>1, <3>1
    <3> HIDE DEF gone, later, done, still
    <3>4. Handler(req[s], later, still)
      BY <3>2, <3>3, GroundsStay
    <3> QED
      BY <2>2, <3>4 DEF later, still
  <2> QED
    BY <2>1, <2>2
<1>3. Tracker(sync', order'.deliveredAt)
  <2>1. CASE sync' = Idle
    BY <2>1 DEF Tracker, Idle
  <2>2. CASE sync' = sync
    <3> DEFINE done == order.deliveredAt
               still == order'.deliveredAt
    <3>1. Tracker(sync, done) /\ (done => still) /\ done \in BOOLEAN /\ still \in BOOLEAN
      BY <1>1 DEF ParcelInv
    <3> HIDE DEF done, still
    <3>2. Tracker(sync, still)
      BY <3>1, GroundsStay
    <3> QED
      BY <2>2, <3>2 DEF still
  <2> QED
    BY <2>1, <2>2
<1>4. TypeOK'
  BY <1>2, <1>3 DEF ParcelInv, TypeOK, Handler, Tracker
<1> QED
  BY <1>2, <1>3, <1>4 DEF ParcelInv

LEMMA StepKeeps ==
  ASSUME ParcelInv, NEW r \in Requests, Step(r)
  PROVE  ParcelInv'
<1> DEFINE gone == cancelled = Items
           done == order.deliveredAt
<1>0. order \in Orders /\ done \in BOOLEAN /\ gone \in BOOLEAN /\ Handler(req[r], gone, done)
  BY DEF ParcelInv, TypeOK, Orders
<1>1. CASE Write(r)
  <2>1. SoundUpdate(req[r].data, done) /\ Honest(order, gone, done)
    BY <1>0, <1>1 DEF Write, Handler, ParcelInv
  <2> HIDE DEF gone
  <2>2. /\ order' \in Orders /\ Honest(order', gone, order'.deliveredAt)
        /\ order.deliveredAt => order'.deliveredAt
    BY <1>0, <1>1, <2>1, UpdateIsSound DEF Write
  <2>3. /\ req' = [s \in Requests |-> req'[s]]
        /\ \A s \in Requests : req'[s] = req[s] \/ req'[s] = Idle
    BY <1>1 DEF Write, ParcelInv
  <2>4. cancelled' = cancelled /\ cancelled \subseteq Items /\ UNCHANGED <<sync, picked, carrier>>
    BY <1>1 DEF Write, ParcelInv, TypeOK
  <2> QED
    BY <2>2, <2>3, <2>4, RowMoves DEF gone
<1>2. CASE PickOrderItem(r)
  <2> DEFINE work == [at |-> "refresh"]
  <2>1. picked' \in [Items -> 0 .. Quantity]
    BY <1>0, <1>2 DEF PickOrderItem, ParcelInv, TypeOK, Handler
  <2>2. Handler(work, gone, done)
    BY DEF Handler, Places
  <2>3. req' = [req EXCEPT ![r] = work] /\ UNCHANGED <<order, cancelled, sync, carrier>>
    BY <1>2 DEF PickOrderItem
  <2> HIDE DEF work
  <2> QED
    BY <2>1, <2>2, <2>3, HandlerMoves
<1>3. CASE PickRefresh(r)
  <2> DEFINE data == [fulfil |-> "PICKUP_READY"]
             work == [at |-> "write", by |-> "pick", seen |-> Seen(order), data |-> data]
             then == IF AllPicked /\ order.fulfil = "ACCEPTED" /\ order.pay = "PAID"
                    THEN work ELSE Idle
  <2>1. SoundUpdate(data, done)
    BY DEF SoundUpdate, Flags, Stages
  <2>2. order.fulfil = "ACCEPTED" => Handler(work, gone, done)
    BY <2>1 DEF Handler, Places, Seen
  <2>3. Handler(Idle, gone, done)
    BY DEF Handler, Places, Idle
  <2>4. /\ req' = [req EXCEPT ![r] = then]
        /\ picked' \in [Items -> 0 .. Quantity] /\ UNCHANGED <<order, cancelled, sync, carrier>>
    BY <1>3 DEF PickRefresh, ParcelInv, TypeOK
  <2> HIDE DEF work
  <2>5. Handler(then, gone, done)
    BY <2>2, <2>3
  <2> HIDE DEF then
  <2> QED
    BY <2>4, <2>5, HandlerMoves
<1>4. CASE FinalizeOrderCancellation(r)
  <2> DEFINE seen == req[r].seen
             none == cancelled' = Items
             data == [status |-> IF none THEN "CANCELLED" ELSE seen.status,
                      fulfil |-> IF none THEN "null" ELSE seen.fulfil,
                      pay |-> IF seen.pay # "PAID" THEN seen.pay
                              ELSE IF none THEN "REFUNDED" ELSE "PARTIALLY_REFUNDED"]
  <2>1. Honest(seen, gone, done) /\ req[r].lines \subseteq Items
    BY <1>0, <1>4 DEF FinalizeOrderCancellation, Handler
  <2>2. /\ cancelled \subseteq cancelled' /\ cancelled' \subseteq Items
        /\ gone => none
    BY <1>4, <2>1 DEF FinalizeOrderCancellation, ParcelInv, TypeOK
  <2>3. order' = Updated(order, data)
    BY <1>4 DEF FinalizeOrderCancellation
  <2>4. /\ DOMAIN data = {"status", "fulfil", "pay"}
        /\ data.status = IF none THEN "CANCELLED" ELSE seen.status
        /\ data.fulfil = IF none THEN "null" ELSE seen.fulfil
        /\ data.pay = IF seen.pay # "PAID" THEN seen.pay
                      ELSE IF none THEN "REFUNDED" ELSE "PARTIALLY_REFUNDED"
    OBVIOUS
  <2> HIDE DEF data
  <2>5. order' \in Orders
    <3>1. /\ data.status \in Statuses /\ data.fulfil \in Stages
          /\ data.pay \in {"PAID", "PARTIALLY_REFUNDED", "REFUNDED"}
          /\ Flags \cap DOMAIN data = {}
      BY <2>1, <2>4 DEF Honest, Statuses, Stages, Flags
    <3> QED
      BY <1>0, <2>3, <3>1, UpdatedIsRow
  <2>6. /\ order'.status = IF none THEN "CANCELLED" ELSE seen.status
        /\ order'.fulfil = IF none THEN "null" ELSE seen.fulfil
        /\ order'.deliveredAt = done
    BY <1>0, <2>3, <2>4, UpdatedFields
  <2>7. Honest(order', none, order'.deliveredAt)
    BY <2>1, <2>2, <2>5, <2>6 DEF Honest, Orders
  <2>8. /\ req' = [s \in Requests |-> req'[s]]
        /\ \A s \in Requests : req'[s] = req[s] \/ req'[s] = Idle
    BY <1>4 DEF FinalizeOrderCancellation, ParcelInv
  <2>9. UNCHANGED <<sync, picked, carrier>>
    BY <1>4 DEF FinalizeOrderCancellation
  <2> QED
    BY <2>2, <2>5, <2>6, <2>7, <2>8, <2>9, RowMoves
<1> QED
  BY <1>1, <1>2, <1>3, <1>4 DEF Step

LEMMA RefundKeeps ==
  ASSUME ParcelInv, NEW full \in BOOLEAN, RecordRefund(full)
  PROVE  ParcelInv'
<1> DEFINE data == IF full THEN [pay |-> "REFUNDED", status |-> "REFUNDED"]
                           ELSE [pay |-> "PARTIALLY_REFUNDED"]
<1>1. /\ DOMAIN data \subseteq {"pay", "status"}
      /\ "status" \in DOMAIN data => data.status = "REFUNDED"
      /\ "pay" \in DOMAIN data => data.pay \in {"REFUNDED", "PARTIALLY_REFUNDED"}
  <2>1. CASE full
    BY <2>1
  <2>2. CASE ~full
    BY <2>2
  <2> QED
    BY <2>1, <2>2
<1>2. order \in Orders /\ order' = Updated(order, data) /\ cancelled' = cancelled
  BY DEF RecordRefund, ParcelInv, TypeOK
<1> HIDE DEF data
<1>3. order' \in Orders
  <2>1. Flags \cap DOMAIN data = {} /\ "fulfil" \notin DOMAIN data
    BY <1>1 DEF Flags
  <2> QED
    BY <1>1, <1>2, <2>1, UpdatedIsRow DEF Statuses
<1>4. /\ order'.status \in {order.status, "REFUNDED"} /\ order'.fulfil = order.fulfil
      /\ order'.deliveredAt = order.deliveredAt
  BY <1>1, <1>2, UpdatedFields
<1>5. Honest(order', cancelled' = Items, order'.deliveredAt)
  BY <1>2, <1>3, <1>4 DEF ParcelInv, Honest, Orders
<1>6. cancelled \subseteq Items
  BY DEF ParcelInv, TypeOK
<1> QED
  BY <1>2, <1>3, <1>4, <1>5, <1>6, RowMoves DEF RecordRefund, ParcelInv

LEMMA SyncKeeps ==
  ASSUME ParcelInv, Sync
  PROVE  ParcelInv'
<1> DEFINE done == order.deliveredAt
<1>0. /\ order \in Orders /\ done \in BOOLEAN /\ Tracker(sync, done)
      /\ Honest(order, cancelled = Items, done)
  BY DEF ParcelInv, TypeOK, Orders
<1>1. ASSUME Tracker(sync', done), UNCHANGED <<order, picked, cancelled, req, carrier>>
      PROVE  ParcelInv'
  BY <1>1 DEF ParcelInv, TypeOK, Tracker
<1>2. CASE SyncRead
  <2>1. order.fulfil \in Stages \ {"null", "DELIVERED"}
    BY <1>0, <1>2 DEF SyncRead, SyncSelects, Honest
  <2>2. sync' = [at |-> "asked", seen |-> Seen(order)]
    BY <1>2 DEF SyncRead
  <2>3. Tracker(sync', done)
    BY <2>1, <2>2 DEF Tracker, Seen
  <2> QED
    BY <1>1, <1>2, <2>3 DEF SyncRead
<1>3. CASE SyncAnswer
  <2> DEFINE data == SyncData(sync.seen, carrier)
  <2>1. sync.seen.fulfil \in Stages \ {"null", "DELIVERED"}
    BY <1>0, <1>3 DEF SyncAnswer, Tracker
  <2>2. /\ SoundUpdate(data, done) /\ "fulfil" \in DOMAIN data
        /\ data.fulfil \in {sync.seen.fulfil, "DELIVERED"} \cup Carrying
    <3>1. CASE carrier = "LABEL"
      <4>1. data = [fulfil |-> sync.seen.fulfil]
        BY <3>1 DEF SyncData
      <4> HIDE DEF data
      <4> QED
        BY <2>1, <4>1 DEF SoundUpdate, Flags
    <3>2. CASE carrier = "DELIVERED"
      <4>1. data = Delivery
        BY <3>2 DEF SyncData, Delivery
      <4>2. "fulfil" \in DOMAIN Delivery /\ Delivery.fulfil = "DELIVERED"
        BY DEF Delivery
      <4> HIDE DEF data
      <4> QED
        BY <4>1, <4>2, DeliveryIsSound
    <3>3. CASE carrier \in Carrying
      <4>1. data = [fulfil |-> carrier]
        BY <3>3 DEF SyncData, Carrying
      <4> HIDE DEF data
      <4> QED
        BY <3>3, <4>1 DEF SoundUpdate, Flags, Stages, Carrying
    <3> QED
      BY <3>1, <3>2, <3>3 DEF ParcelInv, TypeOK
  <2>3. sync' = [at |-> "write", seen |-> sync.seen, data |-> data]
    BY <1>3 DEF SyncAnswer
  <2> HIDE DEF data
  <2>4. Tracker(sync', done)
    BY <2>1, <2>2, <2>3 DEF Tracker
  <2> QED
    BY <1>1, <1>3, <2>4 DEF SyncAnswer
<1>4. CASE SyncFails
  <2>1. Tracker(sync', done)
    BY <1>4 DEF SyncFails, Idle, Tracker
  <2> QED
    BY <1>1, <1>4, <2>1 DEF SyncFails
<1>5. CASE SyncWrite
  <2> DEFINE gone == cancelled = Items
  <2>1. SoundUpdate(sync.data, done) /\ Honest(order, gone, done) /\ gone \in BOOLEAN
    BY <1>0, <1>5 DEF SyncWrite, Tracker
  <2> HIDE DEF gone
  <2>2. /\ order' \in Orders /\ Honest(order', gone, order'.deliveredAt)
        /\ order.deliveredAt => order'.deliveredAt
    BY <1>0, <1>5, <2>1, UpdateIsSound DEF SyncWrite
  <2>3. cancelled' = cancelled /\ cancelled \subseteq Items
    BY <1>5 DEF SyncWrite, ParcelInv, TypeOK
  <2> QED
    BY <1>5, <2>2, <2>3, RowMoves DEF SyncWrite, ParcelInv, gone
<1> QED
  BY <1>2, <1>3, <1>4, <1>5 DEF Sync

LEMMA ParcelKept == ParcelInv /\ [Next]_vars => ParcelInv'
<1> SUFFICES ASSUME ParcelInv, [Next]_vars PROVE ParcelInv'
  OBVIOUS
<1>1. ASSUME NEW r \in Requests, Staff(r) \/ Step(r) PROVE ParcelInv'
  BY <1>1, StaffKeeps, StepKeeps
<1>2. ASSUME NEW r \in Requests, NEW S \in SUBSET Items, CancelOrderByUser(r, S) PROVE ParcelInv'
  BY <1>2, BuyerKeeps
<1>3. ASSUME NEW full \in BOOLEAN, RecordRefund(full) PROVE ParcelInv'
  BY <1>3, RefundKeeps
<1>4. CASE CancelWindowEnds \/ UNCHANGED vars
  BY <1>4 DEF CancelWindowEnds, vars, ParcelInv, TypeOK
<1>5. CASE CarrierMoves
  BY <1>5 DEF CarrierMoves, ParcelInv, TypeOK, Carrying
<1>6. CASE Sync
  BY <1>6, SyncKeeps
<1> QED
  BY <1>1, <1>2, <1>3, <1>4, <1>5, <1>6 DEF Next

LEMMA ParcelCorrect == Spec => []ParcelInv
<1> QED
  BY ParcelStarts, ParcelKept, PTL DEF Spec

(* Every order is in the queue of the word it is shown under, whatever its  *)
(* handlers and the tracking job do to it at once.                          *)
THEOREM ShownInQueue == Spec => []ShownAsQueued
<1>1. ParcelInv => ShownAsQueued
  <2> SUFFICES ASSUME ParcelInv PROVE ShownAsQueued
    OBVIOUS
  <2> DEFINE gone == cancelled = Items
  <2>1. TypeOK /\ order \in Orders /\ Honest(order, gone, order.deliveredAt)
    BY DEF ParcelInv, TypeOK
  <2>2. gone \/ order.fulfil # "null"
    BY <2>1 DEF Honest
  <2>3. order.fulfil = "null" => order.status \in Closed
    BY <2>1 DEF Honest, Closed
  <2>4. /\ order.fulfil \in Stages /\ order.status \in Statuses
        /\ order.pay \in {"PAID", "PARTIALLY_REFUNDED", "REFUNDED"}
    BY <2>1 DEF Orders
  <2> DEFINE word == deriveOrderPresentation(order, gone)
  <2>5. word = IF order.status = "CANCELLED" \/ gone THEN "cancelled"
               ELSE IF order.status = "REFUNDED" \/ order.pay = "REFUNDED" THEN "refunded"
               ELSE IF isDeliveredPresentation(order) THEN "delivered"
               ELSE IF order.fulfil \in Carrying THEN "carrying"
               ELSE IF order.fulfil = "PICKUP_READY" THEN "pickup_ready" ELSE "accepted"
    BY <2>2, <2>4 DEF deriveOrderPresentation, isDeliveredPresentation, isPhysicallyShipped,
                      ForWarehouse, Stages, Carrying
  <2> HIDE DEF word
  <2>6. word = "accepted" => buildToFulfillWhere(order)
    BY <2>2, <2>4, <2>5 DEF buildToFulfillWhere, ForWarehouse, NotTerminal, Stages,
                            isDeliveredPresentation
  <2>7. word = "pickup_ready" => buildPickupReadyWhere(order)
    BY <2>4, <2>5 DEF buildPickupReadyWhere, ForWarehouse, NotTerminal
  <2>8. word = "carrying" => buildShippedWhere(order) /\ matchCustomerInTransit(order)
    BY <2>5 DEF buildShippedWhere, matchCustomerInTransit, matchCustomerActive,
                matchCustomerDelivered, isDeliveredPresentation, NotTerminal
  <2>9. word = "delivered" => buildDeliveredWhere(order) /\ ~ matchCustomerActive(order)
    BY <2>5 DEF buildDeliveredWhere, matchCustomerActive, matchCustomerDelivered,
                isDeliveredPresentation
  <2>10. word # "processing"
    BY <2>5
  <2>11. InPickWave(order) => buildToFulfillWhere(order)
    BY <2>3, <2>4 DEF InPickWave, buildToFulfillWhere, Closed, PastPick, NotTerminal, Stages
  <2> QED
    BY <2>1, <2>6, <2>7, <2>8, <2>9, <2>10, <2>11 DEF ShownAsQueued, Presented, word
<1> QED
  BY <1>1, ParcelCorrect, PTL

(* What has been shown as delivered is never shown on its way again.        *)
LEMMA DeliveredIsShown ==
  ASSUME ParcelInv, ParcelInv', Presented = "delivered",
         order.deliveredAt => order'.deliveredAt
  PROVE  Presented' \in {"delivered", "cancelled", "refunded"}
<1>1. order.deliveredAt
  <2>1. isDeliveredPresentation(order)
    BY DEF Presented, deriveOrderPresentation
  <2> QED
    BY <2>1 DEF ParcelInv, Honest, isDeliveredPresentation
<1>2. isDeliveredPresentation(order')
  BY <1>1 DEF isDeliveredPresentation
<1> QED
  BY <1>2 DEF Presented, deriveOrderPresentation, isDeliveredPresentation

(* The steps that touch the row or the lines.                               *)
LEMMA RowStays ==
  ASSUME [Next]_vars
  PROVE  \/ UNCHANGED <<order, cancelled>>
         \/ SyncWrite
         \/ \E full \in BOOLEAN : RecordRefund(full)
         \/ \E r \in Requests : Write(r) \/ FinalizeOrderCancellation(r)
<1>1. ASSUME NEW r \in Requests, Staff(r) PROVE UNCHANGED <<order, cancelled>>
  BY <1>1 DEF Staff, PatchPickupReady, PatchMarkShipped, PatchMarkDelivered, UpdateAdminShipping,
              AddTracking, PersistLabel, PickByHand, PickByScan, UpdateOrderStatus, WillWrite, WillCancel
<1>2. ASSUME NEW r \in Requests, PickOrderItem(r) \/ PickRefresh(r) PROVE UNCHANGED <<order, cancelled>>
  BY <1>2 DEF PickOrderItem, PickRefresh
<1>3. ASSUME NEW r \in Requests, NEW S \in SUBSET Items, CancelOrderByUser(r, S)
      PROVE  UNCHANGED <<order, cancelled>>
  BY <1>3 DEF CancelOrderByUser, WillCancel
<1>4. CASE CancelWindowEnds \/ CarrierMoves \/ SyncRead \/ SyncAnswer \/ SyncFails \/ UNCHANGED vars
  BY <1>4 DEF CancelWindowEnds, CarrierMoves, SyncRead, SyncAnswer, SyncFails, vars
<1> QED
  BY <1>1, <1>2, <1>3, <1>4 DEF Next, Step, Sync

(* A parcel goes back to an earlier phase, or loses a line on its way, only *)
(* when the staff say so or a stale state is written; delivered is final.    *)
THEOREM StaleRegress == Spec => OnlyStaleRegresses
<1> DEFINE Goes == \/ sync.at = "write" /\ sync' = Idle /\ Stale(sync)
                   \/ \E r \in Requests :
                         /\ req[r] # Idle /\ req'[r] = Idle
                         /\ Stale(req[r]) \/ req[r].by \in {"desk", "staff"}
           Back == Phase(order') < Phase(order) \/ (Phase(order) > 0 /\ cancelled' # cancelled)
           Allowed == /\ Presented = "delivered" => Presented' \in {"delivered", "cancelled", "refunded"}
                      /\ Back => Goes
<1>1. ASSUME ParcelInv, ParcelInv', [Next]_vars PROVE order.deliveredAt => order'.deliveredAt
  <2>0. order \in Orders /\ order.deliveredAt \in BOOLEAN
    BY <1>1 DEF ParcelInv, TypeOK, Orders
  <2>1. ASSUME NEW data, order' = Updated(order, data), "deliveredAt" \in DOMAIN data => data.deliveredAt
        PROVE  order.deliveredAt => order'.deliveredAt
    BY <2>0, <2>1, UpdatedFields
  <2>2. ASSUME NEW r \in Requests, Write(r) PROVE order.deliveredAt => order'.deliveredAt
    BY <1>1, <2>1, <2>2 DEF Write, ParcelInv, Handler, SoundUpdate
  <2>3. CASE SyncWrite
    BY <1>1, <2>1, <2>3 DEF SyncWrite, ParcelInv, Tracker, SoundUpdate
  <2>4. ASSUME NEW r \in Requests, FinalizeOrderCancellation(r)
        PROVE  order.deliveredAt => order'.deliveredAt
    <3>1. PICK s, f, p : order' = Updated(order, [status |-> s, fulfil |-> f, pay |-> p])
      BY <2>4 DEF FinalizeOrderCancellation
    <3> QED
      BY <2>1, <3>1
  <2>5. ASSUME NEW full \in BOOLEAN, RecordRefund(full) PROVE order.deliveredAt => order'.deliveredAt
    <3>1. CASE full
      BY <2>1, <2>5, <3>1 DEF RecordRefund
    <3>2. CASE ~full
      BY <2>1, <2>5, <3>2 DEF RecordRefund
    <3> QED
      BY <3>1, <3>2
  <2>6. CASE UNCHANGED order
    BY <2>6
  <2> QED
    BY <1>1, <2>2, <2>3, <2>4, <2>5, <2>6, RowStays
<1>2. ASSUME ParcelInv, [Next]_vars, Back PROVE Goes
  <2>0. order \in Orders /\ order.fulfil \in Stages
    BY <1>2 DEF ParcelInv, TypeOK, Orders
  <2>1. ASSUME NEW r \in Requests, Write(r) PROVE Goes
    <3>1. req[r] # Idle /\ req'[r] = Idle /\ cancelled' = cancelled
      BY <1>2, <2>1 DEF Write, Idle, ParcelInv
    <3>2. Handler(req[r], cancelled = Items, order.deliveredAt) /\ req[r].at = "write"
      BY <1>2, <2>1 DEF ParcelInv, Write
    <3>3. ASSUME req[r].by = "label", ~ Stale(req[r]) PROVE FALSE
      <4>1. CASE "fulfil" \in DOMAIN req[r].data
        BY <3>1, <3>2, <3>3, <4>1, <1>2 DEF Handler, Stale, Phase, PastLabel
      <4>2. CASE "fulfil" \notin DOMAIN req[r].data
        BY <1>2, <2>0, <2>1, <3>1, <4>2, UpdatedFields DEF Write, Phase
      <4> QED
        BY <4>1, <4>2
    <3>4. ASSUME req[r].by = "pick", ~ Stale(req[r]) PROVE FALSE
      BY <1>2, <3>1, <3>2, <3>4 DEF Handler, Stale, Phase, Carrying
    <3> QED
      BY <3>1, <3>2, <3>3, <3>4 DEF Handler
  <2>2. ASSUME NEW r \in Requests, FinalizeOrderCancellation(r) PROVE Goes
    <3>1. req[r] # Idle /\ req'[r] = Idle
      BY <1>2, <2>2 DEF FinalizeOrderCancellation, Idle, ParcelInv
    <3>2. Handler(req[r], cancelled = Items, order.deliveredAt) /\ req[r].at = "cancel"
      BY <1>2, <2>2 DEF ParcelInv, FinalizeOrderCancellation
    <3>3. ASSUME req[r].by = "buyer", ~ Stale(req[r]) PROVE FALSE
      BY <1>2, <3>2, <3>3 DEF Handler, Stale, Phase, PastPick, Carrying
    <3> QED
      BY <3>1, <3>2, <3>3 DEF Handler
  <2>3. CASE SyncWrite
    <3>1. sync.at = "write" /\ sync' = Idle /\ cancelled' = cancelled /\ Tracker(sync, order.deliveredAt)
      BY <1>2, <2>3 DEF SyncWrite, ParcelInv
    <3>2. /\ order'.fulfil \in {sync.seen.fulfil, "DELIVERED"} \cup Carrying
          /\ sync.seen.fulfil # "DELIVERED"
      BY <2>0, <2>3, <3>1, UpdatedFields DEF SyncWrite, Tracker
    <3>3. ASSUME ~ Stale(sync) PROVE FALSE
      BY <1>2, <3>1, <3>2, <3>3 DEF Stale, Phase
    <3> QED
      BY <3>1, <3>3
  <2>4. ASSUME NEW full \in BOOLEAN, RecordRefund(full) PROVE Goes
    <3>1. order'.fulfil = order.fulfil /\ cancelled' = cancelled
      <4>1. CASE full
        BY <2>0, <2>4, <4>1, UpdatedFields DEF RecordRefund
      <4>2. CASE ~full
        BY <2>0, <2>4, <4>2, UpdatedFields DEF RecordRefund
      <4> QED
        BY <4>1, <4>2
    <3> QED
      BY <1>2, <3>1 DEF Phase
  <2>5. CASE UNCHANGED <<order, cancelled>>
    BY <1>2, <2>5 DEF Phase
  <2> QED
    BY <1>2, <2>1, <2>2, <2>3, <2>4, <2>5, RowStays
<1>3. ParcelInv /\ ParcelInv' /\ [Next]_vars => Allowed
  BY <1>1, <1>2, DeliveredIsShown
<1>4. ParcelInv /\ ParcelInv' /\ [Next]_vars => [Allowed]_vars
  BY <1>3
<1> QED
  BY <1>4, ParcelCorrect, PTL DEF Spec, OnlyStaleRegresses

-----------------------------------------------------------------------------
(* Membership, for any number of payments, handlers and days.               *)

Refs == {"session", "intent"}
Completions ==
    {NoWork} \cup [at : {"order"}, pay : Bundles, ref : Refs]
             \cup [at : {"check", "read"}, pay : Payments, ref : Refs]
             \cup [at : {"write"}, pay : Payments, ref : Refs, until : Nat]

(* A completion ends on the day it began.                                   *)
WorkIsTyped ==
    /\ MembershipTypeOK
    /\ completing \in [Handlers -> Completions]
    /\ job \in {NoWork} \cup [at : {"mail", "mark"}, kind : Kinds, term : Nat]
    /\ mailed \in [Kinds -> [term : Nat, times : Nat]]
    /\ \A h \in Handlers : completing[h].at = "write" => completing[h].until >= today + Term

(* A last day that has been mailed about and not marked has met a fault, or *)
(* is about to be marked, or will not come back: a completion leaves a      *)
(* later one.                                                              *)
MayStillMail(k) ==
    /\ k \notin marks
    /\ ~(job.at = "mark" /\ job.kind = k)
    /\ k = "renewal" => until = mailed[k].term

Reminders ==
    /\ \A k \in Kinds :
          /\ mailed[k].times <= 1 + faults
          /\ MayStillMail(k) => mailed[k].times <= faults
    /\ mailed["renewal"].term <= today + Early
    /\ job.at = "mail" =>
          /\ job.kind \notin marks
          /\ job.kind = "renewal" => job.term <= today + Early
          /\ (job.kind = "renewal" => mailed["renewal"].term = job.term)
                => mailed[job.kind].times <= faults
    /\ job.at = "mark" /\ job.kind = "renewal" => job.term <= today + Early

(* While no two completions overlap: a payment that is being completed has   *)
(* no receipt once it has been looked for, and the last date is the one read. *)
NoneYet(p) == receipts[p] = <<>>
SoundWork(work) ==
    /\ work.pay \in Sessions => work.ref = "session" /\ work.at # "order"
    /\ work.pay \in Bundles => (work.pay \in consumed <=> work.at # "order")
    /\ work.pay \in Bundles \/ work.at \in {"read", "write"} => NoneYet(work.pay)
    /\ work.at = "write" => work.until = Base + Term
OneAtATime ==
    /\ \A g, h \in Handlers : Busy(g) /\ Busy(h) => g = h
    /\ \A h \in Handlers : Busy(h) => SoundWork(completing[h])
    /\ \A b \in Bundles : b \notin consumed => NoneYet(b)
    /\ \A s \in Sessions : \A i \in DOMAIN receipts[s] : receipts[s][i].ref = "session"

(* The receipts, one of each payment and a term apart, up to the last day.   *)
Granted(p) == receipts[p][1].until
ReceiptsAddUp ==
    /\ \A p \in Payments : Len(receipts[p]) <= 1
    /\ \A p, q \in Payments :
          ~NoneYet(p) /\ ~NoneYet(q) /\ p # q =>
              Granted(p) >= Granted(q) + Term \/ Granted(q) >= Granted(p) + Term
    /\ \A p \in Payments : ~NoneYet(p) => Granted(p) <= until
    /\ until # 0 => \E p \in Payments : ~NoneYet(p) /\ Granted(p) = until

MembershipInv ==
    /\ WorkIsTyped /\ Reminders
    /\ ~overlapped => OneAtATime /\ ReceiptsAddUp

LEMMA MembershipStarts == MembershipInit => MembershipInv
<1> SUFFICES ASSUME MembershipInit PROVE MembershipInv
  OBVIOUS
<1>1. WorkIsTyped
  <2>1. /\ completing \in [Handlers -> Completions]
        /\ \A h \in Handlers : completing[h].at = "idle"
    BY DEF MembershipInit, Completions, NoWork
  <2>2. receipts \in [Payments -> Seq([ref : {"session", "intent"}, until : Nat])]
    BY DEF MembershipInit
  <2>3. mailed \in [Kinds -> [term : Nat, times : Nat]]
    BY DEF MembershipInit
  <2>4. job = NoWork /\ job.at = "idle"
    BY DEF MembershipInit, NoWork
  <2>5. stripe \in [Payments -> {"none", "open", "paid"}]
    BY DEF MembershipInit
  <2>6. /\ today \in 1 .. Horizon /\ until \in Nat /\ marks \subseteq Kinds
        /\ consumed \subseteq Bundles /\ faults \in 0 .. MaxFaults
    BY MembershipAssumption DEF MembershipInit, MembershipAssumption
  <2>7. overlapped \in BOOLEAN
    BY DEF MembershipInit
  <2> QED
    BY <2>1, <2>2, <2>3, <2>4, <2>5, <2>6, <2>7 DEF WorkIsTyped, MembershipTypeOK
<1>2. Reminders
  BY MembershipAssumption DEF MembershipInit, Reminders, MembershipAssumption, MayStillMail, NoWork, Kinds
<1>3. OneAtATime /\ ReceiptsAddUp
  BY DEF MembershipInit, OneAtATime, ReceiptsAddUp, Busy, NoneYet, Payments
<1> QED
  BY <1>1, <1>2, <1>3 DEF MembershipInv

(* A handler goes on to sound work.                                         *)
LEMMA WorkMoves ==
  ASSUME WorkIsTyped, NEW h \in Handlers, NEW work \in Completions,
         work.at = "write" => work.until >= today + Term,
         completing' = [completing EXCEPT ![h] = work],
         consumed' \subseteq Bundles, overlapped' \in BOOLEAN, faults' \in 0 .. MaxFaults,
         UNCHANGED <<today, until, marks, stripe, receipts, job, mailed>>
  PROVE  WorkIsTyped'
<1>1. completing' \in [Handlers -> Completions]
  BY DEF WorkIsTyped
<1>2. \A g \in Handlers : completing'[g] = IF g = h THEN work ELSE completing[g]
  BY DEF WorkIsTyped
<1>3. work.at \in {"idle", "order", "check", "read", "write"}
  BY DEF Completions, NoWork
<1>4. \A g \in Handlers : completing'[g].at \in {"idle", "order", "check", "read", "write"}
  BY <1>2, <1>3 DEF WorkIsTyped, MembershipTypeOK
<1>5. \A g \in Handlers : completing'[g].at = "write" => completing'[g].until >= today' + Term
  BY <1>2 DEF WorkIsTyped
<1> QED
  BY <1>1, <1>4, <1>5 DEF WorkIsTyped, MembershipTypeOK

(* What the handlers' steps do to their work.                               *)
LEMMA WorkSteps ==
  ASSUME WorkIsTyped, NEW h \in Handlers
  PROVE  /\ completing[h].at = "idle" <=> ~ Busy(h)
         /\ completing[h].at = "order" =>
               completing[h] \in [at : {"order"}, pay : Bundles, ref : Refs]
         /\ completing[h].at \in {"check", "read"} =>
               completing[h] \in [at : {"check", "read"}, pay : Payments, ref : Refs]
         /\ completing[h].at = "write" =>
               completing[h] \in [at : {"write"}, pay : Payments, ref : Refs, until : Nat]
BY DEF WorkIsTyped, Completions, NoWork, Busy

LEMMA WorkTypedKept ==
  ASSUME WorkIsTyped, [MembershipNext]_membership
  PROVE  WorkIsTyped'
<1> USE MembershipAssumption DEF MembershipAssumption
<1>0. /\ MembershipTypeOK /\ completing \in [Handlers -> Completions]
      /\ today \in Nat /\ until \in Nat /\ NoWork \in Completions /\ NoWork.at = "idle"
      /\ consumed \subseteq Bundles /\ overlapped \in BOOLEAN /\ faults \in 0 .. MaxFaults
  BY DEF WorkIsTyped, MembershipTypeOK, Completions, NoWork
<1>1. CASE \/ \E s \in Sessions, intent \in {"purchase", "renew"} : OpenSession(s, intent)
           \/ \E b \in Bundles : OpenBundle(b)
           \/ \E p \in Payments : Pay(p)
           \/ UNCHANGED membership
  BY <1>1 DEF OpenSession, OpenBundle, Pay, membership, WorkIsTyped, MembershipTypeOK, Payments
<1>2. ASSUME NEW h \in Handlers, NEW s \in Sessions, BeginSession(h, s) PROVE WorkIsTyped'
  <2> DEFINE work == [at |-> "check", pay |-> s, ref |-> "session"]
  <2>1. work \in Completions /\ work.at = "check"
    BY DEF Completions, Payments, Refs
  <2>2. completing' = [completing EXCEPT ![h] = work]
    BY <1>2 DEF BeginSession
  <2> HIDE DEF work
  <2> QED
    BY <1>0, <1>2, <2>1, <2>2, WorkMoves DEF BeginSession
<1>3. ASSUME NEW h \in Handlers, NEW b \in Bundles, NEW ref \in Refs, BeginBundle(h, b, ref)
      PROVE  WorkIsTyped'
  <2> DEFINE work == [at |-> "order", pay |-> b, ref |-> ref]
  <2>1. work \in Completions /\ work.at = "order"
    BY DEF Completions
  <2>2. completing' = [completing EXCEPT ![h] = work]
    BY <1>3 DEF BeginBundle
  <2> HIDE DEF work
  <2> QED
    BY <1>0, <1>3, <2>1, <2>2, WorkMoves DEF BeginBundle
<1>4. ASSUME NEW h \in Handlers, WriteOrder(h) PROVE WorkIsTyped'
  <2>1. completing[h] \in [at : {"order"}, pay : Bundles, ref : Refs]
    BY <1>4, WorkSteps DEF WriteOrder
  <2> DEFINE work == [completing[h] EXCEPT !.at = "check"]
  <2>2. work \in Completions /\ work.at = "check" /\ completing[h].pay \in Bundles
    BY <2>1 DEF Completions, Payments
  <2>3. completing' = [completing EXCEPT ![h] = work]
    BY <1>4 DEF WriteOrder
  <2> HIDE DEF work
  <2> QED
    BY <1>0, <1>4, <2>2, <2>3, WorkMoves DEF WriteOrder
<1>5. ASSUME NEW h \in Handlers, FindReceipt(h) PROVE WorkIsTyped'
  <2>1. completing[h] \in [at : {"check", "read"}, pay : Payments, ref : Refs]
    BY <1>5, WorkSteps DEF FindReceipt
  <2> DEFINE next == [completing[h] EXCEPT !.at = "read"]
             work == IF HasReceipt(completing[h].pay, completing[h].ref) THEN NoWork ELSE next
  <2>2. next \in Completions /\ next.at = "read"
    BY <2>1 DEF Completions
  <2>3. completing' = [completing EXCEPT ![h] = work]
    BY <1>5 DEF FindReceipt
  <2> HIDE DEF next
  <2>4. work \in Completions /\ work.at # "write"
    BY <1>0, <2>2
  <2> HIDE DEF work
  <2> QED
    BY <1>0, <1>5, <2>3, <2>4, WorkMoves DEF FindReceipt
<1>6. ASSUME NEW h \in Handlers, ReadMember(h) PROVE WorkIsTyped'
  <2>1. completing[h] \in [at : {"check", "read"}, pay : Payments, ref : Refs]
    BY <1>6, WorkSteps DEF ReadMember
  <2> DEFINE last == Base + Term
             work == [at |-> "write", pay |-> completing[h].pay, ref |-> completing[h].ref, until |-> last]
  <2>2. last \in Nat /\ last >= today + Term
    BY <1>0 DEF Base, Active
  <2> HIDE DEF last
  <2>3. work \in Completions /\ work.until = last
    BY <2>1, <2>2 DEF Completions
  <2>4. completing' = [completing EXCEPT ![h] = work]
    BY <1>6 DEF ReadMember, last
  <2> HIDE DEF work
  <2> QED
    BY <1>0, <1>6, <2>2, <2>3, <2>4, WorkMoves DEF ReadMember
<1>7. ASSUME NEW h \in Handlers, CompleteMembership(h) PROVE WorkIsTyped'
  <2>1. completing[h] \in [at : {"write"}, pay : Payments, ref : Refs, until : Nat]
    BY <1>7, WorkSteps DEF CompleteMembership
  <2> DEFINE row == [ref |-> completing[h].ref, until |-> completing[h].until]
             R == [ref : {"session", "intent"}, until : Nat]
             p == completing[h].pay
  <2>2. row \in R /\ p \in Payments /\ completing[h].until \in Nat
    BY <2>1 DEF Refs
  <2>3. receipts' = [receipts EXCEPT ![p] = Append(receipts[p], row)]
    BY <1>7, <2>2 DEF CompleteMembership
  <2> HIDE DEF row, R, p
  <2>4. receipts \in [Payments -> Seq(R)]
    BY <1>0 DEF MembershipTypeOK, R
  <2>5. receipts' \in [Payments -> Seq(R)]
    BY <2>2, <2>3, <2>4
  <2>6. /\ completing' \in [Handlers -> Completions]
        /\ \A g \in Handlers : completing'[g].at \in {completing[g].at, "idle"}
        /\ \A g \in Handlers : completing'[g].at = "write" => completing'[g] = completing[g]
    BY <1>0, <1>7 DEF CompleteMembership
  <2> QED
    BY <1>7, <2>2, <2>5, <2>6 DEF CompleteMembership, WorkIsTyped, MembershipTypeOK, R
<1>8. ASSUME NEW h \in Handlers, HandlerFails(h) PROVE WorkIsTyped'
  <2>1. faults' \in 0 .. MaxFaults
    BY <1>0, <1>8 DEF HandlerFails
  <2> QED
    BY <1>0, <1>8, <2>1, WorkMoves DEF HandlerFails
<1>9. ASSUME job' \in {NoWork} \cup [at : {"mail", "mark"}, kind : Kinds, term : Nat],
             mailed' \in [Kinds -> [term : Nat, times : Nat]], marks' \subseteq Kinds,
             faults' \in 0 .. MaxFaults,
             UNCHANGED <<today, until, stripe, consumed, receipts, completing, overlapped>>
      PROVE  WorkIsTyped'
  BY <1>0, <1>9 DEF WorkIsTyped, MembershipTypeOK
<1>10. ASSUME NEW k \in Kinds, SelectMember(k) PROVE WorkIsTyped'
  <2>1. job' \in [at : {"mail", "mark"}, kind : Kinds, term : Nat]
    BY <1>0, <1>10 DEF SelectMember
  <2> QED
    BY <1>0, <1>9, <1>10, <2>1 DEF SelectMember, WorkIsTyped, MembershipTypeOK
<1>11. ASSUME job.at # "idle" PROVE job \in [at : {"mail", "mark"}, kind : Kinds, term : Nat]
  BY <1>0, <1>11 DEF WorkIsTyped
<1>12. CASE Mail
  <2>1. job \in [at : {"mail", "mark"}, kind : Kinds, term : Nat]
    BY <1>11, <1>12 DEF Mail
  <2>2. job' \in [at : {"mail", "mark"}, kind : Kinds, term : Nat]
    BY <1>12, <2>1 DEF Mail
  <2>3. mailed' \in [Kinds -> [term : Nat, times : Nat]]
    BY <1>12, <2>1 DEF Mail, WorkIsTyped
  <2> QED
    BY <1>0, <1>9, <1>12, <2>2, <2>3 DEF Mail, WorkIsTyped, MembershipTypeOK
<1>13. CASE Mark
  <2>1. job.kind \in Kinds
    BY <1>11, <1>13 DEF Mark
  <2> QED
    BY <1>0, <1>9, <1>13, <2>1 DEF Mark, MarkOf, WorkIsTyped, MembershipTypeOK
<1>14. CASE JobFails
  BY <1>0, <1>9, <1>14 DEF JobFails, WorkIsTyped, MembershipTypeOK
<1>15. CASE NextDay
  BY <1>0, <1>15 DEF NextDay, WorkIsTyped, MembershipTypeOK, Busy
<1> QED
  BY <1>1, <1>2, <1>3, <1>4, <1>5, <1>6, <1>7, <1>8, <1>10, <1>12, <1>13, <1>14, <1>15
  DEF MembershipNext, Completion, Daily, Refs

LEMMA RemindersKept ==
  ASSUME WorkIsTyped, Reminders, [MembershipNext]_membership
  PROVE  Reminders'
<1> USE MembershipAssumption DEF MembershipAssumption
<1>0. /\ today \in Nat /\ until \in Nat /\ faults \in Nat /\ marks \subseteq Kinds
      /\ mailed \in [Kinds -> [term : Nat, times : Nat]]
      /\ \A k \in Kinds : mailed[k].times \in Nat /\ mailed[k].term \in Nat
      /\ job \in {NoWork} \cup [at : {"mail", "mark"}, kind : Kinds, term : Nat]
      /\ "renewal" \in Kinds /\ NoWork.at = "idle"
  BY DEF WorkIsTyped, MembershipTypeOK, NoWork, Kinds
<1>1. ASSUME UNCHANGED <<today, until, marks, job, mailed>>, faults' \in {faults, faults + 1}
      PROVE  Reminders'
  BY <1>0, <1>1 DEF Reminders, MayStillMail
<1>2. ASSUME NEW h \in Handlers, CompleteMembership(h) PROVE Reminders'
  <2>1. until' >= today + Term /\ until' \in Nat
    BY <1>2, WorkSteps DEF CompleteMembership, WorkIsTyped
  <2>2. until' > mailed["renewal"].term
    BY <1>0, <2>1 DEF Reminders
  <2>3. marks' = marks \ {"renewal"} /\ UNCHANGED <<today, job, mailed, faults>>
    BY <1>2 DEF CompleteMembership
  <2>4. \A k \in Kinds : MayStillMail(k)' => MayStillMail(k)
    BY <1>0, <2>2, <2>3 DEF MayStillMail
  <2> QED
    BY <1>0, <2>3, <2>4 DEF Reminders
<1>3. ASSUME NEW k \in Kinds, SelectMember(k) PROVE Reminders'
  <2>1. /\ k \notin marks /\ until # 0 /\ job.at = "idle"
        /\ k = "renewal" => until = today + Early
    BY <1>0, <1>3 DEF SelectMember, Due, EarlyDue
  <2>2. /\ job'.at = "mail" /\ job'.kind = k /\ job'.term = until
        /\ UNCHANGED <<today, until, marks, mailed, faults>>
    BY <1>3 DEF SelectMember
  <2>3. \A j \in Kinds : MayStillMail(j)' => MayStillMail(j)
    BY <2>1, <2>2 DEF MayStillMail
  <2>4. (k = "renewal" => mailed["renewal"].term = until) => mailed[k].times <= faults
    BY <1>0, <2>1 DEF Reminders, MayStillMail
  <2>5. \A j \in Kinds : mailed[j].times <= 1 + faults /\ (MayStillMail(j)' => mailed[j].times <= faults)
    BY <2>3 DEF Reminders
  <2>6. mailed["renewal"].term <= today + Early
    BY DEF Reminders
  <2>7. job'.kind = "renewal" => job'.term <= today + Early
    BY <1>0, <2>1, <2>2
  <2> QED
    BY <2>1, <2>2, <2>4, <2>5, <2>6, <2>7 DEF Reminders
<1>4. CASE Mail
  <2>1. /\ job \in [at : {"mail", "mark"}, kind : Kinds, term : Nat] /\ job.at = "mail"
        /\ job' = [job EXCEPT !.at = "mark"]
        /\ UNCHANGED <<today, until, marks, faults>>
    BY <1>0, <1>4 DEF Mail
  <2> DEFINE k == job.kind
             n == IF mailed[k].term = job.term THEN mailed[k].times + 1 ELSE 1
  <2>2. job'.at = "mark" /\ job'.kind = k /\ job'.term = job.term /\ k \in Kinds
    BY <2>1
  <2>3. /\ mailed'[k].term = job.term /\ mailed'[k].times = n
        /\ \A j \in Kinds \ {k} : mailed'[j] = mailed[j]
    BY <1>0, <1>4, <2>2 DEF Mail
  <2>4. /\ k \notin marks
        /\ k = "renewal" => job.term <= today + Early
        /\ (k = "renewal" => mailed["renewal"].term = job.term) => mailed[k].times <= faults
    BY <2>1 DEF Reminders
  <2>5. n <= 1 + faults
    <3>1. CASE mailed[k].term = job.term
      <4>1. mailed[k].times <= faults
        BY <2>4, <3>1
      <4> QED
        BY <1>0, <2>2, <3>1, <4>1
    <3>2. CASE mailed[k].term # job.term
      BY <1>0, <3>2
    <3> QED
      BY <3>1, <3>2
  <2> HIDE DEF k, n
  <2>6. \A j \in Kinds : /\ mailed'[j].times <= 1 + faults
                         /\ MayStillMail(j)' => mailed'[j].times <= faults
    <3> SUFFICES ASSUME NEW j \in Kinds
                 PROVE  /\ mailed'[j].times <= 1 + faults
                        /\ MayStillMail(j)' => mailed'[j].times <= faults
      OBVIOUS
    <3>1. CASE j = k
      BY <2>2, <2>3, <2>5, <3>1 DEF MayStillMail
    <3>2. CASE j # k
      <4>1. MayStillMail(j)' => MayStillMail(j)
        BY <2>1, <2>2, <2>3, <3>2 DEF MayStillMail, k
      <4> QED
        BY <2>3, <3>2, <4>1 DEF Reminders
    <3> QED
      BY <3>1, <3>2
  <2>7. mailed'["renewal"].term <= today + Early
    <3>1. CASE k = "renewal"
      BY <2>3, <2>4, <3>1
    <3>2. CASE k # "renewal"
      BY <1>0, <2>3, <3>2 DEF Reminders
    <3> QED
      BY <3>1, <3>2
  <2> QED
    BY <2>1, <2>2, <2>4, <2>6, <2>7 DEF Reminders
<1>5. CASE Mark
  <2>1. /\ job.at = "mark" /\ marks' = marks \cup {job.kind} /\ job'.at = "idle"
        /\ UNCHANGED <<today, until, mailed, faults>>
    BY <1>0, <1>5 DEF Mark, MarkOf
  <2>2. \A k \in Kinds : MayStillMail(k)' => MayStillMail(k)
    BY <2>1 DEF MayStillMail
  <2> QED
    BY <2>1, <2>2 DEF Reminders
<1>6. CASE JobFails
  <2>1. /\ job'.at = "idle" /\ faults' = faults + 1 /\ UNCHANGED <<today, until, marks, mailed>>
    BY <1>0, <1>6 DEF JobFails
  <2> QED
    BY <1>0, <2>1 DEF Reminders
<1>7. CASE NextDay
  <2>1. today' = today + 1 /\ UNCHANGED <<until, marks, job, mailed, faults>> /\ job.at = "idle"
    BY <1>0, <1>7 DEF NextDay
  <2>2. \A k \in Kinds : MayStillMail(k)' => MayStillMail(k)
    BY <2>1 DEF MayStillMail
  <2> QED
    BY <1>0, <2>1, <2>2 DEF Reminders
<1>8. ASSUME NEW h \in Handlers, HandlerFails(h) PROVE Reminders'
  BY <1>1, <1>8 DEF HandlerFails
<1>9. ASSUME NEW h \in Handlers, WriteOrder(h) \/ FindReceipt(h) \/ ReadMember(h) PROVE Reminders'
  BY <1>1, <1>9 DEF WriteOrder, FindReceipt, ReadMember
<1>10. CASE \/ \E s \in Sessions, intent \in {"purchase", "renew"} : OpenSession(s, intent)
            \/ \E b \in Bundles : OpenBundle(b)
            \/ \E p \in Payments : Pay(p)
            \/ UNCHANGED membership
  BY <1>1, <1>10 DEF OpenSession, OpenBundle, Pay, membership
<1>11. CASE \/ \E h \in Handlers, s \in Sessions : BeginSession(h, s)
            \/ \E h \in Handlers, b \in Bundles, ref \in {"session", "intent"} : BeginBundle(h, b, ref)
  BY <1>1, <1>11 DEF BeginSession, BeginBundle
<1> QED
  BY <1>2, <1>3, <1>4, <1>5, <1>6, <1>7, <1>8, <1>9, <1>10, <1>11
  DEF MembershipNext, Completion, Daily

LEMMA First ==
  ASSUME NEW S, NEW s \in Seq(S)
  PROVE  /\ s # <<>> => Len(s) >= 1 /\ s[1] \in S
         /\ DOMAIN s = 1 .. Len(s) /\ Len(s) \in Nat
         /\ DOMAIN s = {} => s = <<>>
OBVIOUS

(* A receipt of a payment that had none adds a term to all the others.      *)
LEMMA ReceiptAdded ==
  ASSUME WorkIsTyped, ReceiptsAddUp, NEW p \in Payments, NoneYet(p),
         NEW row \in [ref : {"session", "intent"}, until : Nat],
         row.until >= until + Term,
         receipts' = [receipts EXCEPT ![p] = Append(@, row)], until' = row.until
  PROVE  /\ ReceiptsAddUp'
         /\ receipts'[p] = <<row>>
         /\ \A q \in Payments \ {p} : receipts'[q] = receipts[q]
<1> USE MembershipAssumption DEF MembershipAssumption
<1> DEFINE R == [ref : {"session", "intent"}, until : Nat]
<1>0. receipts \in [Payments -> Seq(R)] /\ until \in Nat /\ Term \in Nat /\ Term > 0
  BY DEF WorkIsTyped, MembershipTypeOK
<1>1. receipts'[p] = <<row>> /\ \A q \in Payments \ {p} : receipts'[q] = receipts[q]
  BY <1>0 DEF NoneYet
<1>2. /\ ~NoneYet(p)' /\ Granted(p)' = row.until /\ row.until \in Nat /\ Len(receipts'[p]) = 1
      /\ \A q \in Payments \ {p} :
            /\ NoneYet(q)' = NoneYet(q) /\ Granted(q)' = Granted(q)
            /\ Len(receipts'[q]) = Len(receipts[q])
  BY <1>1 DEF NoneYet, Granted
<1>3. \A q \in Payments : ~NoneYet(q) => Granted(q) \in Nat
  <2> SUFFICES ASSUME NEW q \in Payments, ~NoneYet(q) PROVE Granted(q) \in Nat
    OBVIOUS
  <2>1. receipts[q] \in Seq(R) /\ receipts[q] # <<>>
    BY <1>0 DEF NoneYet
  <2> HIDE DEF R
  <2>2. receipts[q][1] \in R
    BY <2>1, First
  <2> QED
    BY <2>2 DEF Granted, R
<1>4. \A q \in Payments \ {p} : ~NoneYet(q) => row.until >= Granted(q) + Term
  <2> SUFFICES ASSUME NEW q \in Payments, ~NoneYet(q) PROVE row.until >= Granted(q) + Term
    OBVIOUS
  <2>1. Granted(q) \in Nat /\ Granted(q) <= until
    BY <1>3 DEF ReceiptsAddUp
  <2> QED
    BY <1>0, <1>2, <2>1
<1>5. \A q \in Payments : Len(receipts'[q]) <= 1
  BY <1>2 DEF ReceiptsAddUp
<1>6. \A q, s \in Payments :
         ~NoneYet(q)' /\ ~NoneYet(s)' /\ q # s =>
            Granted(q)' >= Granted(s)' + Term \/ Granted(s)' >= Granted(q)' + Term
  BY <1>2, <1>4 DEF ReceiptsAddUp
<1>7. \A q \in Payments : ~NoneYet(q)' => Granted(q)' <= until'
  <2> SUFFICES ASSUME NEW q \in Payments, ~NoneYet(q)' PROVE Granted(q)' <= until'
    OBVIOUS
  <2>1. CASE q = p
    BY <1>2, <2>1
  <2>2. CASE q # p
    BY <1>0, <1>2, <1>3, <1>4, <2>2
  <2> QED
    BY <2>1, <2>2
<1> QED
  BY <1>1, <1>2, <1>5, <1>6, <1>7 DEF ReceiptsAddUp

(* While completions do not overlap, another step of the one at work.       *)
LEMMA OneGoesOn ==
  ASSUME WorkIsTyped, OneAtATime, ReceiptsAddUp, NEW h \in Handlers, NEW work,
         \A g \in Handlers \ {h} : ~ Busy(g),
         completing' = [completing EXCEPT ![h] = work],
         work # NoWork =>
              /\ work.pay \in Sessions => work.ref = "session" /\ work.at # "order"
              /\ work.pay \in Bundles => (work.pay \in consumed' <=> work.at # "order")
              /\ work.pay \in Bundles \/ work.at \in {"read", "write"} => NoneYet(work.pay)
              /\ work.at = "write" => work.until = Base + Term,
         consumed \subseteq consumed',
         UNCHANGED <<today, until, receipts>>
  PROVE  OneAtATime' /\ ReceiptsAddUp'
<1>1. \A g \in Handlers : completing'[g] = IF g = h THEN work ELSE completing[g]
  BY DEF WorkIsTyped
<1>2. \A g \in Handlers : Busy(g)' => g = h
  BY <1>1 DEF Busy
<1>3. /\ Base' = Base /\ \A p \in Payments : NoneYet(p)' = NoneYet(p) /\ Granted(p)' = Granted(p)
      /\ NoneYet(work.pay)' = NoneYet(work.pay)
  BY DEF Base, Active, NoneYet, Granted
<1>4. ReceiptsAddUp'
  BY <1>3 DEF ReceiptsAddUp
<1>5. /\ \A b \in Bundles : b \notin consumed' => NoneYet(b)'
      /\ \A s \in Sessions : \A i \in DOMAIN receipts'[s] : receipts'[s][i].ref = "session"
  BY <1>3 DEF OneAtATime, Payments
<1>6. \A g \in Handlers : Busy(g)' => SoundWork(completing[g])'
  <2> SUFFICES ASSUME NEW g \in Handlers, Busy(g)' PROVE SoundWork(completing[g])'
    OBVIOUS
  <2>1. completing'[g] = work /\ work # NoWork
    BY <1>1, <1>2 DEF Busy
  <2> QED
    BY <1>3, <2>1 DEF SoundWork
<1> QED
  BY <1>2, <1>4, <1>5, <1>6 DEF OneAtATime, SoundWork

LEMMA TurnsKept ==
  ASSUME WorkIsTyped, ~overlapped => OneAtATime /\ ReceiptsAddUp,
         [MembershipNext]_membership, ~overlapped'
  PROVE  OneAtATime' /\ ReceiptsAddUp'
<1> USE MembershipAssumption DEF MembershipAssumption
<1>1. ASSUME UNCHANGED <<today, until, consumed, receipts, completing, overlapped>>
      PROVE  OneAtATime' /\ ReceiptsAddUp'
  BY <1>1 DEF OneAtATime, SoundWork, ReceiptsAddUp, Busy, NoneYet, Granted, Base, Active
<1>2. ASSUME NEW h \in Handlers, OneAtATime, Busy(h) PROVE \A g \in Handlers \ {h} : ~ Busy(g)
  BY <1>2 DEF OneAtATime, SoundWork
<1>3. ASSUME NEW h \in Handlers, NEW s \in Sessions, BeginSession(h, s)
      PROVE  OneAtATime' /\ ReceiptsAddUp'
  <2> DEFINE work == [at |-> "check", pay |-> s, ref |-> "session"]
  <2>1. /\ work.at = "check" /\ work.pay = s /\ work.ref = "session" /\ s \notin Bundles
        /\ completing' = [completing EXCEPT ![h] = work]
    BY <1>3 DEF BeginSession
  <2>2. OneAtATime /\ ReceiptsAddUp /\ \A g \in Handlers \ {h} : ~ Busy(g)
    BY <1>3 DEF BeginSession, Others
  <2> HIDE DEF work
  <2> QED
    BY <1>3, <2>1, <2>2, OneGoesOn DEF BeginSession
<1>4. ASSUME NEW h \in Handlers, NEW b \in Bundles, NEW ref \in Refs, BeginBundle(h, b, ref)
      PROVE  OneAtATime' /\ ReceiptsAddUp'
  <2> DEFINE work == [at |-> "order", pay |-> b, ref |-> ref]
  <2>1. /\ work.at = "order" /\ work.pay = b /\ b \notin Sessions /\ b \notin consumed
        /\ completing' = [completing EXCEPT ![h] = work]
    BY <1>4 DEF BeginBundle
  <2>2. OneAtATime /\ ReceiptsAddUp /\ \A g \in Handlers \ {h} : ~ Busy(g)
    BY <1>4 DEF BeginBundle, Others
  <2>3. NoneYet(b)
    BY <2>1, <2>2 DEF OneAtATime, SoundWork
  <2> HIDE DEF work
  <2> QED
    BY <1>4, <2>1, <2>2, <2>3, OneGoesOn DEF BeginBundle
<1>5. ASSUME NEW h \in Handlers, WriteOrder(h) PROVE OneAtATime' /\ ReceiptsAddUp'
  <2>1. /\ OneAtATime /\ ReceiptsAddUp /\ Busy(h)
        /\ completing[h] \in [at : {"order"}, pay : Bundles, ref : Refs]
    BY <1>5, WorkSteps DEF WriteOrder, Busy, NoWork
  <2> DEFINE work == [completing[h] EXCEPT !.at = "check"]
  <2>2. /\ work.at = "check" /\ work.pay = completing[h].pay /\ work.pay \in Bundles
        /\ completing' = [completing EXCEPT ![h] = work]
    BY <1>5, <2>1 DEF WriteOrder
  <2> HIDE DEF work
  <2>3. NoneYet(work.pay) /\ work.pay \in consumed' /\ work.pay \notin Sessions
    BY <1>5, <2>1, <2>2 DEF OneAtATime, SoundWork, WriteOrder
  <2> QED
    BY <1>2, <1>5, <2>1, <2>2, <2>3, OneGoesOn DEF WriteOrder
<1>6. ASSUME NEW h \in Handlers, FindReceipt(h) PROVE OneAtATime' /\ ReceiptsAddUp'
  <2> DEFINE old == completing[h]
  <2>1. /\ OneAtATime /\ ReceiptsAddUp /\ Busy(h) /\ old.at = "check"
        /\ old \in [at : {"check", "read"}, pay : Payments, ref : Refs]
    BY <1>6, WorkSteps DEF FindReceipt, Busy, NoWork
  <2> DEFINE next == [old EXCEPT !.at = "read"]
             work == IF HasReceipt(old.pay, old.ref) THEN NoWork ELSE next
  <2>2. /\ next.at = "read" /\ next.pay = old.pay /\ next.ref = old.ref
        /\ completing' = [completing EXCEPT ![h] = work]
    BY <1>6, <2>1 DEF FindReceipt
  <2>3. ASSUME ~HasReceipt(old.pay, old.ref) PROVE NoneYet(old.pay)
    <3>1. CASE old.pay \in Bundles
      BY <2>1, <3>1 DEF OneAtATime, SoundWork
    <3>2. CASE old.pay \in Sessions
      <4>1. old.ref = "session" /\ \A i \in DOMAIN receipts[old.pay] : receipts[old.pay][i].ref = "session"
        BY <2>1, <3>2 DEF OneAtATime, SoundWork
      <4>2. DOMAIN receipts[old.pay] = {}
        BY <2>3, <4>1 DEF HasReceipt
      <4>3. receipts[old.pay] \in Seq([ref : {"session", "intent"}, until : Nat])
        BY <2>1 DEF WorkIsTyped, MembershipTypeOK
      <4> QED
        BY <4>2, <4>3, First DEF NoneYet
    <3> QED
      BY <2>1, <3>1, <3>2 DEF Payments
  <2>4. /\ old.pay \in Sessions => old.ref = "session" /\ old.pay \notin Bundles
        /\ old.pay \in Bundles => old.pay \in consumed
    BY <2>1 DEF OneAtATime, SoundWork
  <2> HIDE DEF next
  <2>5. work # NoWork =>
           /\ work.pay \in Sessions => work.ref = "session" /\ work.at # "order"
           /\ work.pay \in Bundles => (work.pay \in consumed' <=> work.at # "order")
           /\ work.pay \in Bundles \/ work.at \in {"read", "write"} => NoneYet(work.pay)
           /\ work.at = "write" => work.until = Base + Term
    BY <1>6, <2>2, <2>3, <2>4 DEF FindReceipt
  <2> HIDE DEF work, old
  <2> QED
    BY <1>2, <1>6, <2>1, <2>2, <2>5, OneGoesOn DEF FindReceipt
<1>7. ASSUME NEW h \in Handlers, ReadMember(h) PROVE OneAtATime' /\ ReceiptsAddUp'
  <2> DEFINE old == completing[h]
             work == [at |-> "write", pay |-> old.pay, ref |-> old.ref, until |-> Base + Term]
  <2>1. OneAtATime /\ ReceiptsAddUp /\ Busy(h) /\ old.at = "read"
    BY <1>7 DEF ReadMember, Busy, NoWork
  <2>2. /\ work.at = "write" /\ work.pay = old.pay /\ work.ref = old.ref /\ work.until = Base + Term
        /\ completing' = [completing EXCEPT ![h] = work]
    BY <1>7 DEF ReadMember
  <2>3. /\ old.pay \in Sessions => old.ref = "session"
        /\ old.pay \in Bundles => old.pay \in consumed
        /\ NoneYet(old.pay)
    BY <2>1 DEF OneAtATime, SoundWork
  <2> HIDE DEF work, old
  <2> QED
    BY <1>2, <1>7, <2>1, <2>2, <2>3, OneGoesOn DEF ReadMember
<1>8. ASSUME NEW h \in Handlers, CompleteMembership(h) PROVE OneAtATime' /\ ReceiptsAddUp'
  <2> DEFINE old == completing[h]
             row == [ref |-> old.ref, until |-> old.until]
             p == old.pay
  <2>1. /\ OneAtATime /\ ReceiptsAddUp /\ Busy(h) /\ old.at = "write"
        /\ old \in [at : {"write"}, pay : Payments, ref : Refs, until : Nat]
    BY <1>8, WorkSteps DEF CompleteMembership, Busy, NoWork
  <2>2. /\ p \in Sessions => old.ref = "session"
        /\ p \in Bundles => p \in consumed
        /\ NoneYet(p) /\ old.until = Base + Term /\ p \in Payments
    BY <2>1 DEF OneAtATime, SoundWork
  <2>3. old.until >= until + Term /\ today \in Nat /\ until \in Nat
    BY <2>1, <2>2 DEF Base, Active, WorkIsTyped, MembershipTypeOK
  <2>4. row \in [ref : {"session", "intent"}, until : Nat] /\ row.until = old.until /\ row.ref = old.ref
    BY <2>1 DEF Refs
  <2>5. /\ receipts' = [receipts EXCEPT ![p] = Append(@, row)] /\ until' = old.until
        /\ consumed' = consumed /\ completing' = [completing EXCEPT ![h] = NoWork]
    BY <1>8 DEF CompleteMembership
  <2> HIDE DEF old, row, p
  <2>6. /\ ReceiptsAddUp' /\ receipts'[p] = <<row>>
        /\ \A q \in Payments \ {p} : receipts'[q] = receipts[q]
    BY <2>1, <2>2, <2>3, <2>4, <2>5, ReceiptAdded
  <2>7. \A g \in Handlers : ~ Busy(g)'
    BY <1>2, <2>1, <2>5 DEF Busy, WorkIsTyped
  <2>8. \A b \in Bundles : b \notin consumed' => NoneYet(b)'
    BY <2>1, <2>2, <2>5, <2>6 DEF OneAtATime, NoneYet, Payments
  <2>9. \A s \in Sessions : \A i \in DOMAIN receipts'[s] : receipts'[s][i].ref = "session"
    <3> SUFFICES ASSUME NEW s \in Sessions, NEW i \in DOMAIN receipts'[s]
                 PROVE  receipts'[s][i].ref = "session"
      OBVIOUS
    <3>1. CASE s = p
      <4>1. DOMAIN receipts'[s] = {1} /\ receipts'[s][1] = row
        BY <2>6, <3>1
      <4> QED
        BY <2>2, <2>4, <3>1, <4>1
    <3>2. CASE s # p
      BY <2>1, <2>6, <3>2 DEF OneAtATime, Payments
    <3> QED
      BY <3>1, <3>2
  <2> QED
    BY <2>6, <2>7, <2>8, <2>9 DEF OneAtATime, SoundWork
<1>9. ASSUME NEW h \in Handlers, HandlerFails(h) PROVE OneAtATime' /\ ReceiptsAddUp'
  <2>1. OneAtATime /\ ReceiptsAddUp /\ Busy(h)
    BY <1>9 DEF HandlerFails
  <2> QED
    BY <1>2, <1>9, <2>1, OneGoesOn DEF HandlerFails
<1>10. CASE NextDay
  <2>1. OneAtATime /\ ReceiptsAddUp /\ \A h \in Handlers : ~ Busy(h)'
    BY <1>10 DEF NextDay, Busy
  <2> QED
    BY <1>10, <2>1 DEF NextDay, OneAtATime, ReceiptsAddUp, NoneYet, Granted
<1>11. CASE \/ \E s \in Sessions, intent \in {"purchase", "renew"} : OpenSession(s, intent)
            \/ \E b \in Bundles : OpenBundle(b)
            \/ \E p \in Payments : Pay(p)
            \/ Daily \/ UNCHANGED membership
  BY <1>1, <1>11 DEF OpenSession, OpenBundle, Pay, membership, Daily, SelectMember, Mail, Mark, JobFails
<1> QED
  BY <1>3, <1>4, <1>5, <1>6, <1>7, <1>8, <1>9, <1>10, <1>11 DEF MembershipNext, Completion, Refs

LEMMA MembershipCorrect == MembershipSpec => []MembershipInv
<1>1. MembershipInv /\ [MembershipNext]_membership => MembershipInv'
  BY WorkTypedKept, RemindersKept, TurnsKept DEF MembershipInv
<1> QED
  BY <1>1, MembershipStarts, PTL DEF MembershipSpec

(* Completed one after the other, a payment has one receipt, and the        *)
(* receipts add up to the date the member sees.                             *)
THEOREM TermsAdded == MembershipSpec => []TermsAddUp
<1>1. MembershipInv => TermsAddUp
  <2> SUFFICES ASSUME MembershipInv, ~overlapped
               PROVE  /\ \A r1, r2 \in Rows :
                            r1 # r2 => \/ ValidUntil(r1) >= ValidUntil(r2) + Term
                                       \/ ValidUntil(r2) >= ValidUntil(r1) + Term
                      /\ \A r \in Rows : ValidUntil(r) <= until
                      /\ until # 0 => \E r \in Rows : ValidUntil(r) = until
    BY DEF MembershipInv, TermsAddUp, WorkIsTyped, ReceiptsAddUp
  <2>0. ReceiptsAddUp /\ receipts \in [Payments -> Seq([ref : {"session", "intent"}, until : Nat])]
    BY DEF MembershipInv, WorkIsTyped, MembershipTypeOK
  <2>1. \A p \in Payments : NoneYet(p) \/ DOMAIN receipts[p] = {1}
    <3> SUFFICES ASSUME NEW p \in Payments, ~NoneYet(p) PROVE DOMAIN receipts[p] = {1}
      OBVIOUS
    <3> DEFINE R == [ref : {"session", "intent"}, until : Nat]
    <3>1. receipts[p] \in Seq(R) /\ receipts[p] # <<>> /\ Len(receipts[p]) <= 1
      BY <2>0 DEF NoneYet, ReceiptsAddUp
    <3> HIDE DEF R
    <3>2. /\ Len(receipts[p]) >= 1 /\ Len(receipts[p]) \in Nat
          /\ DOMAIN receipts[p] = 1 .. Len(receipts[p])
      BY <3>1, First
    <3> QED
      BY <3>1, <3>2
  <2>2. \A r \in Rows : /\ r[1] \in Payments /\ r = <<r[1], 1>> /\ ~NoneYet(r[1])
                        /\ ValidUntil(r) = Granted(r[1])
    BY <2>1 DEF Rows, NoneYet, ValidUntil, Granted
  <2>3. \A p \in Payments : ~NoneYet(p) => <<p, 1>> \in Rows /\ ValidUntil(<<p, 1>>) = Granted(p)
    BY <2>1 DEF Rows, ValidUntil, Granted
  <2> QED
    BY <2>0, <2>2, <2>3 DEF ReceiptsAddUp
<1> QED
  BY <1>1, MembershipCorrect, PTL

(* No mail of a kind goes out twice for one last day, unless a run failed    *)
(* after sending it.                                                       *)
THEOREM RemindersOnce == MembershipSpec => []RemindedOnce
<1>1. MembershipInv => RemindedOnce
  BY DEF MembershipInv, Reminders, RemindedOnce
<1> QED
  BY <1>1, MembershipCorrect, PTL

-----------------------------------------------------------------------------
(* Sharing, for any number of codes, checkouts and buyers and any limits.   *)

(* Checks of one code take turns, and what a check has found still holds    *)
(* when its transaction commits.                                            *)
LockedWhileChecked ==
    /\ \A p \in Purchases :
         p \in lock <=> purchase[p].at = "checked" /\ purchase[p].by \in Codes
    /\ \A p, q \in lock : purchase[p].by = purchase[q].by => p = q
    /\ \A p \in lock : code[purchase[p].by] # "revoked"
    /\ \A p \in lock, q \in PaidOrders :
         purchase[p].by \in OneTime => purchase[q].by # purchase[p].by

OneUse ==
    \A p, q \in PaidOrders :
        purchase[p].by = purchase[q].by /\ purchase[p].by \in OneTime => p = q

(* The member's limits, over a set of orders and those of them of the       *)
(* current period                                                           *)
Within(S, R) ==
    /\ MaxUsers > 0 => Cardinality(Users(S)) <= MaxUsers
    /\ MaxUses > 0 => Cardinality(R) <= MaxUses

(* While there is one open checkout at a time it fits in beside the paid    *)
(* orders, from its creation until it is paid.                              *)
RoomForOpen ==
    ~crossed =>
        /\ \A p, q \in Open : p = q
        /\ Within(PaidOrders, PaidOrders \cap recent)
        /\ \A p \in Open : Within(PaidOrders \cup {p}, (PaidOrders \cap recent) \cup {p})

Inv == SharingTypeOK /\ LockedWhileChecked /\ OneUse /\ RoomForOpen

-----------------------------------------------------------------------------
(* Checkouts are finitely many, and so are their buyers.                    *)
LEMMA UsersFinite ==
  ASSUME NEW S \in SUBSET Purchases
  PROVE  IsFiniteSet(S) /\ IsFiniteSet(Users(S))
<1>1. IsFiniteSet(S)
  BY FS_Subset, SharingAssumption DEF SharingAssumption
<1> DEFINE f == [p \in S |-> BuyerOf[p]]
<1>2. f \in Surjection(S, Users(S))
  BY DEF Surjection, Users
<1> QED
  BY <1>1, <1>2, FS_Surjection

(* Fewer orders are within the limits too.                                  *)
LEMMA WithinSubset ==
  ASSUME NEW T \in SUBSET Purchases, NEW S \in SUBSET T,
         NEW R \in SUBSET Purchases, NEW Q \in SUBSET R, Within(T, R)
  PROVE  Within(S, Q)
<1>1. Cardinality(Users(S)) <= Cardinality(Users(T)) /\ Cardinality(Q) <= Cardinality(R)
  <2>1. Users(S) \in SUBSET Users(T)
    BY DEF Users
  <2> QED
    BY <2>1, UsersFinite, FS_Subset
<1>2. /\ Cardinality(Users(S)) \in Nat /\ Cardinality(Users(T)) \in Nat
      /\ Cardinality(Q) \in Nat /\ Cardinality(R) \in Nat
  BY UsersFinite, FS_CardinalityType
<1> QED
  BY <1>1, <1>2, SharingAssumption DEF SharingAssumption, Within

(* A checkout that passes enforceOwnerCaps fits in.                         *)
LEMMA OneFits ==
  ASSUME SharingTypeOK, NEW p \in Purchases, enforceOwnerCaps(BuyerOf[p]),
         Within(PaidOrders, PaidOrders \cap recent)
  PROVE  Within(PaidOrders \cup {p}, (PaidOrders \cap recent) \cup {p})
<1> DEFINE U == Users(PaidOrders)
           R == PaidOrders \cap recent
<1>1. PaidOrders \in SUBSET Purchases /\ R \in SUBSET Purchases
  BY DEF PaidOrders
<1>2. IsFiniteSet(U) /\ IsFiniteSet(R) /\ Cardinality(U) \in Nat /\ Cardinality(R) \in Nat
  BY <1>1, UsersFinite, FS_CardinalityType
<1>3. Users(PaidOrders \cup {p}) = U \cup {BuyerOf[p]}
  BY DEF Users
<1>4. MaxUsers > 0 => Cardinality(U \cup {BuyerOf[p]}) <= MaxUsers
  <2>1. CASE BuyerOf[p] \in U
    <3>1. U \cup {BuyerOf[p]} = U
      BY <2>1
    <3> QED
      BY <3>1 DEF Within
  <2>2. CASE BuyerOf[p] \notin U
    <3>1. Cardinality(U \cup {BuyerOf[p]}) = Cardinality(U) + 1
      BY <1>2, <2>2, FS_AddElement
    <3>2. MaxUsers > 0 => Cardinality(U) < MaxUsers
      BY <2>2 DEF enforceOwnerCaps
    <3> QED
      BY <1>2, <3>1, <3>2, SharingAssumption DEF SharingAssumption
  <2> QED
    BY <2>1, <2>2
<1>5. MaxUses > 0 => Cardinality(R \cup {p}) <= MaxUses
  <2>1. Cardinality(R \cup {p}) = IF p \in R THEN Cardinality(R) ELSE Cardinality(R) + 1
    BY <1>2, FS_AddElement
  <2>2. MaxUses > 0 => Cardinality(R) < MaxUses
    BY DEF enforceOwnerCaps
  <2> QED
    BY <1>2, <2>1, <2>2, SharingAssumption DEF SharingAssumption
<1> QED
  BY <1>3, <1>4, <1>5 DEF Within

(* What opens no checkout and pays none needs no more room.                 *)
LEMMA RoomStays ==
  ASSUME Inv, crossed' = crossed,
         PaidOrders' \subseteq PaidOrders, recent' \subseteq recent, Open' \subseteq Open
  PROVE  RoomForOpen'
<1> SUFFICES ASSUME ~crossed PROVE
        /\ \A p, q \in Open' : p = q
        /\ Within(PaidOrders', PaidOrders' \cap recent')
        /\ \A p \in Open' : Within(PaidOrders' \cup {p}, (PaidOrders' \cap recent') \cup {p})
  BY DEF RoomForOpen, Within, Users
<1>1. PaidOrders \subseteq Purchases /\ Open \subseteq Purchases
  BY DEF PaidOrders, Open
<1>2. /\ \A p, q \in Open : p = q
      /\ Within(PaidOrders, PaidOrders \cap recent)
      /\ \A p \in Open : Within(PaidOrders \cup {p}, (PaidOrders \cap recent) \cup {p})
  BY DEF Inv, RoomForOpen
<1>3. Within(PaidOrders', PaidOrders' \cap recent')
  <2>1. /\ PaidOrders \in SUBSET Purchases /\ PaidOrders' \in SUBSET PaidOrders
        /\ PaidOrders \cap recent \in SUBSET Purchases
        /\ PaidOrders' \cap recent' \in SUBSET (PaidOrders \cap recent)
    BY <1>1
  <2> QED
    BY <1>2, <2>1, WithinSubset
<1>4. ASSUME NEW p \in Open'
      PROVE  Within(PaidOrders' \cup {p}, (PaidOrders' \cap recent') \cup {p})
  <2>1. /\ PaidOrders \cup {p} \in SUBSET Purchases /\ PaidOrders' \cup {p} \in SUBSET (PaidOrders \cup {p})
        /\ (PaidOrders \cap recent) \cup {p} \in SUBSET Purchases
        /\ (PaidOrders' \cap recent') \cup {p} \in SUBSET ((PaidOrders \cap recent) \cup {p})
    BY <1>1, <1>4
  <2>2. Within(PaidOrders \cup {p}, (PaidOrders \cap recent) \cup {p})
    BY <1>2, <1>4
  <2> QED
    BY <2>1, <2>2, WithinSubset
<1> QED
  BY <1>2, <1>3, <1>4

-----------------------------------------------------------------------------
(* Every variable keeps its type.                                           *)
LEMMA StepType == SharingTypeOK /\ [SharingNext]_sharing => SharingTypeOK'
<1> SUFFICES ASSUME SharingTypeOK, [SharingNext]_sharing PROVE SharingTypeOK'
  OBVIOUS
<1>1. ASSUME NEW p \in Purchases, NEW c \in Codes \cup {Number}, resolveSharedMembership(p, c)
      PROVE  SharingTypeOK'
  BY <1>1 DEF resolveSharedMembership, SharingTypeOK, PurchasePlaces
<1>2. ASSUME NEW p \in Purchases,
             \/ Charge(p) \/ Abandon(p) \/ CheckNumber(p) \/ CheckCode(p)
             \/ CommitOrder(p) \/ RollBack(p) \/ Refund(p)
      PROVE  SharingTypeOK'
  BY <1>2 DEF Charge, Abandon, CheckNumber, CheckCode, CommitOrder, RollBack, Refund, SharingTypeOK, PurchasePlaces
<1>3. ASSUME NEW c \in Codes,
             \/ createMemberShareCode(c) \/ CodeExpires(c)
             \/ \E active \in BOOLEAN : setMemberShareCodeActive(c, active)
      PROVE  SharingTypeOK'
  BY <1>3 DEF createMemberShareCode, CodeExpires, setMemberShareCodeActive, SharingTypeOK
<1>4. CASE updateSharingSettings \/ MembershipEndsOrRenews \/ NewPeriod
  BY <1>4 DEF updateSharingSettings, MembershipEndsOrRenews, NewPeriod, SharingTypeOK
<1>5. CASE UNCHANGED sharing
  BY <1>5 DEF sharing, SharingTypeOK
<1> QED
  BY <1>1, <1>2, <1>3, <1>4, <1>5 DEF SharingNext

(* Every step but these leaves the checkouts as they are, or moves one that *)
(* is neither an order nor about to become one.                             *)
LEMMA Moves ==
  ASSUME Inv, SharingTypeOK', NEW p \in Purchases, NEW place \in PurchasePlaces \ {"order", "checked"},
         purchase[p].at # "order",
         purchase' = [purchase EXCEPT ![p].at = place],
         lock' = lock \ {p}, code' = code
  PROVE  PaidOrders' = PaidOrders /\ LockedWhileChecked' /\ OneUse'
<1>0. purchase \in [Purchases -> [at : PurchasePlaces, by : Codes \cup {Number},
                                  pay : {"UNPAID", "PAID", "PARTIALLY_REFUNDED", "REFUNDED"}]]
      /\ lock \subseteq Purchases
  BY DEF Inv, SharingTypeOK
<1>1. \A q \in Purchases : /\ purchase'[q].by = purchase[q].by /\ purchase'[q].pay = purchase[q].pay
                           /\ purchase'[q].at = IF q = p THEN place ELSE purchase[q].at
  BY <1>0
<1>2. PaidOrders' = PaidOrders
  BY <1>1 DEF PaidOrders
<1>4. OneUse'
  BY <1>1, <1>2 DEF Inv, OneUse, PaidOrders
<1>5. LockedWhileChecked'
  <2>1. \A q \in Purchases :
           q \in lock' <=> purchase'[q].at = "checked" /\ purchase'[q].by \in Codes
    BY <1>1 DEF Inv, LockedWhileChecked
  <2>2. \A q, r \in lock' : purchase'[q].by = purchase'[r].by => q = r
    BY <1>0, <1>1 DEF Inv, LockedWhileChecked
  <2>3. \A q \in lock' : code'[purchase'[q].by] # "revoked"
    BY <1>0, <1>1 DEF Inv, LockedWhileChecked
  <2>4. \A q \in lock', r \in PaidOrders' :
           purchase'[q].by \in OneTime => purchase'[r].by # purchase'[q].by
    BY <1>0, <1>1, <1>2 DEF Inv, LockedWhileChecked, PaidOrders
  <2> QED
    BY <2>1, <2>2, <2>3, <2>4 DEF LockedWhileChecked
<1> QED
  BY <1>2, <1>4, <1>5

(* Checks and commits, of which one per code is under way                   *)
LEMMA ChecksTakeTurns ==
  ASSUME Inv, SharingTypeOK', NEW p \in Purchases, CheckCode(p)
  PROVE  LockedWhileChecked' /\ OneUse' /\ PaidOrders' = PaidOrders
<1> DEFINE c == purchase[p].by
<1>0. purchase \in [Purchases -> [at : PurchasePlaces, by : Codes \cup {Number},
                                  pay : {"UNPAID", "PAID", "PARTIALLY_REFUNDED", "REFUNDED"}]]
      /\ lock \subseteq Purchases
  BY DEF Inv, SharingTypeOK
<1>1. CASE assertShareCodeAvailableForPayment(c)
  <2>1. /\ purchase' = [purchase EXCEPT ![p].at = "checked"] /\ lock' = lock \cup {p}
        /\ purchase[p].at # "order" /\ c \in Codes /\ code' = code
        /\ \A q \in lock : purchase[q].by # c
        /\ code[c] = "active" /\ (c \in OneTime => PaidUnder(c) = {})
    BY <1>1 DEF CheckCode, Locked, assertShareCodeAvailableForPayment
  <2>2. \A q \in Purchases : /\ purchase'[q].by = purchase[q].by /\ purchase'[q].pay = purchase[q].pay
                             /\ purchase'[q].at = IF q = p THEN "checked" ELSE purchase[q].at
    BY <1>0, <2>1
  <2>3. PaidOrders' = PaidOrders
    BY <2>1, <2>2 DEF PaidOrders
  <2>4. OneUse'
    BY <2>2, <2>3 DEF Inv, OneUse, PaidOrders
  <2>5. \A q \in Purchases :
           q \in lock' <=> purchase'[q].at = "checked" /\ purchase'[q].by \in Codes
    BY <2>1, <2>2 DEF Inv, LockedWhileChecked
  <2>6. \A q, r \in lock' : purchase'[q].by = purchase'[r].by => q = r
    BY <1>0, <2>1, <2>2 DEF Inv, LockedWhileChecked
  <2>7. \A q \in lock' : code'[purchase'[q].by] # "revoked"
    BY <1>0, <2>1, <2>2 DEF Inv, LockedWhileChecked
  <2>8. \A q \in lock', r \in PaidOrders' :
           purchase'[q].by \in OneTime => purchase'[r].by # purchase'[q].by
    BY <1>0, <2>1, <2>2, <2>3 DEF Inv, LockedWhileChecked, PaidOrders, PaidUnder
  <2> QED
    BY <2>3, <2>4, <2>5, <2>6, <2>7, <2>8 DEF LockedWhileChecked
<1>2. CASE ~assertShareCodeAvailableForPayment(c)
  <2>1. /\ purchase' = [purchase EXCEPT ![p].at = "refused"] /\ lock' = lock /\ code' = code
        /\ purchase[p].at \in {"charged", "refused"}
    BY <1>2 DEF CheckCode
  <2>2. p \notin lock
    BY <2>1 DEF Inv, LockedWhileChecked
  <2>3. lock' = lock \ {p}
    BY <2>1, <2>2
  <2> QED
    BY <2>1, <2>3, Moves DEF PurchasePlaces
<1> QED
  BY <1>1, <1>2

(* The number is no code: paying under it locks nothing.                    *)
LEMMA NumberKeepsCodes ==
  ASSUME Inv, SharingTypeOK', NEW p \in Purchases, CheckNumber(p)
  PROVE  LockedWhileChecked' /\ OneUse' /\ PaidOrders' = PaidOrders
<1>0. purchase \in [Purchases -> [at : PurchasePlaces, by : Codes \cup {Number},
                                  pay : {"UNPAID", "PAID", "PARTIALLY_REFUNDED", "REFUNDED"}]]
      /\ lock \subseteq Purchases
  BY DEF Inv, SharingTypeOK
<1>1. /\ purchase' = [purchase EXCEPT ![p].at = "checked"] /\ lock' = lock /\ code' = code
      /\ purchase[p].at \in {"charged", "refused"} /\ purchase[p].by \notin Codes
  BY SharingAssumption DEF CheckNumber, SharingAssumption
<1>2. \A q \in Purchases : /\ purchase'[q].by = purchase[q].by /\ purchase'[q].pay = purchase[q].pay
                           /\ purchase'[q].at = IF q = p THEN "checked" ELSE purchase[q].at
  BY <1>0, <1>1
<1>3. PaidOrders' = PaidOrders
  BY <1>1, <1>2 DEF PaidOrders
<1>4. OneUse'
  BY <1>2, <1>3 DEF Inv, OneUse, PaidOrders
<1>5. \A q \in Purchases : q \in lock' <=> purchase'[q].at = "checked" /\ purchase'[q].by \in Codes
  BY <1>1, <1>2 DEF Inv, LockedWhileChecked
<1>6. /\ \A q, r \in lock' : purchase'[q].by = purchase'[r].by => q = r
      /\ \A q \in lock' : code'[purchase'[q].by] # "revoked"
  BY <1>0, <1>1, <1>2 DEF Inv, LockedWhileChecked
<1>7. \A q \in lock', r \in PaidOrders' :
         purchase'[q].by \in OneTime => purchase'[r].by # purchase'[q].by
  BY <1>0, <1>1, <1>2, <1>3 DEF Inv, LockedWhileChecked, PaidOrders
<1> QED
  BY <1>3, <1>4, <1>5, <1>6, <1>7 DEF LockedWhileChecked

(* The one paid order of a one-time code is the one that had it locked.     *)
LEMMA CommitPays ==
  ASSUME Inv, SharingTypeOK', NEW p \in Purchases, CommitOrder(p)
  PROVE  Inv'
<1>0. purchase \in [Purchases -> [at : PurchasePlaces, by : Codes \cup {Number},
                                  pay : {"UNPAID", "PAID", "PARTIALLY_REFUNDED", "REFUNDED"}]]
      /\ lock \subseteq Purchases /\ recent \subseteq Purchases
  BY DEF Inv, SharingTypeOK
<1>1. /\ purchase[p].at = "checked" /\ lock' = lock \ {p} /\ recent' = recent \cup {p}
      /\ code' = code /\ crossed' = crossed
  BY DEF CommitOrder
<1>2. \A q \in Purchases : /\ purchase'[q].by = purchase[q].by
                           /\ purchase'[q].at = IF q = p THEN "order" ELSE purchase[q].at
                           /\ purchase'[q].pay = IF q = p THEN "PAID" ELSE purchase[q].pay
  BY <1>0 DEF CommitOrder
<1>3. PaidOrders' = PaidOrders \cup {p} /\ Open' = Open \ {p} /\ p \in Open
  <2>1. PaidOrders' = PaidOrders \cup {p}
    BY <1>1, <1>2 DEF PaidOrders
  <2>2. Open' = Open \ {p} /\ p \in Open
    BY <1>1, <1>2 DEF Open
  <2> QED
    BY <2>1, <2>2
<1>4. purchase[p].by \in Codes => p \in lock
  BY <1>1 DEF Inv, LockedWhileChecked
<1>5. OneUse'
  <2> SUFFICES ASSUME NEW q \in PaidOrders', NEW r \in PaidOrders',
                      purchase[q].by = purchase[r].by, purchase[q].by \in OneTime
               PROVE  q = r
    BY <1>2 DEF OneUse, PaidOrders
  <2>1. CASE q # p /\ r # p
    BY <1>3, <2>1 DEF Inv, OneUse
  <2>2. CASE q = p \/ r = p
    <3>1. p \in lock
      BY <1>4, <2>2, SharingAssumption DEF SharingAssumption
    <3> QED
      BY <1>3, <2>2, <3>1 DEF Inv, LockedWhileChecked
  <2> QED
    BY <2>1, <2>2
<1>6. LockedWhileChecked'
  <2>1. \A q \in Purchases : q \in lock' <=> purchase'[q].at = "checked" /\ purchase'[q].by \in Codes
    BY <1>1, <1>2 DEF Inv, LockedWhileChecked
  <2>2. /\ \A q, r \in lock' : purchase'[q].by = purchase'[r].by => q = r
        /\ \A q \in lock' : code'[purchase'[q].by] # "revoked"
    BY <1>0, <1>1, <1>2 DEF Inv, LockedWhileChecked
  <2>3. ASSUME NEW q \in lock', NEW r \in PaidOrders', purchase'[q].by \in OneTime
        PROVE  purchase'[r].by # purchase'[q].by
    <3>1. q \in lock /\ q # p /\ q \in Purchases /\ r \in Purchases
      BY <1>0, <1>1 DEF PaidOrders
    <3>2. CASE r # p
      BY <1>2, <1>3, <2>3, <3>1, <3>2 DEF Inv, LockedWhileChecked
    <3>3. CASE r = p
      <4>1. purchase[p].by = purchase[q].by => p \in lock
        BY <1>2, <1>4, <2>3, <3>1, SharingAssumption DEF SharingAssumption
      <4> QED
        BY <1>2, <3>1, <3>3, <4>1 DEF Inv, LockedWhileChecked
    <3> QED
      BY <3>2, <3>3
  <2> QED
    BY <2>1, <2>2, <2>3 DEF LockedWhileChecked
<1>7. RoomForOpen'
  <2> SUFFICES ASSUME ~crossed PROVE
        /\ \A q, r \in Open' : q = r
        /\ Within(PaidOrders', PaidOrders' \cap recent')
        /\ \A q \in Open' : Within(PaidOrders' \cup {q}, (PaidOrders' \cap recent') \cup {q})
    BY <1>1 DEF RoomForOpen, Within, Users
  <2>1. Open' = {}
    BY <1>3 DEF Inv, RoomForOpen
  <2>2. PaidOrders' \cap recent' = (PaidOrders \cap recent) \cup {p}
    BY <1>1, <1>3
  <2>3. Within(PaidOrders \cup {p}, (PaidOrders \cap recent) \cup {p})
    BY <1>3 DEF Inv, RoomForOpen
  <2> QED
    BY <1>3, <2>1, <2>2, <2>3
<1> QED
  BY <1>5, <1>6, <1>7 DEF Inv

(* A refund only takes an order out of the count.                           *)
LEMMA RefundFrees ==
  ASSUME Inv, SharingTypeOK', NEW p \in Purchases, Refund(p)
  PROVE  Inv'
<1>0. purchase \in [Purchases -> [at : PurchasePlaces, by : Codes \cup {Number},
                                  pay : {"UNPAID", "PAID", "PARTIALLY_REFUNDED", "REFUNDED"}]]
      /\ lock \subseteq Purchases
  BY DEF Inv, SharingTypeOK
<1>1. PICK pay \in {"PARTIALLY_REFUNDED", "REFUNDED"} :
        purchase' = [purchase EXCEPT ![p].pay = pay]
  BY DEF Refund
<1>2. lock' = lock /\ recent' = recent /\ code' = code /\ crossed' = crossed
  BY DEF Refund
<1>3. \A q \in Purchases : /\ purchase'[q].by = purchase[q].by /\ purchase'[q].at = purchase[q].at
                           /\ purchase'[q].pay = IF q = p THEN pay ELSE purchase[q].pay
  BY <1>0, <1>1
<1>4. PaidOrders' \subseteq PaidOrders /\ Open' = Open
  BY <1>3 DEF PaidOrders, Open
<1>5. OneUse'
  BY <1>3, <1>4 DEF Inv, OneUse, PaidOrders
<1>6. /\ \A q \in Purchases : q \in lock' <=> purchase'[q].at = "checked" /\ purchase'[q].by \in Codes
      /\ \A q, r \in lock' : purchase'[q].by = purchase'[r].by => q = r
      /\ \A q \in lock' : code'[purchase'[q].by] # "revoked"
  BY <1>0, <1>2, <1>3 DEF Inv, LockedWhileChecked
<1>7. \A q \in lock', r \in PaidOrders' :
         purchase'[q].by \in OneTime => purchase'[r].by # purchase'[q].by
  BY <1>0, <1>2, <1>3, <1>4 DEF Inv, LockedWhileChecked, PaidOrders
<1>8. RoomForOpen'
  BY <1>2, <1>4, RoomStays
<1> QED
  BY <1>5, <1>6, <1>7, <1>8 DEF Inv, LockedWhileChecked

(* A new checkout takes its code as its own before it has anything to lose. *)
LEMMA CheckoutFits ==
  ASSUME Inv, SharingTypeOK', NEW p \in Purchases, NEW c \in Codes \cup {Number}, resolveSharedMembership(p, c)
  PROVE  Inv'
<1>0. purchase \in [Purchases -> [at : PurchasePlaces, by : Codes \cup {Number},
                                  pay : {"UNPAID", "PAID", "PARTIALLY_REFUNDED", "REFUNDED"}]]
      /\ lock \subseteq Purchases
  BY DEF Inv, SharingTypeOK
<1>1. /\ purchase[p].at = "none" /\ lock' = lock /\ recent' = recent /\ code' = code /\ crossed' = (crossed \/ Open # {})
  BY DEF resolveSharedMembership
<1>2. \A q \in Purchases : /\ purchase'[q].by = IF q = p THEN c ELSE purchase[q].by
                           /\ purchase'[q].at = IF q = p THEN "open" ELSE purchase[q].at
                           /\ purchase'[q].pay = purchase[q].pay
  BY <1>0 DEF resolveSharedMembership
<1>3. PaidOrders' = PaidOrders /\ Open' = Open \cup {p} /\ p \notin lock /\ p \notin PaidOrders
  <2>1. PaidOrders' = PaidOrders /\ p \notin PaidOrders
    BY <1>1, <1>2 DEF PaidOrders
  <2>2. Open' = Open \cup {p}
    BY <1>1, <1>2 DEF Open
  <2>3. p \notin lock
    BY <1>1 DEF Inv, LockedWhileChecked
  <2> QED
    BY <2>1, <2>2, <2>3
<1>4. OneUse'
  BY <1>2, <1>3 DEF Inv, OneUse, PaidOrders
<1>5. /\ \A q \in Purchases : q \in lock' <=> purchase'[q].at = "checked" /\ purchase'[q].by \in Codes
      /\ \A q, r \in lock' : purchase'[q].by = purchase'[r].by => q = r
      /\ \A q \in lock' : code'[purchase'[q].by] # "revoked"
  BY <1>0, <1>1, <1>2, <1>3 DEF Inv, LockedWhileChecked
<1>6. \A q \in lock', r \in PaidOrders' :
         purchase'[q].by \in OneTime => purchase'[r].by # purchase'[q].by
  BY <1>0, <1>1, <1>2, <1>3 DEF Inv, LockedWhileChecked, PaidOrders
<1>7. RoomForOpen'
  <2> SUFFICES ASSUME ~crossed, Open = {} PROVE
        /\ \A q, r \in Open' : q = r
        /\ Within(PaidOrders', PaidOrders' \cap recent')
        /\ \A q \in Open' : Within(PaidOrders' \cup {q}, (PaidOrders' \cap recent') \cup {q})
    BY <1>1 DEF RoomForOpen, Within, Users
  <2>1. Within(PaidOrders, PaidOrders \cap recent)
    BY DEF Inv, RoomForOpen
  <2>2. enforceOwnerCaps(BuyerOf[p]) /\ SharingTypeOK
    BY DEF resolveSharedMembership, Inv
  <2>3. Within(PaidOrders \cup {p}, (PaidOrders \cap recent) \cup {p})
    BY <2>1, <2>2, OneFits
  <2>4. recent' = recent /\ Open' = {p}
    BY <1>1, <1>3
  <2> QED
    BY <1>3, <2>1, <2>3, <2>4
<1> QED
  BY <1>4, <1>5, <1>6, <1>7 DEF Inv, LockedWhileChecked

(* The member's changes wait for the locks of codes, or do not matter.      *)
LEMMA ChangesWait ==
  ASSUME Inv, SharingTypeOK', purchase' = purchase, lock' = lock, crossed' = crossed, recent' \subseteq recent,
         \A c \in Codes : code'[c] = "revoked" => code[c] = "revoked" \/ ~Locked(c)
  PROVE  Inv'
<1>1. PaidOrders' = PaidOrders /\ Open' = Open
  BY DEF PaidOrders, Open
<1>2. RoomForOpen'
  BY <1>1, RoomStays
<1>3. OneUse'
  BY <1>1 DEF Inv, OneUse
<1>4. \A q \in lock' : code'[purchase'[q].by] # "revoked"
  BY DEF Inv, LockedWhileChecked, Locked, SharingTypeOK
<1>5. LockedWhileChecked'
  BY <1>1, <1>4 DEF Inv, LockedWhileChecked
<1> QED
  BY <1>2, <1>3, <1>5 DEF Inv

(* Every step keeps all of it.                                              *)
LEMMA StepKeepsInv == Inv /\ [SharingNext]_sharing => Inv'
<1> SUFFICES ASSUME Inv, [SharingNext]_sharing, SharingTypeOK' PROVE Inv'
  BY StepType DEF Inv
<1>1. ASSUME NEW p \in Purchases, Charge(p) \/ Abandon(p) \/ RollBack(p)
      PROVE  Inv'
  <2>1. PICK place \in PurchasePlaces \ {"order", "checked"} :
          /\ purchase' = [purchase EXCEPT ![p].at = place]
          /\ purchase[p].at = "open" \/ (purchase[p].at = "checked" /\ place = "refused")
          /\ place \in {"charged", "none", "refused"}
    BY <1>1 DEF Charge, Abandon, RollBack, PurchasePlaces
  <2>2. purchase[p].at = "open" => p \notin lock
    BY DEF Inv, LockedWhileChecked
  <2>3. lock' = lock \ {p} /\ code' = code /\ crossed' = crossed /\ recent' = recent
    BY <1>1, <2>2 DEF Charge, Abandon, RollBack
  <2>4. PaidOrders' = PaidOrders /\ LockedWhileChecked' /\ OneUse'
    BY <2>1, <2>3, Moves
  <2>5. Open' \subseteq Open
    BY <2>1 DEF Open, Inv, SharingTypeOK
  <2> QED
    BY <2>3, <2>4, <2>5, RoomStays DEF Inv
<1>2. ASSUME NEW p \in Purchases, CheckCode(p) \/ CheckNumber(p)
      PROVE  Inv'
  <2>1. PaidOrders' = PaidOrders /\ LockedWhileChecked' /\ OneUse'
    BY <1>2, ChecksTakeTurns, NumberKeepsCodes
  <2>2. Open' \subseteq Open /\ crossed' = crossed /\ recent' = recent
    BY <1>2 DEF CheckCode, CheckNumber, Open, Inv, SharingTypeOK
  <2> QED
    BY <2>1, <2>2, RoomStays DEF Inv
<1>3. ASSUME NEW c \in Codes,
             \/ createMemberShareCode(c) \/ CodeExpires(c)
             \/ \E active \in BOOLEAN : setMemberShareCodeActive(c, active)
      PROVE  Inv'
  <2>1. /\ purchase' = purchase /\ lock' = lock /\ crossed' = crossed /\ recent' \subseteq recent
        /\ \A d \in Codes : code'[d] = "revoked" => code[d] = "revoked" \/ ~Locked(d)
    BY <1>3 DEF createMemberShareCode, CodeExpires, setMemberShareCodeActive, Inv, SharingTypeOK
  <2> QED
    BY <2>1, ChangesWait
<1>4. CASE updateSharingSettings \/ MembershipEndsOrRenews \/ NewPeriod \/ UNCHANGED sharing
  <2>1. /\ purchase' = purchase /\ lock' = lock /\ crossed' = crossed /\ recent' \subseteq recent
        /\ code' = code
    BY <1>4 DEF updateSharingSettings, MembershipEndsOrRenews, NewPeriod, sharing
  <2> QED
    BY <2>1, ChangesWait
<1> QED
  BY <1>1, <1>2, <1>3, <1>4, CommitPays, RefundFrees, CheckoutFits DEF SharingNext

(* To begin with there is no order.                                         *)
LEMMA InitInv == SharingInit => Inv
<1> SUFFICES ASSUME SharingInit PROVE Inv
  OBVIOUS
<1>1. PaidOrders = {} /\ Open = {} /\ lock = {} /\ recent = {}
  BY DEF SharingInit, PaidOrders, Open
<1>2. Users({}) = {}
  BY DEF Users
<1>3. Within(PaidOrders, PaidOrders \cap recent)
  BY <1>1, <1>2, FS_EmptySet, SharingAssumption DEF Within, SharingAssumption
<1>4. SharingTypeOK
  BY DEF SharingInit, SharingTypeOK, PurchasePlaces
<1>5. LockedWhileChecked
  BY <1>1 DEF SharingInit, LockedWhileChecked
<1> QED
  BY <1>1, <1>3, <1>4, <1>5 DEF Inv, OneUse, RoomForOpen

(* What the invariant says of orders is what the member is promised.        *)
LEMMA InvLimits == Inv => SharedWithinLimits
<1> SUFFICES ASSUME Inv PROVE SharedWithinLimits
  OBVIOUS
<1>1. ASSUME NEW c \in OneTime
      PROVE  Cardinality(PaidUnder(c)) <= 1
  <2>1. \A p, q \in PaidUnder(c) : p = q
    BY DEF PaidUnder, Inv, OneUse
  <2>2. CASE PaidUnder(c) = {}
    BY <2>2, FS_EmptySet
  <2>3. CASE PaidUnder(c) # {}
    <3>1. PICK p : PaidUnder(c) = {p}
      BY <2>1, <2>3
    <3>2. Cardinality({p}) = 1
      BY FS_Singleton
    <3> QED
      BY <3>1, <3>2
  <2> QED
    BY <2>2, <2>3
<1> QED
  BY <1>1 DEF Inv, RoomForOpen, Within, SharedWithinLimits

(* A one-time code pays one order at a time, however many checkouts have    *)
(* entered it, because their transactions wait for the row of the code; and *)
(* limits that are checked at checkout only hold while one is open at once. *)
THEOREM LimitsHold == SharingSpec => []SharedWithinLimits
<1>1. Inv /\ [SharingNext]_sharing => Inv'
  BY StepKeepsInv
<1> QED
  BY <1>1, InitInv, InvLimits, PTL DEF SharingSpec

(* Only a commit makes an order.                                            *)
LEMMA StepSparesRevoked ==
  Inv /\ [SharingNext]_sharing =>
    [\A p \in Purchases :
       purchase[p].at # "order" /\ purchase'[p].at = "order" /\ purchase[p].by \in Codes
          => code[purchase[p].by] # "revoked"]_sharing
<1> SUFFICES ASSUME Inv, SharingNext, NEW p \in Purchases,
                    purchase[p].at # "order", purchase'[p].at = "order", purchase[p].by \in Codes
             PROVE  code[purchase[p].by] # "revoked"
  OBVIOUS
<1>0. purchase \in [Purchases -> [at : PurchasePlaces, by : Codes \cup {Number},
                                  pay : {"UNPAID", "PAID", "PARTIALLY_REFUNDED", "REFUNDED"}]]
  BY DEF Inv, SharingTypeOK
<1>1. ASSUME NEW q \in Purchases, CommitOrder(q)
      PROVE  purchase[p].at = "checked"
  BY <1>0, <1>1 DEF CommitOrder
<1>2. ASSUME NEW q \in Purchases, NEW c \in Codes \cup {Number}, resolveSharedMembership(q, c)
      PROVE  FALSE
  BY <1>0, <1>2 DEF resolveSharedMembership
<1>3. ASSUME NEW q \in Purchases,
             Charge(q) \/ Abandon(q) \/ CheckNumber(q) \/ CheckCode(q) \/ RollBack(q) \/ Refund(q)
      PROVE  FALSE
  BY <1>0, <1>3 DEF Charge, Abandon, CheckNumber, CheckCode, RollBack, Refund
<1>4. purchase' # purchase
  OBVIOUS
<1>5. purchase[p].at = "checked"
  BY <1>1, <1>2, <1>3, <1>4 DEF SharingNext, createMemberShareCode, CodeExpires, setMemberShareCodeActive,
     updateSharingSettings, MembershipEndsOrRenews, NewPeriod
<1> QED
  BY <1>5 DEF Inv, LockedWhileChecked

(* The order of a checkout under a code is written while the transaction    *)
(* that found the code good holds its row: a revocation comes before the    *)
(* check or after the order.                                                *)
THEOREM RevokedNever == SharingSpec => RevokedBuysNothing
<1>1. Inv /\ [SharingNext]_sharing => Inv'
  BY StepKeepsInv
<1>2. Inv /\ [SharingNext]_sharing =>
        [\A p \in Purchases :
           purchase[p].at # "order" /\ purchase'[p].at = "order" /\ purchase[p].by \in Codes
              => code[purchase[p].by] # "revoked"]_sharing
  BY StepSparesRevoked
<1> QED
  BY <1>1, <1>2, InitInv, PTL DEF SharingSpec, RevokedBuysNothing
=============================================================================
