------------------------------- MODULE Alerts -------------------------------
(***************************************************************************)
(* Shoppers who wait for a product or one of its sizes: alerts they ask for, *)
(* wishlist rows that ask for them, and the two notifiers, the hook that     *)
(* runs when an edit or an adjustment makes the product sellable and the     *)
(* scheduled job (services/stock-alert.service.js, services/wishlist         *)
(* .service.js, services/engagement-jobs.service.js).  A mail goes out        *)
(* before its row says so.                                                   *)
(***************************************************************************)
EXTENDS Warehouse

CONSTANT Shoppers

VARIABLES
    subs,     \* StockAlertSubscription rows
    wishes,   \* WishlistItem rows
    arms,     \* history: times a row of the shopper was made or made pending again
    mails,    \* history: back-in-stock mails to each shopper
    misled    \* history: a mail about a size that could not be sold when it was read

alerts == <<subs, wishes, arms, mails, misled>>

AlertsInit ==
    /\ subs = {} /\ wishes = {}
    /\ arms = [u \in Shoppers |-> 0] /\ mails = [u \in Shoppers |-> 0]
    /\ misled = FALSE

-----------------------------------------------------------------------------
Asked(p, id) == IF id = 0 THEN ProductAvailable(p) ELSE Available(RowOf(p, id))
Ids(p) == {0} \cup {p.variants[i].id : i \in Slots(p)}
SkuAt(p, id) == IF id = 0 THEN Plain ELSE RowOf(p, id).sku

Found(rows, u, id) == {s \in rows : s.user = u /\ Live(product, s.variant) = id}

(* ensurePendingStockAlert, what may become of the rows: one of those found   *)
(* (findFirst names no order) waits again if it was told, or one is made.  The *)
(* unique key does not cover rows without a variant.                         *)
Again(rows, found) ==
    IF found.told
    THEN {IF s.n = found.n THEN [s EXCEPT !.told = FALSE] ELSE s : s \in rows} ELSE rows
Added(rows, u, id) ==
    IF id # 0 /\ Found(rows, u, id) # {} THEN rows
    ELSE rows \cup {[n |-> Cardinality(rows) + 1, user |-> u, variant |-> id,
                     sku |-> SkuAt(product, id), told |-> FALSE]}
Armed(rows, u, id, known) ==
    IF known # {} THEN {Again(rows, found) : found \in known} ELSE {Added(rows, u, id)}

Waiting(u, rows) == Cardinality({s \in rows : s.user = u /\ ~ s.told})

(* A new row for a variant that is gone violates its foreign key.             *)
ArmFor(u, id, known) ==
    /\ IF known # {} \/ id \in Ids(product) THEN subs' \in Armed(subs, u, id, known) ELSE UNCHANGED subs
    /\ arms' = [arms EXCEPT ![u] = @ + Waiting(u, subs') - Waiting(u, subs)]
    /\ UNCHANGED <<catalogue, warehouse, wishes, mails, misled>>

Arm(h) ==
    LET read == req[h].read
    IN  At(h, "arm") /\ Proceed(h) /\ ArmFor(read.user, read.id, read.known)

(* subscribe is refused for what can be bought.                              *)
Subscribe(h) ==
    \E u \in Shoppers, id \in Ids(product) :
        /\ ~ Sellable(Asked(product, id))
        /\ Begin(h, "ask", <<"arm">>, [user |-> u, id |-> id, known |-> Found(subs, u, id)])
        /\ UNCHANGED <<catalogue, warehouse, alerts>>

(* toggle: a row added for what cannot be bought asks for an alert too       *)
(* (maybeAutoSubscribeWishlistRestock); moveToCart and a second toggle       *)
(* delete it.                                                                *)
Toggle(h) ==
    \E u \in Shoppers, id \in Ids(product) :
        LET row == {w \in wishes : w.user = u /\ Live(product, w.variant) = id}
        IN  /\ Begin(h, "ask",
                     IF row = {} /\ ~ Sellable(Asked(product, id)) THEN <<"arm">> ELSE <<>>,
                     [user |-> u, id |-> id, known |-> Found(subs, u, id)])
            /\ wishes' = IF row = {} THEN wishes \cup {[user |-> u, variant |-> id]}
                         ELSE wishes \ row
            /\ UNCHANGED <<catalogue, warehouse, subs, arms, mails, misled>>

-----------------------------------------------------------------------------
(* notifyProductBackInStock, started by the hook or by the job.  The hook       *)
(* enrols everyone who wishes for the product when it can be sold, whatever    *)
(* their size; the job everyone whose size cannot.                           *)
Enrolled(hook) ==
    {w \in wishes :
        IF hook THEN Sellable(ProductAvailable(product))
        ELSE product.active /\ ~ Sellable(Asked(product, Live(product, w.variant)))}

Enrolment(left) == IF left = {} THEN <<"gather">> ELSE <<"enrol", "gather">>

Notify(h, hook) ==
    LET left == {[user |-> w.user, id |-> Live(product, w.variant)] : w \in Enrolled(hook)}
    IN  Begin(h, "notify", Enrolment(left), [left |-> left])

Hook(h) ==
    /\ due > 0 /\ due' = due - 1
    /\ Notify(h, TRUE)
    /\ UNCHANGED <<product, orderRows, ledger, labelRows, lastId, past, warehouse, alerts>>

Job(h) == Notify(h, FALSE) /\ UNCHANGED <<catalogue, warehouse, alerts>>

(* One after the other; an alert that cannot be made ends the notifier.       *)
Enrol(h) ==
    \E w \in req[h].read.left :
        LET left == req[h].read.left \ {w}
        IN  /\ At(h, "enrol")
            /\ IF w.id \in Ids(product) THEN GoOn(h, Enrolment(left), [left |-> left]) ELSE Stop(h)
            /\ ArmFor(w.user, w.id, Found(subs, w.user, w.id))

(* What a row's shopper waits for, now: the product, or the size he chose.     *)
OwnSize(s) ==
    CASE s.variant = 0 -> ProductAvailable(product)
      [] s.variant # 0 /\ s.sku \in Skus(product) ->
            Available(product.variants[CHOOSE i \in Slots(product) : product.variants[i].sku = s.sku])
      [] OTHER -> 0

(* Fault: a size is back when any of them is.                                *)
AnySizeBack(s) == Sellable(ProductAvailable(product))
Back(s) == Sellable(Asked(product, Live(product, s.variant)))

(* The pending rows with what their products are now; a row whose variant    *)
(* row is gone asks about the product.                                       *)
Gather(h) ==
    LET queue == {[n |-> s.n, user |-> s.user, fair |-> Sellable(OwnSize(s))] :
                  s \in {s \in subs : ~ s.told /\ product.active /\ Back(s)}}
    IN  /\ At(h, "gather")
        /\ IF queue = {} THEN Stop(h) ELSE GoOn(h, <<"mail">>, [queue |-> queue])
        /\ UNCHANGED <<catalogue, warehouse, alerts>>

(* A mail that fails is logged and its row left pending.                     *)
Mail(h) ==
    \E s \in req[h].read.queue :
        LET rest == req[h].read.queue \ {s}
        IN  /\ At(h, "mail")
            /\ \/ /\ mails' = [mails EXCEPT ![s.user] = @ + 1]
                  /\ misled' = (misled \/ ~ s.fair)
                  /\ GoOn(h, <<"told">>, [queue |-> rest, sent |-> s.n])
               \/ /\ GoOn(h, IF rest = {} THEN <<>> ELSE <<"mail">>, [queue |-> rest])
                  /\ UNCHANGED <<mails, misled>>
            /\ UNCHANGED <<catalogue, warehouse, subs, wishes, arms>>

Mark(h) ==
    LET read == req[h].read
    IN  /\ At(h, "told")
        /\ GoOn(h, IF read.queue = {} THEN <<>> ELSE <<"mail">>, [queue |-> read.queue])
        /\ subs' = {IF s.n = read.sent THEN [s EXCEPT !.told = TRUE] ELSE s : s \in subs}
        /\ UNCHANGED <<catalogue, warehouse, wishes, arms, mails, misled>>

-----------------------------------------------------------------------------
AlertsStep(h) ==
    \/ Subscribe(h) \/ Toggle(h) \/ Arm(h)
    \/ Hook(h) \/ Job(h) \/ (At(h, "enrol") /\ Enrol(h)) \/ Gather(h)
    \/ (At(h, "mail") /\ Mail(h)) \/ Mark(h)

-----------------------------------------------------------------------------
(* A shopper is mailed once for each time an alert was made or made pending  *)
(* again, unless the hook and the job overlapped or one stopped midway; and   *)
(* nobody is mailed about a size that could not be sold, unless a save of the *)
(* form replaced the rows of sizes.                                          *)
ToldOnce ==
    /\ InTurn({"notify"}) => \A u \in Shoppers : mails[u] <= arms[u]
    /\ misled => \E s \in subs : Live(product, s.variant) # s.variant
=============================================================================
