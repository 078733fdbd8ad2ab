----------------------------- MODULE Catalogue -----------------------------
(***************************************************************************)
(* One product of the catalogue: its stock row or the rows of its variants, *)
(* the unpaid orders that hold units of it, its barcode labels, and the      *)
(* edits that rewrite it (services/product.service.js, services/barcode      *)
(* .service.js, lib/simple-to-variant-migration.js, the pending orders of    *)
(* services/order.service.js, services/inventory-reservation.js).           *)
(* A transaction is one step here: the races of its statements are those of  *)
(* Inventory.  Saving the form of a product with variants deletes the        *)
(* variant rows and creates others; the database then clears every           *)
(* reference to the old rows, which Live reads.                             *)
(***************************************************************************)
EXTENDS Desk, SequencesExt

CONSTANTS
    Orders,        \* unpaid orders of the product
    Sizes,         \* what the form may say of the variants: sequences of SKUs
    Opening,       \* units of each row at first
    MinSellable    \* minSellableUnits of the product type

(* @@unique([productId, sku]) (prisma/schema.prisma:497)                     *)
ASSUME CatalogueAssumption ==
    /\ IsFiniteSet(Orders) /\ Opening \in Nat
    /\ \A skus \in Sizes : skus \in Seq(Range(skus)) /\ IsInjective(skus)

VARIABLES
    product,    \* the Product row with its ProductVariant rows in sort order
    order,      \* the orders, each of one unit
    held,       \* store credit on hold for them
    ledger,     \* the sum of quantityDelta over InventoryLedgerEvent
    labels,     \* ProductBarcode rows
    aliases,    \* ProductBarcodeAlias rows
    codes,      \* codes drawn so far
    lastId,     \* variant ids given so far
    due,        \* back-in-stock notifications started and not yet run
    strayed,    \* history: a reservation was lost or used twice (see below)
    written,    \* history: an edit or a script wrote stock as it had read it
    dropped,    \* history: SKUs that a save or a migration left out or gave to another row
    vendor      \* history: labels that staff have sent to a vendor

orderRows == <<order, held>>
labelRows == <<labels, aliases, codes>>
past == <<strayed, written, dropped, vendor>>
untouched == <<labelRows, lastId, due, written, dropped, vendor>>
catalogue == <<product, order, held, ledger, labels, aliases, codes, lastId, due,
               strayed, written, dropped, vendor>>

Plain == "P"      \* the SKU of a product without variants
Least(m, n) == IF m < n THEN m ELSE n
Most(m, n) == IF m > n THEN m ELSE n

NoOrder == [pay |-> "none", variant |-> 0, credit |-> 0, freed |-> 0, ready |-> FALSE]

Matrix(skus, units, from) ==
    [i \in DOMAIN skus |-> [id |-> from + i, sku |-> skus[i], stock |-> units[i],
                            reserved |-> 0, version |-> 0]]

SimpleProduct == [pipeline |-> FALSE, stock |-> Opening, reserved |-> 0, version |-> 0,
                  active |-> TRUE, variants |-> <<>>]
MatrixProduct(skus) ==
    [SimpleProduct EXCEPT !.stock = Opening * Len(skus),
                          !.variants = Matrix(skus, [i \in DOMAIN skus |-> Opening], 0)]

-----------------------------------------------------------------------------
(* Units of a product.                                                      *)
Available(row) == Most(0, row.stock - row.reserved)
Sellable(n) == n >= MinSellable

Slots(p) == DOMAIN p.variants
HasVariants(p) == p.variants # <<>>
SumOver(p, f(_)) == SumFunctionOnSet([i \in Slots(p) |-> f(p.variants[i])], Slots(p))
Stocked(row) == row.stock
ProductAvailable(p) == IF HasVariants(p) THEN SumOver(p, Available) ELSE Available(p)
OnHand(p) == IF HasVariants(p) THEN SumOver(p, Stocked) ELSE p.stock

(* A reference to a variant row, after the row may have been deleted.       *)
Live(p, id) == IF \E i \in Slots(p) : p.variants[i].id = id THEN id ELSE 0
Slot(p, id) == CHOOSE i \in Slots(p) : p.variants[i].id = id
RowOf(p, id) == IF id = 0 THEN p ELSE p.variants[Slot(p, id)]

(* syncParentStockFromVariants                                              *)
Synced(p) == [p EXCEPT !.stock = SumOver(p, Stocked)]

WithRow(p, id, row) ==
    IF id = 0 THEN row ELSE [p EXCEPT !.variants[Slot(p, id)] = row]

(* A quantity taken from the variants in sort order, each up to its limit.  *)
Shares(p, limit(_), n) ==
    LET first(i) == SumFunctionOnSet([j \in 1 .. i |-> limit(p.variants[j])], 1 .. i)
    IN  [i \in Slots(p) |-> Least(limit(p.variants[i]), Most(0, n - first(i - 1)))]

Reserved(row) == row.reserved
Moved(row, stock, reserved, version) ==
    [row EXCEPT !.stock = @ + stock, !.reserved = @ + reserved, !.version = @ + version]

(* reserveOrderLineStock of one unit                                        *)
CanReserve(p, id) ==
    LET row == RowOf(p, id)
    IN  /\ id # 0 <=> HasVariants(p)
        /\ Sellable(Available(row)) /\ Available(row) >= 1
Reserve(p, id) == WithRow(p, id, Moved(RowOf(p, id), 0, 1, 1))

(* commitOrderLineStock: a line whose variant is gone takes from any.       *)
CanCommit(p, id) ==
    IF id = 0 /\ HasVariants(p) THEN SumOver(p, Reserved) >= 1
    ELSE RowOf(p, id).reserved >= 1 /\ RowOf(p, id).stock >= 1
Commit(p, id) ==
    CASE id # 0 -> Synced(WithRow(p, id, Moved(RowOf(p, id), -1, -1, 1)))
      [] id = 0 /\ ~ HasVariants(p) -> Moved(p, -1, -1, 1)
      [] OTHER -> LET take == Shares(p, Reserved, 1)
                  IN  Synced([p EXCEPT !.variants =
                        [i \in Slots(p) |-> IF take[i] = 0 THEN @[i]
                                            ELSE Moved(@[i], -take[i], -take[i], 1)]])

(* releaseOrderLineStock: no more than is reserved                          *)
Release(p, id) ==
    IF id = 0 /\ HasVariants(p)
    THEN LET take == Shares(p, Reserved, 1)
         IN  [p EXCEPT !.variants = [i \in Slots(p) |-> Moved(@[i], 0, -take[i], 0)]]
    ELSE WithRow(p, id, Moved(RowOf(p, id), 0, -Least(RowOf(p, id).reserved, 1), 0))

(* restockOrderLineStock: a line without a variant gives each variant one   *)
(* unit at most.                                                            *)
Restock(p, id, n) ==
    CASE id # 0 -> Synced(WithRow(p, id, Moved(RowOf(p, id), n, 0, 1)))
      [] id = 0 /\ ~ HasVariants(p) -> Moved(p, n, 0, 1)
      [] OTHER -> Synced([p EXCEPT !.variants =
                    [i \in Slots(p) |-> IF i > n THEN @[i] ELSE Moved(@[i], 1, 0, 1)]])

NewLabel(id, n) ==
    [id |-> n, code |-> n, key |-> id, sent |-> FALSE,
     sku |-> IF id = 0 THEN Plain ELSE RowOf(product, id).sku]

CatalogueInit ==
    /\ product \in {SimpleProduct, MatrixProduct(<<"S", "M">>),
                    [MatrixProduct(<<"S">>) EXCEPT !.pipeline = TRUE]}
    /\ order = [o \in Orders |-> NoOrder]
    /\ held = 0 /\ ledger = 0 /\ lastId = 2 /\ due = 0
    /\ labels = IF product.variants = <<>> THEN {NewLabel(0, 1)}
                ELSE {NewLabel(i, i) : i \in DOMAIN product.variants}
    /\ aliases = {} /\ codes = 2
    /\ strayed = FALSE /\ written = FALSE /\ dropped = {} /\ vendor = {}

-----------------------------------------------------------------------------
(* Pending orders: createPendingOrderForStripe reserves in its transaction,  *)
(* then asks for shipping rates, then puts store credit on hold.            *)
Holds(o) == order[o].pay \notin {"none", "PAID"} /\ order[o].freed = 0
HeldUnits == Cardinality({o \in Orders : Holds(o)})

PlaceOrder(h) ==
    \E o \in Orders, id \in {0} \cup {product.variants[i].id : i \in Slots(product)} :
        /\ order[o].pay = "none" /\ product.active /\ CanReserve(product, id)
        /\ Begin(h, "order", <<"rates", "credit">>, o)
        /\ product' = Reserve(product, id)
        /\ order' = [order EXCEPT ![o].pay = "UNPAID", ![o].variant = id]
        /\ UNCHANGED <<held, ledger, strayed, untouched>>

(* Fault: a paid order releases too.                                        *)
AlwaysRelease(o) ==
    IF order[o].pay = "none" THEN UNCHANGED <<product, orderRows, strayed>>
    ELSE /\ product' = Release(product, Live(product, order[o].variant))
         /\ order' = [order EXCEPT ![o].credit = 0, ![o].freed = @ + 1]
         /\ held' = held - order[o].credit
         /\ strayed' = (strayed \/ order[o].freed > 0)

(* releasePendingOrderResources: everything but a paid order releases, one  *)
(* that has released before again.                                          *)
ReleaseResources(o) ==
    IF order[o].pay \in {"none", "PAID"} THEN UNCHANGED <<product, orderRows, strayed>>
    ELSE /\ product' = Release(product, Live(product, order[o].variant))
         /\ order' = [order EXCEPT ![o].credit = 0, ![o].freed = @ + 1]
         /\ held' = held - order[o].credit
         /\ strayed' = (strayed \/ order[o].freed > 0)

(* Rates that cannot be had, or a hold that fails, release and refuse: the  *)
(* order stays UNPAID.                                                      *)
GetRates(h) ==
    /\ At(h, "rates")
    /\ \/ Proceed(h) /\ UNCHANGED <<product, orderRows, strayed>>
       \/ Stop(h) /\ ReleaseResources(req[h].read)
    /\ UNCHANGED <<ledger, untouched>>

HoldCredit(h) ==
    /\ At(h, "credit") /\ Proceed(h)
    /\ \/ \E amount \in {0, 1} :
             /\ order' = [order EXCEPT ![req[h].read].credit = amount, ![req[h].read].ready = TRUE]
             /\ held' = held + amount
             /\ UNCHANGED <<product, strayed>>
       \/ ReleaseResources(req[h].read)
    /\ UNCHANGED <<ledger, untouched>>

(* A second checkout of the shopper supersedes the first: its resources are *)
(* released, then it is failed and cancelled.                               *)
Supersede(h) ==
    \E o \in Orders :
        /\ order[o].pay = "UNPAID" /\ order[o].ready
        /\ Begin(h, "supersede", <<"release", "fail">>, o)
        /\ UNCHANGED catalogue

(* The sweep of stale orders, long after they were made, and the expired or  *)
(* failed payment.                                                           *)
Making(o) == \E h \in Doing({"order"}) : req[h].read = o
Expire(h) ==
    \E o \in Orders :
        /\ order[o].pay = "UNPAID" /\ ~ Making(o)
        /\ Begin(h, "expire", <<"release", "fail">>, o)
        /\ UNCHANGED catalogue

ReleaseStep(h) ==
    /\ At(h, "release") /\ Proceed(h)
    /\ ReleaseResources(req[h].read)
    /\ UNCHANGED <<ledger, untouched>>

FailStep(h) ==
    /\ At(h, "fail") /\ Proceed(h)
    /\ order' = [order EXCEPT ![req[h].read].pay = IF @ = "UNPAID" THEN "FAILED" ELSE @]
    /\ UNCHANGED <<product, held, ledger, strayed, untouched>>

(* handleOrderPaymentCompleted: an order that is not PAID when it is read   *)
(* is fulfilled, a FAILED one too.                                          *)
PaymentArrives(h) ==
    \E o \in Orders :
        /\ order[o].pay # "PAID" /\ order[o].ready
        /\ Begin(h, "pay", <<"fulfil">>, o)
        /\ UNCHANGED catalogue

(* fulfillUnpaidOrderAfterPayment; a commit that is refused releases and     *)
(* fails the order, whose money has been taken.                             *)
Fulfil(h) ==
    LET o == req[h].read
        id == Live(product, order[o].variant)
    IN  /\ At(h, "fulfil")
        /\ \/ order[o].pay = "PAID" /\ Proceed(h)
              /\ UNCHANGED <<product, orderRows, ledger, strayed>>
           \/ /\ order[o].pay # "PAID" /\ ~ CanCommit(product, id)
              /\ GoOn(h, <<"release", "fail">>, o)
              /\ UNCHANGED <<product, orderRows, ledger, strayed>>
           \/ /\ order[o].pay # "PAID" /\ CanCommit(product, id) /\ Proceed(h)
              /\ product' = Commit(product, id)
              /\ order' = [order EXCEPT ![o].pay = "PAID", ![o].credit = 0]
              /\ held' = held - order[o].credit
              /\ ledger' = ledger - 1
              /\ strayed' = (strayed \/ order[o].freed > 0)
        /\ UNCHANGED untouched

-----------------------------------------------------------------------------
(* The product form.  The admin opens it, edits and saves: what it says of   *)
(* stock is as old as the form.                                              *)
Changes ==
    [what : {"list", "unlist", "stock", "simple"}, skus : {<<>>}]
        \cup [what : {"matrix"}, skus : Sizes]

OpenForm(h) ==
    \E c \in Changes :
        /\ Begin(h, c.what, <<"read", "save", "labels", "tell">>, [form |-> product, c |-> c])
        /\ UNCHANGED catalogue

ReadProduct(h) ==
    /\ At(h, "read")
    /\ GoOn(h, <<"save", "labels", "tell">>,
            [form |-> req[h].read.form, c |-> req[h].read.c, row |-> product])
    /\ UNCHANGED catalogue

(* assertProductCanActivate, of the row as it was read                      *)
CanActivate(row) ==
    IF HasVariants(row) THEN \E i \in Slots(row) : row.variants[i].stock > 0 ELSE row.stock > 0

Skus(p) == {p.variants[i].sku : i \in Slots(p)}
FormStock(form, sku) ==
    IF sku \in Skus(form)
    THEN form.variants[CHOOSE i \in Slots(form) : form.variants[i].sku = sku].stock
    ELSE 1

(* Rows replaced while units of them are reserved lose the reservations.    *)
Displaced(p) ==
    IF HasVariants(p) THEN SumOver(p, Reserved) > 0 ELSE p.reserved > 0

SaveFields(h) ==
    LET c == req[h].read.c
    IN  /\ c.what \in {"list", "unlist"}
        /\ product' = [product EXCEPT !.active =
                          /\ c.what = "list"
                          /\ @ \/ req[h].read.row.active \/ CanActivate(req[h].read.row)]
        /\ UNCHANGED <<labels, lastId, strayed, written, dropped>>

SaveStock(h) ==
    /\ req[h].read.c.what = "stock"
    /\ product' = [product EXCEPT !.stock = req[h].read.form.stock]
    /\ written' = TRUE
    /\ UNCHANGED <<labels, lastId, strayed, dropped>>

(* The form of a product without variants: rows of variants are deleted and *)
(* their labels with their references.                                       *)
SaveSimple(h) ==
    /\ req[h].read.c.what = "simple" \/ req[h].read.c.skus = <<>>
    /\ req[h].read.c.what \in {"simple", "matrix"}
    /\ product' = [product EXCEPT !.variants = <<>>, !.stock = req[h].read.form.stock]
    /\ written' = TRUE
    /\ strayed' = (strayed \/ (HasVariants(product) /\ Displaced(product)))
    /\ dropped' = dropped \cup Skus(product)
    /\ UNCHANGED <<labels, lastId>>

(* A listing that a return feeds keeps its variants: prices only.           *)
SavePipeline(h) ==
    LET c == req[h].read.c
        row == req[h].read.row
    IN  /\ c.what = "matrix" /\ c.skus # <<>> /\ row.pipeline
        /\ Len(c.skus) = Len(row.variants) /\ Range(c.skus) \subseteq Skus(row)
        /\ UNCHANGED <<product, labels, lastId, strayed, written, dropped>>

(* snapshotVariantBarcodeSkus, deleteMany, create, reattachVariantBarcodes  *)
SaveMatrix(h) ==
    LET c == req[h].read.c
        form == req[h].read.form
        rows == Matrix(c.skus, [i \in DOMAIN c.skus |-> FormStock(form, c.skus[i])], lastId)
        SkuOf(l) == RowOf(product, l.key).sku
        Target(l) == CHOOSE i \in DOMAIN rows : rows[i].sku = SkuOf(l)
    IN  /\ c.what = "matrix" /\ c.skus # <<>> /\ ~ req[h].read.row.pipeline
        /\ product' = Synced([product EXCEPT !.variants = rows])
        /\ lastId' = lastId + Len(c.skus)
        /\ labels' = {IF Live(product, l.key) # 0 /\ SkuOf(l) \in Range(c.skus)
                      THEN [l EXCEPT !.key = rows[Target(l)].id] ELSE l : l \in labels}
        /\ written' = TRUE
        /\ strayed' = (strayed \/ Displaced(product))
        /\ dropped' = dropped \cup (IF HasVariants(product) THEN Skus(product) \ Range(c.skus)
                                  ELSE {Plain})

(* A refusal (the locked listing, an activation too early) saves nothing.   *)
Refused(c, row) ==
    \/ /\ c.what = "matrix" /\ c.skus # <<>> /\ row.pipeline
       /\ ~ (Len(c.skus) = Len(row.variants) /\ Range(c.skus) \subseteq Skus(row))
    \/ c.what = "list" /\ ~ row.active /\ ~ CanActivate(row)

Save(h) ==
    /\ At(h, "save")
    /\ IF Refused(req[h].read.c, req[h].read.row)
       THEN Stop(h) /\ UNCHANGED catalogue
       ELSE /\ SaveFields(h) \/ SaveStock(h) \/ SaveSimple(h) \/ SavePipeline(h) \/ SaveMatrix(h)
            /\ GoOn(h, <<"labels", "tell">>, [row |-> req[h].read.row, saved |-> product'])
            /\ UNCHANGED <<orderRows, ledger, aliases, codes, due, vendor>>

(* ensureBarcodesForProduct: one label for each row that has none.  An       *)
(* error here is logged.                                                     *)
Unlabelled(p) ==
    {id \in (IF HasVariants(p) THEN {p.variants[i].id : i \in Slots(p)} ELSE {0}) :
        \A l \in labels : l.key # id}

EnsureLabels(h) ==
    /\ At(h, "labels") /\ Proceed(h)
    /\ LET missing == Unlabelled(product)
           Drawn(id) == codes + Cardinality({k \in missing : k <= id})
       IN  /\ labels' = labels \cup {NewLabel(id, Drawn(id)) : id \in missing}
           /\ codes' = codes + Cardinality(missing)
    /\ UNCHANGED <<product, orderRows, ledger, aliases, lastId, due, past>>

(* Shoppers are told when the rows as read could not be sold and the rows    *)
(* as saved can.                                                             *)
TellShoppers(h) ==
    LET before == ProductAvailable(req[h].read.row)
        after == ProductAvailable(req[h].read.saved)
    IN  /\ At(h, "tell") /\ Proceed(h)
        /\ due' = IF ~ product.pipeline /\ ~ Sellable(before) /\ Sellable(after)
                  THEN due + 1 ELSE due
        /\ UNCHANGED <<product, orderRows, ledger, labelRows, lastId, past>>

-----------------------------------------------------------------------------
(* The migration script makes a product without variants one with a single  *)
(* variant, from the row it read before its transaction.                    *)
StartMigration(h) ==
    /\ ~ HasVariants(product) /\ ~ product.pipeline
    /\ Begin(h, "migrate", <<"migrate">>, product)
    /\ UNCHANGED catalogue

Migrate(h) ==
    LET read == req[h].read
        row == [id |-> lastId + 1, sku |-> Plain, stock |-> read.stock,
                reserved |-> read.reserved, version |-> 0]
    IN  /\ At(h, "migrate") /\ Proceed(h)
        /\ IF Plain \in Skus(product) THEN UNCHANGED catalogue
           ELSE /\ product' = [product EXCEPT !.variants = <<row>> \o @, !.stock = read.stock,
                                             !.reserved = 0]
                /\ lastId' = lastId + 1
                /\ strayed' = (strayed \/ product.reserved # read.reserved)
                /\ written' = (written \/ product.stock # read.stock \/ HasVariants(product))
                /\ dropped' = dropped \cup {Plain}
                /\ UNCHANGED <<orderRows, ledger, labelRows, due, vendor>>

-----------------------------------------------------------------------------
(* Labels: a code is looked up, then the row is written by its id.           *)
Carries(l, code) == l.code = code \/ [code |-> code, label |-> l.id] \in aliases
KnownCodes == {l.code : l \in labels} \cup {a.code : a \in aliases}

FindLabel(h, kind) ==
    \E code \in KnownCodes, l \in labels :
        /\ Carries(l, code)
        /\ Begin(h, kind, <<kind>>, [code |-> code, label |-> l])
        /\ UNCHANGED catalogue

(* markSent, of a label that staff have printed and given to the vendor     *)
MarkSent(h) ==
    LET read == req[h].read
    IN  /\ At(h, "mark") /\ Proceed(h)
        /\ labels' = IF read.label.sent THEN labels
                     ELSE {IF l.id = read.label.id THEN [l EXCEPT !.sent = TRUE] ELSE l :
                           l \in labels}
        /\ vendor' = vendor \cup {[code |-> read.code, sku |-> read.label.sku]}
        /\ UNCHANGED <<product, orderRows, ledger, aliases, codes, lastId, due,
                       strayed, written, dropped>>

(* Fault: the old code is forgotten.                                        *)
NoAlias(old) == {}

(* regenerate: the old code stays scannable when the row as it was found     *)
(* had been sent; an alias that exists refuses.                              *)
OldCode(old) == IF old.sent THEN {[code |-> old.code, label |-> old.id]} ELSE {}

Regenerate(h) ==
    LET old == req[h].read.label
    IN  /\ At(h, "regenerate") /\ Proceed(h)
        /\ IF OldCode(old) \cap aliases # {} THEN UNCHANGED catalogue
           ELSE /\ aliases' = aliases \cup OldCode(old)
                /\ labels' = {IF l.id = old.id
                              THEN [l EXCEPT !.code = codes + 1, !.sent = FALSE] ELSE l :
                              l \in labels}
                /\ codes' = codes + 1
                /\ UNCHANGED <<product, orderRows, ledger, lastId, due, strayed, written,
                               dropped, vendor>>

-----------------------------------------------------------------------------
CatalogueStep(h) ==
    \/ PlaceOrder(h) \/ GetRates(h) \/ HoldCredit(h) \/ Supersede(h) \/ Expire(h)
    \/ ReleaseStep(h) \/ FailStep(h) \/ PaymentArrives(h) \/ Fulfil(h)
    \/ OpenForm(h) \/ ReadProduct(h) \/ Save(h) \/ EnsureLabels(h) \/ TellShoppers(h)
    \/ StartMigration(h) \/ Migrate(h)
    \/ FindLabel(h, "mark") \/ MarkSent(h)
    \/ FindLabel(h, "regenerate") \/ Regenerate(h)

-----------------------------------------------------------------------------
(* What an unpaid order was promised is kept: unless a reservation went      *)
(* astray (an order released twice or committed after its release, rows      *)
(* replaced under reservations, a migration from a stale row), the units     *)
(* reserved are those of the orders that still hold theirs, size by size,    *)
(* and the credit on hold is theirs.  Unless an edit wrote stock, the units  *)
(* on hand are what the ledger says and the parent's stock is their sum.     *)
PromisesKept ==
    /\ ~ strayed =>
        /\ (IF HasVariants(product) THEN SumOver(product, Reserved) ELSE product.reserved)
               = HeldUnits
        /\ \A i \in Slots(product) :
              product.variants[i].reserved >=
                Cardinality({o \in Orders : Holds(o) /\ order[o].variant = product.variants[i].id})
    /\ held = SumFunctionOnSet([o \in Orders |-> order[o].credit], Orders)
    /\ ~ written =>
        /\ OnHand(product) = ledger + Opening * Most(1, Len(product.variants))
        /\ product.stock = OnHand(product)

(* A label that staff sent to a vendor still scans, to a label of the same   *)
(* size, and to that size itself as long as every save of the form kept it,  *)
(* unless sending and regenerating it overlapped.                            *)
SentLabelsScan ==
    Apart("mark", "regenerate") => \A v \in vendor : \E l \in labels :
        /\ Carries(l, v.code) /\ l.sku = v.sku
        /\ (v.sku \in Skus(product) \ dropped) =>
              Live(product, l.key) # 0 /\ RowOf(product, l.key).sku = v.sku
=============================================================================
