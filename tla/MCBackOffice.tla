---------------------------- MODULE MCBackOffice ----------------------------
(* What may happen in a behaviour: few requests of the kinds that meet.      *)
EXTENDS BackOffice

OfOrders ==
    {[order |-> 2, pay |-> 1] @@ (e :> 1) : e \in {"list", "unlist", "stock", "simple", "matrix"}}
        \cup {[order |-> 2, expire |-> 1, pay |-> 1, supersede |-> 1],
              [order |-> 1, pay |-> 1, migrate |-> 2], [order |-> 1, matrix |-> 1, migrate |-> 1]}
OfLabels == {[matrix |-> 1, simple |-> 1, mark |-> 1], [matrix |-> 2, mark |-> 1], [mark |-> 2, regenerate |-> 2]}
OfScanners ==
    {[scan |-> 2, plan |-> 1, confirm |-> 2], [scan |-> 1, plan |-> 1, confirm |-> 1, discard |-> 1],
     [scan |-> 1, plan |-> 1, confirm |-> 1, adjust |-> 1], [order |-> 1, adjust |-> 2]}
OfShoppers ==
    {[adjust |-> 2, ask |-> 1, notify |-> 2], [adjust |-> 1, matrix |-> 1, ask |-> 1, notify |-> 1]}
OfReturns == {[job |-> 3, open |-> 1, move |-> 1], [job |-> 2, crash |-> 1]}
OfReviews ==
    {[review |-> 3, remove |-> 1], [review |-> 1, amend |-> 1, remove |-> 1],
     [review |-> 1, retract |-> 1, remove |-> 1, crash |-> 1]}
OfArticles == {[draft |-> 3, edit |-> 1], [draft |-> 1, edit |-> 1, status |-> 1],
               [draft |-> 1, status |-> 3, clock |-> 1, publisher |-> 1]}
OfCategories == {[create |-> 1, reparent |-> 1, prune |-> 1], [create |-> 1, reparent |-> 2],
                 [create |-> 1, prune |-> 1, file |-> 1]}
OfPhones == {[phone |-> 6, page |-> 5]}
OfHomePage ==
    {[visit |-> 2, reseed |-> 1, crash |-> 1], [add |-> 2, arrange |-> 1, delete |-> 1],
     [visit |-> 1, add |-> 2, delete |-> 1], [save |-> 2, delete |-> 1, hide |-> 1]}
OfQueues ==
    {[look |-> 4, advance |-> 2, arrive |-> 1], [look |-> 4, bulk |-> 1],
     [read |-> 3, advance |-> 1, arrive |-> 1], [read |-> 3, advance |-> 2],
     [read |-> 3, crash |-> 1]}
OfParcels ==
    {[package |-> 2, desk |-> 2], [shipment |-> 2, wait |-> 2, dawn |-> 5],
     [package |-> 1, desk |-> 1, shipment |-> 1, wait |-> 1, dawn |-> 3]}
OfSettlements ==
    {[settle |-> 2], [settle |-> 1, inspect |-> 1], [settle |-> 1, parcel |-> 1, crash |-> 1]}
OfPayments ==
    {[card |-> 2, hosted |-> 1, buyer |-> 1, rates |-> 1], [card |-> 2, buyer |-> 1, event |-> 1, rates |-> 1],
     [card |-> 1, buyer |-> 1, event |-> 1, refund |-> 2, undo |-> 2],
     [card |-> 1, hosted |-> 1, buyer |-> 2, event |-> 2]}
OfWallets ==
    {[award |-> 2, restore |-> 1, view |-> 2], [award |-> 1, hold |-> 2, capture |-> 1, release |-> 1]}
OfQuotes ==
    {[quote |-> 1, checkout |-> 2, change |-> 1], [quote |-> 2, checkout |-> 1],
     [quote |-> 1, checkout |-> 2, paid |-> 1, crash |-> 1],
     [quote |-> 1, checkout |-> 1, change |-> 1, paid |-> 1, lapse |-> 1]}

OfProduct == OfOrders \cup OfLabels \cup OfScanners \cup OfShoppers
MCMixes ==
    OfProduct \cup OfReturns \cup OfReviews \cup OfArticles \cup OfCategories \cup OfPhones
        \cup OfHomePage \cup OfQueues \cup OfParcels \cup OfSettlements
        \cup OfPayments \cup OfWallets \cup OfQuotes

MCSizes == {<<"S", "M">>, <<"M">>}

(* The lines of three submissions, the first of two lines                    *)
MCSubOf == <<1, 1, 2, 3>>
MCDesks ==
    {[type |-> "REFURBISHMENT", line |-> t] :
        t \in {<<"IN_TRANSIT", "RECEIVED", "IN_TRANSIT">>,
               <<"LABEL_GENERATED", "IN_TRANSIT", "IN_TRANSIT">>,
               <<"ELIGIBILITY_REVIEW", "ELIGIBILITY_REVIEW", "ELIGIBILITY_REVIEW">>,
               <<"RECEIVED", "UNDER_INSPECTION", "RECEIVED">>}}
        \cup {[type |-> "STANDARD", line |-> t] :
            t \in {<<"REQUESTED", "UNDER_INSPECTION", "RECEIVED">>,
                   <<"UNDER_INSPECTION", "RECEIVED", "REQUESTED">>}}
MCFilters == {LineStatuses, {"ELIGIBILITY_REVIEW"}, {"RECEIVED", "UNDER_INSPECTION"}}

(* A product with one price for all its sizes, and one with a price of its own *)
MCTags == {[price |-> 4, override |-> 0, member |-> 3, memberOverride |-> 0],
           [price |-> 5, override |-> 3, member |-> 4, memberOverride |-> 2]}
Wish(n, joins, code, credit, tier) ==
    [n |-> n, joins |-> joins, code |-> code, credit |-> credit, tier |-> tier]
MCWishes ==
    {Wish(2, FALSE, FALSE, 0, "any"), Wish(1, TRUE, FALSE, 2, "any"), Wish(2, FALSE, TRUE, 9, "express")}

(* What a behaviour does not use starts in one way.                          *)
MCInit ==
    /\ DeskInit
    /\ CatalogueInit /\ (coming \notin OfProduct => product = SimpleProduct)
    /\ (coming \in OfShoppers => ~ product.pipeline)
    /\ WarehouseInit /\ AlertsInit
    /\ RefurbishInit /\ (coming \notin OfReturns => aged)
    /\ ReviewsInit /\ BlogInit
    /\ CategoriesInit
    /\ LET first == CHOOSE c \in Cats : TRUE
           other == CHOOSE c \in Cats \ {first} : TRUE
       IN  /\ parent = [c \in Cats |-> IF c = other THEN Absent ELSE Root]
           /\ shelf = [g \in Goods |-> first]
    /\ HomePageInit /\ (coming \notin OfHomePage => slide = <<>>)
    /\ RelayInit
    /\ TriageInit
    /\ (coming \notin OfQueues => type = "STANDARD" /\ line[1].status = "REQUESTED")
    /\ ParcelsInit /\ (coming \notin OfParcels => envelopeUsed)
    /\ SettlementInit
    /\ IF coming \in OfSettlements THEN \E l \in Lots : lot[l].status = "APPROVED"
       ELSE \A l \in Lots : lot[l] = Fresh
    /\ TransfersInit /\ (coming \notin OfPayments => bill.bundled) /\ WalletInit
    /\ QuotesInit /\ buyer.balance = (IF "paid" \in DOMAIN coming THEN 9 ELSE 2)
    /\ (coming \notin OfQuotes => tag.cost.override = NoPrice)
MCSpec == MCInit /\ [][Next]_<<desk, everything>>

Symm == Permutations(Handlers)
=============================================================================
