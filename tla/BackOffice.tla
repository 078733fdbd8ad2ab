----------------------------- MODULE BackOffice -----------------------------
(***************************************************************************)
(* The back office and the shop front together: the product with its orders, *)
(* its labels, its scanners and the shoppers who wait for it; the units that *)
(* come back to its refurbished listing; its reviews; the categories; the     *)
(* articles; the home page; the phone that scans; the returns desk with its     *)
(* lists, its parcels and its settlements; a checkout's money between Stripe     *)
(* accounts; a customer's store credit; and a shopper's quotes and what he is     *)
(* charged.  They share the handlers and one process that may stop; what may      *)
(* happen in a behaviour is one of Mixes.                                    *)
(***************************************************************************)
EXTENDS Alerts, Refurbish, Reviews, Blog, Categories, HomePage, Relay,
        Triage, Parcels, Settlement, Transfers, Wallet, Quotes

stock == <<catalogue, warehouse, alerts>>
content == <<reviews, blog, tree, homepage, relaying>>
returnsdesk == <<triage, parcels, settling>>
funds == <<transfers, wallets, quotes>>
everything == <<stock, refurbish, content, returnsdesk, funds>>

Init ==
    /\ DeskInit /\ CatalogueInit /\ WarehouseInit /\ AlertsInit
    /\ RefurbishInit /\ ReviewsInit /\ BlogInit /\ CategoriesInit /\ HomePageInit /\ RelayInit
    /\ TriageInit /\ ParcelsInit /\ SettlementInit
    /\ TransfersInit /\ WalletInit /\ QuotesInit

(* Which requests, jobs and scripts each part has                            *)
ProductKinds == {"order", "pay", "expire", "supersede", "list", "unlist", "stock", "simple",
                 "matrix", "migrate", "mark", "regenerate"}
ScannerKinds == {"scan", "plan", "confirm", "discard", "adjust"}
ShopperKinds == {"ask", "notify"}
RefurbishKinds == {"job", "open", "move"}
ArticleKinds == {"draft", "edit", "status", "clock", "publisher"}
CategoryKinds == {"create", "reparent", "prune", "file"}
HomePageKinds == {"visit", "reseed", "add", "save", "hide", "delete", "arrange"}
PhoneKinds == {"phone", "page"}
QueueKinds == {"look", "read", "advance", "bulk", "arrive"}
ParcelKinds == {"package", "desk", "shipment", "wait", "dawn"}
SettlementKinds == {"inspect", "parcel", "settle"}
TransferKinds == {"rates", "card", "hosted", "buyer", "event", "refund", "undo"}
WalletKinds == {"view", "award", "restore", "hold", "capture", "release"}
QuoteKinds == {"quote", "checkout", "paid", "lapse", "change"}

StockStep(h) ==
    \/ Concerns(h, ProductKinds \cup ScannerKinds) /\ CatalogueStep(h) /\ UNCHANGED <<warehouse, alerts>>
    \/ Concerns(h, ScannerKinds) /\ WarehouseStep(h) /\ UNCHANGED alerts
    \/ Concerns(h, ShopperKinds) /\ AlertsStep(h)

ContentStep(h) ==
    \/ Concerns(h, ReviewKinds) /\ ReviewsStep(h) /\ UNCHANGED <<blog, tree, homepage, relaying>>
    \/ Concerns(h, ArticleKinds) /\ BlogStep(h) /\ UNCHANGED <<reviews, tree, homepage, relaying>>
    \/ Concerns(h, CategoryKinds) /\ CategoriesStep(h) /\ UNCHANGED <<reviews, blog, homepage, relaying>>
    \/ Concerns(h, HomePageKinds) /\ HomePageStep(h) /\ UNCHANGED <<reviews, blog, tree, relaying>>
    \/ Concerns(h, PhoneKinds) /\ RelayStep(h) /\ UNCHANGED <<reviews, blog, tree, homepage>>

ReturnsStep(h) ==
    \/ Concerns(h, QueueKinds) /\ TriageStep(h) /\ UNCHANGED <<parcels, settling>>
    \/ Concerns(h, ParcelKinds) /\ ParcelsStep(h) /\ UNCHANGED <<triage, settling>>
    \/ Concerns(h, SettlementKinds) /\ SettlementStep(h) /\ UNCHANGED <<triage, parcels>>

MoneyStep(h) ==
    \/ Concerns(h, TransferKinds) /\ TransfersStep(h) /\ UNCHANGED <<wallets, quotes>>
    \/ Concerns(h, WalletKinds) /\ WalletStep(h) /\ UNCHANGED <<transfers, quotes>>
    \/ Concerns(h, QuoteKinds) /\ QuotesStep(h) /\ UNCHANGED <<transfers, wallets>>

Step(h) ==
    \/ StockStep(h) /\ UNCHANGED <<refurbish, content, returnsdesk, funds>>
    \/ Concerns(h, RefurbishKinds) /\ RefurbishStep(h)
       /\ UNCHANGED <<stock, content, returnsdesk, funds>>
    \/ ContentStep(h) /\ UNCHANGED <<stock, refurbish, returnsdesk, funds>>
    \/ ReturnsStep(h) /\ UNCHANGED <<stock, refurbish, content, funds>>
    \/ MoneyStep(h) /\ UNCHANGED <<stock, refurbish, content, returnsdesk>>
    \/ Crash(h) /\ UNCHANGED everything

Next == \E h \in Handlers : Step(h)

Spec == Init /\ [][Next]_<<desk, everything>>

-----------------------------------------------------------------------------
(* The stock of the product and what promises it agree (Catalogue.PromisesKept), *)
(* and every reviewed count was applied as it was reviewed, once               *)
(* (Warehouse.AppliedAsReviewed).                                            *)
StockAddsUp == PromisesKept /\ AppliedAsReviewed

(* A label once sent out resolves to its product (Catalogue.SentLabelsScan), and *)
(* a code that was scanned arrives at the page that asked for it               *)
(* (Relay.ScansArrive).                                                      *)
ScansResolve == SentLabelsScan /\ ScansArrive

(* What the storefront shows beside the products is sound: the articles are   *)
(* those staff asked for (Blog.BlogAsAsked), the categories a tree of the      *)
(* allowed depth that loses no product (Categories.TreeIsSound), and the slides *)
(* of the home page as staff arranged them (HomePage.HomePageAsArranged).     *)
ContentIsSound == BlogAsAsked /\ TreeIsSound /\ HomePageAsArranged

(* The lists the returns desk works from pass over nothing                    *)
(* (Triage.QueuesMissNothing), and the parcels it waits for are asked for once  *)
(* and awaited until the right day (Parcels.ParcelsAreAwaited).               *)
ReturnsAreFollowed == QueuesMissNothing /\ ParcelsAreAwaited

(* Money moves once and adds up: a return is refunded and restocked once       *)
(* (Settlement.SettledInOrder), a charge and its refunds are split to the cent   *)
(* (Transfers.SplitsAddUp), the wallet is what its transactions add up to         *)
(* (Wallet.WalletAddsUp), and a shopper is charged what he was shown             *)
(* (Quotes.QuotesAreKept).                                                   *)
MoneyAddsUp == SettledInOrder /\ SplitsAddUp /\ WalletAddsUp /\ QuotesAreKept
=============================================================================
