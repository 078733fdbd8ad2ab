----------------------------- MODULE Inventory -----------------------------
(***************************************************************************)
(* The stock rows behind every sale: services/inventory-reservation.js     *)
(* (reserve, commit, release, restock) and the manual adjustment of        *)
(* services/inventory.service.js, run by concurrent transactions.          *)
(*                                                                         *)
(* PostgreSQL runs them READ COMMITTED: a transaction reads the committed  *)
(* row, decides, and writes later; relative updates (increment, decrement) *)
(* apply to the row as it is when they are written, and a WHERE clause is  *)
(* evaluated then.  Each transaction here touches one row, a ProductVariant *)
(* or a Product without variants.                                          *)
(***************************************************************************)
EXTENDS Integers, FiniteSets

CONSTANTS
    Skus,          \* stock rows
    Txs,           \* transactions that may be open together
    Quantities,    \* line quantities
    MinSellable,   \* MinSellable[k]: minSellableUnits of the row's product type
    InitialStock,  \* units on hand at the start
    MaxStock,      \* bound on restocks, adjustments and the ledger they drift from
    Adjusted       \* the rows that staff adjust by hand meanwhile

ASSUME InventoryAssumption ==
    /\ Quantities \subseteq Nat \ {0}
    /\ MinSellable \in [Skus -> Nat \ {0}]
    /\ InitialStock \in Nat /\ MaxStock \in Nat
    /\ Adjusted \subseteq Skus

VARIABLES
    row,      \* the committed rows: stock and reservedStock
    tx,       \* the open transactions, with what they have read
    ledger    \* the sum of quantityDelta over each row's InventoryLedgerEvents

inventory == <<row, tx, ledger>>

Ops == {"reserve", "commit", "release", "restock"}

Rows == [stock : Int, reserved : Int]

(* An open transaction: the operation and its quantity, the row as read,   *)
(* and whether the row still has the stockVersion that was read.           *)
OpenTxs == [op : Ops, sku : Skus, qty : Quantities, seen : Rows, fresh : BOOLEAN]
Adjustments == [op : {"adjust"}, sku : Skus, delta : Int, seen : Rows, fresh : BOOLEAN]
None == [op |-> "none"]

InventoryTypeOK ==
    /\ row \in [Skus -> Rows]
    /\ ledger \in [Skus -> Int]
    /\ tx \in [Txs -> OpenTxs \cup Adjustments \cup {None}]

InventoryInit ==
    /\ row = [k \in Skus |-> [stock |-> InitialStock, reserved |-> 0]]
    /\ ledger = [k \in Skus |-> 0]
    /\ tx = [t \in Txs |-> None]

Least(m, n) == IF m < n THEN m ELSE n

(* variantAvailableStock                                                   *)
Available(r) == IF r.stock > r.reserved THEN r.stock - r.reserved ELSE 0

(* isSellableAvailable: a product type sells only from its own minimum up. *)
Sellable(k, r) == Available(r) >= MinSellable[k]

-----------------------------------------------------------------------------
(* The read half: the row is fetched and the operation's checks pass on    *)
(* it.  A check that fails raises an error and the transaction is gone.    *)
Read(t, o, k, n) ==
    /\ tx[t] = None
    /\ tx' = [tx EXCEPT ![t] =
                [op |-> o, sku |-> k, qty |-> n, seen |-> row[k], fresh |-> TRUE]]
    /\ UNCHANGED <<row, ledger>>

ReadToReserve(t, k, n) ==
    /\ Sellable(k, row[k])
    /\ Available(row[k]) >= n
    /\ Read(t, "reserve", k, n)

ReadToCommit(t, k, n) ==
    /\ row[k].reserved >= n
    /\ row[k].stock >= n
    /\ Read(t, "commit", k, n)

ReadToRelease(t, k, n) ==
    /\ row[k].reserved > 0
    /\ Read(t, "release", k, n)

ReadToRestock(t, k, n) == Read(t, "restock", k, n)

(* adjustManualStock: staff add delta units, refused below zero.           *)
ReadToAdjust(t, k, d) ==
    /\ k \in Adjusted
    /\ tx[t] = None
    /\ row[k].stock + d >= 0
    /\ tx' = [tx EXCEPT ![t] =
                [op |-> "adjust", sku |-> k, delta |-> d, seen |-> row[k], fresh |-> TRUE]]
    /\ UNCHANGED <<row, ledger>>

(* Closing t after a write that bumped stockVersion: every other open      *)
(* transaction on the row now holds an old version.                        *)
CloseBumping(t, k) ==
    tx' = [u \in Txs |->
            CASE u = t -> None
              [] u # t /\ tx[u] # None /\ tx[u].sku = k -> [tx[u] EXCEPT !.fresh = FALSE]
              [] OTHER -> tx[u]]

Close(t) == tx' = [tx EXCEPT ![t] = None]

-----------------------------------------------------------------------------
(* The write half.                                                         *)

(* Faults: a reservation that does not compare the version, and one that   *)
(* does not compare the stock.                                             *)
WriteReserveStale(t) ==
    /\ tx[t].op = "reserve"
    /\ row[tx[t].sku].stock >= tx[t].seen.reserved + tx[t].qty
    /\ row' = [row EXCEPT ![tx[t].sku].reserved = @ + tx[t].qty]
    /\ CloseBumping(t, tx[t].sku)
    /\ UNCHANGED ledger

WriteReserveBlindly(t) ==
    /\ tx[t].op = "reserve"
    /\ tx[t].fresh
    /\ row' = [row EXCEPT ![tx[t].sku].reserved = @ + tx[t].qty]
    /\ CloseBumping(t, tx[t].sku)
    /\ UNCHANGED ledger

(* updateMany WHERE stockVersion is the one read AND stock >= reserved read *)
(* + quantity; otherwise STOCK_CONFLICT (see Abort).                       *)
WriteReserve(t) ==
    LET k == tx[t].sku
        n == tx[t].qty
    IN  /\ tx[t].op = "reserve"
        /\ tx[t].fresh
        /\ row[k].stock >= tx[t].seen.reserved + n
        /\ row' = [row EXCEPT ![k].reserved = @ + n]
        /\ CloseBumping(t, k)
        /\ UNCHANGED ledger

(* A reservation becomes a sale; the update is not conditional.            *)
WriteCommit(t) ==
    LET k == tx[t].sku
        n == tx[t].qty
    IN  /\ tx[t].op = "commit"
        /\ row' = [row EXCEPT ![k] = [stock |-> @.stock - n, reserved |-> @.reserved - n]]
        /\ ledger' = [ledger EXCEPT ![k] = @ - n]
        /\ CloseBumping(t, k)

(* min(reserved read, quantity) comes off, and stockVersion stays.         *)
WriteRelease(t) ==
    LET k == tx[t].sku
    IN  /\ tx[t].op = "release"
        /\ row' = [row EXCEPT ![k].reserved = @ - Least(tx[t].seen.reserved, tx[t].qty)]
        /\ Close(t)
        /\ UNCHANGED ledger

(* Fault: restocking writes what it has read plus its units.               *)
WriteRestockAbsolute(t) ==
    LET k == tx[t].sku
        n == tx[t].qty
    IN  /\ tx[t].op = "restock"
        /\ tx[t].seen.stock + n <= MaxStock
        /\ row' = [row EXCEPT ![k].stock = tx[t].seen.stock + n]
        /\ ledger' = [ledger EXCEPT ![k] = @ + n]
        /\ CloseBumping(t, k)

WriteRestock(t) ==
    LET k == tx[t].sku
        n == tx[t].qty
    IN  /\ tx[t].op = "restock"
        /\ row[k].stock + n <= MaxStock
        /\ row' = [row EXCEPT ![k].stock = @ + n]
        /\ ledger' = [ledger EXCEPT ![k] = @ + n]
        /\ CloseBumping(t, k)

(* The new stock is computed from the row as read and written absolutely;  *)
(* stockVersion stays.                                                     *)
WriteAdjust(t) ==
    LET k == tx[t].sku
    IN  /\ tx[t].op = "adjust"
        /\ tx[t].seen.stock + tx[t].delta <= MaxStock
        /\ ledger[k] + tx[t].delta \in -MaxStock .. MaxStock
        /\ row' = [row EXCEPT ![k].stock = tx[t].seen.stock + tx[t].delta]
        /\ ledger' = [ledger EXCEPT ![k] = @ + tx[t].delta]
        /\ Close(t)

(* The transaction fails, or its caller gives up: nothing was written.     *)
Abort(t) ==
    /\ tx[t] # None
    /\ Close(t)
    /\ UNCHANGED <<row, ledger>>

InventoryNext ==
    \E t \in Txs :
        \/ \E k \in Skus, n \in Quantities :
            \/ ReadToReserve(t, k, n)
            \/ ReadToCommit(t, k, n)
            \/ ReadToRelease(t, k, n)
            \/ ReadToRestock(t, k, n)
            \/ ReadToAdjust(t, k, n)
            \/ ReadToAdjust(t, k, -n)
        \/ WriteReserve(t)
        \/ WriteCommit(t)
        \/ WriteRelease(t)
        \/ WriteRestock(t)
        \/ WriteAdjust(t)
        \/ Abort(t)

InventorySpec == InventoryInit /\ [][InventoryNext]_inventory

-----------------------------------------------------------------------------
(* Checkouts never promise units the row does not have: whatever reserves, *)
(* sales, releases and restocks interleave, a reservation leaves           *)
(* reservedStock within stock (the WS-A4 optimistic locking, of which      *)
(* release takes no part).  Staff may take units away that are reserved.   *)
NoOverPromise == \A k \in Skus \ Adjusted : row[k].reserved <= row[k].stock

(* At the moment of reserving it holds even while staff adjust the stock.  *)
ReservationIsCovered ==
    [][\A k \in Skus :
         row'[k].reserved > row[k].reserved => row'[k].reserved <= row'[k].stock]_inventory

(* No sale or restock is lost: the stock on hand is what the ledger's      *)
(* deltas add up to, except where an adjustment has written over them.     *)
LedgerAgrees == \A k \in Skus \ Adjusted : row[k].stock = InitialStock + ledger[k]

(* What the version check rests on: a reservation whose version is still   *)
(* current has seen at least the reservations there are now.               *)
FreshReadCovers ==
    \A t \in Txs :
        tx[t].op = "reserve" /\ tx[t].fresh
            => row[tx[t].sku].reserved <= tx[t].seen.reserved

(* A release in progress has seen a reservation to take from.              *)
ReleaseSawReserved ==
    \A t \in Txs : tx[t].op = "release" => tx[t].seen.reserved > 0
=============================================================================
