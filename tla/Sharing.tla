------------------------------ MODULE Sharing ------------------------------
(***************************************************************************)
(* A member shares the prices of the membership (services/membership-       *)
(* sharing.service.js): other customers enter the member's number, or a code  *)
(* the member has made, at checkout.  The code and the member's limits are  *)
(* checked when the checkout is created (resolveSharedMembership); the code *)
(* once more, under a row lock, in the transaction that writes the paid       *)
(* order (assertShareCodeAvailableForPayment).  Uses are not counted in a    *)
(* column: they are the PAID orders that name the code or its owner.        *)
(***************************************************************************)
EXTENDS Integers, FiniteSets

CONSTANTS
    Codes,        \* share codes the member makes
    OneTime,      \* those made for one use
    Number,       \* the membership number itself, which is no code
    Purchases,    \* checkouts of other customers
    Buyers,
    BuyerOf,      \* whose checkout each is
    MaxUsers,     \* membershipShareMaxUsers, 0 for no limit
    MaxUses,      \* membershipShareMaxPerDay (or Month, Year), 0 for no limit
    MaxChanges    \* bound: changes by the member and the staff, and periods

ASSUME SharingAssumption ==
    /\ IsFiniteSet(Purchases) /\ OneTime \subseteq Codes /\ Number \notin Codes
    /\ BuyerOf \in [Purchases -> Buyers]
    /\ MaxUsers \in Nat /\ MaxUses \in Nat /\ MaxChanges \in Nat

VARIABLES
    member,      \* the member's membership runs
    enabled,     \* membershipSharingEnabled
    code,        \* MembershipShareCode rows
    purchase,    \* each checkout, and the order it becomes
    lock,        \* transactions that have the row of their code locked
    recent,      \* orders of the current period
    crossed,     \* history: two checkouts with a shared price were open at once
    changes

sharing == <<member, enabled, code, purchase, lock, recent, crossed, changes>>

PurchasePlaces == {"none", "open", "charged", "checked", "refused", "order"}

SharingTypeOK ==
    /\ member \in BOOLEAN /\ enabled \in BOOLEAN
    /\ code \in [Codes -> {"none", "active", "revoked", "expired"}]
    /\ purchase \in [Purchases ->
                       [at : PurchasePlaces, by : Codes \cup {Number},
                        pay : {"UNPAID", "PAID", "PARTIALLY_REFUNDED", "REFUNDED"}]]
    /\ lock \subseteq Purchases
    /\ recent \subseteq Purchases

SharingInit ==
    /\ member = TRUE /\ enabled = TRUE
    /\ code = [c \in Codes |-> "none"]
    /\ purchase = [p \in Purchases |-> [at |-> "none", by |-> Number, pay |-> "UNPAID"]]
    /\ lock = {}
    /\ recent = {} /\ crossed = FALSE /\ changes = 0

-----------------------------------------------------------------------------
PaidOrders == {p \in Purchases : purchase[p].at = "order" /\ purchase[p].pay = "PAID"}
PaidUnder(c) == {p \in PaidOrders : purchase[p].by = c}
Users(S) == {BuyerOf[p] : p \in S}
Open == {p \in Purchases : purchase[p].at \in {"open", "charged", "checked", "refused"}}

(* enforceOwnerCaps, over the orders paid so far.                          *)
enforceOwnerCaps(b) ==
    /\ MaxUsers > 0 /\ b \notin Users(PaidOrders) => Cardinality(Users(PaidOrders)) < MaxUsers
    /\ MaxUses > 0 => Cardinality(PaidOrders \cap recent) < MaxUses

resolveFromShareCode(c) ==
    /\ code[c] = "active"
    /\ c \in OneTime => PaidUnder(c) = {}

(* The checkout is created with the shared price.                          *)
resolveSharedMembership(p, c) ==
    /\ purchase[p].at = "none"
    /\ enabled /\ member
    /\ c \in Codes => resolveFromShareCode(c)
    /\ enforceOwnerCaps(BuyerOf[p])
    /\ purchase' = [purchase EXCEPT ![p].at = "open", ![p].by = c]
    /\ crossed' = (crossed \/ Open # {})
    /\ UNCHANGED <<member, enabled, code, lock, recent, changes>>

Charge(p) ==
    /\ purchase[p].at = "open"
    /\ purchase' = [purchase EXCEPT ![p].at = "charged"]
    /\ UNCHANGED <<member, enabled, code, lock, recent, crossed, changes>>

(* A checkout nobody pays for expires.                                     *)
Abandon(p) ==
    /\ purchase[p].at = "open"
    /\ purchase' = [purchase EXCEPT ![p].at = "none"]
    /\ UNCHANGED <<member, enabled, code, lock, recent, crossed, changes>>

-----------------------------------------------------------------------------
(* The transaction of createPaidOrderFromCheckoutIntent.  It is tried again *)
(* after a refusal when another event or the thank-you page comes in.       *)
(* Fault: SELECT without FOR UPDATE.                                       *)
Unlocked(c) == FALSE
Locked(c) == \E p \in lock : purchase[p].by = c

(* Fault: what was checked at checkout is not checked again.               *)
AsChecked(c) == TRUE
assertShareCodeAvailableForPayment(c) ==
    /\ code[c] = "active"
    /\ c \in OneTime => PaidUnder(c) = {}

CheckNumber(p) ==
    /\ purchase[p].at \in {"charged", "refused"} /\ purchase[p].by = Number
    /\ purchase' = [purchase EXCEPT ![p].at = "checked"]
    /\ UNCHANGED <<member, enabled, code, lock, recent, crossed, changes>>

CheckCode(p) ==
    LET c == purchase[p].by
    IN  /\ purchase[p].at \in {"charged", "refused"} /\ c \in Codes
        /\ ~ Locked(c)
        /\ IF assertShareCodeAvailableForPayment(c)
           THEN purchase' = [purchase EXCEPT ![p].at = "checked"] /\ lock' = lock \cup {p}
           ELSE purchase' = [purchase EXCEPT ![p].at = "refused"] /\ UNCHANGED lock
        /\ UNCHANGED <<member, enabled, code, recent, crossed, changes>>

CommitOrder(p) ==
    /\ purchase[p].at = "checked"
    /\ purchase' = [purchase EXCEPT ![p].at = "order", ![p].pay = "PAID"]
    /\ lock' = lock \ {p}
    /\ recent' = recent \cup {p}
    /\ UNCHANGED <<member, enabled, code, crossed, changes>>

(* Anything else in it fails: it is rolled back.                           *)
RollBack(p) ==
    /\ purchase[p].at = "checked"
    /\ purchase' = [purchase EXCEPT ![p].at = "refused"]
    /\ lock' = lock \ {p}
    /\ UNCHANGED <<member, enabled, code, recent, crossed, changes>>

(* A refund of any part takes the order out of the count.                   *)
Refund(p) ==
    /\ p \in PaidOrders
    /\ \E pay \in {"PARTIALLY_REFUNDED", "REFUNDED"} :
          purchase' = [purchase EXCEPT ![p].pay = pay]
    /\ UNCHANGED <<member, enabled, code, lock, recent, crossed, changes>>

-----------------------------------------------------------------------------
Change == changes < MaxChanges /\ changes' = changes + 1

requireSharingOwner == member /\ enabled

createMemberShareCode(c) ==
    /\ Change /\ requireSharingOwner
    /\ code[c] = "none"
    /\ code' = [code EXCEPT ![c] = "active"]
    /\ UNCHANGED <<member, enabled, purchase, lock, recent, crossed>>

(* An update waits for the row lock.                                       *)
setMemberShareCodeActive(c, active) ==
    /\ Change /\ requireSharingOwner
    /\ ~ Locked(c)
    /\ IF active THEN code[c] = "revoked" ELSE code[c] = "active"
    /\ code' = [code EXCEPT ![c] = IF active THEN "active" ELSE "revoked"]
    /\ UNCHANGED <<member, enabled, purchase, lock, recent, crossed>>

(* Its last day passes: the clock waits for no lock.                       *)
CodeExpires(c) ==
    /\ Change
    /\ code[c] \in {"active", "revoked"}
    /\ code' = [code EXCEPT ![c] = "expired"]
    /\ UNCHANGED <<member, enabled, purchase, lock, recent, crossed>>

updateSharingSettings ==
    /\ Change
    /\ enabled' = ~ enabled
    /\ UNCHANGED <<member, code, purchase, lock, recent, crossed>>

MembershipEndsOrRenews ==
    /\ Change
    /\ member' = ~ member
    /\ UNCHANGED <<enabled, code, purchase, lock, recent, crossed>>

NewPeriod ==
    /\ Change
    /\ recent # {} /\ recent' = {}
    /\ UNCHANGED <<member, enabled, code, purchase, lock, crossed>>

SharingNext ==
    \/ \E p \in Purchases, c \in Codes \cup {Number} : resolveSharedMembership(p, c)
    \/ \E p \in Purchases :
          \/ Charge(p) \/ Abandon(p)
          \/ CheckNumber(p) \/ CheckCode(p) \/ CommitOrder(p) \/ RollBack(p)
          \/ Refund(p)
    \/ \E c \in Codes :
          \/ createMemberShareCode(c) \/ CodeExpires(c)
          \/ \E active \in BOOLEAN : setMemberShareCodeActive(c, active)
    \/ updateSharingSettings \/ MembershipEndsOrRenews \/ NewPeriod

SharingSpec == SharingInit /\ [][SharingNext]_sharing

-----------------------------------------------------------------------------
(* However many checkouts have entered a one-time code, no two orders under *)
(* it are paid at once; and the member's limits, checked only at checkout,   *)
(* hold as long as no two checkouts with a shared price were open together. *)
SharedWithinLimits ==
    /\ SharingTypeOK
    /\ \A c \in OneTime : Cardinality(PaidUnder(c)) <= 1
    /\ \/ crossed
       \/ /\ MaxUsers > 0 => Cardinality(Users(PaidOrders)) <= MaxUsers
          /\ MaxUses > 0 => Cardinality(PaidOrders \cap recent) <= MaxUses

(* No order is written under a revoked code, though the code was good at    *)
(* checkout, the payment came later, and the member revokes at any moment.  *)
RevokedBuysNothing ==
    [][\A p \in Purchases :
         purchase[p].at # "order" /\ purchase'[p].at = "order" /\ purchase[p].by \in Codes
            => code[purchase[p].by] # "revoked"]_sharing
=============================================================================
