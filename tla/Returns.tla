------------------------------- MODULE Returns -------------------------------
(***************************************************************************)
(* The life of the returns of one delivered order (services/               *)
(* returns.service.js).  A submission holds one row per line that is       *)
(* returned: the buyer opens it, has it shipped or cancels it; the staff   *)
(* review, receive, inspect and decide its rows, refund standard ones and  *)
(* award store credit for used (refurbishment) ones.                       *)
(*                                                                         *)
(* A request reads the rows, checks them, and writes columns of some of    *)
(* them in a transaction that, but for the creation and the award, checks  *)
(* nothing again.  The queries before a transaction are one step here.     *)
(* A request may die, or a transaction of it fail.                         *)
(*                                                                         *)
(* Refunds and restocking step by step are in module Refunds; notes,       *)
(* deadlines, photos, e-mails and the rejected quantity are left out.      *)
(***************************************************************************)
EXTENDS Integers, FiniteSets, Functions

CONSTANTS
    Lines,         \* the order's items, none of them cancelled
    Purchased,     \* Purchased[l]: units bought
    Submissions,
    Kinds,         \* Kinds[s]: the types of return submission s may be
    Handlers,      \* requests in flight
    MaxRequests    \* bound: requests served altogether

ASSUME ReturnsAssumption ==
    /\ IsFiniteSet(Lines) /\ IsFiniteSet(Submissions)
    /\ Purchased \in [Lines -> Nat \ {0}]
    /\ Kinds \in [Submissions -> SUBSET {"STANDARD", "REFURBISHMENT"}]
    /\ MaxRequests \in Nat

Rows == Submissions \X Lines
Null == -1

VARIABLES
    form,        \* form[s]: the type of a submission and its first row's line
    status, quantity, received, accepted, refunded, credit,
                 \* columns of ReturnRequest, by row
    packages,    \* packages[r]: units of a row in all ReturnReceivePackages
    earned,      \* earned[r]: what the wallet got under the row's sourceKey
    labelled,    \* rows with a prepaid label (Order.returnEnvelopeUsed)
    freed,       \* history: rows that have ever been in a terminal status
    job,         \* what each handler is about to write
    served       \* requests so far

books == <<refunded, credit, earned>>
vars == <<form, status, quantity, received, accepted, packages, labelled, freed,
          books, job, served>>

(* TERMINAL_RETURN_REJECT_STATUSES: they free the units for another return *)
Terminal == {"REJECTED", "ELIGIBILITY_REJECTED", "INSPECTION_REJECTED", "CANCELLED"}

Statuses == Terminal \cup
    {"NONE", "REQUESTED", "ELIGIBILITY_REVIEW", "APPROVED", "LABEL_GENERATED",
     "IN_TRANSIT", "RECEIVED", "UNDER_INSPECTION", "INSPECTION_APPROVED"}

Units == UNION {0 .. Purchased[l] : l \in Lines}

(* A handler about to run its transaction: the columns it writes, by row,  *)
(* with the rows that were terminal when it read them.                     *)
All(S, x) == [r \in S |-> x]
None == All({}, Null)
NoChange == [at |-> "write", by |-> "", status |-> None, accepted |-> None,
             received |-> None, packed |-> None, refunded |-> None,
             labels |-> {}, awards |-> {}, dead |-> {}]
Idle == [at |-> "idle"]

TypeOK ==
    /\ \A s \in Submissions :
         form[s].kind \in Kinds[s] \cup {"none"} /\ form[s].first \subseteq Lines
    /\ status \in [Rows -> Statuses]
    /\ {quantity, received, refunded, credit} \subseteq [Rows -> Units]
    /\ accepted \in [Rows -> Units \cup {Null}]
    /\ {packages, earned} \subseteq [Rows -> Nat]
    /\ labelled \subseteq Rows /\ freed \subseteq Rows
    /\ \A h \in Handlers : job[h].at \in {"idle", "create", "write", "award"}
    /\ served \in 0 .. MaxRequests

Init ==
    /\ form = [s \in Submissions |-> [kind |-> "none", first |-> {}]]
    /\ status = [r \in Rows |-> "NONE"]
    /\ quantity = [r \in Rows |-> 0]
    /\ received = [r \in Rows |-> 0]
    /\ accepted = [r \in Rows |-> Null]
    /\ refunded = [r \in Rows |-> 0]
    /\ credit = [r \in Rows |-> 0]
    /\ packages = [r \in Rows |-> 0]
    /\ earned = [r \in Rows |-> 0]
    /\ labelled = {} /\ freed = {}
    /\ job = [h \in Handlers |-> Idle]
    /\ served = 0

-----------------------------------------------------------------------------
(* f where it is defined, g elsewhere: the columns an UPDATE names.        *)
Over(f, g) == [r \in Rows |-> IF r \in DOMAIN f THEN f[r] ELSE g[r]]

RowsOf(s) == {r \in Rows : r[1] = s /\ status[r] # "NONE"}
Kind(r) == form[r[1]].kind

Live(r) == status[r] \notin Terminal \cup {"NONE"}

(* claimedReturnQuantity, returnableQuantityForLine                        *)
Claimed(l) == SumFunctionOnSet(quantity, {r \in Rows : r[2] = l /\ Live(r)})
Returnable(l) == Purchased[l] - Claimed(l)

Free(h) == job[h] = Idle /\ served < MaxRequests

Serve(h, next) ==
    /\ Free(h)
    /\ served' = served + 1
    /\ job' = [job EXCEPT ![h] = next]
    /\ UNCHANGED <<status, quantity, received, accepted, packages, labelled, freed, books>>

(* A request that has passed its checks.                                   *)
Prepare(h, by, change) ==
    /\ Serve(h, [change EXCEPT !.by = by,
                    !.dead = {r \in DOMAIN change.status : status[r] \in Terminal}])
    /\ UNCHANGED form

Move(S, to) == [NoChange EXCEPT !.status = All(S, to)]

-----------------------------------------------------------------------------
(* The first status: the questionnaire of a used item decides on its own.  *)
Outcomes(kind) ==
    IF kind = "STANDARD" THEN {"REQUESTED"}
    ELSE {"APPROVED", "ELIGIBILITY_REVIEW", "ELIGIBILITY_REJECTED"}

(* createForUser: all selected lines must have the units ...               *)
Create(h, s, kind, want, outcome) ==
    /\ form[s].kind = "none"
    /\ DOMAIN want # {}
    /\ \A l \in DOMAIN want : want[l] <= Returnable(l)
    /\ form' = [form EXCEPT ![s].kind = kind]
    /\ Serve(h, [at |-> "create", sub |-> s, want |-> want, outcome |-> outcome,
                 todo |-> DOMAIN want])

(* Fault: the lines are not counted again. *)
FitsAsBefore(l, units) == units <= Purchased[l]

StillFits(l, units) == units <= Returnable(l)

(* ... and each gets a row in a transaction of its own that locks the      *)
(* order line and counts again; the first refusal ends the request.        *)
CreateLine(h, l) ==
    /\ job[h].at = "create" /\ l \in job[h].todo
    /\ LET s == job[h].sub
           rest == job[h].todo \ {l}
           fresh == job[h].outcome[l]
       IN  IF StillFits(l, job[h].want[l])
           THEN /\ status' = [status EXCEPT ![<<s, l>>] = fresh]
                /\ quantity' = [quantity EXCEPT ![<<s, l>>] = job[h].want[l]]
                /\ freed' = IF fresh \in Terminal THEN freed \cup {<<s, l>>} ELSE freed
                /\ form' = IF form[s].first = {} THEN [form EXCEPT ![s].first = {l}]
                           ELSE form
                /\ job' = [job EXCEPT ![h] =
                             IF rest = {} THEN Idle ELSE [@ EXCEPT !.todo = rest]]
           ELSE /\ job' = [job EXCEPT ![h] = Idle]
                /\ UNCHANGED <<form, status, quantity, freed>>
    /\ UNCHANGED <<received, accepted, packages, labelled, books, served>>

-----------------------------------------------------------------------------
(* The buyer.  Both requests look at the first row alone and write all.    *)
First(s, places) ==
    \E l \in form[s].first : status[<<s, l>>] \in places

(* submitCustomerUspsShipment                                              *)
Ship(h, s) ==
    /\ form[s].kind = "REFURBISHMENT"
    /\ First(s, {"APPROVED", "LABEL_GENERATED"})
    /\ Prepare(h, "ship", Move(RowsOf(s), "IN_TRANSIT"))

(* cancelByUser                                                            *)
CancelByUser(h, s) ==
    /\ First(s, {"APPROVED", "ELIGIBILITY_REVIEW", "REQUESTED"})
    /\ Prepare(h, "cancel", Move(RowsOf(s), "CANCELLED"))

-----------------------------------------------------------------------------
(* The staff.                                                              *)
(* reviewEligibility of some or all rows that await it                     *)
ReviewEligibility(h, s, S) ==
    /\ form[s].kind = "REFURBISHMENT"
    /\ S # {} /\ S \subseteq {r \in RowsOf(s) : status[r] = "ELIGIBILITY_REVIEW"}
    /\ \E to \in {"APPROVED", "ELIGIBILITY_REJECTED"} : Prepare(h, "review", Move(S, to))

(* generateReturnLabel: one prepaid envelope per order.  Refurbishment     *)
(* returns get none.                                                       *)
GenerateReturnLabel(h, r) ==
    /\ Kind(r) = "STANDARD" /\ status[r] \in {"APPROVED", "LABEL_GENERATED"}
    /\ labelled = {} \/ r \in labelled
    /\ Prepare(h, "label", [Move({r}, "LABEL_GENERATED") EXCEPT !.labels = {r}])

(* receivePackage, also as the part of updateStatus that receives all that *)
(* remains: units[r] of each row listed have come in.                      *)
Receivable(r) ==
    /\ Kind(r) = "STANDARD"
    /\ status[r] \in {"REQUESTED", "RECEIVED", "UNDER_INSPECTION"}

(* Fault: a package is taken for the rest of the row. *)
AllReceived(r, units) == quantity[r]

NowReceived(r, units) == received[r] + units

ReceivePackage(h, s, units) ==
    /\ DOMAIN units # {} /\ DOMAIN units \subseteq RowsOf(s)
    /\ \A r \in DOMAIN units : Receivable(r) /\ units[r] <= quantity[r] - received[r]
    /\ LET total == [r \in DOMAIN units |-> NowReceived(r, units[r])]
           full == {r \in DOMAIN units :
                      total[r] >= quantity[r] /\ status[r] = "REQUESTED"}
       IN  Prepare(h, "receive", [Move(full, "RECEIVED") EXCEPT !.received = total,
                                                                !.packed = units])

(* updateStatus to UNDER_INSPECTION of a standard return: the rows of      *)
(* which something has come in                                             *)
StartInspection(h, s) ==
    /\ form[s].kind = "STANDARD"
    /\ LET S == {r \in RowsOf(s) : received[r] > 0 /\ status[r] \in {"REQUESTED", "RECEIVED"}}
       IN  S # {} /\ Prepare(h, "start", Move(S, "UNDER_INSPECTION"))

(* What updateStatus allows: STANDARD_TRANSITIONS but for the statuses     *)
(* that ReceivePackage and StartInspection see to, REFURB_TRANSITIONS.     *)
RefurbTransitions(from) ==
    CASE from = "ELIGIBILITY_REVIEW" -> {"APPROVED", "ELIGIBILITY_REJECTED", "REJECTED"}
      [] from = "APPROVED" -> {"IN_TRANSIT", "CANCELLED", "REJECTED"}
      [] from = "LABEL_GENERATED" -> {"IN_TRANSIT", "RECEIVED", "REJECTED"}
      [] from = "IN_TRANSIT" -> {"RECEIVED", "REJECTED"}
      [] from = "RECEIVED" -> {"UNDER_INSPECTION"}
      [] from = "UNDER_INSPECTION" -> {"INSPECTION_APPROVED", "INSPECTION_REJECTED"}
      [] OTHER -> {}

(* Fault: any decision may be taken back. *)
MayReopen(r, to) ==
    /\ status[r] # "NONE"
    /\ Kind(r) = "REFURBISHMENT" /\ to \in {"APPROVED", "IN_TRANSIT", "RECEIVED"}

MayBecome(r, to) ==
    \/ Kind(r) = "REFURBISHMENT" /\ to \in RefurbTransitions(status[r])
    \/ Kind(r) = "STANDARD" /\ status[r] = "UNDER_INSPECTION" /\ to \in {"APPROVED", "REJECTED"}

(* Statuses of the parcel take along the rows in the same status.          *)
Companions(r, to) ==
    IF Kind(r) = "REFURBISHMENT" /\ to \in {"APPROVED", "IN_TRANSIT", "RECEIVED", "UNDER_INSPECTION"}
    THEN {q \in RowsOf(r[1]) : status[q] = status[r]} ELSE {r}

(* updateStatus: a request that decides on a row may name the accepted     *)
(* units; else (Null) they are left to it.  A used return that passes is   *)
(* then awarded.                                                           *)
UpdateStatus(h, r, to, units) ==
    /\ MayBecome(r, to)
    /\ units = Null \/ status[r] = "UNDER_INSPECTION"
    /\ LET S == Companions(r, to)
           count == CASE units # Null -> All(S, units)
                      [] units = Null /\ Kind(r) = "STANDARD" ->
                           All({r}, IF to = "APPROVED" THEN quantity[r] ELSE 0)
                      [] OTHER -> None
       IN  Prepare(h, "update", [Move(S, to) EXCEPT !.accepted = count,
                     !.awards = IF to = "INSPECTION_APPROVED" THEN {r} ELSE {}])

(* inspectLine: a draft, or a decision, which may be taken again.          *)
InspectLine(h, r, units, complete) ==
    /\ Kind(r) = "STANDARD" /\ units \in 0 .. received[r] /\ received[r] > 0
    /\ status[r] \in {"REQUESTED", "RECEIVED", "UNDER_INSPECTION", "APPROVED", "REJECTED"}
    /\ refunded[r] = 0
    /\ LET S == IF complete \/ status[r] \in {"REQUESTED", "RECEIVED"} THEN {r} ELSE {}
           to == IF ~complete THEN "UNDER_INSPECTION"
                 ELSE IF units > 0 THEN "APPROVED" ELSE "REJECTED"
       IN  Prepare(h, "inspect", [Move(S, to) EXCEPT !.accepted = All({r}, units)])

(* inspectRefurbLine: nothing is ever received of a used return, so all    *)
(* its units are up for inspection.                                        *)
InspectRefurbLine(h, r, units, complete) ==
    /\ Kind(r) = "REFURBISHMENT" /\ units \in 0 .. quantity[r]
    /\ status[r] \in {"RECEIVED", "UNDER_INSPECTION"}
    /\ credit[r] = 0
    /\ LET S == IF complete \/ status[r] = "RECEIVED" THEN {r} ELSE {}
           to == IF ~complete THEN "UNDER_INSPECTION"
                 ELSE IF units > 0 THEN "INSPECTION_APPROVED" ELSE "INSPECTION_REJECTED"
       IN  Prepare(h, "refurb", [Move(S, to) EXCEPT !.accepted = All({r}, units),
                     !.awards = IF to = "INSPECTION_APPROVED" THEN {r} ELSE {}])

(* processRefund of one row, as far as the row is concerned                *)
ProcessRefund(h, r) ==
    /\ Kind(r) = "STANDARD" /\ status[r] = "APPROVED"
    /\ accepted[r] > 0 /\ refunded[r] = 0
    /\ Prepare(h, "refund", [NoChange EXCEPT !.refunded = All({r}, accepted[r])])

-----------------------------------------------------------------------------
(* The transaction of a request: the refund alone looks again.             *)
Write(h) ==
    /\ job[h].at = "write"
    /\ status' = Over(job[h].status, status)
    /\ accepted' = Over(job[h].accepted, accepted)
    /\ received' = Over(job[h].received, received)
    /\ packages' = [r \in Rows |-> packages[r] +
                      IF r \in DOMAIN job[h].packed THEN job[h].packed[r] ELSE 0]
    /\ refunded' = [r \in Rows |-> IF refunded[r] = 0 /\ r \in DOMAIN job[h].refunded
                                   THEN job[h].refunded[r] ELSE refunded[r]]
    /\ labelled' = labelled \cup job[h].labels
    /\ freed' = freed \cup {r \in Rows : status'[r] \in Terminal}
    /\ job' = [job EXCEPT ![h] = IF job[h].awards = {} THEN Idle
                                 ELSE [at |-> "award", rows |-> job[h].awards]]
    /\ UNCHANGED <<form, quantity, credit, earned, served>>

(* awardRefurbStoreCredit, one for a unit: the row is locked, and the      *)
(* wallet takes nothing twice under the row's sourceKey.                   *)
Award(h) ==
    /\ job[h].at = "award"
    /\ \E r \in job[h].rows :
         LET amount == IF accepted[r] # Null THEN accepted[r] ELSE quantity[r]
         IN  IF credit[r] = 0 /\ earned[r] = 0
             THEN /\ credit' = [credit EXCEPT ![r] = amount]
                  /\ earned' = [earned EXCEPT ![r] = amount]
             ELSE UNCHANGED <<credit, earned>>
    /\ job' = [job EXCEPT ![h] = Idle]
    /\ UNCHANGED <<form, status, quantity, received, accepted, packages, refunded,
                   labelled, freed, served>>

(* The process dies, or the transaction fails, when some of the request is *)
(* done.  Before, it is as if the request had not come.                    *)
Die(h) ==
    /\ job[h].at \in {"create", "award"}
    /\ job' = [job EXCEPT ![h] = Idle]
    /\ UNCHANGED <<form, status, quantity, received, accepted, packages, labelled, freed,
                   books, served>>

Selections == UNION {[S -> Units \ {0}] : S \in SUBSET Lines}

Buyer(h) == Free(h) /\ \E s \in Submissions :
    \/ \E kind \in Kinds[s], want \in Selections :
         \E outcome \in [DOMAIN want -> Outcomes(kind)] : Create(h, s, kind, want, outcome)
    \/ Ship(h, s)
    \/ CancelByUser(h, s)

Staff(h) == Free(h) /\ \E s \in Submissions :
    \/ \E S \in SUBSET RowsOf(s) :
         \/ ReviewEligibility(h, s, S)
         \/ \E units \in [S -> Units \ {0}] : ReceivePackage(h, s, units)
    \/ StartInspection(h, s)
    \/ \E r \in RowsOf(s) :
         \/ GenerateReturnLabel(h, r)
         \/ ProcessRefund(h, r)
         \/ \E to \in Statuses, units \in 0 .. quantity[r] \cup {Null} :
              UpdateStatus(h, r, to, units)
         \/ \E units \in Units, complete \in BOOLEAN :
              InspectLine(h, r, units, complete) \/ InspectRefurbLine(h, r, units, complete)

Next == \E h \in Handlers :
    \/ Buyer(h) \/ Staff(h)
    \/ \E l \in Lines : CreateLine(h, l)
    \/ Write(h) \/ Award(h) \/ Die(h)

Spec == Init /\ [][Next]_vars

-----------------------------------------------------------------------------
(* The rows of a line that were never turned down or cancelled.            *)
Held(l) == {r \in Rows : r[2] = l /\ status[r] # "NONE" /\ r \notin freed}

(* Units of each row that were refunded or are store credit in the wallet. *)
PaidBack == [r \in Rows |-> refunded[r] + earned[r]]

(* However requests for returns overlap, these rows claim no more units of *)
(* a line than were bought: the creation counts under the lock of the line *)
(* (WS-A5).  And what they pay back, as refunds and as store credit in the *)
(* wallet, is for no more, whoever inspects, decides, refunds and awards   *)
(* at once.                                                                *)
ClaimsArePaidOnce ==
    /\ TypeOK
    /\ \A l \in Lines :
        /\ SumFunctionOnSet(quantity, Held(l)) <= Purchased[l]
        /\ SumFunctionOnSet(PaidBack, Held(l)) <= Purchased[l]

(* A row that was turned down or cancelled comes back to life in three     *)
(* ways only: by a request that read it before; by a second inspection;    *)
(* by the shipment of its submission, which looks at the first row alone   *)
(* and takes the rejected ones along.                                      *)
Revived == {r \in Rows : status[r] \in Terminal /\ status[r]' \notin Terminal}

OnlyKnownRevivals ==
    [][\A r \in Revived : \E h \in Handlers :
         /\ job[h].at = "write" /\ r \in DOMAIN job[h].status
         /\ r \notin job[h].dead \/ job[h].by \in {"inspect", "ship"}]_vars

(* The units on record as received never exceed those that came in         *)
(* packages, nor those the return is for, although each package writes the *)
(* count it has read plus its own.                                         *)
ReceivedInPackages ==
    \A r \in Rows : received[r] <= packages[r] /\ received[r] <= quantity[r]
=============================================================================
