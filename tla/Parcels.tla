------------------------------- MODULE Parcels -------------------------------
(***************************************************************************)
(* The parcel of a used return: the prepaid package the buyer asks for and    *)
(* staff approve and send, the shipment the buyer reports, and the day until  *)
(* which staff expect it (services/return-package-request.service.js, and      *)
(* submitCustomerUspsShipment and keepWaiting of services/returns.service.js). *)
(* One order with one return; every request writes the deadline on all rows of *)
(* the submission alike, so one record stands for them.                       *)
(***************************************************************************)
EXTENDS Desk, FiniteSetsExt

CONSTANTS
    Window,        \* REFURB_SHIP_DEADLINE_DAYS
    LastDay        \* days in a behaviour

ASSUME ParcelsAssumption == Window \in Nat \ {0} /\ LastDay \in Nat

VARIABLES
    package,       \* ReturnPackageRequest rows of the order, oldest first
    envelopeUsed,  \* Order.returnEnvelopeUsed
    sub,           \* the submission: its status, shipByDeadline and keepWaitingUntil
    day,           \* today
    reopened,      \* history: package requests that staff set back to an open status
    anchor         \* history: the day the deadline in force is counted from

parcels == <<package, envelopeUsed, sub, day, reopened, anchor>>

Unset == -1
Open == {"REQUESTED", "APPROVED"}
PackageStatuses == Open \cup {"REJECTED", "SENT"}

ParcelsInit ==
    /\ package = <<>> /\ envelopeUsed \in BOOLEAN
    /\ sub = [status |-> "APPROVED", due |-> Unset, wait |-> Unset]
    /\ day = 1 /\ reopened = {} /\ anchor = Unset

(* refurbShipByDeadline                                                      *)
ShipByDeadline(from) == from + Window

-----------------------------------------------------------------------------
HasOpen == \E p \in DOMAIN package : package[p].status \in Open

(* createForUser: a request for the return, or for the order once its         *)
(* envelope is used; none while another is open.                             *)
AskPackage(h) ==
    \E linked \in BOOLEAN :
        /\ linked \/ envelopeUsed
        /\ ~ HasOpen
        /\ Begin(h, "package", <<"request">>, [linked |-> linked])
        /\ UNCHANGED parcels

CreatePackage(h) ==
    /\ At(h, "request") /\ Stop(h)
    /\ package' = Append(package, [status |-> "REQUESTED", linked |-> req[h].read.linked,
                                   dispatched |-> Unset])
    /\ UNCHANGED <<envelopeUsed, sub, day, reopened, anchor>>

(* updateStatus: any status from any, with a day of dispatch, or today's when  *)
(* it is sent and had none.                                                  *)
SetPackage(h) ==
    \E p \in DOMAIN package, status \in PackageStatuses, given \in {Unset, day} :
        /\ Begin(h, "desk", <<"set">>,
                 [which |-> p, status |-> status,
                  dispatch |-> IF given = Unset /\ status = "SENT"
                                  /\ package[p].dispatched = Unset THEN day ELSE given])
        /\ UNCHANGED parcels

(* Sending it gives the submission a new deadline, from the dispatch written   *)
(* here or else from now, and ends any wait.                                 *)
WritePackage(h) ==
    LET read == req[h].read
        from == IF read.dispatch = Unset THEN day ELSE read.dispatch
        sent == read.status = "SENT" /\ package[read.which].linked
    IN  /\ At(h, "set") /\ Stop(h)
        /\ package' = [package EXCEPT
              ![read.which].status = read.status,
              ![read.which].dispatched = IF read.dispatch = Unset THEN @ ELSE read.dispatch]
        /\ sub' = IF sent THEN [sub EXCEPT !.due = ShipByDeadline(from), !.wait = Unset] ELSE sub
        /\ anchor' = IF sent THEN from ELSE anchor
        /\ reopened' = IF read.status \in Open /\ package[read.which].status \notin Open
                       THEN reopened \cup {read.which} ELSE reopened
        /\ UNCHANGED <<envelopeUsed, day>>

-----------------------------------------------------------------------------
(* submitCustomerUspsShipment: the buyer gives the day they shipped, which     *)
(* may be past.                                                              *)
ReportShipment(h) ==
    \E shipped \in {1, day} :
        /\ sub.status \in {"APPROVED", "LABEL_GENERATED"}
        /\ Begin(h, "shipment", <<"ship">>, [shipped |-> shipped])
        /\ UNCHANGED parcels

WriteShipment(h) ==
    LET shipped == req[h].read.shipped
    IN  /\ At(h, "ship") /\ Stop(h)
        /\ sub' = [status |-> "IN_TRANSIT", due |-> ShipByDeadline(shipped), wait |-> Unset]
        /\ anchor' = shipped
        /\ UNCHANGED <<package, envelopeUsed, day, reopened>>

ActiveDeadline(row) == IF row.wait # Unset THEN row.wait ELSE row.due
Extended(row) == ShipByDeadline(ActiveDeadline(row))

(* keepWaiting: only once the day expected has passed                         *)
KeepWaiting(h) ==
    /\ sub.status \in {"APPROVED", "IN_TRANSIT"}
    /\ ActiveDeadline(sub) # Unset /\ day > ActiveDeadline(sub)
    /\ Begin(h, "wait", <<"extend">>, [until |-> Extended(sub)])
    /\ UNCHANGED parcels

WriteWait(h) ==
    /\ At(h, "extend") /\ Stop(h)
    /\ sub' = [sub EXCEPT !.wait = req[h].read.until]
    /\ UNCHANGED <<package, envelopeUsed, day, reopened, anchor>>

(* getPackageRequestForSubmission: the last package of this return that was    *)
(* not turned down, or else the last such one of its order                   *)
Newest(packages) == IF packages = {} THEN 0 ELSE Max(packages)
PackageShown ==
    LET live == {p \in DOMAIN package : package[p].status # "REJECTED"}
        own == {p \in live : package[p].linked}
    IN  Newest(IF own # {} THEN own ELSE live)

(* The next day comes.                                                       *)
Dawn(h) ==
    /\ day < LastDay /\ Begin(h, "dawn", <<>>, {})
    /\ day' = day + 1
    /\ UNCHANGED <<package, envelopeUsed, sub, reopened, anchor>>

ParcelsStep(h) ==
    \/ AskPackage(h) \/ CreatePackage(h) \/ SetPackage(h) \/ WritePackage(h)
    \/ ReportShipment(h) \/ WriteShipment(h) \/ KeepWaiting(h) \/ WriteWait(h) \/ Dawn(h)

-----------------------------------------------------------------------------
(* One package request of an order is open at a time, unless two were created *)
(* at once or staff set one back ("This order already has an open prepaid      *)
(* package request"), and it is the one shown with the return, unless one sent  *)
(* for this return hides one asked for the order.  The day a return is expected *)
(* is its window after the last dispatch or shipment, prolonged by whole        *)
(* windows, each only once the one before had passed, unless a wait overlapped  *)
(* what set the deadline.                                                    *)
ParcelsAreAwaited ==
    /\ Apart("package", "package") /\ reopened = {} =>
          /\ Cardinality({p \in DOMAIN package : package[p].status \in Open}) <= 1
          /\ HasOpen => \/ package[PackageShown].status \in Open
                        \/ package[PackageShown].linked /\ package[PackageShown].status = "SENT"
    /\ sub.wait # Unset => sub.wait - Window < day
    /\ Apart("wait", "desk") /\ Apart("wait", "shipment") =>
          /\ sub.due # Unset => sub.due = ShipByDeadline(anchor)
          /\ sub.wait # Unset => sub.wait > sub.due /\ (sub.wait - sub.due) % Window = 0
=============================================================================
