----------------------------- MODULE Refurbish -----------------------------
(***************************************************************************)
(* Returned units on their way to the refurbished listing of their product:  *)
(* one job for each return, the listing that jobs, scans and staff fill, and *)
(* the unit of each return (services/refurbishment.service.js,               *)
(* services/refurb-product-listing.service.js, refurbMoveByScan of services/ *)
(* inventory-scan.service.js).  The source has one size here.  A listing of   *)
(* stock is found, then written: no transaction of this database keeps the    *)
(* row between the two.                                                      *)
(***************************************************************************)
EXTENDS Desk, Functions

CONSTANTS Jobs, MaxListed   \* MaxListed bounds what staff put in the listing

ASSUME RefurbishAssumption == IsFiniteSet(Jobs) /\ MaxListed \in Nat

VARIABLES
    aged,      \* the source names a canonical age: its listing is not a draft
    listing,   \* the refurbished Product row of the source
    job,       \* RefurbishmentJob.status
    unit,      \* ProductUnit.status of the unit that came back
    opened,    \* history: units that staff put in the listing
    moved,     \* history: units that scans moved there
    placed,    \* history: units that each job put there
    shelved,   \* history: jobs that found a listing that is not active
    lost,      \* history: the listing changed between a job's read and its write
    torn       \* history: jobs that two updates worked on at once

refurbish == <<aged, listing, job, unit, opened, moved, placed, shelved, lost, torn>>

Transitions ==
    [RECEIVED |-> {"INSPECTION", "CANCELLED"},
     INSPECTION |-> {"CLEANING", "IN_PROGRESS", "CANCELLED"},
     CLEANING |-> {"IRONING", "REPAIR", "IN_PROGRESS", "CANCELLED"},
     IRONING |-> {"REPAIR", "IN_PROGRESS", "QA_APPROVED", "CANCELLED"},
     REPAIR |-> {"IN_PROGRESS", "QA_APPROVED", "CANCELLED"},
     IN_PROGRESS |-> {"QA_APPROVED", "CANCELLED"},
     QA_APPROVED |-> {"LISTED", "CANCELLED"},
     LISTED |-> {}, CANCELLED |-> {}]

UnitStatus(status, old) ==
    CASE status = "INSPECTION" -> "INSPECTION"
      [] status \in {"CLEANING", "IRONING", "REPAIR", "IN_PROGRESS"} -> "REFURBISHING"
      [] status = "QA_APPROVED" -> "QA_HOLD"
      [] status = "LISTED" -> "AVAILABLE_REFURB"
      [] OTHER -> old

RefurbishInit ==
    /\ aged \in BOOLEAN
    /\ listing = [state |-> "none", stock |-> 0]
    /\ job = [j \in Jobs |-> "IN_PROGRESS"] /\ unit = [j \in Jobs |-> "REFURBISHING"]
    /\ opened = 0 /\ moved = 0 /\ placed = [j \in Jobs |-> 0]
    /\ shelved = {} /\ lost = FALSE /\ torn = {}

-----------------------------------------------------------------------------
(* updateStatus: the transition is checked on the job as read.               *)
Working(j) == \E h \in Doing({"job"}) : req[h].read.job = j

ChangeJob(h) ==
    \E j \in Jobs, next \in DOMAIN Transitions :
        /\ next \in Transitions[job[j]]
        /\ Begin(h, "job", IF next = "LISTED" THEN <<"find", "list", "status", "units">>
                           ELSE <<"status", "units">>,
                 [job |-> j, next |-> next])
        /\ torn' = IF Working(j) THEN torn \cup {j} ELSE torn
        /\ UNCHANGED <<aged, listing, job, unit, opened, moved, placed, shelved, lost>>

FindListing(h) ==
    /\ At(h, "find")
    /\ GoOn(h, Tail(req[h].todo), [job |-> req[h].read.job, next |-> "LISTED",
                                   found |-> listing])
    /\ UNCHANGED refurbish

(* Fault: the units replace those of the listing.                           *)
Replaced(found, n, draft) ==
    CASE found.state = "active" -> [found EXCEPT !.stock = n]
      [] found.state = "draft" -> found
      [] OTHER -> [state |-> IF draft THEN "draft" ELSE "active", stock |-> n]

(* listOrRestockRefurbForSourceInTx of n units: an active listing gets them, *)
(* as an absolute number; one that is not active is returned as it is; with   *)
(* none, one is created, which the unique SKU allows once.                    *)
Listed(found, n, draft) ==
    CASE found.state = "active" -> [found EXCEPT !.stock = @ + n]
      [] found.state = "draft" -> found
      [] OTHER -> [state |-> IF draft THEN "draft" ELSE "active", stock |-> n]
Barred(found) == found.state = "none" /\ listing.state # "none"

ListUnit(h) ==
    LET read == req[h].read
        written == Listed(read.found, 1, ~ aged)
    IN  /\ At(h, "list")
        /\ IF Barred(read.found)
           THEN Stop(h) /\ UNCHANGED refurbish
           ELSE /\ Proceed(h)
                /\ listing' = IF read.found.state = "draft" THEN listing ELSE written
                /\ placed' = [placed EXCEPT ![read.job] =
                                @ + IF read.found.state = "draft" THEN 0 ELSE 1]
                /\ unit' = [unit EXCEPT ![read.job] =
                              IF read.found.state = "draft" THEN @ ELSE "AVAILABLE_REFURB"]
                /\ shelved' = IF read.found.state = "draft" THEN shelved \cup {read.job} ELSE shelved
                /\ lost' = (lost \/ listing # read.found)
                /\ UNCHANGED <<aged, job, opened, moved, torn>>

SetStatus(h) ==
    LET read == req[h].read
    IN  /\ At(h, "status") /\ Proceed(h)
        /\ job' = [job EXCEPT ![read.job] = read.next]
        /\ UNCHANGED <<aged, listing, unit, opened, moved, placed, shelved, lost, torn>>

TransitionUnits(h) ==
    LET read == req[h].read
    IN  /\ At(h, "units") /\ Proceed(h)
        /\ unit' = [unit EXCEPT ![read.job] = UnitStatus(read.next, @)]
        /\ UNCHANGED <<aged, listing, job, opened, moved, placed, shelved, lost, torn>>

-----------------------------------------------------------------------------
(* createRefurbFromSource: staff open the listing with n units, as a draft   *)
(* if they say so; an existing one is only opened for edit when the draft    *)
(* would have none.                                                          *)
OpenListing(h) ==
    \E n \in 0 .. MaxListed, draft \in BOOLEAN :
        LET asDraft == draft \/ ~ aged
            qty == IF n = 0 /\ ~ asDraft THEN 1 ELSE n
        IN  /\ Begin(h, "open", <<"create">>, [qty |-> qty, draft |-> asDraft, found |-> listing])
            /\ UNCHANGED refurbish

CreateListing(h) ==
    LET read == req[h].read
        written == Listed(read.found, read.qty, read.draft)
    IN  /\ At(h, "create") /\ Proceed(h)
        /\ IF Barred(read.found) \/ (read.draft /\ read.qty = 0 /\ read.found.state # "none")
              \/ read.found.state = "draft"
           THEN UNCHANGED refurbish
           ELSE /\ listing' = written
                /\ opened' = opened + read.qty
                /\ lost' = (lost \/ listing # read.found)
                /\ UNCHANGED <<aged, job, unit, moved, placed, shelved, torn>>

(* Staff finish the draft and activate it, with the stock they give it.      *)
PublishListing(h) ==
    \E n \in 1 .. MaxListed :
        /\ listing.state = "draft"
        /\ Begin(h, "open", <<>>, {})
        /\ listing' = [state |-> "active", stock |-> n]
        /\ opened' = opened + n - listing.stock
        /\ UNCHANGED <<aged, job, unit, moved, placed, shelved, lost, torn>>

(* refurbMoveByScan: the restock is relative; nothing remembers that the     *)
(* return was moved.                                                         *)
MoveByScan(h) ==
    /\ listing.state # "none"
    /\ Begin(h, "move", <<>>, {})
    /\ listing' = [listing EXCEPT !.stock = @ + 1]
    /\ moved' = moved + 1
    /\ UNCHANGED <<aged, job, unit, opened, placed, shelved, lost, torn>>

-----------------------------------------------------------------------------
RefurbishStep(h) ==
    \/ ChangeJob(h) \/ FindListing(h) \/ ListUnit(h) \/ SetStatus(h) \/ TransitionUnits(h)
    \/ OpenListing(h) \/ CreateListing(h) \/ PublishListing(h) \/ MoveByScan(h)

-----------------------------------------------------------------------------
(* The refurbished listing holds what staff, jobs and scans put into it,     *)
(* unless one wrote it as another had not yet; and as long as no job was      *)
(* changed under another's feet or stopped midway, a job that is LISTED put   *)
(* one unit there, or found the listing not active, one that is not listed    *)
(* nor about to be put none there, and its unit is for sale only if listed.   *)
ListingAddsUp ==
    /\ ~ lost => listing.stock = opened + moved + SumFunctionOnSet(placed, Jobs)
    /\ "job" \notin crashed => \A j \in Jobs \ torn :
         /\ job[j] = "LISTED" => placed[j] = 1 \/ j \in shelved
         /\ ~ Working(j) /\ job[j] # "LISTED" => placed[j] = 0 /\ unit[j] # "AVAILABLE_REFURB"
=============================================================================
