------------------------------- MODULE Triage -------------------------------
(***************************************************************************)
(* The lists the returns desk works from: the inspection queue that a clerk   *)
(* walks one line at a time, the pages of the return list, and the counts in   *)
(* the header, while other requests move the lines on and new returns come in  *)
(* (getTriageCursor, listAll, getAdminListStats and what they show of a        *)
(* submission, services/returns.service.js).  How requests that move one line  *)
(* overlap is in Returns; here a move is one step.                            *)
(***************************************************************************)
EXTENDS Desk, SequencesExt

CONSTANTS
    SubOf,      \* the submission of each line; both numbered in the order they come in
    Desks,      \* the types and statuses of the lines a behaviour may begin with
    Filters,    \* the sets of statuses the list may be filtered by
    Limit       \* submissions on a page

VARIABLES
    type,     \* ReturnRequest.type of these returns
    line,     \* the status of each line, and whether units of it are still to come
    walk,     \* the clerk: the stage, the line shown, its captured neighbour, and what was seen
    reading   \* the reader of the list: filter, pages read, and what was shown of what

triage == <<type, line, walk, reading>>

Lines == DOMAIN SubOf
Subs == Range(SubOf)
RowsIn(s) == {l \in Lines : SubOf[l] = s}
None == 0

(* STANDARD_TRANSITIONS and REFURB_TRANSITIONS                               *)
ReturnTransitions ==
    [STANDARD |->
        [REQUESTED |-> {"RECEIVED", "UNDER_INSPECTION"}, RECEIVED |-> {"UNDER_INSPECTION"},
         UNDER_INSPECTION |-> {"APPROVED", "REJECTED"}, APPROVED |-> {}, REJECTED |-> {}],
     REFURBISHMENT |->
        [ELIGIBILITY_REVIEW |-> {"APPROVED", "ELIGIBILITY_REJECTED", "REJECTED"},
         APPROVED |-> {"IN_TRANSIT", "CANCELLED", "REJECTED"},
         LABEL_GENERATED |-> {"IN_TRANSIT", "RECEIVED", "REJECTED"},
         IN_TRANSIT |-> {"RECEIVED", "REJECTED"}, RECEIVED |-> {"UNDER_INSPECTION"},
         UNDER_INSPECTION |-> {"INSPECTION_APPROVED", "INSPECTION_REJECTED"},
         INSPECTION_APPROVED |-> {}, INSPECTION_REJECTED |-> {}, ELIGIBILITY_REJECTED |-> {},
         REJECTED |-> {}, CANCELLED |-> {}]]
LineStatuses == DOMAIN ReturnTransitions.STANDARD \cup DOMAIN ReturnTransitions.REFURBISHMENT

(* A submission is there with all its lines, in statuses of its type.        *)
ASSUME TriageAssumption ==
    /\ SubOf \in Seq(Nat) /\ Limit \in Nat \ {0}
    /\ \A filter \in Filters : filter \subseteq LineStatuses
    /\ \A d \in Desks :
          /\ d.type \in DOMAIN ReturnTransitions /\ DOMAIN d.line \subseteq Lines
          /\ \A l \in DOMAIN d.line :
                /\ d.line[l] \in DOMAIN ReturnTransitions[d.type]
                /\ \A m \in Lines : SubOf[m] = SubOf[l] => m \in DOMAIN d.line

FirstOf == [STANDARD |-> "REQUESTED", REFURBISHMENT |-> "ELIGIBILITY_REVIEW"]

Here == {l \in Lines : line[l].status # "none"}

NoWalk == [stage |-> "none", at |-> None, next |-> None, seen |-> {}, along |-> {}, over |-> TRUE]
NoList == [filter |-> {}, page |-> 0, shown |-> {}, along |-> {}, left |-> {}, over |-> TRUE]

TriageInit ==
    /\ \E d \in Desks :
          /\ type = d.type
          /\ line = [l \in Lines |-> IF l \in DOMAIN d.line
                                    THEN [status |-> d.line[l], short |-> d.line[l] = "REQUESTED"]
                                    ELSE [status |-> "none", short |-> TRUE]]
    /\ walk = NoWalk /\ reading = NoList

-----------------------------------------------------------------------------
(* The rows of one submission under what a list is filtered by               *)
Matching(s, filter) == {l \in RowsIn(s) : line[l].status \in filter}
OnList(filter) == {s \in Subs : Matching(s, filter) # {}}

(* What is no longer there does not count as there all along.                *)
StillThere(now) ==
    /\ walk' = [walk EXCEPT !.along = {l \in @ : now[l].status = line[l].status}]
    /\ reading' = [reading EXCEPT !.left = @ \cup
                      {s \in OnList(reading.filter) : \A l \in RowsIn(s) : now[l].status \notin reading.filter}]

(* A line is moved on, alone or with the lines of its submission that are in   *)
(* the same status; what is received is all there.                           *)
Companions(l) == {m \in RowsIn(SubOf[l]) : line[m].status = line[l].status}
LinesMoved(rows, to) ==
    [m \in Lines |-> IF m \in rows THEN [status |-> to, short |-> line[m].short /\ to # "RECEIVED"]
                     ELSE line[m]]

Move(h) ==
    \E l \in Here : \E to \in ReturnTransitions[type][line[l].status], rows \in {{l}, Companions(l)} :
        /\ Begin(h, "advance", <<>>, {})
        /\ line' = LinesMoved(rows, to) /\ StillThere(LinesMoved(rows, to))
        /\ UNCHANGED type

(* bulkMarkReceived takes the lines one by one and goes on after a refusal.   *)
BulkReceive(h) ==
    \E ids \in {S \in SUBSET Here : Cardinality(S) = 2} :
        /\ type = "REFURBISHMENT"
        /\ Begin(h, "bulk", <<"receive">>, [ids |-> ids])
        /\ UNCHANGED triage

ReceiveNext(h) ==
    /\ At(h, "receive")
    /\ \E l \in req[h].read.ids :
        LET rest == req[h].read.ids \ {l}
            moves == "RECEIVED" \in ReturnTransitions[type][line[l].status]
            now == IF moves THEN LinesMoved(Companions(l), "RECEIVED") ELSE line
        IN  /\ GoOn(h, IF rest = {} THEN <<>> ELSE <<"receive">>, [ids |-> rest])
            /\ line' = now /\ StillThere(now)
    /\ UNCHANGED type

(* The next return comes in, all its lines at once.                          *)
Arrive(h) ==
    \E s \in Subs :
        /\ RowsIn(s) \cap Here = {} /\ \A r \in Subs : r < s => RowsIn(r) \subseteq Here
        /\ Begin(h, "arrive", <<>>, {})
        /\ line' = [l \in Lines |-> IF l \in RowsIn(s)
                                    THEN [status |-> FirstOf[type], short |-> TRUE] ELSE line[l]]
        /\ UNCHANGED <<type, walk, reading>>

-----------------------------------------------------------------------------
(* getTriageCursor: the lines of the stage in the order they came in.  Every   *)
(* such line is visible to staff (isRefurbVisibleToAdmin).                    *)
StageStatuses ==
    [eligibility |-> {"ELIGIBILITY_REVIEW"}, receive |-> {"IN_TRANSIT", "LABEL_GENERATED"},
     physical |-> {"RECEIVED", "UNDER_INSPECTION"}]
Visible(l) == line[l].status \in DOMAIN ReturnTransitions.REFURBISHMENT \ {"ELIGIBILITY_REJECTED",
                                                                  "REJECTED", "CANCELLED"}
InOrder(members) ==
    CHOOSE rows \in [1 .. Cardinality(members) -> members] :
        \A i, j \in DOMAIN rows : i < j => rows[i] < rows[j]
StageLines(stage) ==
    {l \in Here : type = "REFURBISHMENT" /\ Visible(l) /\ line[l].status \in StageStatuses[stage]}
InStage(stage) == InOrder(StageLines(stage))

PlaceOf(rows, cursor) == SelectInSeq(rows, LAMBDA l : l = cursor)    \* 0: it is gone

(* Fault: a cursor that is no longer there ends the walk.                    *)
IndexOrEnd(rows, cursor, direction) ==
    LET at == PlaceOf(rows, cursor)
    IN  CASE cursor # None /\ at = 0 -> Len(rows) + 1
          [] at > 0 /\ direction = "next" -> at + 1
          [] at > 0 /\ direction = "current" -> at
          [] at > 0 /\ direction = "prev" /\ at > 1 -> at - 1
          [] OTHER -> 1

(* No cursor, a cursor that is gone, and before the first: the first line.    *)
Index(rows, cursor, direction) ==
    LET at == PlaceOf(rows, cursor)
    IN  CASE at > 0 /\ direction = "next" -> at + 1
          [] at > 0 /\ direction = "current" -> at
          [] at > 0 /\ direction = "prev" /\ at > 1 -> at - 1
          [] OTHER -> 1

(* The answer: the line at the index with its neighbour, or that all is done.  *)
Show(w, cursor, direction) ==
    LET rows == InStage(w.stage)
        i == Index(rows, cursor, direction)
    IN  IF i > Len(rows) THEN [w EXCEPT !.over = TRUE]
        ELSE [w EXCEPT !.at = rows[i], !.seen = @ \cup {rows[i]}, !.over = FALSE,
                       !.next = IF i < Len(rows) THEN rows[i + 1] ELSE None]

(* The clerk begins at the start of a stage, then asks for the line after or   *)
(* before the one shown, or for the neighbour captured before deciding it.    *)
Walk(h) ==
    /\ Begin(h, "look", <<>>, {})
    /\ \/ /\ walk = NoWalk
          /\ \E stage \in DOMAIN StageStatuses :
                LET start == [NoWalk EXCEPT !.stage = stage, !.along = Range(InStage(stage))]
                IN  walk' = Show(start, None, "current")
       \/ /\ ~ walk.over
          /\ \/ \E direction \in {"next", "prev"} : walk' = Show(walk, walk.at, direction)
             \/ walk' = Show(walk, walk.next, "current")
    /\ UNCHANGED <<type, line, reading>>

-----------------------------------------------------------------------------
(* deriveSubmissionStatus                                                    *)
Priority == <<"ELIGIBILITY_REVIEW", "APPROVED", "LABEL_GENERATED", "IN_TRANSIT", "RECEIVED",
              "UNDER_INSPECTION", "INSPECTION_APPROVED">>

SubmissionStatus(rows) ==
    LET statuses == {line[l].status : l \in rows}
        oldest == line[CHOOSE l \in rows : \A m \in rows : l <= m].status
        has(status) == status \in statuses
        waiting == has("REQUESTED") \/ \E l \in rows : line[l].short
    IN  IF Cardinality(statuses) = 1 THEN oldest
        ELSE IF type = "STANDARD"
        THEN CASE has("UNDER_INSPECTION") -> "UNDER_INSPECTION"
               [] ~ has("UNDER_INSPECTION") /\ (has("APPROVED") \/ has("REJECTED")) ->
                     (CASE has("RECEIVED") -> "RECEIVED"
                        [] ~ has("RECEIVED") /\ waiting -> "REQUESTED"
                        [] OTHER -> IF has("APPROVED") THEN "APPROVED" ELSE "REJECTED")
               [] OTHER -> IF has("RECEIVED") /\ ~ waiting THEN "RECEIVED" ELSE "REQUESTED"
        ELSE LET live == {i \in DOMAIN Priority : has(Priority[i])}
             IN  IF live = {} THEN oldest ELSE Priority[CHOOSE i \in live : \A j \in live : i <= j]

(* The groups on a page, the newest first, and whether it is the last         *)
Newer(list, s) == {t \in list : t >= s}
Page(filter, page) ==
    LET list == OnList(filter)
    IN  [subs |-> {s \in list : Cardinality(Newer(list, s)) \in (page - 1) * Limit + 1 .. page * Limit},
         last |-> page * Limit >= Cardinality(list)]

(* What is shown of a submission (buildReturnSubmission): its rows, its status, *)
(* and the lines of which units are still to come                            *)
Submission(rows) ==
    [sub |-> SubOf[CHOOSE l \in rows : TRUE], items |-> rows, status |-> SubmissionStatus(rows),
     remaining |-> {l \in rows : line[l].short}]

(* The rows that an id stands for.  A line's own id, the number that only the   *)
(* first line of a submission has, and the submission's id are all accepted:    *)
(* rows that carry the id are looked up, and one alone leads to the others.    *)
ReturnIds == [what : {"line"}, of : Here] \cup [what : {"number", "submission"}, of : {SubOf[l] : l \in Here}]
Carrying(id) ==
    CASE id.what = "line" -> {id.of}
      [] id.what = "number" -> {CHOOSE l \in RowsIn(id.of) : \A m \in RowsIn(id.of) : l <= m}
      [] OTHER -> RowsIn(id.of)

RowsOf(id) ==
    LET rows == Carrying(id)
    IN  IF Cardinality(rows) = 1 THEN UNION {RowsIn(SubOf[l]) : l \in rows} ELSE rows

(* listAll: first the groups of the page, then their rows.  A reader whose    *)
(* request dies asks for the same page again.                                *)
Read(h) ==
    /\ \E filter \in Filters :
          LET new == reading = NoList
              now == IF new THEN [NoList EXCEPT !.filter = filter, !.over = FALSE,
                                                !.along = OnList(filter)] ELSE reading
          IN  /\ new \/ (~ reading.over /\ filter = reading.filter)
              /\ Begin(h, "read", <<"rows">>, Page(now.filter, now.page + 1))
              /\ reading' = now
    /\ Doing({"read"}) = {}
    /\ UNCHANGED <<type, line, walk>>

ReadRows(h) ==
    /\ At(h, "rows") /\ Stop(h)
    /\ reading' = [reading EXCEPT !.page = @ + 1,
          !.shown = @ \cup {Submission(Matching(s, reading.filter)) :
                              s \in {t \in req[h].read.subs : Matching(t, reading.filter) # {}}},
          !.over = req[h].read.last]
    /\ UNCHANGED <<type, line, walk>>

(* getAdminListStats: how many submissions wait at each stage                *)
Stats ==
    LET count(statuses) == IF type = "REFURBISHMENT" THEN Cardinality(OnList(statuses)) ELSE 0
    IN  [eligibility |-> count({"ELIGIBILITY_REVIEW"}), awaiting |-> count({"APPROVED", "LABEL_GENERATED"}),
         transit |-> count({"IN_TRANSIT"}), physical |-> count({"UNDER_INSPECTION"})]

TriageStep(h) ==
    \/ Move(h) \/ BulkReceive(h) \/ ReceiveNext(h) \/ Arrive(h)
    \/ Walk(h) \/ Read(h) \/ ReadRows(h)

-----------------------------------------------------------------------------
(* A clerk who has walked a stage from its start to its end has seen every     *)
(* line that was in it all along, whatever the others decided meanwhile, and   *)
(* the header does not count a stage as empty that the clerk could walk, but   *)
(* for used returns that were received and not yet looked at.                 *)
WalksMissNothing ==
    /\ walk.stage # "none" /\ walk.over => walk.along \subseteq walk.seen
    /\ \A stage \in DOMAIN StageStatuses :
          InStage(stage) # <<>> =>
             \/ Stats.eligibility + Stats.transit + Stats.awaiting + Stats.physical > 0
             \/ \E l \in Here : line[l].status = "RECEIVED"

(* Whoever reads the list page by page has been shown every submission that    *)
(* was on it when they began, unless one left the list meanwhile.  A submission *)
(* is never shown as over while a line shown of it is still to come, to be      *)
(* received or to be inspected, and is shown whole under any of its ids.       *)
Over == {"REJECTED", "INSPECTION_APPROVED", "INSPECTION_REJECTED", "ELIGIBILITY_REJECTED",
         "CANCELLED"} \cup (IF type = "STANDARD" THEN {"APPROVED"} ELSE {})
PagesMissNothing ==
    /\ reading.over /\ reading.left = {} => reading.along \subseteq {x.sub : x \in reading.shown}
    /\ \A id \in ReturnIds : RowsOf(id) = UNION {RowsIn(SubOf[l]) : l \in Carrying(id)}
    /\ \A s \in {SubOf[l] : l \in Here} :
          SubmissionStatus(RowsIn(s)) \in Over => \A l \in RowsIn(s) : line[l].status \in Over
QueuesMissNothing == WalksMissNothing /\ PagesMissNothing
=============================================================================
