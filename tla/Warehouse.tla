----------------------------- MODULE Warehouse -----------------------------
(***************************************************************************)
(* Staff with a scanner: stock received, counted and adjusted one code at a *)
(* time, and a session of scanned lines that are planned, reviewed and       *)
(* confirmed together or discarded (services/inventory-scan.service.js,      *)
(* services/inventory-scan-draft.service.js, adjustStock of services/        *)
(* inventory.service.js).  The session has one owner, who may have it open   *)
(* in two windows.                                                           *)
(***************************************************************************)
EXTENDS Catalogue

CONSTANT Counts   \* units that staff enter

ASSUME WarehouseAssumption == Counts \subseteq Nat

VARIABLES
    session,   \* InventoryScanSession: its status
    lines,     \* InventoryScanSessionLine rows of it
    applied,   \* history: times its plan was applied
    amiss      \* history: a line was not applied as it was reviewed

warehouse == <<session, lines, applied, amiss>>

WarehouseInit ==
    session = "DRAFT" /\ lines = {} /\ applied = 0 /\ amiss = FALSE

-----------------------------------------------------------------------------
(* adjustManualStock of one row, as one transaction                         *)
Adjustable(p, id, delta) ==
    /\ id # 0 <=> HasVariants(p)
    /\ RowOf(p, id).stock + delta >= 0
AdjustedRow(p, id, delta) ==
    LET q == WithRow(p, id, [RowOf(p, id) EXCEPT !.stock = @ + delta])
    IN  IF id = 0 THEN q ELSE Synced(q)

(* The row a label stands for, as a scan finds it                           *)
Hit(l) == Live(product, l.key)

(* receiveOrAdd adds; verifyCount sets what was counted, as a difference     *)
(* from the units on hand that the scan showed.                             *)
ScanToAdjust(h) ==
    \E l \in labels, n \in Counts, counted \in BOOLEAN :
        LET delta == IF counted THEN n - RowOf(product, Hit(l)).stock ELSE n
        IN  /\ delta # 0
            /\ Begin(h, "adjust", <<"adjust">>, [id |-> Hit(l), delta |-> delta])
            /\ UNCHANGED <<catalogue, warehouse>>

(* adjustStock; shoppers are told when the product can be sold again.        *)
Adjust(h) ==
    LET id == Live(product, req[h].read.id)
        delta == req[h].read.delta
        gone == id # req[h].read.id
    IN  /\ At(h, "adjust")
        /\ IF gone \/ ~ Adjustable(product, id, delta)
           THEN Stop(h) /\ UNCHANGED <<product, ledger>>
           ELSE /\ product' = AdjustedRow(product, id, delta)
                /\ ledger' = ledger + delta
                /\ GoOn(h, <<"tell">>, [row |-> product, saved |-> product'])
        /\ UNCHANGED <<orderRows, labelRows, lastId, due, past, warehouse>>

-----------------------------------------------------------------------------
(* The session.  identifyAndUpsertLine: the session and the row are read,    *)
(* then the line is written with what the row was.                          *)
Expected(row) == [onHand |-> row.stock, avail |-> Available(row), version |-> row.version]

ScanLine(h) ==
    \E l \in labels :
        /\ session = "DRAFT"
        /\ Begin(h, "scan", <<"upsert">>,
                 [id |-> Hit(l), known |-> \E x \in lines : x.id = Hit(l),
                  seen |-> Expected(RowOf(product, Hit(l)))])
        /\ UNCHANGED <<catalogue, warehouse>>

UpsertLine(h) ==
    LET read == req[h].read
    IN  /\ At(h, "upsert") /\ Proceed(h)
        /\ IF read.known
           THEN lines' = {IF x.id = read.id THEN [x EXCEPT !.seen = read.seen] ELSE x : x \in lines}
           ELSE IF \E x \in lines : x.id = read.id THEN UNCHANGED lines
           ELSE lines' = lines \cup {[id |-> read.id, action |-> "NO_CHANGE", qty |-> 0,
                                      seen |-> read.seen]}
        /\ UNCHANGED <<catalogue, session, applied, amiss>>

(* updateDraftLine, with or without refreshExpectations                      *)
PlanLine(h) ==
    \E x \in lines, action \in {"ADD", "REMOVE", "SET", "NO_CHANGE"}, n \in Counts, fresh \in BOOLEAN :
        LET seen == IF fresh THEN Expected(RowOf(product, Live(product, x.id))) ELSE x.seen
        IN  /\ session = "DRAFT"
            /\ action = "REMOVE" => n <= seen.avail
            /\ Begin(h, "plan", <<"write">>,
                     [x EXCEPT !.action = action, !.seen = seen,
                               !.qty = IF action = "NO_CHANGE" THEN 0 ELSE n])
            /\ UNCHANGED <<catalogue, warehouse>>

WriteLine(h) ==
    /\ At(h, "write") /\ Proceed(h)
    /\ lines' = {IF x.id = req[h].read.id THEN req[h].read ELSE x : x \in lines}
    /\ UNCHANGED <<catalogue, session, applied, amiss>>

(* removeDraftLine                                                           *)
RemoveLine(h) ==
    \E x \in lines :
        /\ session = "DRAFT"
        /\ Begin(h, "plan", <<>>, {})
        /\ lines' = lines \ {x}
        /\ UNCHANGED <<catalogue, session, applied, amiss>>

(* discardDraft and confirmDraft read the draft first.                       *)
OpenToClose(h, kind, step) ==
    /\ session = "DRAFT"
    /\ Begin(h, kind, <<step>>, [lines |-> lines])
    /\ UNCHANGED <<catalogue, warehouse>>

Discard(h) ==
    /\ At(h, "discard") /\ Proceed(h)
    /\ session' = "DISCARDED"
    /\ UNCHANGED <<catalogue, lines, applied, amiss>>

(* computeDelta                                                              *)
Delta(x, onHand) ==
    CASE x.action = "ADD" -> x.qty
      [] x.action = "REMOVE" -> -x.qty
      [] x.action = "SET" -> x.qty - onHand
      [] OTHER -> 0

Conflict(x, row) ==
    \/ Expected(row) # x.seen
    \/ /\ Delta(x, row.stock) # 0
       /\ \/ x.action = "REMOVE" /\ x.qty > Available(row)
          \/ row.stock + Delta(x, row.stock) < row.reserved

(* The lines read are compared with their rows now; one conflict, or        *)
(* nothing to change, refuses the whole session.                             *)
CheckPlan(h) ==
    LET now(x) == RowOf(product, Live(product, x.id))
        wanted == {x \in req[h].read.lines : x.action # "NO_CHANGE"}
        plan == {[id |-> Live(product, x.id), delta |-> Delta(x, now(x).stock), row |-> now(x),
                  line |-> x] : x \in {y \in wanted : Delta(y, now(y).stock) # 0}}
    IN  /\ At(h, "check")
        /\ IF plan = {} \/ \E x \in wanted : Conflict(x, now(x))
           THEN Stop(h) ELSE GoOn(h, <<"apply">>, [plan |-> plan])
        /\ UNCHANGED <<catalogue, warehouse>>

(* One transaction adjusts every line of the plan, or none, and marks the    *)
(* session, whatever it has become.                                         *)
SumOfDeltas(plan) == SumFunctionOnSet([s \in plan |-> s.delta], plan)
Altered(p, plan) ==
    LET Changed(row, part) == [row EXCEPT !.stock = @ + SumOfDeltas(part)]
    IN  IF HasVariants(p)
        THEN Synced([p EXCEPT !.variants =
                [i \in Slots(p) |-> Changed(@[i], {s \in plan : s.id = @[i].id})]])
        ELSE Changed(p, plan)

ApplyPlan(h) ==
    LET plan == req[h].read.plan
        can == \A s \in plan :
                 Live(product, s.id) = s.id /\ Adjustable(product, s.id, s.delta)
        AsReviewed(s) ==
            LET row == RowOf(product', s.id)
            IN  /\ row.stock >= row.reserved
                /\ s.line.action = "SET" => row.stock = s.line.qty
                /\ s.line.action # "SET" => row.stock = s.line.seen.onHand + s.delta
    IN  /\ At(h, "apply") /\ Proceed(h)
        /\ IF ~ can THEN UNCHANGED <<product, ledger, session, applied, amiss>>
           ELSE /\ product' = Altered(product, plan)
                /\ ledger' = ledger + SumOfDeltas(plan)
                /\ session' = "CONFIRMED" /\ applied' = applied + 1
                /\ amiss' = \/ amiss
                            \/ /\ \A s \in plan : s.id = s.line.id
                               /\ \E s \in plan : RowOf(product, s.id) = s.row /\ ~ AsReviewed(s)
        /\ UNCHANGED <<orderRows, labelRows, lastId, due, past, lines>>

-----------------------------------------------------------------------------
WarehouseStep(h) ==
    \/ ScanToAdjust(h) \/ Adjust(h)
    \/ ScanLine(h) \/ UpsertLine(h) \/ PlanLine(h) \/ WriteLine(h) \/ RemoveLine(h)
    \/ OpenToClose(h, "discard", "discard") \/ Discard(h)
    \/ OpenToClose(h, "confirm", "check") \/ CheckPlan(h) \/ ApplyPlan(h)

-----------------------------------------------------------------------------
(* A session changes stock once at most, and a discarded one never, unless   *)
(* two of its windows confirm or discard it at once; and a row that has not  *)
(* moved since the check is left as the line was reviewed: at the count that *)
(* was set, or moved by the planned units from what the scanner saw, and     *)
(* never below its reservations, unless a save deleted the row of a line.    *)
AppliedAsReviewed ==
    /\ ~ amiss
    /\ Apart("confirm", "confirm") => applied <= 1
    /\ Apart("confirm", "discard") => (session = "DISCARDED" => applied = 0)
=============================================================================
