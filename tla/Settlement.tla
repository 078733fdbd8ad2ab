----------------------------- MODULE Settlement -----------------------------
(***************************************************************************)
(* "Approve & Settle" of a standard return: the lines staff tick are         *)
(* approved, refunded and put back on the shelf one after the other, while    *)
(* others inspect the same lines and receive more parcels of them            *)
(* (approveAndSettle and inspectLine of services/returns.service.js).  Which  *)
(* lines may be settled is decided on the rows as the batch found them.       *)
(* What Stripe and the order's books make of a refund is in Refunds; here a   *)
(* refund is refused, made, or left without an answer.                        *)
(***************************************************************************)
EXTENDS Desk, FiniteSetsExt

CONSTANTS
    Lots,      \* the lines of the return
    PerLot     \* units of each line

ASSUME SettlementAssumption == PerLot \in Nat \ {0}

VARIABLES
    lot,       \* the ReturnRequest row of each line
    money,     \* units that Stripe has refunded under the key of each line
    returned,  \* history: units of each line put back on the shelf
    settled    \* history: the lines the last batch with them reported settled

settling == <<lot, money, returned, settled>>

Null == -1      \* nothing decided yet
Fresh == [status |-> "RECEIVED", received |-> PerLot, accepted |-> Null, rejected |-> 0,
          disp |-> "none", evidence |-> FALSE, refund |-> 0, shelved |-> FALSE]

(* Where the lines stand: one just came in, inspections have been begun, and  *)
(* one was approved before a batch took it.                                  *)
Stages ==
    {Fresh, [Fresh EXCEPT !.status = "UNDER_INSPECTION", !.accepted = PerLot, !.disp = "RESTOCK"],
     [Fresh EXCEPT !.received = 1, !.status = "UNDER_INSPECTION", !.accepted = 1, !.disp = "RESTOCK"],
     [Fresh EXCEPT !.status = "APPROVED", !.accepted = 1, !.rejected = PerLot - 1,
                   !.evidence = TRUE, !.disp = "RESTOCK"]}

SettlementInit ==
    /\ lot \in [Lots -> Stages]
    /\ money = [l \in Lots |-> 0] /\ returned = [l \in Lots |-> 0]
    /\ settled = {}

-----------------------------------------------------------------------------
(* lineAcceptedQty                                                           *)
AcceptedQty(row) ==
    CASE row.accepted # Null -> row.accepted
      [] row.accepted = Null /\ row.status = "APPROVED" -> PerLot
      [] OTHER -> 0

Undecided == {"REQUESTED", "RECEIVED", "UNDER_INSPECTION"}

(* The checklist is complete on every line that has been inspected.          *)
ChecklistComplete(row) == row.accepted # Null

(* evaluateStandardSettleEligibility                                         *)
SettleEligible(row) ==
    /\ row.status # "REJECTED" /\ AcceptedQty(row) > 0
    /\ ~ (row.refund > 0 /\ row.shelved)
    /\ row.received > 0 /\ row.disp = "RESTOCK"
    /\ \/ row.status = "APPROVED"
       \/ /\ row.status \in Undecided
          /\ row.accepted + row.rejected = row.received
          /\ ChecklistComplete(row)
          /\ row.rejected > 0 => row.evidence

(* What inspectLine asks of the row and of the decision                      *)
MayInspect(row, accepted, rejected) ==
    /\ row.received > 0 /\ row.refund = 0
    /\ row.status \in Undecided \cup {"APPROVED", "REJECTED"}
    /\ accepted + rejected = row.received

-----------------------------------------------------------------------------
(* Inspection by hand: the row is read and checked, then written.  A draft    *)
(* need not show evidence for the units it turns down.                       *)
Inspect(h) ==
    \E l \in Lots, complete, evidence \in BOOLEAN, disp \in {"RESTOCK", "DISCARD"} :
        \E accepted \in 0 .. lot[l].received :
            LET rejected == lot[l].received - accepted
            IN  /\ MayInspect(lot[l], accepted, rejected)
                /\ (complete /\ rejected > 0) => evidence
                /\ evidence => rejected > 0
                /\ Begin(h, "inspect", <<"decide">>,
                         [line |-> l, status |-> lot[l].status, complete |-> complete,
                          data |-> [accepted |-> accepted, rejected |-> rejected,
                                    disp |-> disp, evidence |-> evidence]])
                /\ UNCHANGED settling

(* A parcel with another unit; the line is whole with the last (receivePackage;  *)
(* how two of them overlap is in Returns).                                   *)
ReceiveOne(h) ==
    \E l \in Lots :
        /\ lot[l].status \in Undecided /\ lot[l].received < PerLot
        /\ Begin(h, "parcel", <<>>, {})
        /\ lot' = [lot EXCEPT ![l].received = @ + 1,
                              ![l].status = IF lot[l].received + 1 = PerLot /\ @ = "REQUESTED"
                                            THEN "RECEIVED" ELSE @]
        /\ UNCHANGED <<money, returned, settled>>

(* The transaction of inspectLine writes what it was given over the row, with *)
(* a status that follows from the one it has read.                           *)
NextStatus(read) ==
    CASE read.complete -> IF read.data.accepted > 0 THEN "APPROVED" ELSE "REJECTED"
      [] ~ read.complete /\ read.status \in {"REQUESTED", "RECEIVED"} -> "UNDER_INSPECTION"
      [] OTHER -> "as it is"

Decided(row, read) ==
    [f \in DOMAIN row |->
        IF f \in DOMAIN read.data THEN read.data[f]
        ELSE IF f = "status" /\ NextStatus(read) # "as it is" THEN NextStatus(read)
        ELSE row[f]]

Decide(h) ==
    LET read == req[h].read
    IN  /\ At(h, "decide") /\ Proceed(h)
        /\ lot' = [lot EXCEPT ![read.line] = Decided(@, read)]
        /\ UNCHANGED <<money, returned, settled>>

-----------------------------------------------------------------------------
(* The batch reads the rows of the return, and takes its lines one by one.    *)
Settle(h) ==
    \E S \in SUBSET Lots \ {{}} :
        /\ Begin(h, "settle", <<"take">>, [seen |-> [l \in S |-> lot[l]]])
        /\ UNCHANGED settling

(* On to step plan for the line at hand, with its row as read now            *)
Work(h, plan, row) == GoOn(h, plan, [req[h].read EXCEPT !.row = row])

(* The report of the line at hand; a call without an answer ends the batch.   *)
ReportLine(h, lines, ended) ==
    LET read == req[h].read
        rest == IF ended THEN {} ELSE DOMAIN read.seen \ {read.line}
    IN  /\ GoOn(h, IF rest = {} THEN <<>> ELSE <<"take">>, [seen |-> Restrict(read.seen, rest)])
        /\ settled' = (settled \ (DOMAIN read.seen \ rest)) \cup lines
Failed(h) == ReportLine(h, {}, FALSE)
Done(h) == ReportLine(h, {req[h].read.line}, FALSE)

TakeLine(h) ==
    /\ At(h, "take")
    /\ \E l \in DOMAIN req[h].read.seen :
          LET row == req[h].read.seen[l]
          IN  GoOn(h, IF ~ SettleEligible(row) THEN <<"refuse">>
                      ELSE IF row.status = "APPROVED" THEN <<"pay">> ELSE <<"approve">>,
                   [seen |-> req[h].read.seen, line |-> l, row |-> row])
    /\ UNCHANGED settling

(* A line that is not eligible, or whose order may not be refunded           *)
RefuseLine(h) ==
    /\ At(h, "refuse") /\ Failed(h)
    /\ UNCHANGED <<lot, money, returned>>

(* inspectLine is called with the decision that the batch found.             *)
ApproveLine(h) ==
    LET read == req[h].read
        found == read.row
    IN  /\ At(h, "approve")
        /\ IF MayInspect(lot[read.line], found.accepted, found.rejected)
           THEN /\ GoOn(h, <<"approved">>,
                        [seen |-> read.seen, line |-> read.line, row |-> found,
                         status |-> lot[read.line].status, complete |-> TRUE,
                         data |-> [accepted |-> found.accepted, rejected |-> found.rejected,
                                   disp |-> "RESTOCK", evidence |-> found.evidence]])
                /\ UNCHANGED settling
           ELSE Failed(h) /\ UNCHANGED <<lot, money, returned>>

WriteApproval(h) ==
    LET read == req[h].read
    IN  /\ At(h, "approved") /\ GoOn(h, <<"reread">>, read)
        /\ lot' = [lot EXCEPT ![read.line] = Decided(@, read)]
        /\ UNCHANGED <<money, returned, settled>>

RereadApproved(h) ==
    LET row == lot[req[h].read.line]
    IN  /\ At(h, "reread")
        /\ IF row.status = "APPROVED" THEN Work(h, <<"pay">>, row) /\ UNCHANGED settling
           ELSE Failed(h) /\ UNCHANGED <<lot, money, returned>>

Owed(row) == row.refund = 0

(* processStandardReturnRefund reads the row again, whatever its status.  A   *)
(* key that Stripe knows answers with its refund, or refuses another amount;  *)
(* a call without an answer ends the batch.                                  *)
PayLine(h) ==
    LET l == req[h].read.line
        now == lot[l]
        units == AcceptedQty(now)
    IN  /\ At(h, "pay")
        /\ IF ~ Owed(req[h].read.row) THEN Work(h, <<"shelve">>, req[h].read.row) /\ UNCHANGED settling
           ELSE IF ~ Owed(now) THEN Work(h, <<"look">>, now) /\ UNCHANGED settling
           ELSE \/ /\ units > 0 /\ money[l] \in {0, units}
                   /\ money' = [money EXCEPT ![l] = units]
                   /\ Work(h, <<"record">>, [now EXCEPT !.refund = units])
                   /\ UNCHANGED <<lot, returned, settled>>
                \/ Failed(h) /\ UNCHANGED <<lot, money, returned>>
                \/ /\ units > 0
                   /\ money' \in {money, [money EXCEPT ![l] = IF @ = 0 THEN units ELSE @]}
                   /\ ReportLine(h, {}, TRUE) /\ UNCHANGED <<lot, returned>>

(* persistReturnRefundAndOrderState, under the row's lock; it may fail.       *)
RecordRefund(h) ==
    LET l == req[h].read.line
    IN  /\ At(h, "record")
        /\ \/ /\ lot' = IF Owed(lot[l]) THEN [lot EXCEPT ![l].refund = req[h].read.row.refund] ELSE lot
              /\ Work(h, <<"look">>, req[h].read.row)
              /\ UNCHANGED <<money, returned, settled>>
           \/ Failed(h) /\ UNCHANGED <<lot, money, returned>>

LookAgain(h) ==
    /\ At(h, "look") /\ Work(h, <<"shelve">>, lot[req[h].read.line])
    /\ UNCHANGED settling

(* restockStandardLinesExplicit of this line, as it was read                 *)
MayShelve(row) == row.status = "APPROVED" /\ row.disp \in {"none", "RESTOCK"}

ShelveLine(h) ==
    LET l == req[h].read.line
        row == req[h].read.row
    IN  /\ At(h, "shelve")
        /\ CASE row.shelved \/ (MayShelve(row) /\ AcceptedQty(row) = 0) ->
                  Done(h) /\ UNCHANGED <<lot, returned>>
             [] ~ row.shelved /\ MayShelve(row) /\ AcceptedQty(row) > 0 ->
                  /\ returned' = [returned EXCEPT ![l] = @ + AcceptedQty(row)]
                  /\ lot' = [lot EXCEPT ![l].shelved = TRUE, ![l].disp = "RESTOCK"]
                  /\ Done(h)
             [] OTHER -> Failed(h) /\ UNCHANGED <<lot, returned>>
        /\ UNCHANGED money

SettlementStep(h) ==
    \/ Inspect(h) \/ ReceiveOne(h) \/ Decide(h)
    \/ Settle(h) \/ TakeLine(h) \/ RefuseLine(h) \/ ApproveLine(h) \/ WriteApproval(h)
    \/ RereadApproved(h) \/ PayLine(h) \/ RecordRefund(h) \/ LookAgain(h) \/ ShelveLine(h)

-----------------------------------------------------------------------------
(* No unit of a return is back on the shelf before Stripe has refunded its     *)
(* line ("Never restocks before refund succeeds").  And unless two batches     *)
(* overlapped, or one and an inspection, the units shelved are those           *)
(* refunded and accepted, no line that staff would discard is shelved, and     *)
(* what the batch reports of a line is what became of it.                      *)
SettledInOrder ==
    /\ \A l \in Lots : returned[l] > 0 => money[l] > 0
    /\ Apart("settle", "settle") /\ Apart("settle", "inspect") => \A l \in Lots :
        /\ returned[l] \in {0, money[l]} /\ lot[l].refund \in {0, money[l]}
        /\ returned[l] > 0 => returned[l] = lot[l].accepted /\ lot[l].disp = "RESTOCK"
        /\ l \in settled => lot[l].refund > 0 /\ lot[l].shelved
        /\ lot[l].shelved <=> returned[l] > 0
=============================================================================
