---------------------------- MODULE ReturnsProofs ----------------------------
(* However many requests work on however many returns: the units on record *)
(* as received are covered by packages, what was turned down or cancelled  *)
(* comes back only in the ways the code has, and no unit is paid back      *)
(* twice.                                                                  *)
EXTENDS Returns, SumTheorems

Made == Statuses \ {"NONE"}

ColumnsOK ==
    /\ status \in [Rows -> Statuses]
    /\ quantity \in [Rows -> Nat]
    /\ received \in [Rows -> Nat]
    /\ packages \in [Rows -> Nat]
    /\ form \in [Submissions -> [kind : {"none", "STANDARD", "REFURBISHMENT"},
                                 first : SUBSET Lines]]
    /\ job = [h \in Handlers |-> job[h]]

(* A row that is not there yet has had no package, and a submission that   *)
(* nobody has asked for has no rows.                                       *)
NothingBefore ==
    /\ \A r \in Rows : status[r] = "NONE" => received[r] = 0 /\ packages[r] = 0
    /\ \A s \in Submissions : form[s].kind = "none" =>
         \A l \in Lines : status[<<s, l>>] = "NONE"

(* A request that creates rows of submission s.                            *)
CreatingOK(h) ==
    /\ job[h].sub \in Submissions
    /\ form[job[h].sub].kind # "none"
    /\ job[h].todo \subseteq Lines
    /\ \A l \in job[h].todo :
         /\ status[<<job[h].sub, l>>] = "NONE"
         /\ job[h].want[l] \in Nat
         /\ job[h].outcome[l] \in Made

(* What a request is about to write, of a row that is there: a status, and *)
(* no more units than its package and those before it add up to.           *)
MovesOK(c) ==
    \A r \in DOMAIN c.status : r \in Rows /\ status[r] # "NONE" /\ c.status[r] \in Made

UnitsOK(c) ==
    /\ DOMAIN c.packed = DOMAIN c.received
    /\ \A r \in DOMAIN c.received :
         /\ r \in Rows /\ status[r] # "NONE"
         /\ c.received[r] \in Nat /\ c.packed[r] \in Nat
         /\ c.received[r] <= packages[r] + c.packed[r]
         /\ c.received[r] <= quantity[r]

(* It does not bring back a row it knows to be terminal, but for two kinds.  *)
Reviving == {"inspect", "ship"}

RevivesOK(c) ==
    c.by \in Reviving \/ \A r \in c.dead : c.status[r] \in Terminal

JobsOK ==
    /\ \A h \in Handlers : job[h].at = "create" => CreatingOK(h)
    /\ \A h \in Handlers : job[h].at = "write" =>
         MovesOK(job[h]) /\ UnitsOK(job[h]) /\ RevivesOK(job[h])
    /\ \A h, g \in Handlers :
         job[h].at = "create" /\ job[g].at = "create" /\ h # g => job[h].sub # job[g].sub

IInv == ColumnsOK /\ NothingBefore /\ ReceivedInPackages /\ JobsOK

-----------------------------------------------------------------------------
LEMMA IInvInit == Init => IInv
  <1> SUFFICES ASSUME Init PROVE IInv
      OBVIOUS
  <1>1. ColumnsOK
        BY DEF Init, ColumnsOK, Statuses
  <1>2. NothingBefore /\ ReceivedInPackages
        BY DEF Init, NothingBefore, ReceivedInPackages, Rows
  <1>3. JobsOK
        BY DEF Init, JobsOK, Idle
  <1> QED  BY <1>1, <1>2, <1>3 DEF IInv

(* A step that touches no row: one handler takes up a change that is in    *)
(* order, or does nothing that matters here.                               *)
LEMMA AsideKeeps ==
    ASSUME IInv, NEW h \in Handlers, NEW c, job' = [job EXCEPT ![h] = c],
           c.at # "create", c.at = "write" => MovesOK(c) /\ UnitsOK(c) /\ RevivesOK(c),
           UNCHANGED <<form, status, quantity, received, packages>>
    PROVE  IInv'
  <1>1. ColumnsOK'
        BY DEF IInv, ColumnsOK
  <1>2. NothingBefore' /\ ReceivedInPackages'
        BY DEF IInv, NothingBefore, ReceivedInPackages
  <1>3. \A g \in Handlers : job'[g] = IF g = h THEN c ELSE job[g]
        BY DEF IInv, ColumnsOK
  <1>4. JobsOK'
        BY <1>3 DEF IInv, JobsOK, CreatingOK, MovesOK, UnitsOK, RevivesOK
  <1> QED  BY <1>1, <1>2, <1>4 DEF IInv

(* A request that has passed its checks: what it does to terminal rows is  *)
(* judged by the rows as they are.                                         *)
Fields == {"at", "by", "dead", "status", "received", "packed"}

LEMMA PrepareKeeps ==
    ASSUME IInv, NEW h \in Handlers, NEW by, NEW c, Prepare(h, by, c),
           Fields \subseteq DOMAIN c, c.at = "write",
           MovesOK(c), UnitsOK(c),
           \/ by \in Reviving
           \/ \A r \in DOMAIN c.status : status[r] \in Terminal => c.status[r] \in Terminal
    PROVE  IInv'
  <1> DEFINE dead == {r \in DOMAIN c.status : status[r] \in Terminal}
             d == [c EXCEPT !.by = by, !.dead = dead]
  <1>1. job' = [job EXCEPT ![h] = d]
        BY DEF Prepare, Serve
  <1>2. UNCHANGED <<form, status, quantity, received, packages>>
        BY DEF Prepare, Serve
  <1>5. \A r \in dead : r \in DOMAIN c.status /\ status[r] \in Terminal
        OBVIOUS
  <1> HIDE DEF dead
  <1>3. /\ d.at = "write" /\ d.by = by /\ d.dead = dead
        /\ d.status = c.status /\ d.received = c.received /\ d.packed = c.packed
        BY DEF Fields
  <1> HIDE DEF d
  <1>4. MovesOK(d) /\ UnitsOK(d)
        BY <1>3 DEF MovesOK, UnitsOK
  <1>6. RevivesOK(d)
        BY <1>3, <1>5 DEF RevivesOK
  <1> QED  BY <1>1, <1>2, <1>3, <1>4, <1>6, AsideKeeps

(* A change of the status alone, as far as the invariant goes.             *)
Moving(c, S, to) ==
    /\ Fields \subseteq DOMAIN c
    /\ c.at = "write" /\ c.status = All(S, to)
    /\ c.received = None /\ c.packed = None

LEMMA MoveIsMoving ==
    ASSUME NEW S, NEW to
    PROVE  Moving(Move(S, to), S, to)
  <1> DEFINE places == All(S, to)
  <1>1. places = All(S, to) /\ Move(S, to) = [NoChange EXCEPT !.status = places]
        BY DEF Move
  <1> HIDE DEF places
  <1>2. Moving([NoChange EXCEPT !.status = places], S, to)
        BY <1>1 DEF Moving, NoChange, Fields
  <1> QED  BY <1>1, <1>2

LEMMA MoveKeeps ==
    ASSUME IInv, NEW h \in Handlers, NEW by, NEW c, NEW S, NEW to,
           Prepare(h, by, c), Moving(c, S, to),
           \A r \in S : r \in Rows /\ status[r] # "NONE",
           to \in Made,
           by \in Reviving \/ to \in Terminal \/ \A r \in S : status[r] \notin Terminal
    PROVE  IInv'
  <1>1. MovesOK(c)
        BY DEF Moving, MovesOK, All
  <1>2. UnitsOK(c)
        BY DEF Moving, UnitsOK, None, All
  <1>3. \/ by \in Reviving
        \/ \A r \in DOMAIN c.status : status[r] \in Terminal => c.status[r] \in Terminal
        BY DEF Moving, All
  <1> QED  BY <1>1, <1>2, <1>3, PrepareKeeps DEF Moving

LEMMA UnitsAreNat == \A n \in Units : n \in Nat
  BY ReturnsAssumption DEF ReturnsAssumption, Units

-----------------------------------------------------------------------------
(* The requests, up to their transactions.                                 *)
LEMMA CreateKeeps ==
    ASSUME IInv, NEW h \in Handlers, NEW s \in Submissions, NEW kind \in Kinds[s],
           NEW want \in Selections, NEW outcome \in [DOMAIN want -> Outcomes(kind)],
           Create(h, s, kind, want, outcome)
    PROVE  IInv'
  <1> DEFINE c == [at |-> "create", sub |-> s, want |-> want, outcome |-> outcome,
                   todo |-> DOMAIN want]
  <1>1. /\ job' = [job EXCEPT ![h] = c]
        /\ form' = [form EXCEPT ![s].kind = kind]
        /\ form[s].kind = "none"
        /\ UNCHANGED <<status, quantity, received, packages>>
        BY DEF Create, Serve
  <1>2. kind \in {"STANDARD", "REFURBISHMENT"}
        BY ReturnsAssumption DEF ReturnsAssumption
  <1>3. /\ DOMAIN want \subseteq Lines
        /\ \A l \in DOMAIN want : want[l] \in Nat
        BY UnitsAreNat DEF Selections
  <1>4. \A l \in DOMAIN want : outcome[l] \in Made
        BY DEF Outcomes, Made, Statuses, Terminal
  <1>5. ColumnsOK'
        BY <1>1, <1>2 DEF IInv, ColumnsOK
  <1>6. \A t \in Submissions : form'[t].kind = IF t = s THEN kind ELSE form[t].kind
        BY <1>1 DEF IInv, ColumnsOK
  <1>7. NothingBefore' /\ ReceivedInPackages'
        BY <1>1, <1>2, <1>6 DEF IInv, NothingBefore, ReceivedInPackages
  <1>8. \A g \in Handlers : job'[g] = IF g = h THEN c ELSE job[g]
        BY <1>1 DEF IInv, ColumnsOK
  <1>9. /\ c.at = "create" /\ c.sub = s /\ c.want = want /\ c.outcome = outcome
        /\ c.todo = DOMAIN want
        OBVIOUS
  <1> HIDE DEF c
  <1>10. ASSUME NEW g \in Handlers, job'[g].at = "create" PROVE CreatingOK(g)'
    <2>1. CASE g = h
          BY <1>1, <1>2, <1>3, <1>4, <1>6, <1>8, <1>9, <2>1
          DEF IInv, NothingBefore, CreatingOK
    <2>2. CASE g # h
          BY <1>1, <1>2, <1>6, <1>8, <1>10, <2>2 DEF IInv, JobsOK, CreatingOK
    <2> QED  BY <2>1, <2>2
  <1>11. ASSUME NEW g \in Handlers, job'[g].at = "write"
         PROVE  MovesOK(job[g])' /\ UnitsOK(job[g])' /\ RevivesOK(job[g])'
         BY <1>1, <1>8, <1>9, <1>11 DEF IInv, JobsOK, MovesOK, UnitsOK, RevivesOK
  <1>12. ASSUME NEW g \in Handlers, NEW k \in Handlers,
                job'[g].at = "create", job'[k].at = "create", g # k
         PROVE  job'[g].sub # job'[k].sub
         BY <1>1, <1>8, <1>9, <1>12 DEF IInv, JobsOK, CreatingOK
  <1> QED  BY <1>5, <1>7, <1>10, <1>11, <1>12 DEF IInv, JobsOK

LEMMA BuyerKeeps ==
    ASSUME IInv, NEW h \in Handlers, Buyer(h)
    PROVE  IInv'
  <1>1. PICK s \in Submissions :
          \/ \E kind \in Kinds[s], want \in Selections :
               \E outcome \in [DOMAIN want -> Outcomes(kind)] :
                 Create(h, s, kind, want, outcome)
          \/ Ship(h, s)
          \/ CancelByUser(h, s)
        BY DEF Buyer
  <1>2. "IN_TRANSIT" \in Made /\ "CANCELLED" \in Made
        BY DEF Made, Statuses, Terminal
  <1>3. \A r \in RowsOf(s) : r \in Rows /\ status[r] # "NONE"
        BY DEF RowsOf
  <1>4. ASSUME NEW by, NEW to \in Made, Prepare(h, by, Move(RowsOf(s), to)),
               by \in Reviving \/ to \in Terminal
        PROVE  IInv'
    <2>1. Moving(Move(RowsOf(s), to), RowsOf(s), to)
          BY MoveIsMoving DEF Moving
    <2> QED  BY <1>3, <1>4, <2>1, MoveKeeps
  <1>5. CASE Ship(h, s)
        BY <1>2, <1>4, <1>5 DEF Ship, Reviving
  <1>6. CASE CancelByUser(h, s)
        BY <1>2, <1>4, <1>6 DEF CancelByUser, Terminal
  <1> QED  BY <1>1, <1>5, <1>6, CreateKeeps

LEMMA ReceiveKeeps ==
    ASSUME IInv, NEW h \in Handlers, NEW s \in Submissions, NEW S \in SUBSET RowsOf(s),
           NEW units \in [S -> Units \ {0}], ReceivePackage(h, s, units)
    PROVE  IInv'
  <1> DEFINE total == [r \in DOMAIN units |-> NowReceived(r, units[r])]
             full == {r \in DOMAIN units : total[r] >= quantity[r] /\ status[r] = "REQUESTED"}
             c == [Move(full, "RECEIVED") EXCEPT !.received = total, !.packed = units]
  <1>1. /\ \A r \in S : status[r] # "NONE" /\ r \in Rows
        /\ \A r \in S : units[r] <= quantity[r] - received[r]
        BY DEF ReceivePackage, RowsOf
  <1>2. DOMAIN units = S /\ \A r \in S : units[r] \in Nat
        BY UnitsAreNat
  <1>3. \A r \in S : total[r] = received[r] + units[r]
        BY <1>2 DEF NowReceived
  <1>4. DOMAIN total = S /\ full \subseteq S
        BY <1>2
  <1>5. Prepare(h, "receive", c)
        BY DEF ReceivePackage
  <1>10. \A r \in full : status[r] \notin Terminal
        BY DEF Terminal
  <1> HIDE DEF total, full
  <1>8. /\ c.status = All(full, "RECEIVED") /\ c.received = total /\ c.packed = units
        /\ Fields \subseteq DOMAIN c /\ c.at = "write"
        BY MoveIsMoving DEF Moving
  <1> HIDE DEF c
  <1>6. MovesOK(c)
        BY <1>1, <1>4, <1>8 DEF MovesOK, All, Made, Statuses
  <1>7. UnitsOK(c)
        BY <1>1, <1>2, <1>3, <1>4, <1>8 DEF UnitsOK, IInv, ColumnsOK, ReceivedInPackages
  <1>9. \A r \in DOMAIN c.status : status[r] \notin Terminal
        BY <1>8, <1>10 DEF All
  <1> QED  BY <1>5, <1>6, <1>7, <1>8, <1>9, PrepareKeeps

LEMMA UpdateKeeps ==
    ASSUME IInv, NEW h \in Handlers, NEW s \in Submissions, NEW r \in RowsOf(s),
           NEW to \in Statuses, NEW units, UpdateStatus(h, r, to, units)
    PROVE  IInv'
  <1> DEFINE S == Companions(r, to)
             count == CASE units # Null -> All(S, units)
                        [] units = Null /\ Kind(r) = "STANDARD" ->
                             All({r}, IF to = "APPROVED" THEN quantity[r] ELSE 0)
                        [] OTHER -> None
             awards == IF to = "INSPECTION_APPROVED" THEN {r} ELSE {}
             c == [Move(S, to) EXCEPT !.accepted = count, !.awards = awards]
  <1>1. \A q \in S : q \in Rows /\ status[q] # "NONE"
        BY DEF Companions, RowsOf
  <1>2. to \in Made
    <2>1. CASE Kind(r) = "REFURBISHMENT" /\ to \in RefurbTransitions(status[r])
          BY <2>1 DEF RefurbTransitions, Made
    <2>2. CASE to \in {"APPROVED", "REJECTED"}
          BY <2>2 DEF Made
    <2> QED  BY <2>1, <2>2 DEF UpdateStatus, MayBecome
  <1>3. Prepare(h, "update", c)
        BY DEF UpdateStatus
  <1>5. \A q \in S : status[q] \notin Terminal
    <2>1. \A q \in S : status[q] = status[r]
          BY DEF Companions
    <2>2. CASE to \in RefurbTransitions(status[r])
          BY <2>1, <2>2 DEF RefurbTransitions, Terminal
    <2>3. CASE status[r] = "UNDER_INSPECTION"
          BY <2>1, <2>3 DEF Terminal
    <2> QED  BY <2>2, <2>3 DEF UpdateStatus, MayBecome
  <1> HIDE DEF S, count, awards
  <1>4. Moving(c, S, to)
        BY MoveIsMoving DEF Moving
  <1> HIDE DEF c
  <1> QED  BY <1>1, <1>2, <1>3, <1>4, <1>5, MoveKeeps

LEMMA InspectKeeps ==
    ASSUME IInv, NEW h \in Handlers, NEW s \in Submissions, NEW r \in RowsOf(s),
           NEW units, NEW complete,
           InspectLine(h, r, units, complete) \/ InspectRefurbLine(h, r, units, complete)
    PROVE  IInv'
  <1>1. r \in Rows /\ status[r] # "NONE"
        BY DEF RowsOf
  <1>2. /\ "UNDER_INSPECTION" \in Made /\ "APPROVED" \in Made /\ "REJECTED" \in Made
        /\ "INSPECTION_APPROVED" \in Made /\ "INSPECTION_REJECTED" \in Made
        BY DEF Made, Statuses, Terminal
  <1> DEFINE count == All({r}, units)
  <1>3. CASE InspectLine(h, r, units, complete)
    <2> DEFINE S == IF complete \/ status[r] \in {"REQUESTED", "RECEIVED"} THEN {r} ELSE {}
               to == IF ~complete THEN "UNDER_INSPECTION"
                     ELSE IF units > 0 THEN "APPROVED" ELSE "REJECTED"
               c == [Move(S, to) EXCEPT !.accepted = count]
    <2>1. Prepare(h, "inspect", c)
          BY <1>3 DEF InspectLine
    <2>2. to \in Made /\ \A q \in S : q \in Rows /\ status[q] # "NONE"
          BY <1>1, <1>2
    <2> HIDE DEF S, to, count
    <2>3. Moving(c, S, to)
          BY MoveIsMoving DEF Moving
    <2> HIDE DEF c
    <2> QED  BY <2>1, <2>2, <2>3, MoveKeeps DEF Reviving
  <1>4. CASE InspectRefurbLine(h, r, units, complete)
    <2> DEFINE S == IF complete \/ status[r] = "RECEIVED" THEN {r} ELSE {}
               to == IF ~complete THEN "UNDER_INSPECTION"
                     ELSE IF units > 0 THEN "INSPECTION_APPROVED" ELSE "INSPECTION_REJECTED"
               awards == IF to = "INSPECTION_APPROVED" THEN {r} ELSE {}
               c == [Move(S, to) EXCEPT !.accepted = count, !.awards = awards]
    <2>1. Prepare(h, "refurb", c)
          BY <1>4 DEF InspectRefurbLine
    <2>2. to \in Made /\ \A q \in S : q \in Rows /\ status[q] # "NONE"
          BY <1>1, <1>2
    <2>4. \A q \in S : status[q] \notin Terminal
          BY <1>4 DEF InspectRefurbLine, Terminal
    <2> HIDE DEF S, to, awards, count
    <2>3. Moving(c, S, to)
          BY MoveIsMoving DEF Moving
    <2> HIDE DEF c
    <2> QED  BY <2>1, <2>2, <2>3, <2>4, MoveKeeps
  <1> QED  BY <1>3, <1>4

LEMMA StaffKeeps ==
    ASSUME IInv, NEW h \in Handlers, Staff(h)
    PROVE  IInv'
  <1>1. /\ "APPROVED" \in Made /\ "ELIGIBILITY_REJECTED" \in Made
        /\ "LABEL_GENERATED" \in Made /\ "UNDER_INSPECTION" \in Made
        BY DEF Made, Statuses, Terminal
  <1>2. ASSUME NEW by, NEW S, NEW to \in Made, Prepare(h, by, Move(S, to)),
               \A r \in S : r \in Rows /\ status[r] # "NONE" /\ status[r] \notin Terminal
        PROVE  IInv'
    <2>1. Moving(Move(S, to), S, to)
          BY MoveIsMoving DEF Moving
    <2> QED  BY <1>2, <2>1, MoveKeeps
  <1>3. ASSUME NEW s \in Submissions, NEW S, ReviewEligibility(h, s, S) PROVE IInv'
    <2>1. \A r \in S : r \in Rows /\ status[r] # "NONE" /\ status[r] \notin Terminal
          BY <1>3 DEF ReviewEligibility, RowsOf, Terminal
    <2> QED  BY <1>1, <1>2, <1>3, <2>1 DEF ReviewEligibility
  <1>4. ASSUME NEW s \in Submissions, StartInspection(h, s) PROVE IInv'
    <2> DEFINE S == {r \in RowsOf(s) : received[r] > 0
                                       /\ status[r] \in {"REQUESTED", "RECEIVED"}}
    <2>1. \A r \in S : r \in Rows /\ status[r] # "NONE" /\ status[r] \notin Terminal
          BY DEF RowsOf, Terminal
    <2>2. Prepare(h, "start", Move(S, "UNDER_INSPECTION"))
          BY <1>4 DEF StartInspection
    <2> HIDE DEF S
    <2> QED  BY <1>1, <1>2, <2>1, <2>2
  <1>5. ASSUME NEW s \in Submissions, NEW r \in RowsOf(s), GenerateReturnLabel(h, r)
        PROVE  IInv'
    <2> DEFINE labels == {r}
               c == [Move({r}, "LABEL_GENERATED") EXCEPT !.labels = labels]
    <2>1. Prepare(h, "label", c)
          BY <1>5 DEF GenerateReturnLabel
    <2> HIDE DEF labels
    <2>2. Moving(c, {r}, "LABEL_GENERATED")
          BY MoveIsMoving DEF Moving
    <2>3. \A q \in {r} : q \in Rows /\ status[q] # "NONE" /\ status[q] \notin Terminal
          BY <1>5 DEF RowsOf, GenerateReturnLabel, Terminal
    <2> HIDE DEF c
    <2> QED  BY <1>1, <2>1, <2>2, <2>3, MoveKeeps
  <1>6. ASSUME NEW s \in Submissions, NEW r \in RowsOf(s), ProcessRefund(h, r)
        PROVE  IInv'
    <2> DEFINE units == All({r}, accepted[r])
               c == [NoChange EXCEPT !.refunded = units]
    <2>1. Prepare(h, "refund", c)
          BY <1>6 DEF ProcessRefund
    <2> HIDE DEF units
    <2>2. None = All({}, "APPROVED")
          BY DEF None, All
    <2>3. Moving(c, {}, "APPROVED")
          BY <2>2 DEF Moving, NoChange, Fields
    <2> HIDE DEF c
    <2> QED  BY <1>1, <2>1, <2>3, MoveKeeps
  <1>7. PICK s \in Submissions :
          \/ \E S \in SUBSET RowsOf(s) :
               \/ ReviewEligibility(h, s, S)
               \/ \E units \in [S -> Units \ {0}] : ReceivePackage(h, s, units)
          \/ StartInspection(h, s)
          \/ \E r \in RowsOf(s) :
               \/ GenerateReturnLabel(h, r)
               \/ ProcessRefund(h, r)
               \/ \E to \in Statuses, units \in 0 .. quantity[r] \cup {Null} :
                    UpdateStatus(h, r, to, units)
               \/ \E units \in Units, complete \in BOOLEAN :
                    InspectLine(h, r, units, complete) \/ InspectRefurbLine(h, r, units, complete)
        BY DEF Staff
  <1> QED  BY <1>3, <1>4, <1>5, <1>6, <1>7, ReceiveKeeps, UpdateKeeps, InspectKeeps

-----------------------------------------------------------------------------
(* The transactions.                                                       *)

(* A line gets its row, which nothing else was going to write: no request  *)
(* has read it, and no other one creates the submission.                   *)
LEMMA CreateLineKeeps ==
    ASSUME IInv, NEW h \in Handlers, NEW l \in Lines, CreateLine(h, l)
    PROVE  IInv'
  <1> DEFINE s == job[h].sub
             rest == job[h].todo \ {l}
             fresh == job[h].outcome[l]
             left == [job[h] EXCEPT !.todo = rest]
             next == IF rest = {} THEN Idle ELSE left
  <1>1. /\ s \in Submissions /\ l \in job[h].todo /\ <<s, l>> \in Rows
        /\ job[h].todo \subseteq Lines
        /\ form[s].kind # "none" /\ status[<<s, l>>] = "NONE"
        /\ job[h].want[l] \in Nat /\ fresh \in Made
        BY DEF CreateLine, IInv, JobsOK, CreatingOK, Rows
  <1>2. CASE ~StillFits(l, job[h].want[l])
    <2>1. job' = [job EXCEPT ![h] = Idle] /\ UNCHANGED <<form, status, quantity, received, packages>>
          BY <1>2 DEF CreateLine
    <2>2. Idle.at = "idle"
          BY DEF Idle
    <2> HIDE DEF next
    <2> QED  BY <2>1, <2>2, AsideKeeps
  <1>3. CASE StillFits(l, job[h].want[l])
    <2>1. /\ status' = [status EXCEPT ![<<s, l>>] = fresh]
          /\ quantity' = [quantity EXCEPT ![<<s, l>>] = job[h].want[l]]
          /\ form' = IF form[s].first = {} THEN [form EXCEPT ![s].first = {l}] ELSE form
          /\ job' = [job EXCEPT ![h] = IF rest = {} THEN Idle ELSE [@ EXCEPT !.todo = rest]]
          /\ UNCHANGED <<received, packages>>
          BY <1>3 DEF CreateLine
    <2>2. job' = [job EXCEPT ![h] = next]
          BY <2>1 DEF IInv, ColumnsOK
    <2>3. \A t \in Submissions : form'[t].kind = form[t].kind
          BY <2>1 DEF IInv, ColumnsOK
    <2>4. \A r \in Rows : status'[r] = IF r = <<s, l>> THEN fresh ELSE status[r]
          BY <2>1 DEF IInv, ColumnsOK
    <2>5. \A r \in Rows : quantity'[r] = IF r = <<s, l>> THEN job[h].want[l] ELSE quantity[r]
          BY <2>1 DEF IInv, ColumnsOK
    <2>6. \A g \in Handlers : job'[g] = IF g = h THEN next ELSE job[g]
          BY <2>2 DEF IInv, ColumnsOK
    <2>7. next.at \in {"idle", "create"}
      <3>1. Idle.at = "idle"  BY DEF Idle
      <3>2. job[h].at = "create" => left.at = "create"  OBVIOUS
      <3> QED  BY <3>1, <3>2 DEF CreateLine
    <2>8. next.at = "create" =>
            /\ next.sub = s /\ next.todo = rest
            /\ next.want = job[h].want /\ next.outcome = job[h].outcome
      <3>1. Idle.at # "create"  BY DEF Idle
      <3>2. left.sub = s /\ left.want = job[h].want /\ left.outcome = job[h].outcome
            OBVIOUS
      <3> QED  BY <3>1, <3>2
    <2>9. job[h].at = "create"
          BY DEF CreateLine
    <2> HIDE DEF next, left
    <2>10. ColumnsOK'
      <3>1. status' \in [Rows -> Statuses]  BY <1>1, <2>1 DEF IInv, ColumnsOK, Made
      <3>2. quantity' \in [Rows -> Nat]  BY <1>1, <2>1 DEF IInv, ColumnsOK
      <3>3. form' \in [Submissions -> [kind : {"none", "STANDARD", "REFURBISHMENT"},
                                       first : SUBSET Lines]]
            BY <2>1 DEF IInv, ColumnsOK
      <3>4. job' = [g \in Handlers |-> job'[g]]  BY <2>2 DEF IInv, ColumnsOK
      <3> QED  BY <2>1, <3>1, <3>2, <3>3, <3>4 DEF IInv, ColumnsOK
    <2>11. NothingBefore'
           BY <1>1, <2>1, <2>3, <2>4 DEF IInv, NothingBefore, Made
    <2>12. ReceivedInPackages'
           BY <1>1, <2>1, <2>5 DEF IInv, NothingBefore, ReceivedInPackages
    <2>13. ASSUME NEW g \in Handlers, job'[g].at = "create" PROVE CreatingOK(g)'
      <3>1. CASE g = h
            BY <1>1, <2>3, <2>4, <2>6, <2>8, <2>9, <2>13, <3>1
            DEF IInv, JobsOK, CreatingOK, Rows
      <3>2. CASE g # h
            BY <1>1, <2>3, <2>4, <2>6, <2>9, <2>13, <3>2
            DEF IInv, JobsOK, CreatingOK, Rows
      <3> QED  BY <3>1, <3>2
    <2>14. ASSUME NEW g \in Handlers, job'[g].at = "write"
           PROVE  MovesOK(job[g])' /\ UnitsOK(job[g])' /\ RevivesOK(job[g])'
      <3>1. /\ job'[g] = job[g]
            /\ MovesOK(job[g]) /\ UnitsOK(job[g]) /\ RevivesOK(job[g])
            BY <2>6, <2>7, <2>14 DEF IInv, JobsOK
      <3>2. MovesOK(job[g])'
            BY <1>1, <2>4, <3>1 DEF MovesOK, Made
      <3>3. UnitsOK(job[g])'
            BY <1>1, <2>1, <2>4, <2>5, <3>1 DEF UnitsOK, Made
      <3>4. RevivesOK(job[g])'
            BY <3>1 DEF RevivesOK
      <3> QED  BY <3>2, <3>3, <3>4
    <2>15. ASSUME NEW g \in Handlers, NEW k \in Handlers,
                  job'[g].at = "create", job'[k].at = "create", g # k
           PROVE  job'[g].sub # job'[k].sub
           BY <2>6, <2>8, <2>9, <2>15 DEF IInv, JobsOK
    <2> QED  BY <2>10, <2>11, <2>12, <2>13, <2>14, <2>15 DEF IInv, JobsOK
  <1> QED  BY <1>2, <1>3

(* The count written is what was read plus the package, and the packages   *)
(* have only grown since.                                                  *)
LEMMA WriteKeeps ==
    ASSUME IInv, NEW h \in Handlers, Write(h)
    PROVE  IInv'
  <1> DEFINE c == job[h]
             next == IF c.awards = {} THEN Idle ELSE [at |-> "award", rows |-> c.awards]
  <1>1. /\ c.at = "write" /\ MovesOK(c) /\ UnitsOK(c)
        /\ job' = [job EXCEPT ![h] = next]
        /\ UNCHANGED <<form, quantity>>
        BY DEF Write, IInv, JobsOK
  <1>2. \A r \in Rows : status'[r] = IF r \in DOMAIN c.status THEN c.status[r] ELSE status[r]
        BY DEF Write, Over
  <1>3. \A r \in Rows : received'[r] = IF r \in DOMAIN c.received THEN c.received[r]
                                       ELSE received[r]
        BY DEF Write, Over
  <1>4. \A r \in Rows : packages'[r] = packages[r] + IF r \in DOMAIN c.packed
                                                     THEN c.packed[r] ELSE 0
        BY DEF Write
  <1>5. next.at \in {"idle", "award"}
        BY DEF Idle
  <1>6. \A g \in Handlers : job'[g] = IF g = h THEN next ELSE job[g]
        BY <1>1 DEF IInv, ColumnsOK
  <1>7. /\ status' = [r \in Rows |-> status'[r]]
        /\ received' = [r \in Rows |-> received'[r]]
        /\ packages' = [r \in Rows |-> packages'[r]]
    <2>1. status' = Over(c.status, status) /\ received' = Over(c.received, received)
          BY DEF Write
    <2>2. packages' = [r \in Rows |-> packages[r] +
                         IF r \in DOMAIN c.packed THEN c.packed[r] ELSE 0]
          BY DEF Write
    <2> QED  BY <2>1, <2>2 DEF Over
  <1> HIDE DEF c, next
  <1>8. \A r \in Rows : /\ status'[r] \in Statuses
                        /\ status[r] # "NONE" => status'[r] # "NONE"
                        /\ status'[r] # "NONE" => status[r] # "NONE"
        BY <1>1, <1>2 DEF MovesOK, IInv, ColumnsOK, Made
  <1>9. \A r \in Rows : /\ received'[r] \in Nat /\ packages'[r] \in Nat
                        /\ packages'[r] >= packages[r]
                        /\ received'[r] <= packages'[r] /\ received'[r] <= quantity[r]
                        /\ status[r] = "NONE" => received'[r] = 0 /\ packages'[r] = 0
    <2> TAKE r \in Rows
    <2>1. CASE r \in DOMAIN c.received
          BY <1>1, <1>3, <1>4, <2>1 DEF UnitsOK, IInv, ColumnsOK
    <2>2. CASE r \notin DOMAIN c.received
          BY <1>1, <1>3, <1>4, <2>2
          DEF UnitsOK, IInv, ColumnsOK, NothingBefore, ReceivedInPackages
    <2> QED  BY <2>1, <2>2
  <1>10. ColumnsOK'
    <2>1. job' = [g \in Handlers |-> job'[g]]
          BY <1>1 DEF IInv, ColumnsOK
    <2>2. status' \in [Rows -> Statuses]  BY <1>7, <1>8
    <2>3. received' \in [Rows -> Nat]  BY <1>7, <1>9
    <2>4. packages' \in [Rows -> Nat]  BY <1>7, <1>9
    <2> QED  BY <1>1, <2>1, <2>2, <2>3, <2>4 DEF IInv, ColumnsOK
  <1>11. NothingBefore'
    <2>1. \A s \in Submissions, l \in Lines : <<s, l>> \in Rows
          BY DEF Rows
    <2> QED  BY <1>1, <1>8, <1>9, <2>1 DEF IInv, NothingBefore
  <1>12. ReceivedInPackages'
         BY <1>1, <1>9 DEF ReceivedInPackages
  <1>13. ASSUME NEW g \in Handlers, job'[g].at = "create" PROVE CreatingOK(g)'
    <2>1. g # h /\ CreatingOK(g)
          BY <1>5, <1>6, <1>13 DEF IInv, JobsOK
    <2>2. \A l \in job[g].todo : <<job[g].sub, l>> \in Rows
          BY <2>1 DEF CreatingOK, Rows
    <2> QED  BY <1>1, <1>6, <1>8, <2>1, <2>2 DEF CreatingOK
  <1>14. ASSUME NEW g \in Handlers, job'[g].at = "write"
         PROVE  MovesOK(job[g])' /\ UnitsOK(job[g])' /\ RevivesOK(job[g])'
    <2>1. /\ g # h /\ job'[g] = job[g]
          /\ MovesOK(job[g]) /\ UnitsOK(job[g]) /\ RevivesOK(job[g])
          BY <1>5, <1>6, <1>14 DEF IInv, JobsOK
    <2> QED  BY <1>1, <1>8, <1>9, <2>1 DEF MovesOK, UnitsOK, RevivesOK, IInv, ColumnsOK
  <1>15. ASSUME NEW g \in Handlers, NEW k \in Handlers,
                job'[g].at = "create", job'[k].at = "create", g # k
         PROVE  job'[g].sub # job'[k].sub
         BY <1>5, <1>6, <1>15 DEF IInv, JobsOK
  <1> QED  BY <1>10, <1>11, <1>12, <1>13, <1>14, <1>15 DEF IInv, JobsOK

LEMMA IInvStep == IInv /\ [Next]_vars => IInv'
  <1> SUFFICES ASSUME IInv, [Next]_vars PROVE IInv'
      OBVIOUS
  <1>1. CASE UNCHANGED vars
        BY <1>1 DEF vars, IInv, ColumnsOK, NothingBefore, ReceivedInPackages, JobsOK,
                    CreatingOK, MovesOK, UnitsOK, RevivesOK
  <1>2. CASE Next
    <2>1. PICK h \in Handlers :
            \/ Buyer(h) \/ Staff(h)
            \/ \E l \in Lines : CreateLine(h, l)
            \/ Write(h) \/ Award(h) \/ Die(h)
          BY <1>2 DEF Next
    <2>2. ASSUME Award(h) \/ Die(h) PROVE IInv'
      <3>1. /\ job' = [job EXCEPT ![h] = Idle]
            /\ UNCHANGED <<form, status, quantity, received, packages>>
            BY <2>2 DEF Award, Die
      <3>2. Idle.at = "idle"
            BY DEF Idle
      <3> QED  BY <3>1, <3>2, AsideKeeps
    <2> QED  BY <2>1, <2>2, BuyerKeeps, StaffKeeps, CreateLineKeeps, WriteKeeps
  <1> QED  BY <1>1, <1>2

(* The units on record as received never exceed those that came in         *)
(* packages, nor those the return is for (receivePackage), however many    *)
(* requests are at work on however many returns.                           *)
THEOREM ReceiptsAreCovered == Spec => []ReceivedInPackages
  <1>1. IInv => ReceivedInPackages
        BY DEF IInv
  <1> QED  BY <1>1, IInvInit, IInvStep, PTL DEF Spec

(* A request that is being checked changes no row.                         *)
LEMMA RequestsTouchNothing ==
    ASSUME NEW h \in Handlers, Buyer(h) \/ Staff(h)
    PROVE  status' = status
  <1>1. CASE Buyer(h)
        BY <1>1 DEF Buyer, Create, Ship, CancelByUser, Prepare, Serve
  <1>2. CASE Staff(h)
    <2>1. PICK s \in Submissions :
            \/ \E S \in SUBSET RowsOf(s) :
                 \/ ReviewEligibility(h, s, S)
                 \/ \E units \in [S -> Units \ {0}] : ReceivePackage(h, s, units)
            \/ StartInspection(h, s)
            \/ \E r \in RowsOf(s) :
                 \/ GenerateReturnLabel(h, r)
                 \/ ProcessRefund(h, r)
                 \/ \E to \in Statuses, units \in 0 .. quantity[r] \cup {Null} :
                      UpdateStatus(h, r, to, units)
                 \/ \E units \in Units, complete \in BOOLEAN :
                      InspectLine(h, r, units, complete) \/ InspectRefurbLine(h, r, units, complete)
          BY <1>2 DEF Staff
    <2>2. ASSUME NEW S, NEW units,
                 ReviewEligibility(h, s, S) \/ ReceivePackage(h, s, units) \/ StartInspection(h, s)
          PROVE  status' = status
          BY <2>2 DEF ReviewEligibility, ReceivePackage, StartInspection, Prepare, Serve
    <2>3. ASSUME NEW r, GenerateReturnLabel(h, r) \/ ProcessRefund(h, r)
          PROVE  status' = status
          BY <2>3 DEF GenerateReturnLabel, ProcessRefund, Prepare, Serve
    <2>4. ASSUME NEW r, NEW to, NEW units, UpdateStatus(h, r, to, units)
          PROVE  status' = status
          BY <2>4 DEF UpdateStatus, Prepare, Serve
    <2>5. ASSUME NEW r, NEW units, NEW complete,
                 InspectLine(h, r, units, complete) \/ InspectRefurbLine(h, r, units, complete)
          PROVE  status' = status
          BY <2>5 DEF InspectLine, InspectRefurbLine, Prepare, Serve
    <2> QED  BY <2>1, <2>2, <2>3, <2>4, <2>5
  <1> QED  BY <1>1, <1>2

(* A row that was turned down or cancelled comes back to life only by a    *)
(* request that read it before, by a second inspection (inspectLine) or by *)
(* the shipment of its submission (submitCustomerUspsShipment).            *)
THEOREM RevivalsAreKnown == Spec => OnlyKnownRevivals
  <1>1. ASSUME IInv, [Next]_vars, NEW r \in Revived
        PROVE  \E h \in Handlers :
                 /\ job[h].at = "write" /\ r \in DOMAIN job[h].status
                 /\ r \notin job[h].dead \/ job[h].by \in {"inspect", "ship"}
    <2>1. r \in Rows /\ status[r] \in Terminal /\ status'[r] \notin Terminal
          BY DEF Revived
    <2>2. PICK h \in Handlers :
            \/ Buyer(h) \/ Staff(h)
            \/ \E l \in Lines : CreateLine(h, l)
            \/ Write(h) \/ Award(h) \/ Die(h)
          BY <1>1, <2>1 DEF Next, vars
    <2>3. Write(h) \/ \E l \in Lines : CreateLine(h, l)
      <3>1. Buyer(h) \/ Staff(h) => status' = status
            BY RequestsTouchNothing
      <3>2. Award(h) \/ Die(h) => status' = status
            BY DEF Award, Die
      <3> QED  BY <2>1, <2>2, <3>1, <3>2
    <2>4. CASE Write(h)
      <3>1. job[h].at = "write" /\ RevivesOK(job[h])
            BY <1>1, <2>4 DEF Write, IInv, JobsOK
      <3>2. status'[r] = IF r \in DOMAIN job[h].status THEN job[h].status[r] ELSE status[r]
            BY <2>1, <2>4 DEF Write, Over
      <3> QED  BY <2>1, <3>1, <3>2 DEF RevivesOK, Reviving
    <2>5. ASSUME NEW l \in Lines, CreateLine(h, l) PROVE FALSE
      <3>1. status[<<job[h].sub, l>>] = "NONE"
            BY <1>1, <2>5 DEF CreateLine, IInv, JobsOK, CreatingOK
      <3>2. r # <<job[h].sub, l>>
            BY <2>1, <3>1 DEF Terminal
      <3>3. status'[r] = status[r]
            BY <1>1, <2>1, <2>2, <2>5, <3>2 DEF CreateLine, IInv, ColumnsOK
      <3> QED  BY <2>1, <3>3
    <2> QED  BY <2>3, <2>4, <2>5
  <1>2. IInv /\ [Next]_vars =>
          [\A r \in Revived : \E h \in Handlers :
             /\ job[h].at = "write" /\ r \in DOMAIN job[h].status
             /\ r \notin job[h].dead \/ job[h].by \in {"inspect", "ship"}]_vars
        BY <1>1
  <1> QED  BY <1>2, IInvInit, IInvStep, PTL DEF Spec, OnlyKnownRevivals

-----------------------------------------------------------------------------
(* What is paid back.  The rows of a line that were never turned down      *)
(* claim no more than was bought, because each new one is counted with     *)
(* those that are live; a row is accepted, refunded and awarded for no     *)
(* more than it claims; and refunds are for standard rows, store credit    *)
(* for used ones, so that no row has both.                                 *)
UpTo(n) == 0 .. n

RowPaid(r) ==
    /\ accepted[r] \in UpTo(quantity[r]) \cup {Null}
    /\ refunded[r] \in UpTo(quantity[r])
    /\ credit[r] \in UpTo(quantity[r]) /\ earned[r] \in UpTo(quantity[r])
    /\ refunded[r] # 0 => Kind(r) = "STANDARD"
    /\ earned[r] # 0 => Kind(r) = "REFURBISHMENT"
    /\ status[r] = "NONE" => accepted[r] = Null /\ refunded[r] = 0
                             /\ credit[r] = 0 /\ earned[r] = 0
    /\ status[r] \in Terminal => r \in freed

PaidColumns ==
    /\ quantity \in [Rows -> Units]
    /\ accepted = [r \in Rows |-> accepted[r]] /\ refunded = [r \in Rows |-> refunded[r]]
    /\ credit = [r \in Rows |-> credit[r]] /\ earned = [r \in Rows |-> earned[r]]
    /\ labelled \subseteq Rows /\ freed \subseteq Rows
    /\ served \in 0 .. MaxRequests
    /\ \A s \in Submissions : form[s].kind \in Kinds[s] \cup {"none"}
    /\ \A h \in Handlers : job[h].at \in {"idle", "create", "write", "award"}

(* The amounts a request is about to write or to award, of rows there are. *)
Awarded(S) ==
    \A r \in S : r \in Rows /\ status[r] # "NONE" /\ Kind(r) = "REFURBISHMENT"

PaysOK(c) ==
    /\ \A r \in DOMAIN c.accepted :
         r \in Rows /\ status[r] # "NONE" /\ c.accepted[r] \in UpTo(quantity[r])
    /\ \A r \in DOMAIN c.refunded :
         /\ r \in Rows /\ status[r] # "NONE" /\ Kind(r) = "STANDARD"
         /\ c.refunded[r] \in UpTo(quantity[r])
    /\ c.labels \subseteq Rows
    /\ Awarded(c.awards)

JobsPay ==
    \A h \in Handlers :
      /\ job[h].at = "write" => PaysOK(job[h])
      /\ job[h].at = "award" => Awarded(job[h].rows)
      /\ job[h].at = "create" => \A l \in job[h].todo : job[h].want[l] \in Units

LinesHeld == \A l \in Lines : SumFunctionOnSet(quantity, Held(l)) <= Purchased[l]

PayInv == PaidColumns /\ (\A r \in Rows : RowPaid(r)) /\ JobsPay /\ LinesHeld

LEMMA RowsAreFinite == IsFiniteSet(Rows) /\ \A l \in Lines : IsFiniteSet(Held(l))
  <1>1. IsFiniteSet(Rows)
        BY FS_Product, ReturnsAssumption DEF ReturnsAssumption, Rows
  <1>2. \A l \in Lines : Held(l) \subseteq Rows
        BY DEF Held
  <1> QED  BY <1>1, <1>2, FS_Subset

LEMMA UnitsDownward == \A n \in Units : \A m \in UpTo(n) : n \in Nat /\ m \in Units
  <1> SUFFICES ASSUME NEW n \in Units, NEW m \in UpTo(n) PROVE n \in Nat /\ m \in Units
      OBVIOUS
  <1>1. PICK l \in Lines : n \in 0 .. Purchased[l]
        BY DEF Units
  <1>2. Purchased[l] \in Nat
        BY ReturnsAssumption DEF ReturnsAssumption
  <1>3. n \in Nat /\ m \in 0 .. Purchased[l]
        BY <1>1, <1>2 DEF UpTo
  <1> QED  BY <1>3 DEF Units

LEMMA PayInit == Init => PayInv
  <1> SUFFICES ASSUME Init PROVE PayInv
      OBVIOUS
  <1>1. \A r \in Rows : 0 \in Units
    <2>1. ASSUME NEW r \in Rows PROVE 0 \in Units
      <3>1. r[2] \in Lines /\ Purchased[r[2]] \in Nat
            BY ReturnsAssumption DEF ReturnsAssumption, Rows
      <3>2. 0 \in 0 .. Purchased[r[2]]
            BY <3>1
      <3> QED  BY <3>1, <3>2 DEF Units
    <2> QED  BY <2>1
  <1>2. PaidColumns
    <2>1. quantity \in [Rows -> Units]
          BY <1>1 DEF Init
    <2>2. 0 \in 0 .. MaxRequests
          BY ReturnsAssumption DEF ReturnsAssumption
    <2> QED  BY <2>1, <2>2 DEF Init, PaidColumns, Idle
  <1>3. \A r \in Rows : RowPaid(r)
        BY DEF Init, RowPaid, UpTo, Null, Terminal
  <1>4. JobsPay
        BY DEF Init, JobsPay, Idle
  <1>5. LinesHeld
    <2> SUFFICES ASSUME NEW l \in Lines
                 PROVE  SumFunctionOnSet(quantity, Held(l)) <= Purchased[l]
        BY DEF LinesHeld
    <2>1. Held(l) = {}
          BY DEF Init, Held
    <2>2. SumFunctionOnSet(quantity, Held(l)) = 0
          BY <2>1, SumEmpty
    <2> QED  BY <2>2, ReturnsAssumption DEF ReturnsAssumption
  <1> QED  BY <1>2, <1>3, <1>4, <1>5 DEF PayInv

(* A step that touches no row: one handler takes up a change that is in    *)
(* order.  It may give a type to a submission that has no rows.            *)
LEMMA PayAside ==
    ASSUME IInv, PayInv, NEW h \in Handlers, NEW c, job' = [job EXCEPT ![h] = c],
           c.at \in {"idle", "create", "write", "award"},
           c.at = "write" => PaysOK(c), c.at = "award" => Awarded(c.rows),
           c.at = "create" => \A l \in c.todo : c.want[l] \in Units,
           \A s \in Submissions :
             \/ form'[s].kind = form[s].kind
             \/ form[s].kind = "none" /\ form'[s].kind \in Kinds[s],
           served' \in 0 .. MaxRequests,
           UNCHANGED <<status, quantity, accepted, refunded, credit, earned, labelled, freed>>
    PROVE  PayInv'
  <1>1. \A g \in Handlers : job'[g] = IF g = h THEN c ELSE job[g]
        BY DEF IInv, ColumnsOK
  <1>2. \A r \in Rows : status[r] # "NONE" => form'[r[1]].kind = form[r[1]].kind
        BY DEF IInv, NothingBefore, Rows
  <1>3. PaidColumns'
        BY <1>1 DEF PayInv, PaidColumns
  <1>4. ASSUME NEW r \in Rows PROVE RowPaid(r)'
        BY <1>2 DEF PayInv, RowPaid, Kind, UpTo, Terminal, Null
  <1>5. ASSUME NEW S, Awarded(S) PROVE Awarded(S)'
        BY <1>2, <1>5 DEF Awarded, Kind
  <1>6. ASSUME NEW d, PaysOK(d) PROVE PaysOK(d)'
        BY <1>2, <1>5, <1>6 DEF PaysOK, Kind
  <1>7. JobsPay'
        BY <1>1, <1>5, <1>6 DEF PayInv, JobsPay
  <1>8. LinesHeld'
    <2>1. \A l \in Lines : Held(l)' = Held(l)
          BY DEF Held
    <2> QED  BY <2>1 DEF PayInv, LinesHeld
  <1> QED  BY <1>3, <1>4, <1>7, <1>8 DEF PayInv

(* A request that has passed its checks.                                   *)
PayFields == {"at", "by", "dead", "accepted", "refunded", "labels", "awards"}

LEMMA PreparePays ==
    ASSUME IInv, PayInv, NEW h \in Handlers, NEW by, NEW c, Prepare(h, by, c),
           PayFields \subseteq DOMAIN c, c.at = "write", PaysOK(c)
    PROVE  PayInv'
  <1> DEFINE dead == {r \in DOMAIN c.status : status[r] \in Terminal}
             d == [c EXCEPT !.by = by, !.dead = dead]
  <1>1. job' = [job EXCEPT ![h] = d]
        BY DEF Prepare, Serve
  <1>2. /\ UNCHANGED <<form, status, quantity, accepted, refunded, credit, earned,
                       labelled, freed>>
        /\ served < MaxRequests /\ served' = served + 1
        BY DEF Prepare, Serve, Free, books
  <1> HIDE DEF dead
  <1>3. /\ d.at = "write" /\ d.accepted = c.accepted /\ d.refunded = c.refunded
        /\ d.labels = c.labels /\ d.awards = c.awards
        BY DEF PayFields
  <1> HIDE DEF d
  <1>4. PaysOK(d)
        BY <1>3 DEF PaysOK
  <1>5. served' \in 0 .. MaxRequests
        BY <1>2, ReturnsAssumption DEF ReturnsAssumption, PayInv, PaidColumns
  <1> QED  BY <1>1, <1>2, <1>3, <1>4, <1>5, PayAside

(* A change of no amounts.                                                 *)
Paying(c, count, back, labels, awards) ==
    /\ PayFields \subseteq DOMAIN c
    /\ c.at = "write" /\ c.accepted = count /\ c.refunded = back
    /\ c.labels = labels /\ c.awards = awards

LEMMA MovePays ==
    ASSUME NEW S, NEW to
    PROVE  Paying(Move(S, to), None, None, {}, {})
  <1> DEFINE places == All(S, to)
  <1>1. Move(S, to) = [NoChange EXCEPT !.status = places]
        BY DEF Move
  <1> HIDE DEF places
  <1>2. Paying([NoChange EXCEPT !.status = places], None, None, {}, {})
        BY DEF Paying, NoChange, PayFields
  <1> QED  BY <1>1, <1>2

LEMMA PayingKeeps ==
    ASSUME IInv, PayInv, NEW h \in Handlers, NEW by, NEW c, NEW count, NEW back,
           NEW labels, NEW awards, Prepare(h, by, c), Paying(c, count, back, labels, awards),
           \A r \in DOMAIN count :
             r \in Rows /\ status[r] # "NONE" /\ count[r] \in UpTo(quantity[r]),
           \A r \in DOMAIN back :
             /\ r \in Rows /\ status[r] # "NONE" /\ Kind(r) = "STANDARD"
             /\ back[r] \in UpTo(quantity[r]),
           labels \subseteq Rows, Awarded(awards)
    PROVE  PayInv'
  <1>1. PaysOK(c)
        BY DEF Paying, PaysOK
  <1> QED  BY <1>1, PreparePays DEF Paying

LEMMA NoneIsEmpty == DOMAIN None = {} /\ Awarded({})
  BY DEF None, All, Awarded

(* The buyer's requests.                                                   *)
LEMMA CreatePays ==
    ASSUME IInv, PayInv, NEW h \in Handlers, NEW s \in Submissions, NEW kind \in Kinds[s],
           NEW want \in Selections, NEW outcome, Create(h, s, kind, want, outcome)
    PROVE  PayInv'
  <1> DEFINE c == [at |-> "create", sub |-> s, want |-> want, outcome |-> outcome,
                   todo |-> DOMAIN want]
  <1>1. /\ job' = [job EXCEPT ![h] = c]
        /\ form' = [form EXCEPT ![s].kind = kind] /\ form[s].kind = "none"
        /\ UNCHANGED <<status, quantity, accepted, refunded, credit, earned, labelled, freed>>
        /\ served < MaxRequests /\ served' = served + 1
        BY DEF Create, Serve, Free, books
  <1>2. \A l \in DOMAIN want : want[l] \in Units
        BY DEF Selections
  <1>3. c.at = "create" /\ c.todo = DOMAIN want /\ c.want = want
        OBVIOUS
  <1> HIDE DEF c
  <1>4. \A t \in Submissions : form'[t].kind = IF t = s THEN kind ELSE form[t].kind
        BY <1>1 DEF IInv, ColumnsOK
  <1>5. served' \in 0 .. MaxRequests
        BY <1>1, ReturnsAssumption DEF ReturnsAssumption, PayInv, PaidColumns
  <1> QED  BY <1>1, <1>2, <1>3, <1>4, <1>5, PayAside

(* A request that writes no amounts.                                       *)
LEMMA MovingPays ==
    ASSUME IInv, PayInv, NEW h \in Handlers, NEW by, NEW S, NEW to,
           Prepare(h, by, Move(S, to))
    PROVE  PayInv'
  BY MovePays, PayingKeeps, NoneIsEmpty

LEMMA BuyerPays ==
    ASSUME IInv, PayInv, NEW h \in Handlers, Buyer(h)
    PROVE  PayInv'
  <1>1. PICK s \in Submissions :
          \/ \E kind \in Kinds[s], want \in Selections :
               \E outcome \in [DOMAIN want -> Outcomes(kind)] :
                 Create(h, s, kind, want, outcome)
          \/ Ship(h, s)
          \/ CancelByUser(h, s)
        BY DEF Buyer
  <1>2. CASE Ship(h, s)
        BY <1>2, MovingPays DEF Ship
  <1>3. CASE CancelByUser(h, s)
        BY <1>3, MovingPays DEF CancelByUser
  <1> QED  BY <1>1, <1>2, <1>3, CreatePays

(* The staff's.                                                            *)
LEMMA ReceivePays ==
    ASSUME IInv, PayInv, NEW h \in Handlers, NEW s, NEW units, ReceivePackage(h, s, units)
    PROVE  PayInv'
  <1> DEFINE total == [r \in DOMAIN units |-> NowReceived(r, units[r])]
             full == {r \in DOMAIN units : total[r] >= quantity[r] /\ status[r] = "REQUESTED"}
             c == [Move(full, "RECEIVED") EXCEPT !.received = total, !.packed = units]
  <1>1. Prepare(h, "receive", c)
        BY DEF ReceivePackage
  <1> HIDE DEF total, full
  <1>2. Paying(c, None, None, {}, {})
        BY MovePays DEF Paying, PayFields
  <1> HIDE DEF c
  <1> QED  BY <1>1, <1>2, PayingKeeps, NoneIsEmpty

LEMMA UpdatePays ==
    ASSUME IInv, PayInv, NEW h \in Handlers, NEW s, NEW r \in RowsOf(s), NEW to,
           NEW units \in 0 .. quantity[r] \cup {Null}, UpdateStatus(h, r, to, units)
    PROVE  PayInv'
  <1> DEFINE S == Companions(r, to)
             count == CASE units # Null -> All(S, units)
                        [] units = Null /\ Kind(r) = "STANDARD" ->
                             All({r}, IF to = "APPROVED" THEN quantity[r] ELSE 0)
                        [] OTHER -> None
             awards == IF to = "INSPECTION_APPROVED" THEN {r} ELSE {}
             c == [Move(S, to) EXCEPT !.accepted = count, !.awards = awards]
  <1>1. r \in Rows /\ status[r] # "NONE" /\ quantity[r] \in Nat
        BY DEF RowsOf, IInv, ColumnsOK
  <1>2. Prepare(h, "update", c)
        BY DEF UpdateStatus
  <1>3. ASSUME units # Null PROVE S = {r}
    <2>1. status[r] = "UNDER_INSPECTION"
          BY <1>3 DEF UpdateStatus
    <2>2. CASE Kind(r) = "REFURBISHMENT" /\ to \in RefurbTransitions("UNDER_INSPECTION")
      <3>1. to \in {"INSPECTION_APPROVED", "INSPECTION_REJECTED"}
            BY <2>2 DEF RefurbTransitions
      <3> QED  BY <3>1 DEF Companions
    <2>3. CASE Kind(r) = "STANDARD"
          BY <2>3 DEF Companions
    <2> QED  BY <2>1, <2>2, <2>3 DEF UpdateStatus, MayBecome
  <1>4. \A q \in DOMAIN count :
          q \in Rows /\ status[q] # "NONE" /\ count[q] \in UpTo(quantity[q])
    <2>1. CASE units # Null
      <3>1. count = [q \in {r} |-> units] /\ units \in 0 .. quantity[r]
            BY <1>3, <2>1 DEF All
      <3> QED  BY <1>1, <3>1 DEF UpTo
    <2>2. CASE units = Null /\ Kind(r) = "STANDARD"
      <3>1. count = [q \in {r} |-> IF to = "APPROVED" THEN quantity[r] ELSE 0]
            BY <2>2 DEF All
      <3> QED  BY <1>1, <3>1 DEF UpTo
    <2>3. CASE units = Null /\ Kind(r) # "STANDARD"
      <3>1. count = None
            BY <2>3
      <3> QED  BY <3>1, NoneIsEmpty
    <2> QED  BY <2>1, <2>2, <2>3
  <1>5. Awarded(awards)
    <2>1. CASE to = "INSPECTION_APPROVED"
      <3>1. Kind(r) = "REFURBISHMENT"
            BY <2>1 DEF UpdateStatus, MayBecome
      <3> QED  BY <1>1, <3>1 DEF Awarded
    <2>2. CASE to # "INSPECTION_APPROVED"
          BY <2>2 DEF Awarded
    <2> QED  BY <2>1, <2>2
  <1> HIDE DEF S, count, awards
  <1>6. Paying(c, count, None, {}, awards)
        BY MovePays DEF Paying, PayFields
  <1> HIDE DEF c
  <1> QED  BY <1>2, <1>4, <1>5, <1>6, PayingKeeps, NoneIsEmpty

LEMMA InspectPays ==
    ASSUME IInv, PayInv, NEW h \in Handlers, NEW s, NEW r \in RowsOf(s), NEW units,
           NEW complete,
           InspectLine(h, r, units, complete) \/ InspectRefurbLine(h, r, units, complete)
    PROVE  PayInv'
  <1> DEFINE count == All({r}, units)
  <1>1. r \in Rows /\ status[r] # "NONE" /\ quantity[r] \in Nat
        BY DEF RowsOf, IInv, ColumnsOK
  <1>2. units \in UpTo(quantity[r])
    <2>1. received[r] \in Nat /\ received[r] <= quantity[r]
          BY <1>1 DEF IInv, ColumnsOK, ReceivedInPackages
    <2> QED  BY <1>1, <2>1 DEF InspectLine, InspectRefurbLine, UpTo
  <1>3. \A q \in DOMAIN count :
          q \in Rows /\ status[q] # "NONE" /\ count[q] \in UpTo(quantity[q])
        BY <1>1, <1>2 DEF All
  <1> HIDE DEF count
  <1>4. CASE InspectLine(h, r, units, complete)
    <2> DEFINE S == IF complete \/ status[r] \in {"REQUESTED", "RECEIVED"} THEN {r} ELSE {}
               to == IF ~complete THEN "UNDER_INSPECTION"
                     ELSE IF units > 0 THEN "APPROVED" ELSE "REJECTED"
               c == [Move(S, to) EXCEPT !.accepted = count]
    <2>1. Prepare(h, "inspect", c)
          BY <1>4 DEF InspectLine, count
    <2> HIDE DEF S, to
    <2>2. Paying(c, count, None, {}, {})
          BY MovePays DEF Paying, PayFields
    <2> HIDE DEF c
    <2> QED  BY <1>3, <2>1, <2>2, PayingKeeps, NoneIsEmpty
  <1>5. CASE InspectRefurbLine(h, r, units, complete)
    <2> DEFINE S == IF complete \/ status[r] = "RECEIVED" THEN {r} ELSE {}
               to == IF ~complete THEN "UNDER_INSPECTION"
                     ELSE IF units > 0 THEN "INSPECTION_APPROVED" ELSE "INSPECTION_REJECTED"
               awards == IF to = "INSPECTION_APPROVED" THEN {r} ELSE {}
               c == [Move(S, to) EXCEPT !.accepted = count, !.awards = awards]
    <2>1. Prepare(h, "refurb", c)
          BY <1>5 DEF InspectRefurbLine, count
    <2>2. Awarded(awards)
          BY <1>1, <1>5 DEF InspectRefurbLine, Awarded
    <2> HIDE DEF S, to, awards
    <2>3. Paying(c, count, None, {}, awards)
          BY MovePays DEF Paying, PayFields
    <2> HIDE DEF c
    <2> QED  BY <1>3, <2>1, <2>2, <2>3, PayingKeeps, NoneIsEmpty
  <1> QED  BY <1>4, <1>5

LEMMA StaffPays ==
    ASSUME IInv, PayInv, NEW h \in Handlers, Staff(h)
    PROVE  PayInv'
  <1>1. ASSUME NEW s, NEW S, ReviewEligibility(h, s, S) PROVE PayInv'
        BY <1>1, MovingPays DEF ReviewEligibility
  <1>2. ASSUME NEW s, StartInspection(h, s) PROVE PayInv'
        BY <1>2, MovingPays DEF StartInspection
  <1>3. ASSUME NEW s, NEW r \in RowsOf(s), GenerateReturnLabel(h, r) PROVE PayInv'
    <2> DEFINE labels == {r}
               c == [Move({r}, "LABEL_GENERATED") EXCEPT !.labels = labels]
    <2>1. Prepare(h, "label", c)
          BY <1>3 DEF GenerateReturnLabel
    <2>2. labels \subseteq Rows
          BY DEF RowsOf
    <2> HIDE DEF labels
    <2>3. Paying(c, None, None, labels, {})
          BY MovePays DEF Paying, PayFields
    <2> HIDE DEF c
    <2> QED  BY <2>1, <2>2, <2>3, PayingKeeps, NoneIsEmpty
  <1>4. ASSUME NEW s, NEW r \in RowsOf(s), ProcessRefund(h, r) PROVE PayInv'
    <2> DEFINE units == All({r}, accepted[r])
               c == [NoChange EXCEPT !.refunded = units]
    <2>1. Prepare(h, "refund", c)
          BY <1>4 DEF ProcessRefund
    <2>2. r \in Rows /\ status[r] # "NONE" /\ Kind(r) = "STANDARD" /\ RowPaid(r)
          BY <1>4 DEF ProcessRefund, RowsOf, PayInv
    <2>3. accepted[r] \in UpTo(quantity[r])
          BY <1>4, <2>2 DEF ProcessRefund, RowPaid, Null
    <2>4. \A q \in DOMAIN units :
            /\ q \in Rows /\ status[q] # "NONE" /\ Kind(q) = "STANDARD"
            /\ units[q] \in UpTo(quantity[q])
          BY <2>2, <2>3 DEF All
    <2> HIDE DEF units
    <2>5. Paying(c, None, units, {}, {})
          BY DEF Paying, PayFields, NoChange
    <2> HIDE DEF c
    <2> QED  BY <2>1, <2>4, <2>5, PayingKeeps, NoneIsEmpty
  <1>5. PICK s \in Submissions :
          \/ \E S \in SUBSET RowsOf(s) :
               \/ ReviewEligibility(h, s, S)
               \/ \E units \in [S -> Units \ {0}] : ReceivePackage(h, s, units)
          \/ StartInspection(h, s)
          \/ \E r \in RowsOf(s) :
               \/ GenerateReturnLabel(h, r)
               \/ ProcessRefund(h, r)
               \/ \E to \in Statuses, units \in 0 .. quantity[r] \cup {Null} :
                    UpdateStatus(h, r, to, units)
               \/ \E units \in Units, complete \in BOOLEAN :
                    InspectLine(h, r, units, complete) \/ InspectRefurbLine(h, r, units, complete)
        BY DEF Staff
  <1> QED  BY <1>1, <1>2, <1>3, <1>4, <1>5, ReceivePays, UpdatePays, InspectPays

(* A line gets its row: it is counted with those that are live, which all  *)
(* the rows never turned down are.                                         *)
LEMMA CreateLinePays ==
    ASSUME IInv, PayInv, IInv', NEW h \in Handlers, NEW l \in Lines, CreateLine(h, l)
    PROVE  PayInv'
  <1> DEFINE s == job[h].sub
             row == <<s, l>>
             want == job[h].want[l]
             rest == job[h].todo \ {l}
             fresh == job[h].outcome[l]
             left == [job[h] EXCEPT !.todo = rest]
             next == IF rest = {} THEN Idle ELSE left
  <1>1. /\ s \in Submissions /\ l \in job[h].todo /\ row \in Rows
        /\ status[row] = "NONE" /\ fresh \in Made
        /\ want \in Units /\ job[h].at = "create"
        BY DEF CreateLine, IInv, JobsOK, CreatingOK, PayInv, JobsPay, Rows
  <1>2. CASE ~StillFits(l, want)
    <2>1. /\ job' = [job EXCEPT ![h] = Idle]
          /\ UNCHANGED <<form, status, quantity, freed, accepted, refunded, credit, earned,
                         labelled, served>>
          BY <1>2 DEF CreateLine, books
    <2>2. Idle.at = "idle" /\ served \in 0 .. MaxRequests
          BY DEF Idle, PayInv, PaidColumns
    <2> QED  BY <2>1, <2>2, PayAside
  <1>3. CASE StillFits(l, want)
    <2>1. /\ status' = [status EXCEPT ![row] = fresh]
          /\ quantity' = [quantity EXCEPT ![row] = want]
          /\ freed' = IF fresh \in Terminal THEN freed \cup {row} ELSE freed
          /\ form' = IF form[s].first = {} THEN [form EXCEPT ![s].first = {l}] ELSE form
          /\ job' = [job EXCEPT ![h] = IF rest = {} THEN Idle ELSE [@ EXCEPT !.todo = rest]]
          /\ UNCHANGED <<accepted, refunded, credit, earned, labelled, served>>
          BY <1>3 DEF CreateLine, books
    <2>2. job' = [job EXCEPT ![h] = next]
          BY <2>1 DEF IInv, ColumnsOK
    <2>3. \A t \in Submissions : form'[t].kind = form[t].kind
          BY <2>1 DEF IInv, ColumnsOK
    <2>4. \A r \in Rows : status'[r] = IF r = row THEN fresh ELSE status[r]
          BY <2>1 DEF IInv, ColumnsOK
    <2>5. \A r \in Rows : quantity'[r] = IF r = row THEN want ELSE quantity[r]
          BY <2>1 DEF IInv, ColumnsOK
    <2>6. \A g \in Handlers : job'[g] = IF g = h THEN next ELSE job[g]
          BY <2>2 DEF IInv, ColumnsOK
    <2>7. /\ next.at \in {"idle", "create"}
          /\ next.at = "create" => next.todo \subseteq job[h].todo /\ next.want = job[h].want
      <3>1. Idle.at = "idle"  BY DEF Idle
      <3>2. left.at = job[h].at /\ left.todo = rest /\ left.want = job[h].want
            OBVIOUS
      <3> QED  BY <1>1, <3>1, <3>2
    <2> HIDE DEF next, left
    <2>8. \A r \in Rows : Kind(r)' = Kind(r)
          BY <2>3 DEF Kind, Rows
    <2>9. PaidColumns'
      <3>1. quantity' \in [Rows -> Units]
            BY <1>1, <2>1 DEF PayInv, PaidColumns
      <3> QED  BY <1>1, <2>1, <2>3, <2>6, <2>7, <3>1 DEF PayInv, PaidColumns
    <2>10. ASSUME NEW r \in Rows PROVE RowPaid(r)'
      <3>1. RowPaid(r)
            BY DEF PayInv
      <3>2. CASE r = row
        <4>1. /\ accepted'[r] = Null /\ refunded'[r] = 0 /\ credit'[r] = 0 /\ earned'[r] = 0
              /\ status'[r] # "NONE" /\ (status'[r] \in Terminal => r \in freed')
              /\ quantity'[r] = want
              BY <1>1, <2>1, <2>4, <2>5, <3>1, <3>2 DEF RowPaid, Made
        <4>2. 0 \in UpTo(quantity'[r])
              BY <1>1, <4>1, UnitsAreNat DEF UpTo
        <4> QED  BY <4>1, <4>2 DEF RowPaid, UpTo, Null, Terminal
      <3>3. CASE r # row
            BY <2>1, <2>4, <2>5, <2>8, <3>1, <3>3 DEF RowPaid, UpTo, Null, Terminal
      <3> QED  BY <3>2, <3>3
    <2>11. JobsPay'
      <3> SUFFICES ASSUME NEW g \in Handlers
                   PROVE  /\ job'[g].at = "write" => PaysOK(job[g])'
                          /\ job'[g].at = "award" => Awarded(job[g].rows)'
                          /\ job'[g].at = "create" =>
                               \A k \in job'[g].todo : job'[g].want[k] \in Units
          BY DEF JobsPay
      <3>1. CASE g = h
            BY <1>1, <2>6, <2>7, <3>1 DEF PayInv, JobsPay
      <3>2. CASE g # h
        <4>1. /\ job'[g] = job[g]
              /\ job[g].at = "write" => PaysOK(job[g])
              /\ job[g].at = "award" => Awarded(job[g].rows)
              /\ job[g].at = "create" => \A k \in job[g].todo : job[g].want[k] \in Units
              BY <2>6, <3>2 DEF PayInv, JobsPay
        <4>2. ASSUME NEW S, Awarded(S) PROVE Awarded(S)'
              BY <1>1, <2>4, <2>8, <4>2 DEF Awarded, Made
        <4>3. PaysOK(job[g]) => PaysOK(job[g])'
              BY <1>1, <2>4, <2>5, <2>8, <4>1, <4>2 DEF PaysOK, UpTo, Made
        <4> QED  BY <4>1, <4>2, <4>3
      <3> QED  BY <3>1, <3>2
    <2>12. ASSUME NEW k \in Lines PROVE SumFunctionOnSet(quantity', Held(k)') <= Purchased[k]
      <3>1. /\ \A r \in Rows : quantity[r] \in Nat /\ quantity'[r] \in Nat
            /\ Purchased[k] \in Nat
            BY ReturnsAssumption DEF ReturnsAssumption, IInv, ColumnsOK
      <3>2. /\ Held(k) \subseteq Rows /\ IsFiniteSet(Held(k)) /\ row \notin Held(k)
            BY <1>1, RowsAreFinite DEF Held
      <3>3. SumFunctionOnSet(quantity', Held(k)) = SumFunctionOnSet(quantity, Held(k))
            BY <2>5, <3>1, <3>2, SumSame
      <3>4. SumFunctionOnSet(quantity, Held(k)) <= Purchased[k]
            BY DEF PayInv, LinesHeld
      <3>5. CASE Held(k)' = Held(k)
            BY <3>3, <3>4, <3>5
      <3>6. CASE Held(k)' # Held(k)
        <4>1. k = l /\ Held(k)' = Held(k) \cup {row}
              BY <1>1, <2>1, <2>4, <3>6 DEF Held, Made
        <4>2. SumFunctionOnSet(quantity', Held(k)') = want + SumFunctionOnSet(quantity, Held(k))
          <5>1. \A r \in Held(k) \cup {row} : quantity'[r] \in Int
                BY <1>1, <3>1, <3>2
          <5>2. SumFunctionOnSet(quantity', Held(k) \cup {row})
                  = quantity'[row] + SumFunctionOnSet(quantity', Held(k))
                BY <3>2, <5>1, SumAdd
          <5> QED  BY <1>1, <2>5, <3>3, <4>1, <5>2
        <4>3. want <= Purchased[k] - Claimed(k)
              BY <1>3, <4>1 DEF StillFits, Returnable
        <4> DEFINE live == {r \in Rows : r[2] = k /\ Live(r)}
        <4>4. live \subseteq Rows /\ IsFiniteSet(live)
              BY RowsAreFinite, FS_Subset
        <4>5. Held(k) \subseteq live
              BY DEF Held, Live, PayInv, RowPaid
        <4>6. SumFunctionOnSet(quantity, Held(k)) <= Claimed(k) /\ Claimed(k) \in Int
          <5>1. \A r \in live : quantity[r] \in Nat
                BY <3>1
          <5>2. SumFunctionOnSet(quantity, live) \in Int
                BY <4>4, <5>1, SumInt
          <5>3. SumFunctionOnSet(quantity, Held(k)) <= SumFunctionOnSet(quantity, live)
                BY <4>4, <4>5, <5>1, SumPart
          <5> QED  BY <5>2, <5>3 DEF Claimed
        <4>7. SumFunctionOnSet(quantity, Held(k)) \in Int
              BY <3>1, <3>2, SumInt
        <4>8. want \in Int
              BY <1>1, UnitsAreNat
        <4> HIDE DEF want
        <4> QED  BY <3>1, <4>2, <4>3, <4>6, <4>7, <4>8
      <3> QED  BY <3>5, <3>6
    <2> QED  BY <2>9, <2>10, <2>11, <2>12 DEF PayInv, LinesHeld
  <1> QED  BY <1>2, <1>3

(* The transaction writes no more than it was asked to; it only ever       *)
(* takes rows away from those that were never turned down.                 *)
LEMMA WritePays ==
    ASSUME IInv, PayInv, IInv', NEW h \in Handlers, Write(h)
    PROVE  PayInv'
  <1> DEFINE c == job[h]
             next == IF c.awards = {} THEN Idle ELSE [at |-> "award", rows |-> c.awards]
             gone == {r \in Rows : status'[r] \in Terminal}
  <1>1. /\ c.at = "write" /\ MovesOK(c) /\ PaysOK(c)
        /\ job' = [job EXCEPT ![h] = next]
        /\ freed' = freed \cup gone /\ labelled' = labelled \cup c.labels
        /\ UNCHANGED <<form, quantity, credit, earned, served>>
        BY DEF Write, IInv, JobsOK, PayInv, JobsPay
  <1>2. \A r \in Rows : status'[r] = IF r \in DOMAIN c.status THEN c.status[r] ELSE status[r]
        BY DEF Write, Over
  <1>3. /\ \A r \in Rows : accepted'[r] = IF r \in DOMAIN c.accepted THEN c.accepted[r]
                                          ELSE accepted[r]
        /\ accepted' = [r \in Rows |-> accepted'[r]]
        BY DEF Write, Over
  <1>4. /\ \A r \in Rows : refunded'[r] = IF refunded[r] = 0 /\ r \in DOMAIN c.refunded
                                          THEN c.refunded[r] ELSE refunded[r]
        /\ refunded' = [r \in Rows |-> refunded'[r]]
        BY DEF Write
  <1>5. \A g \in Handlers : job'[g] = IF g = h THEN next ELSE job[g]
        BY <1>1 DEF IInv, ColumnsOK
  <1>6. /\ next.at \in {"idle", "award"}
        /\ next.at = "award" => next.rows = c.awards
        BY DEF Idle
  <1>7. \A r \in gone : r \in Rows
        OBVIOUS
  <1>8. \A r \in Rows : status'[r] \in Terminal => r \in freed'
        BY <1>1
  <1> HIDE DEF c, next, gone
  <1>9. \A r \in Rows : status[r] # "NONE" <=> status'[r] # "NONE"
        BY <1>1, <1>2 DEF MovesOK, Made
  <1>10. \A r \in Rows : Kind(r)' = Kind(r)
         BY <1>1 DEF Kind
  <1>11. PaidColumns'
    <2>1. labelled' \subseteq Rows /\ freed' \subseteq Rows
          BY <1>1, <1>7 DEF PaysOK, PayInv, PaidColumns
    <2>2. credit' = [r \in Rows |-> credit'[r]] /\ earned' = [r \in Rows |-> earned'[r]]
          BY <1>1 DEF PayInv, PaidColumns
    <2>3. \A g \in Handlers : job'[g].at \in {"idle", "create", "write", "award"}
          BY <1>5, <1>6 DEF PayInv, PaidColumns
    <2> QED  BY <1>1, <1>3, <1>4, <2>1, <2>2, <2>3 DEF PayInv, PaidColumns
  <1>12. ASSUME NEW r \in Rows PROVE RowPaid(r)'
    <2>1. RowPaid(r)
          BY DEF PayInv
    <2>2. accepted'[r] \in UpTo(quantity[r]) \cup {Null}
          BY <1>1, <1>3, <2>1 DEF PaysOK, RowPaid
    <2>3. /\ refunded'[r] \in UpTo(quantity[r])
          /\ refunded'[r] # 0 => Kind(r) = "STANDARD"
          BY <1>1, <1>4, <2>1 DEF PaysOK, RowPaid
    <2>4. status[r] = "NONE" => accepted'[r] = accepted[r] /\ refunded'[r] = refunded[r]
          BY <1>1, <1>3, <1>4 DEF PaysOK
    <2> QED  BY <1>1, <1>8, <1>9, <1>10, <2>1, <2>2, <2>3, <2>4 DEF RowPaid, UpTo, Null, Terminal
  <1>13. JobsPay'
    <2> SUFFICES ASSUME NEW g \in Handlers
                 PROVE  /\ job'[g].at = "write" => PaysOK(job[g])'
                        /\ job'[g].at = "award" => Awarded(job[g].rows)'
                        /\ job'[g].at = "create" =>
                             \A k \in job'[g].todo : job'[g].want[k] \in Units
        BY DEF JobsPay
    <2>1. ASSUME NEW S, Awarded(S) PROVE Awarded(S)'
          BY <1>9, <1>10, <2>1 DEF Awarded
    <2>2. CASE g = h
          BY <1>1, <1>5, <1>6, <2>1, <2>2 DEF PaysOK
    <2>3. CASE g # h
      <3>1. /\ job'[g] = job[g]
            /\ job[g].at = "write" => PaysOK(job[g])
            /\ job[g].at = "award" => Awarded(job[g].rows)
            /\ job[g].at = "create" => \A k \in job[g].todo : job[g].want[k] \in Units
            BY <1>5, <2>3 DEF PayInv, JobsPay
      <3>2. PaysOK(job[g]) => PaysOK(job[g])'
            BY <1>1, <1>9, <1>10, <2>1, <3>1 DEF PaysOK
      <3> QED  BY <2>1, <3>1, <3>2
    <2> QED  BY <2>2, <2>3
  <1>14. ASSUME NEW l \in Lines PROVE SumFunctionOnSet(quantity', Held(l)') <= Purchased[l]
    <2>1. /\ \A r \in Rows : quantity[r] \in Nat
          /\ Purchased[l] \in Nat
          BY ReturnsAssumption DEF ReturnsAssumption, IInv, ColumnsOK
    <2>2. /\ Held(l)' \subseteq Held(l) /\ Held(l) \subseteq Rows /\ IsFiniteSet(Held(l))
          BY <1>1, <1>9, RowsAreFinite DEF Held
    <2>3. SumFunctionOnSet(quantity, Held(l)') <= SumFunctionOnSet(quantity, Held(l))
          BY <2>1, <2>2, SumPart
    <2>4. SumFunctionOnSet(quantity, Held(l)) <= Purchased[l]
          BY DEF PayInv, LinesHeld
    <2>5. /\ SumFunctionOnSet(quantity, Held(l)) \in Int
          /\ SumFunctionOnSet(quantity, Held(l)') \in Int
          BY <2>1, <2>2, SumInt, FS_Subset
    <2> QED  BY <1>1, <2>1, <2>3, <2>4, <2>5
  <1> QED  BY <1>11, <1>12, <1>13, <1>14 DEF PayInv, LinesHeld

(* The award is for the accepted units, or for all of them, and for a used *)
(* row alone.                                                              *)
LEMMA AwardPays ==
    ASSUME IInv, PayInv, NEW h \in Handlers, Award(h)
    PROVE  PayInv'
  <1>1. /\ job' = [job EXCEPT ![h] = Idle]
        /\ UNCHANGED <<form, status, quantity, accepted, refunded, labelled, freed, served>>
        BY DEF Award
  <1>2. PICK r \in job[h].rows :
          LET amount == IF accepted[r] # Null THEN accepted[r] ELSE quantity[r]
          IN  IF credit[r] = 0 /\ earned[r] = 0
              THEN /\ credit' = [credit EXCEPT ![r] = amount]
                   /\ earned' = [earned EXCEPT ![r] = amount]
              ELSE UNCHANGED <<credit, earned>>
        BY DEF Award
  <1>3. r \in Rows /\ status[r] # "NONE" /\ Kind(r) = "REFURBISHMENT" /\ RowPaid(r)
        /\ quantity[r] \in Nat
        BY <1>2 DEF Award, PayInv, JobsPay, Awarded, IInv, ColumnsOK
  <1> DEFINE amount == IF accepted[r] # Null THEN accepted[r] ELSE quantity[r]
  <1>4. amount \in UpTo(quantity[r])
        BY <1>3 DEF RowPaid, UpTo
  <1> HIDE DEF amount
  <1>5. \A q \in Rows :
          \/ credit'[q] = credit[q] /\ earned'[q] = earned[q]
          \/ q = r /\ credit'[q] = amount /\ earned'[q] = amount
        BY <1>2 DEF PayInv, PaidColumns, amount
  <1>6. credit' = [q \in Rows |-> credit'[q]] /\ earned' = [q \in Rows |-> earned'[q]]
        BY <1>2 DEF PayInv, PaidColumns
  <1>7. \A g \in Handlers : job'[g] = IF g = h THEN Idle ELSE job[g]
        BY <1>1 DEF IInv, ColumnsOK
  <1>8. Idle.at = "idle"
        BY DEF Idle
  <1>9. \A q \in Rows : Kind(q)' = Kind(q)
        BY <1>1 DEF Kind
  <1>10. PaidColumns'
         BY <1>1, <1>6, <1>7, <1>8 DEF PayInv, PaidColumns
  <1>11. ASSUME NEW q \in Rows PROVE RowPaid(q)'
    <2>1. RowPaid(q)
          BY DEF PayInv
    <2>2. CASE credit'[q] = credit[q] /\ earned'[q] = earned[q]
          BY <1>1, <1>9, <2>1, <2>2 DEF RowPaid, UpTo, Null, Terminal
    <2>3. CASE q = r /\ credit'[q] = amount /\ earned'[q] = amount
          BY <1>1, <1>3, <1>4, <1>9, <2>1, <2>3 DEF RowPaid, UpTo, Null, Terminal
    <2> QED  BY <1>5, <2>2, <2>3
  <1>12. JobsPay'
    <2>1. ASSUME NEW S, Awarded(S) PROVE Awarded(S)'
          BY <1>1, <1>9, <2>1 DEF Awarded
    <2>2. ASSUME NEW d, PaysOK(d) PROVE PaysOK(d)'
          BY <1>1, <1>9, <2>1, <2>2 DEF PaysOK
    <2> QED  BY <1>7, <1>8, <2>1, <2>2 DEF PayInv, JobsPay
  <1>13. LinesHeld'
    <2>1. \A l \in Lines : Held(l)' = Held(l)
          BY <1>1 DEF Held
    <2> QED  BY <1>1, <2>1 DEF PayInv, LinesHeld
  <1> QED  BY <1>10, <1>11, <1>12, <1>13 DEF PayInv

LEMMA PayStep == IInv /\ IInv' /\ PayInv /\ [Next]_vars => PayInv'
  <1> SUFFICES ASSUME IInv, IInv', PayInv, [Next]_vars PROVE PayInv'
      OBVIOUS
  <1>1. CASE UNCHANGED vars
    <2>1. /\ \A l \in Lines : Held(l)' = Held(l)
          /\ \A r : Kind(r)' = Kind(r)
          BY <1>1 DEF vars, Held, Kind
    <2>2. PaidColumns' /\ LinesHeld'
          BY <1>1, <2>1 DEF vars, books, PayInv, PaidColumns, LinesHeld
    <2>3. \A r \in Rows : RowPaid(r)'
          BY <1>1, <2>1 DEF vars, books, PayInv, RowPaid, UpTo, Null, Terminal
    <2>4. JobsPay'
          BY <1>1, <2>1 DEF vars, books, PayInv, JobsPay, PaysOK, Awarded
    <2> QED  BY <2>2, <2>3, <2>4 DEF PayInv
  <1>2. CASE Next
    <2>1. PICK h \in Handlers :
            \/ Buyer(h) \/ Staff(h)
            \/ \E l \in Lines : CreateLine(h, l)
            \/ Write(h) \/ Award(h) \/ Die(h)
          BY <1>2 DEF Next
    <2>2. CASE Die(h)
      <3>1. /\ job' = [job EXCEPT ![h] = Idle]
            /\ UNCHANGED <<form, status, quantity, accepted, refunded, credit, earned,
                           labelled, freed, served>>
            BY <2>2 DEF Die, books
      <3>2. Idle.at = "idle" /\ served \in 0 .. MaxRequests
            BY DEF Idle, PayInv, PaidColumns
      <3> QED  BY <3>1, <3>2, PayAside
    <2> QED  BY <2>1, <2>2, BuyerPays, StaffPays, CreateLinePays, WritePays, AwardPays
  <1> QED  BY <1>1, <1>2

LEMMA PaysWhatIsHeld == IInv /\ PayInv => ClaimsArePaidOnce
  <1> SUFFICES ASSUME IInv, PayInv PROVE ClaimsArePaidOnce
      OBVIOUS
  <1>1. \A r \in Rows : /\ received[r] \in Units /\ refunded[r] \in Units
                        /\ credit[r] \in Units /\ earned[r] \in Nat
                        /\ accepted[r] \in Units \cup {Null}
    <2> SUFFICES ASSUME NEW r \in Rows
                 PROVE  /\ received[r] \in Units /\ refunded[r] \in Units
                        /\ credit[r] \in Units /\ earned[r] \in Nat
                        /\ accepted[r] \in Units \cup {Null}
        OBVIOUS
    <2>1. quantity[r] \in Units /\ RowPaid(r)
          BY DEF PayInv, PaidColumns
    <2>2. received[r] \in UpTo(quantity[r])
          BY DEF IInv, ColumnsOK, ReceivedInPackages, UpTo
    <2>3. \A n \in UpTo(quantity[r]) : n \in Units
          BY <2>1, UnitsDownward
    <2> QED  BY <2>1, <2>2, <2>3, UnitsAreNat DEF RowPaid
  <1>2. TypeOK
    <2>1. received = [r \in Rows |-> received[r]]
          BY DEF IInv, ColumnsOK
    <2>2. /\ received \in [Rows -> Units] /\ refunded \in [Rows -> Units]
          /\ credit \in [Rows -> Units] /\ earned \in [Rows -> Nat]
          /\ accepted \in [Rows -> Units \cup {Null}]
          BY <1>1, <2>1 DEF PayInv, PaidColumns
    <2>3. /\ \A s \in Submissions : form[s].first \subseteq Lines
          /\ status \in [Rows -> Statuses] /\ packages \in [Rows -> Nat]
          BY DEF IInv, ColumnsOK
    <2> QED  BY <2>2, <2>3 DEF TypeOK, PayInv, PaidColumns
  <1>3. ASSUME NEW l \in Lines PROVE SumFunctionOnSet(PaidBack, Held(l)) <= Purchased[l]
    <2>1. \A r \in Rows : /\ PaidBack[r] \in Int /\ quantity[r] \in Nat
                          /\ PaidBack[r] <= quantity[r]
      <3> TAKE r \in Rows
      <3>1. RowPaid(r) /\ quantity[r] \in Nat /\ PaidBack[r] = refunded[r] + earned[r]
            BY DEF PayInv, PaidBack, IInv, ColumnsOK
      <3>2. refunded[r] = 0 \/ earned[r] = 0
            BY <3>1 DEF RowPaid
      <3> QED  BY <3>1, <3>2 DEF RowPaid, UpTo
    <2>2. Held(l) \subseteq Rows /\ IsFiniteSet(Held(l))
          BY RowsAreFinite DEF Held
    <2>3. SumFunctionOnSet(PaidBack, Held(l)) <= SumFunctionOnSet(quantity, Held(l))
          BY <2>1, <2>2, SumGrows
    <2>4. /\ SumFunctionOnSet(PaidBack, Held(l)) \in Int
          /\ SumFunctionOnSet(quantity, Held(l)) \in Int
          BY <2>1, <2>2, SumInt
    <2>5. SumFunctionOnSet(quantity, Held(l)) <= Purchased[l] /\ Purchased[l] \in Int
          BY ReturnsAssumption DEF ReturnsAssumption, PayInv, LinesHeld
    <2> QED  BY <2>3, <2>4, <2>5
  <1> QED  BY <1>2, <1>3 DEF ClaimsArePaidOnce, PayInv, LinesHeld

(* However requests for returns overlap, the rows of a line that were      *)
(* never turned down claim no more units than were bought (createForUser), *)
(* and refunds (processRefund) and store credit (awardRefurbStoreCredit)   *)
(* together pay back no more of them.                                      *)
THEOREM UnitsArePaidOnce == Spec => []ClaimsArePaidOnce
  <1>1. IInv /\ PayInv /\ [Next]_vars => IInv' /\ PayInv'
        BY IInvStep, PayStep
  <1> QED  BY <1>1, IInvInit, PayInit, PaysWhatIsHeld, PTL DEF Spec
=============================================================================
