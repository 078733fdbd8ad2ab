-------------------------------- MODULE Desk --------------------------------
(***************************************************************************)
(* The requests of the back office and of the shop front, and the jobs and  *)
(* scripts that run beside them: each reads rows, awaits, and goes on with  *)
(* what it has read.  A request carries what it is still to do, in order,    *)
(* and what it has read; the process may stop before any of its steps.      *)
(***************************************************************************)
EXTENDS Integers, Sequences, FiniteSets

CONSTANTS
    Handlers,      \* requests, jobs and scripts at work at a time
    Mixes          \* what may happen: how many requests of each kind, and crashes

ASSUME DeskAssumption == \A m \in Mixes : \A k \in DOMAIN m : m[k] \in Nat

VARIABLES
    coming,   \* the requests and crashes still to come
    req,      \* what each handler has read and has still to do
    crossed,  \* history: the kinds that were at work at once, two by two
    crashed   \* history: the kinds that stopped before their end

desk == <<coming, req, crossed, crashed>>

Idle == [todo |-> <<>>]

DeskInit ==
    /\ coming \in Mixes
    /\ req = [h \in Handlers |-> Idle]
    /\ crossed = {} /\ crashed = {}

Busy(h) == req[h].todo # <<>>
Doing(kinds) == {h \in Handlers : Busy(h) /\ req[h].kind \in kinds}
At(h, step) == Busy(h) /\ Head(req[h].todo) = step
Quiet(kinds) == Doing(kinds) = {}

(* h is at one of these, or one may come.                                    *)
Concerns(h, kinds) ==
    IF Busy(h) THEN req[h].kind \in kinds ELSE \E k \in DOMAIN coming \cap kinds : coming[k] > 0

(* Two kinds, or two requests of one kind, were never at work at once.       *)
Apart(k, l) == {k, l} \notin crossed
(* None of these was, nor stopped midway.                                    *)
InTurn(kinds) == crashed \cap kinds = {} /\ \A k, l \in kinds : Apart(k, l)

Begin(h, kind, plan, read) ==
    /\ ~ Busy(h) /\ kind \in DOMAIN coming /\ coming[kind] > 0
    /\ coming' = [coming EXCEPT ![kind] = @ - 1]
    /\ req' = [req EXCEPT ![h] = IF plan = <<>> THEN Idle
                                 ELSE [todo |-> plan, kind |-> kind, read |-> read]]
    /\ crossed' = crossed \cup {{kind, req[g].kind} : g \in {g \in Handlers : Busy(g)}}
    /\ UNCHANGED crashed

GoOn(h, plan, read) ==
    /\ req' = [req EXCEPT ![h] = IF plan = <<>> THEN Idle
                                 ELSE [@ EXCEPT !.todo = plan, !.read = read]]
    /\ UNCHANGED <<coming, crossed, crashed>>

Proceed(h) == GoOn(h, Tail(req[h].todo), req[h].read)
Stop(h) == GoOn(h, <<>>, {})

(* The process stops: what was written stays, the rest is not done.          *)
Crash(h) ==
    /\ Busy(h) /\ "crash" \in DOMAIN coming /\ coming.crash > 0
    /\ coming' = [coming EXCEPT !.crash = @ - 1]
    /\ req' = [req EXCEPT ![h] = Idle]
    /\ crashed' = crashed \cup {req[h].kind}
    /\ UNCHANGED crossed
=============================================================================
