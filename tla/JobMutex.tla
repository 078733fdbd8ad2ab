------------------------------ MODULE JobMutex ------------------------------
(***************************************************************************)
(* What lib/job-lease.js promises its callers: a registered background     *)
(* job is executed by at most one API process at a time.                   *)
(***************************************************************************)
EXTENDS Naturals, FiniteSets

CONSTANT Owners           \* the API processes, named by their ownerId

VARIABLE executing        \* the processes inside the job's run() right now

TypeOK == executing \subseteq Owners

Init == executing = {}

Start(o) == executing = {} /\ executing' = {o}

Stop(o) == o \in executing /\ executing' = executing \ {o}

Next == \E o \in Owners : Start(o) \/ Stop(o)

Spec == Init /\ [][Next]_executing

(* No two processes are inside the job together.                           *)
Exclusive == \A o, p \in executing : o = p
=============================================================================
