------------------------------ MODULE JobLease ------------------------------
(***************************************************************************)
(* The PostgreSQL-backed lease that coordinates one scheduled job across   *)
(* the API processes: lib/job-lease.js, driven by the interval timers of   *)
(* services/scheduled-jobs.service.js.                                     *)
(*                                                                         *)
(* Jobs do not interact (the row is keyed by jobKey), so one job is        *)
(* modelled.  Instants are kept as the time left until them, measured by   *)
(* the database clock: lease.ttl is leaseExpiresAt - NOW(), and beat is    *)
(* the time left until the run's next heartbeat has reached the database.  *)
(***************************************************************************)
EXTENDS Integers, FiniteSets

CONSTANTS
    Owners,       \* live API processes, each with the ownerId it made at start
    Slots,        \* interval ticks of one process that may be in flight together
    Gone,         \* stands for the ownerId of a process that no longer exists
    LeaseMs,      \* the job's leaseMs
    HeartbeatMs,  \* the renewal interval, max(leaseMs / 3, 5s) in the code
    Late,         \* how late a heartbeat may reach the database
    Skew,         \* Skew[o]: the clock of process o minus the database's
    Prompt        \* the processes whose heartbeats are never later than Late
                  \* and whose ticks never overlap

ASSUME LeaseAssumption ==
    /\ Gone \notin Owners
    /\ LeaseMs \in Nat /\ HeartbeatMs \in Nat /\ Late \in Nat
    /\ Skew \in [Owners -> Int]
    /\ Prompt \subseteq Owners

(* leaseExpiresAt is computed with the process clock and compared with the *)
(* database's: a heartbeat must be able to arrive before the lease it set  *)
(* has run out.                                                            *)
ASSUME TimingAssumption ==
    \A o \in Owners : HeartbeatMs + Late < LeaseMs + Skew[o]

VARIABLES
    lease,        \* the JobLease row: its owner and the time it has left
    run           \* run[o][s]: the tick in slot s of process o

leasing == <<lease, run>>

NoRun == [on |-> FALSE, beat |-> 0]

(* The run starts and its heartbeat interval with it.                      *)
Fresh == [on |-> TRUE, beat |-> HeartbeatMs + Late]

LeaseTypeOK ==
    /\ lease \in [owner : Owners \cup {Gone}, ttl : Nat]
    /\ run \in [Owners -> [Slots -> [on : BOOLEAN, beat : Nat]]]

(* No row yet: any owner may insert one, as it may replace an expired one. *)
LeaseInit ==
    /\ lease = [owner |-> Gone, ttl |-> 0]
    /\ run = [o \in Owners |-> [s \in Slots |-> NoRun]]

Granted(o) == [owner |-> o, ttl |-> LeaseMs + Skew[o]]

(* A tick of a prompt process finds no earlier one of it still running.    *)
MayTick(o, s) ==
    /\ ~run[o][s].on
    /\ o \in Prompt => \A t \in Slots : ~run[o][t].on

(* Faults: a claim that does not look at the expiry, and one that takes no *)
(* expired lease over.                                                     *)
ClaimLive(o, s) ==
    /\ MayTick(o, s)
    /\ lease' = Granted(o)
    /\ run' = [run EXCEPT ![o][s] = Fresh]

ClaimOwnOnly(o, s) == lease.owner = o /\ ClaimLive(o, s)

(* tryAcquireJobLease succeeds: the lease has expired, or is this owner's. *)
(* A tick that finds it held elsewhere returns lock_held and changes       *)
(* nothing.                                                                *)
ClaimLease(o, s) ==
    /\ MayTick(o, s)
    /\ lease.ttl <= 0 \/ lease.owner = o
    /\ lease' = Granted(o)
    /\ run' = [run EXCEPT ![o][s] = Fresh]

(* One heartbeat: renewJobLease extends only a live lease of this owner,   *)
(* and the interval goes on whether or not it did.                         *)
Renew(o, s) ==
    /\ run[o][s].on
    /\ run[o][s].beat <= Late
    /\ lease' = IF lease.owner = o /\ lease.ttl > 0 THEN Granted(o) ELSE lease
    /\ run' = [run EXCEPT ![o][s].beat = @ + HeartbeatMs]

(* Fault: a release that opens the row whoever holds it.                   *)
FinishAnyones(o, s) ==
    /\ run[o][s].on
    /\ lease' = [lease EXCEPT !.ttl = 0]
    /\ run' = [run EXCEPT ![o][s] = NoRun]

(* fn() returned or threw, and releaseJobLease reached the database: the   *)
(* row is opened if it still names this owner.                             *)
Finish(o, s) ==
    /\ run[o][s].on
    /\ lease' = IF lease.owner = o THEN [lease EXCEPT !.ttl = 0] ELSE lease
    /\ run' = [run EXCEPT ![o][s] = NoRun]

(* fn() is over and no release got through: the row is left to expire.     *)
FinishUnreleased(o, s) ==
    /\ run[o][s].on
    /\ run' = [run EXCEPT ![o][s] = NoRun]
    /\ UNCHANGED lease

(* The process dies; the one that replaces it makes itself a new ownerId.  *)
Die(o) ==
    /\ run' = [run EXCEPT ![o] = [s \in Slots |-> NoRun]]
    /\ lease' = IF lease.owner = o THEN [lease EXCEPT !.owner = Gone] ELSE lease

Elapsed(t) == IF t > 0 THEN t - 1 ELSE 0

(* Time passes, not beyond the moment a prompt process owes a heartbeat.   *)
Tick ==
    /\ \A o \in Prompt, s \in Slots : run[o][s].on => run[o][s].beat > 0
    /\ lease' = [lease EXCEPT !.ttl = Elapsed(@)]
    /\ run' = [o \in Owners |-> [s \in Slots |->
                  [run[o][s] EXCEPT !.beat = Elapsed(@)]]]

LeaseNext ==
    \/ Tick
    \/ \E o \in Owners :
        \/ Die(o)
        \/ \E s \in Slots :
            ClaimLease(o, s) \/ Renew(o, s) \/ Finish(o, s) \/ FinishUnreleased(o, s)

LeaseSpec == LeaseInit /\ [][LeaseNext]_leasing

(* The clock advances, the timers of a living process keep firing, and a   *)
(* heartbeat or the end of a run reaches the database.                     *)
LeaseFairness ==
    /\ WF_leasing(Tick)
    /\ \A o \in Owners, s \in Slots :
        /\ WF_leasing(ClaimLease(o, s))
        /\ WF_leasing(Renew(o, s))
        /\ WF_leasing(Finish(o, s))

LeaseFairSpec == LeaseSpec /\ LeaseFairness

Executing == {o \in Owners : \E s \in Slots : run[o][s].on}

(* A prompt process that is running the job still has the lease, and its   *)
(* next heartbeat lands before that lease ends: nobody can claim it        *)
(* meanwhile, however late and overlapping the other processes are.        *)
RunsUnderLease ==
    \A o \in Prompt, s \in Slots :
        run[o][s].on => lease.owner = o /\ run[o][s].beat < lease.ttl

(* A live lease is taken away or cut short only by its own holder ending a *)
(* run: no late renewal, release or claim of another process touches it,   *)
(* even when that process once held the lease and lost it.  A holder that  *)
(* dies leaves the lease to run out.                                       *)
EndsRun(o) == \E s \in Slots : run[o][s].on /\ ~run'[o][s].on

LiveLeaseIsKept ==
    [][lease.ttl > 1 /\ lease.owner \in Owners
         => \/ lease'.owner \in {lease.owner, Gone} /\ lease'.ttl >= lease.ttl - 1
            \/ EndsRun(lease.owner)]_leasing

(* The lease of a process that died cannot keep the job from running: some *)
(* process ends up running it.                                             *)
CrashedHolderIsReplaced == lease.owner = Gone ~> Executing # {}

(* Among prompt processes the lease implements mutual exclusion.           *)
Mutex == INSTANCE JobMutex WITH Owners <- Prompt, executing <- Executing \cap Prompt

ImplementsMutex == Mutex!Spec
=============================================================================
