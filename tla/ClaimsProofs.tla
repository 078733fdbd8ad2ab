----------------------------- MODULE ClaimsProofs -----------------------------
(***************************************************************************)
(* Rows that concurrent requests claim: the lease of a job, the event of a   *)
(* webhook, the units of a stock row, and the tokens, links and sessions of  *)
(* accounts.  Each is taken by an update or a delete whose WHERE clause       *)
(* repeats what was read, and what is proved of each is that the repetition  *)
(* suffices, for any number of processes, deliveries, transactions and       *)
(* requests.                                                                *)
(***************************************************************************)
EXTENDS JobLease, StripeWebhook, Inventory, Accounts, TLAPS

-----------------------------------------------------------------------------
(***************************************************************************)
(* What holds of the job lease for any number of processes, any lease      *)
(* length and any clock skew the timing assumption allows.                 *)
(***************************************************************************)
LEMMA ElapsedType == \A t \in Nat : Elapsed(t) \in Nat /\ Elapsed(t) <= t
  BY DEF Elapsed

LEMMA GrantedType ==
  \A o \in Owners : /\ Granted(o) \in [owner : Owners \cup {Gone}, ttl : Nat]
                    /\ Granted(o).owner = o
                    /\ Granted(o).ttl > HeartbeatMs + Late
  BY LeaseAssumption, TimingAssumption DEF Granted

(* The lease row and the runs of the processes always have their type: in  *)
(* particular no renewal or release leaves a lease with a negative time.   *)
THEOREM LeaseTypeCorrect == LeaseSpec => []LeaseTypeOK
<1>1. LeaseInit => LeaseTypeOK
  BY DEF LeaseInit, LeaseTypeOK, NoRun
<1>2. LeaseTypeOK /\ [LeaseNext]_leasing => LeaseTypeOK'
  <2> SUFFICES ASSUME LeaseTypeOK, [LeaseNext]_leasing PROVE LeaseTypeOK'
    OBVIOUS
  <2> USE LeaseAssumption DEF LeaseTypeOK
  <2>1. CASE Tick
    <3>1. lease' \in [owner : Owners \cup {Gone}, ttl : Nat]
      BY <2>1, ElapsedType DEF Tick
    <3>2. ASSUME NEW o \in Owners, NEW s \in Slots
          PROVE  [run[o][s] EXCEPT !.beat = Elapsed(@)] \in [on : BOOLEAN, beat : Nat]
      <4>1. run[o][s] \in [on : BOOLEAN, beat : Nat]
        OBVIOUS
      <4>2. run[o][s].beat \in Nat /\ Elapsed(run[o][s].beat) \in Nat
        BY <4>1, ElapsedType
      <4> HIDE DEF LeaseTypeOK
      <4> QED
        BY <4>1, <4>2
    <3>3. run' \in [Owners -> [Slots -> [on : BOOLEAN, beat : Nat]]]
      BY <2>1, <3>2 DEF Tick
    <3> QED
      BY <3>1, <3>3
  <2>2. ASSUME NEW o \in Owners, Die(o) PROVE LeaseTypeOK'
    BY <2>2 DEF Die, NoRun
  <2>3. ASSUME NEW o \in Owners, NEW s \in Slots, ClaimLease(o, s) PROVE LeaseTypeOK'
    BY <2>3, GrantedType DEF ClaimLease, MayTick, Fresh
  <2>4. ASSUME NEW o \in Owners, NEW s \in Slots, Renew(o, s) PROVE LeaseTypeOK'
    BY <2>4, GrantedType DEF Renew
  <2>5. ASSUME NEW o \in Owners, NEW s \in Slots, Finish(o, s) PROVE LeaseTypeOK'
    BY <2>5 DEF Finish, NoRun
  <2>6. ASSUME NEW o \in Owners, NEW s \in Slots, FinishUnreleased(o, s)
        PROVE  LeaseTypeOK'
    BY <2>6 DEF FinishUnreleased, NoRun
  <2>7. CASE UNCHANGED leasing
    BY <2>7 DEF leasing
  <2> QED
    BY <2>1, <2>2, <2>3, <2>4, <2>5, <2>6, <2>7 DEF LeaseNext
<1> QED
  BY <1>1, <1>2, PTL DEF LeaseSpec

(* At most one tick of a prompt process runs the job.                      *)
OneTick ==
  \A o \in Prompt, s, t \in Slots : run[o][s].on /\ run[o][t].on => s = t

(* The end of a run is the end of that run only.                           *)
LEMMA FinishEnds ==
  ASSUME LeaseTypeOK, NEW o \in Owners, NEW s \in Slots,
         Finish(o, s) \/ FinishUnreleased(o, s)
  PROVE  /\ ~run'[o][s].on
         /\ \A p \in Owners, t \in Slots : p # o \/ t # s => run'[p][t] = run[p][t]
<1>1. run' = [run EXCEPT ![o][s] = NoRun]
  BY DEF Finish, FinishUnreleased
<1>2. run'[o][s] = NoRun
  BY <1>1 DEF LeaseTypeOK
<1>3. ~run'[o][s].on
  BY <1>2 DEF NoRun
<1> QED
  BY <1>1, <1>3 DEF LeaseTypeOK

LEMMA TicksApart == LeaseSpec => []OneTick
<1>1. LeaseInit => OneTick
  BY LeaseAssumption DEF LeaseInit, OneTick, NoRun
<1>2. LeaseTypeOK /\ OneTick /\ [LeaseNext]_leasing => OneTick'
  <2> SUFFICES ASSUME LeaseTypeOK, OneTick, [LeaseNext]_leasing,
                      NEW p \in Prompt, NEW t \in Slots, NEW u \in Slots,
                      run'[p][t].on, run'[p][u].on
               PROVE  t = u
    BY DEF OneTick
  <2> USE LeaseAssumption DEF LeaseTypeOK, OneTick
  <2>0. ASSUME run[p][t].on, run[p][u].on PROVE t = u
    BY <2>0
  <2>1. CASE Tick
    BY <2>0, <2>1 DEF Tick
  <2>2. ASSUME NEW o \in Owners, Die(o) PROVE t = u
    BY <2>0, <2>2 DEF Die, NoRun
  <2>3. ASSUME NEW o \in Owners, NEW s \in Slots, ClaimLease(o, s) PROVE t = u
    <3>1. CASE p = o
      <4>1. t = s /\ u = s
        BY <2>3, <3>1 DEF ClaimLease, MayTick
      <4> QED
        BY <4>1
    <3>2. CASE p # o
      BY <2>0, <2>3, <3>2 DEF ClaimLease
    <3> QED
      BY <3>1, <3>2
  <2>4. ASSUME NEW o \in Owners, NEW s \in Slots, Renew(o, s) PROVE t = u
    BY <2>0, <2>4 DEF Renew
  <2>5. ASSUME NEW o \in Owners, NEW s \in Slots,
               Finish(o, s) \/ FinishUnreleased(o, s)
        PROVE  t = u
    <3> DEFINE same(q, v) == q # o \/ v # s => run'[q][v] = run[q][v]
    <3>1. ~run'[o][s].on /\ same(p, t) /\ same(p, u)
      BY <2>5, FinishEnds
    <3>2. ~(p = o /\ t = s) /\ ~(p = o /\ u = s)
      BY <3>1
    <3>3. run[p][t].on /\ run[p][u].on
      BY <3>1, <3>2
    <3> QED
      BY <2>0, <3>3
  <2>6. CASE UNCHANGED leasing
    BY <2>0, <2>6 DEF leasing
  <2> QED
    BY <2>1, <2>2, <2>3, <2>4, <2>5, <2>6 DEF LeaseNext
<1> QED
  BY <1>1, <1>2, LeaseTypeCorrect, PTL DEF LeaseSpec

(* A prompt process runs the job under a lease of its own that outlives    *)
(* its next heartbeat, whatever late and overlapping processes do.         *)
THEOREM LeaseHeld == LeaseSpec => []RunsUnderLease
<1>1. LeaseInit => RunsUnderLease
  BY LeaseAssumption DEF LeaseInit, RunsUnderLease, NoRun
<1>2. LeaseTypeOK /\ OneTick /\ RunsUnderLease /\ [LeaseNext]_leasing => RunsUnderLease'
  <2> SUFFICES ASSUME LeaseTypeOK, OneTick, RunsUnderLease, [LeaseNext]_leasing,
                      NEW p \in Prompt, NEW t \in Slots, run'[p][t].on
               PROVE  lease'.owner = p /\ run'[p][t].beat < lease'.ttl
    BY DEF RunsUnderLease
  <2> USE LeaseAssumption DEF LeaseTypeOK, OneTick, RunsUnderLease
  <2>1. CASE Tick
    <3>1. run[p][t].on /\ run[p][t].beat > 0 /\ run[p][t].beat < lease.ttl
      BY <2>1 DEF Tick
    <3> QED
      BY <2>1, <3>1 DEF Tick, Elapsed
  <2>2. ASSUME NEW o \in Owners, Die(o)
        PROVE  lease'.owner = p /\ run'[p][t].beat < lease'.ttl
    <3>1. p # o /\ run'[p][t] = run[p][t]
      BY <2>2 DEF Die, NoRun
    <3>2. lease.owner # o
      BY <3>1
    <3> QED
      BY <2>2, <3>1, <3>2 DEF Die
  <2>3. ASSUME NEW o \in Owners, NEW s \in Slots, ClaimLease(o, s)
        PROVE  lease'.owner = p /\ run'[p][t].beat < lease'.ttl
    <3>1. CASE p = o
      <4>1. t = s
        BY <2>3, <3>1 DEF ClaimLease, MayTick
      <4>2. lease' = Granted(o) /\ run'[p][t].beat = HeartbeatMs + Late
        BY <2>3, <3>1, <4>1 DEF ClaimLease, Fresh
      <4> QED
        BY <3>1, <4>2, GrantedType
    <3>2. CASE p # o
      <4>1. run[p][t].on
        BY <2>3, <3>2 DEF ClaimLease
      <4>2. lease.owner = p /\ lease.ttl > 0
        BY <4>1
      <4> QED
        BY <2>3, <3>2, <4>2 DEF ClaimLease
    <3> QED
      BY <3>1, <3>2
  <2>4. ASSUME NEW o \in Owners, NEW s \in Slots, Renew(o, s)
        PROVE  lease'.owner = p /\ run'[p][t].beat < lease'.ttl
    <3>1. run[p][t].on /\ lease.owner = p
      BY <2>4 DEF Renew
    <3>2. CASE p = o
      <4>1. run[p][s].on /\ t = s
        BY <2>4, <3>1, <3>2 DEF Renew
      <4>2. lease' = Granted(o)
        BY <2>4, <3>1, <3>2 DEF Renew
      <4>3. run'[p][t].beat <= HeartbeatMs + Late
        BY <2>4, <3>2, <4>1 DEF Renew
      <4>4. run'[p][t].beat \in Nat
        BY <2>4, <3>2, <4>1 DEF Renew
      <4> QED
        BY <3>2, <4>2, <4>3, <4>4, GrantedType
    <3>3. CASE p # o
      BY <2>4, <3>1, <3>3 DEF Renew
    <3> QED
      BY <3>2, <3>3
  <2>5. ASSUME NEW o \in Owners, NEW s \in Slots,
               Finish(o, s) \/ FinishUnreleased(o, s)
        PROVE  lease'.owner = p /\ run'[p][t].beat < lease'.ttl
    <3>1. run[p][t].on /\ run'[p][t] = run[p][t] /\ (p # o \/ t # s)
      BY <2>5 DEF Finish, FinishUnreleased, NoRun
    <3>2. p # o
      BY <2>5, <3>1 DEF Finish, FinishUnreleased
    <3>3. lease.owner # o
      BY <3>1, <3>2
    <3> QED
      BY <2>5, <3>1, <3>3 DEF Finish, FinishUnreleased
  <2>6. CASE UNCHANGED leasing
    BY <2>6 DEF leasing
  <2> QED
    BY <2>1, <2>2, <2>3, <2>4, <2>5, <2>6 DEF LeaseNext
<1> QED
  BY <1>1, <1>2, LeaseTypeCorrect, TicksApart, PTL DEF LeaseSpec

-----------------------------------------------------------------------------
(* What the mutex sees of the processes.                                   *)
Inside == Executing \cap Prompt

LEMMA InsideIs ==
  \A p : p \in Inside <=> p \in Prompt /\ \E s \in Slots : run[p][s].on
  BY LeaseAssumption DEF Inside, Executing

(* Claims of prompt processes find nobody inside.                          *)
LEMMA ClaimEnters ==
  ASSUME LeaseTypeOK, RunsUnderLease, OneTick, NEW o \in Prompt, NEW s \in Slots, ClaimLease(o, s)
  PROVE  Inside = {} /\ Inside' = {o}
<1> USE LeaseAssumption DEF LeaseTypeOK
<1>1. ASSUME NEW p \in Prompt, NEW t \in Slots, run[p][t].on PROVE FALSE
  <2>1. lease.owner = p /\ lease.ttl > 0
    BY <1>1 DEF RunsUnderLease
  <2>2. p = o
    BY <2>1 DEF ClaimLease
  <2> QED
    BY <1>1, <2>2 DEF ClaimLease, MayTick
<1>2. Inside = {}
  BY <1>1, InsideIs
<1>3. ASSUME NEW p \in Prompt, p # o PROVE run'[p] = run[p]
  BY <1>3 DEF ClaimLease
<1>4. run'[o][s].on
  BY DEF ClaimLease, Fresh
<1>5. \A p : p \in Inside' <=> p \in Prompt /\ \E t \in Slots : run'[p][t].on
  BY LeaseAssumption DEF Inside, Executing
<1>6. \A p \in Prompt : p # o => ~(\E t \in Slots : run'[p][t].on)
  BY <1>1, <1>3
<1> QED
  BY <1>2, <1>4, <1>5, <1>6

(* The other steps leave the processes that are inside there, or let one   *)
(* leave.                                                                  *)
LEMMA OthersStay ==
  ASSUME LeaseTypeOK, OneTick, NEW o \in Owners,
         \A p \in Owners \ {o} : \A t \in Slots : run'[p][t].on = run[p][t].on,
         o \in Prompt => \A t \in Slots : run'[o][t].on => run[o][t].on
  PROVE  Inside' = Inside \/ (o \in Inside /\ Inside' = Inside \ {o})
<1> USE LeaseAssumption
<1>1. \A p : p \in Inside' <=> p \in Prompt /\ \E t \in Slots : run'[p][t].on
  BY DEF Inside, Executing
<1>2. \A p : p # o => (p \in Inside' <=> p \in Inside)
  BY <1>1, InsideIs
<1>3. o \in Inside' => o \in Inside
  BY <1>1, InsideIs
<1> QED
  BY <1>2, <1>3

(* The lease refines mutual exclusion: no two prompt processes are ever    *)
(* inside the job together (runWithJobLease).                              *)
THEOREM MutexImplemented == LeaseSpec => ImplementsMutex
<1>1. LeaseInit => Mutex!Init
  BY LeaseAssumption DEF LeaseInit, Mutex!Init, Executing, NoRun
<1>2. LeaseTypeOK /\ OneTick /\ RunsUnderLease /\ [LeaseNext]_leasing
      => [Mutex!Next]_(Executing \cap Prompt)
  <2> SUFFICES ASSUME LeaseTypeOK, OneTick, RunsUnderLease, [LeaseNext]_leasing
               PROVE  \/ Inside' = Inside
                      \/ \E o \in Prompt : Mutex!Start(o) \/ Mutex!Stop(o)
    BY DEF Inside, Mutex!Next
  <2> USE LeaseAssumption
  <2>0. ASSUME NEW o \in Owners, Inside' = Inside \/ (o \in Inside /\ Inside' = Inside \ {o})
        PROVE  Inside' = Inside \/ \E p \in Prompt : Mutex!Start(p) \/ Mutex!Stop(p)
    BY <2>0 DEF Mutex!Stop, Inside
  <2>1. CASE Tick
    BY <2>1 DEF Tick, LeaseTypeOK, Inside, Executing
  <2>2. ASSUME NEW o \in Owners, Die(o) PROVE Inside' = Inside \/ (o \in Inside /\ Inside' = Inside \ {o})
    <3>1. \A p \in Owners \ {o} : run'[p] = run[p]
      BY <2>2 DEF Die, LeaseTypeOK
    <3>2. \A t \in Slots : ~run'[o][t].on
      BY <2>2 DEF Die, LeaseTypeOK, NoRun
    <3> QED
      BY <3>1, <3>2, OthersStay
  <2>3. ASSUME NEW o \in Owners, NEW s \in Slots, ClaimLease(o, s)
        PROVE  \/ Inside' = Inside
               \/ \E p \in Prompt : Mutex!Start(p) \/ Mutex!Stop(p)
    <3>1. CASE o \in Prompt
      BY <2>3, <3>1, ClaimEnters DEF Mutex!Start, Inside
    <3>2. CASE o \notin Prompt
      <4>1. \A p \in Owners \ {o} : run'[p] = run[p]
        BY <2>3 DEF ClaimLease, LeaseTypeOK
      <4> QED
        BY <2>0, <3>2, <4>1, OthersStay
    <3> QED
      BY <3>1, <3>2
  <2>4. ASSUME NEW o \in Owners, NEW s \in Slots, Renew(o, s)
        PROVE  Inside' = Inside
    <3>1. \A p \in Owners, t \in Slots : run'[p][t].on = run[p][t].on
      BY <2>4 DEF Renew, LeaseTypeOK
    <3> QED
      BY <3>1 DEF Inside, Executing
  <2>5. ASSUME NEW o \in Owners, NEW s \in Slots,
               Finish(o, s) \/ FinishUnreleased(o, s)
        PROVE  Inside' = Inside \/ (o \in Inside /\ Inside' = Inside \ {o})
    <3>1. \A p \in Owners \ {o} : run'[p] = run[p]
      BY <2>5 DEF Finish, FinishUnreleased, LeaseTypeOK
    <3>2. \A t \in Slots : run'[o][t].on => run[o][t].on
      BY <2>5, FinishEnds
    <3> QED
      BY <3>1, <3>2, OthersStay
  <2>6. CASE UNCHANGED leasing
    BY <2>6 DEF leasing, Inside, Executing
  <2> QED
    BY <2>0, <2>1, <2>2, <2>3, <2>4, <2>5, <2>6 DEF LeaseNext
<1> QED
  BY <1>1, <1>2, LeaseTypeCorrect, TicksApart, LeaseHeld, PTL
     DEF LeaseSpec, ImplementsMutex, Mutex!Spec

(* Whatever number of processes and ticks, no two prompt processes are inside  *)
(* the job together: what the abstract mutex promises holds of the lease.     *)
THEOREM PromptExclude == LeaseSpec => []Mutex!Exclusive
<1>1. Mutex!Init => Mutex!Exclusive
  BY DEF Mutex!Init, Mutex!Exclusive
<1>2. Mutex!Exclusive /\ [Mutex!Next]_(Executing \cap Prompt) => Mutex!Exclusive'
  BY DEF Mutex!Next, Mutex!Start, Mutex!Stop, Mutex!Exclusive
<1> QED
  BY <1>1, <1>2, MutexImplemented, PTL DEF ImplementsMutex, Mutex!Spec

(* A live lease is never longer than a claim of its owner makes it.         *)
NeverLonger == lease.owner \in Owners => lease.ttl <= Granted(lease.owner).ttl

LEMMA NeverLongerKept ==
  ASSUME LeaseTypeOK, NeverLonger, [LeaseNext]_leasing
  PROVE  NeverLonger'
<1> USE LeaseAssumption DEF LeaseTypeOK, NeverLonger
<1>1. CASE Tick
  <2>1. lease'.owner = lease.owner /\ lease'.ttl <= lease.ttl
    BY <1>1, ElapsedType DEF Tick
  <2>2. lease'.ttl \in Nat
    BY <1>1, ElapsedType DEF Tick
  <2> QED
    BY <2>1, <2>2, GrantedType DEF Granted
<1>2. ASSUME NEW o \in Owners, Die(o) PROVE NeverLonger'
  BY <1>2 DEF Die, Granted
<1>3. ASSUME NEW o \in Owners, NEW s \in Slots, ClaimLease(o, s) PROVE NeverLonger'
  <2>1. lease' = Granted(o)
    BY <1>3 DEF ClaimLease
  <2> QED
    BY <2>1, GrantedType
<1>4. ASSUME NEW o \in Owners, NEW s \in Slots, Renew(o, s) PROVE NeverLonger'
  <2>1. lease' = Granted(o) \/ lease' = lease
    BY <1>4 DEF Renew
  <2> QED
    BY <2>1, GrantedType DEF Granted
<1>5. ASSUME NEW o \in Owners, NEW s \in Slots, Finish(o, s) PROVE NeverLonger'
  <2>1. lease' = [lease EXCEPT !.ttl = 0] \/ lease' = lease
    BY <1>5 DEF Finish
  <2> QED
    BY <2>1, GrantedType DEF Granted
<1>6. ASSUME NEW o \in Owners, NEW s \in Slots, FinishUnreleased(o, s) PROVE NeverLonger'
  BY <1>6 DEF FinishUnreleased, Granted
<1>7. CASE UNCHANGED leasing
  BY <1>7 DEF leasing, Granted
<1> QED
  BY <1>1, <1>2, <1>3, <1>4, <1>5, <1>6, <1>7 DEF LeaseNext

(* A live lease is taken away or cut short only by its own holder ending a *)
(* run: a claim needs it expired or its own, and a renewal or a release    *)
(* that names another owner leaves it alone.                               *)
THEOREM LiveLeaseKept == LeaseSpec => LiveLeaseIsKept
<1>1. LeaseInit => NeverLonger
  BY LeaseAssumption DEF LeaseInit, NeverLonger
<1>2. LeaseTypeOK /\ NeverLonger /\ [LeaseNext]_leasing => NeverLonger'
  BY NeverLongerKept
<1>3. LeaseTypeOK /\ NeverLonger /\ [LeaseNext]_leasing =>
        [lease.ttl > 1 /\ lease.owner \in Owners
           => \/ lease'.owner \in {lease.owner, Gone} /\ lease'.ttl >= lease.ttl - 1
              \/ EndsRun(lease.owner)]_leasing
  <2> SUFFICES ASSUME LeaseTypeOK, NeverLonger, LeaseNext, lease.ttl > 1, lease.owner \in Owners
               PROVE  \/ lease'.owner \in {lease.owner, Gone} /\ lease'.ttl >= lease.ttl - 1
                      \/ EndsRun(lease.owner)
    OBVIOUS
  <2> DEFINE Kept == lease'.owner \in {lease.owner, Gone} /\ lease'.ttl >= lease.ttl - 1
  <2>0. lease = [owner |-> lease.owner, ttl |-> lease.ttl] /\ lease.ttl \in Nat
    BY DEF LeaseTypeOK
  <2>1. CASE Tick
    BY <2>1, <2>0 DEF Tick, Elapsed
  <2>2. ASSUME NEW o \in Owners, Die(o) PROVE Kept
    BY <2>2, <2>0 DEF Die
  <2>3. ASSUME NEW o \in Owners, NEW s \in Slots, ClaimLease(o, s) PROVE Kept
    <3>1. lease' = Granted(o) /\ o = lease.owner
      BY <2>3, <2>0 DEF ClaimLease
    <3> QED
      BY <3>1, <2>0, GrantedType DEF NeverLonger
  <2>4. ASSUME NEW o \in Owners, NEW s \in Slots, Renew(o, s) PROVE Kept
    <3>1. lease' = lease \/ (lease' = Granted(o) /\ o = lease.owner)
      BY <2>4 DEF Renew
    <3> QED
      BY <3>1, <2>0, GrantedType DEF NeverLonger
  <2>5. ASSUME NEW o \in Owners, NEW s \in Slots, Finish(o, s)
        PROVE  Kept \/ EndsRun(lease.owner)
    <3>1. CASE lease.owner = o
      BY <2>5, <3>1 DEF Finish, EndsRun, NoRun, LeaseTypeOK
    <3>2. CASE lease.owner # o
      BY <2>5, <3>2, <2>0 DEF Finish
    <3> QED
      BY <3>1, <3>2
  <2>6. ASSUME NEW o \in Owners, NEW s \in Slots, FinishUnreleased(o, s) PROVE Kept
    BY <2>6, <2>0 DEF FinishUnreleased
  <2> QED
    BY <2>1, <2>2, <2>3, <2>4, <2>5, <2>6 DEF LeaseNext
<1> QED
  BY <1>1, <1>2, <1>3, LeaseTypeCorrect, PTL DEF LeaseSpec, LiveLeaseIsKept

-----------------------------------------------------------------------------
(* That an event has one handler at a time and is never handled again once *)
(* processed, for any number of events and deliveries.                     *)
(* What a claim gives: while a delivery works on an event the row says so, *)
(* and no other delivery works on it.                                      *)
Claimed ==
    /\ \A e \in Events, d \in Deliveries : Working(d, e) => event[e] = "PROCESSING"
    /\ OneHandler

IInv == WebhookTypeOK /\ Claimed

(* The variables keep their types.                                         *)
LEMMA TypeStep == WebhookTypeOK /\ [WebhookNext]_webhook => WebhookTypeOK'
<1> SUFFICES ASSUME WebhookTypeOK, [WebhookNext]_webhook PROVE WebhookTypeOK'
  OBVIOUS
<1> USE DEF WebhookTypeOK, Reached, On, Goto, Answer, Refuse, Absent, Places, Status
<1>1. ASSUME NEW d \in Deliveries, NEW e \in Events, Deliver(d, e) PROVE WebhookTypeOK'
  BY <1>1 DEF Deliver
<1>2. ASSUME NEW d \in Deliveries, Insert(d) PROVE WebhookTypeOK'
  BY <1>2 DEF Insert
<1>3. ASSUME NEW d \in Deliveries, Find(d) PROVE WebhookTypeOK'
  BY <1>3 DEF Find
<1>4. ASSUME NEW d \in Deliveries, Claim(d) PROVE WebhookTypeOK'
  BY <1>4 DEF Claim
<1>5. ASSUME NEW d \in Deliveries, Succeed(d) PROVE WebhookTypeOK'
  BY <1>5 DEF Succeed
<1>6. ASSUME NEW d \in Deliveries, Swallow(d) \/ Throw(d) \/ CompleteFails(d) PROVE WebhookTypeOK'
  BY <1>6 DEF Swallow, Throw, CompleteFails
<1>7. ASSUME NEW d \in Deliveries, Complete(d) PROVE WebhookTypeOK'
  BY <1>7 DEF Complete
<1>8. ASSUME NEW d \in Deliveries, Fail(d) PROVE WebhookTypeOK'
  BY <1>8 DEF Fail
<1>9. ASSUME NEW d \in Deliveries, Crash(d) PROVE WebhookTypeOK'
  BY <1>9 DEF Crash
<1>10. CASE UNCHANGED webhook
  BY <1>10 DEF webhook
<1> QED
  BY <1>1, <1>2, <1>3, <1>4, <1>5, <1>6, <1>7, <1>8, <1>9, <1>10 DEF WebhookNext, DeliveryStep

(* The claim survives every step: only a successful conditional update     *)
(* makes a delivery work on an event, and it finds no PROCESSING row.      *)
LEMMA ClaimStep == IInv /\ [WebhookNext]_webhook => Claimed'
<1> SUFFICES ASSUME IInv, [WebhookNext]_webhook PROVE Claimed'
  OBVIOUS
<1>0. WebhookTypeOK'
  BY TypeStep DEF IInv
<1> USE DEF IInv, WebhookTypeOK, Claimed, OneHandler, Working, Reached, On, Goto, Answer, Refuse,
            Absent, Places, Status
<1>1. ASSUME NEW d \in Deliveries, NEW e \in Events, Deliver(d, e) PROVE Claimed'
  BY <1>1 DEF Deliver
<1>2. ASSUME NEW d \in Deliveries, Insert(d) PROVE Claimed'
  BY <1>2 DEF Insert
<1>3. ASSUME NEW d \in Deliveries, Find(d) PROVE Claimed'
  BY <1>3 DEF Find
<1>4. ASSUME NEW d \in Deliveries, Claim(d) PROVE Claimed'
  <2>1. CASE event[On(d)] = "PROCESSING"
    BY <1>4, <2>1 DEF Claim
  <2>2. CASE event[On(d)] # "PROCESSING"
    <3>1. \A f \in Deliveries : ~Working(f, On(d))
      BY <1>4, <2>2 DEF Claim
    <3> QED
      BY <1>4, <3>1 DEF Claim
  <2> QED
    BY <2>1, <2>2
<1>5. ASSUME NEW d \in Deliveries, Succeed(d) PROVE Claimed'
  BY <1>5 DEF Succeed
<1>6. ASSUME NEW d \in Deliveries, Swallow(d) \/ Throw(d) \/ CompleteFails(d) PROVE Claimed'
  BY <1>6 DEF Swallow, Throw, CompleteFails
<1>7. ASSUME NEW d \in Deliveries, Complete(d) PROVE Claimed'
  <2>1. \A f \in Deliveries \ {d} : ~Working(f, On(d))
    BY <1>7 DEF Complete
  <2> QED
    BY <1>7, <2>1 DEF Complete
<1>8. ASSUME NEW d \in Deliveries, Fail(d) PROVE Claimed'
  <2>1. \A f \in Deliveries \ {d} : ~Working(f, On(d))
    BY <1>8 DEF Fail
  <2> QED
    BY <1>8, <2>1 DEF Fail
<1>9. ASSUME NEW d \in Deliveries, Crash(d) PROVE Claimed'
  BY <1>9 DEF Crash
<1>10. CASE UNCHANGED webhook
  BY <1>10 DEF webhook
<1> QED
  BY <1>1, <1>2, <1>3, <1>4, <1>5, <1>6, <1>7, <1>8, <1>9, <1>10 DEF WebhookNext, DeliveryStep

(* The invariant the theorems below rest on.                               *)
LEMMA Inductive == WebhookSpec => []IInv
<1>1. WebhookInit => IInv
  BY DEF WebhookInit, IInv, WebhookTypeOK, Claimed, OneHandler, Working, Absent, Status
<1>2. IInv /\ [WebhookNext]_webhook => IInv'
  BY TypeStep, ClaimStep DEF IInv
<1> QED
  BY <1>1, <1>2, PTL DEF WebhookSpec

(* The rows, deliveries and sets of events keep their types.               *)
THEOREM WebhookTypeCorrect == WebhookSpec => []WebhookTypeOK
<1>1. IInv => WebhookTypeOK
  BY DEF IInv
<1> QED
  BY <1>1, Inductive, PTL

(* At most one delivery handles an event, completes it or records its      *)
(* failure (beginStripeWebhookEvent).                                      *)
THEOREM HandledByOne == WebhookSpec => []OneHandler
<1>1. IInv => OneHandler
  BY DEF IInv, Claimed
<1> QED
  BY <1>1, Inductive, PTL

(* A processed event keeps its status, and no handler of it is running.    *)
THEOREM ProcessedStays == WebhookSpec => ProcessedIsFinal
<1>1. ASSUME IInv, [WebhookNext]_webhook, NEW e \in Events, event[e] = "PROCESSED"
      PROVE  event'[e] = "PROCESSED" /\ \A d \in Deliveries : Reached(d, "handle") => On(d) # e
  <2>1. \A d \in Deliveries : ~Working(d, e)
    BY <1>1 DEF IInv, Claimed
  <2>2. \A d \in Deliveries : Reached(d, "handle") => On(d) # e
    BY <2>1, <1>1 DEF Working, Reached, Absent
  <2> USE DEF IInv, WebhookTypeOK, Working, Reached, On, Absent, Places, Status
  <2>3. ASSUME NEW d \in Deliveries, Insert(d) \/ Claim(d) PROVE event'[e] = "PROCESSED"
    BY <1>1, <2>3 DEF Insert, Claim
  <2>4. ASSUME NEW d \in Deliveries, Complete(d) \/ Fail(d) PROVE event'[e] = "PROCESSED"
    BY <1>1, <2>1, <2>4 DEF Complete, Fail
  <2>5. ASSUME UNCHANGED event PROVE event'[e] = "PROCESSED"
    BY <1>1, <2>5
  <2> QED
    BY <1>1, <2>2, <2>3, <2>4, <2>5
    DEF WebhookNext, DeliveryStep, Deliver, Find, Succeed, Swallow, Throw, CompleteFails, Crash, webhook
<1>2. IInv /\ [WebhookNext]_webhook =>
        [\A e \in Events :
           event[e] = "PROCESSED" =>
              /\ event'[e] = "PROCESSED"
              /\ \A d \in Deliveries : Reached(d, "handle") => On(d) # e]_webhook
  BY <1>1
<1> QED
  BY <1>2, Inductive, PTL DEF WebhookSpec, ProcessedIsFinal

-----------------------------------------------------------------------------
(***************************************************************************)
(* The stock rows, for any number of rows and transactions, any quantities *)
(* and any selling minimum.                                                *)
(***************************************************************************)
LEMMA LeastType ==
  \A m \in Int, n \in Nat : Least(m, n) \in Int /\ Least(m, n) <= m /\ Least(m, n) <= n
  BY DEF Least

(* An open transaction is of the kind its operation names.                 *)
LEMMA OpenType ==
  ASSUME InventoryTypeOK, NEW t \in Txs
  PROVE  /\ tx[t].op \in Ops => tx[t] \in OpenTxs
         /\ tx[t].op = "adjust" => tx[t] \in Adjustments
         /\ tx[t] # None => tx[t] \in OpenTxs \cup Adjustments
  BY DEF InventoryTypeOK, OpenTxs, Adjustments, None, Ops

LEMMA OpenFields ==
  ASSUME NEW e \in OpenTxs
  PROVE  /\ e.sku \in Skus /\ e.qty \in Nat /\ e.fresh \in BOOLEAN
         /\ e.seen.stock \in Int /\ e.seen.reserved \in Int
<1>1. e.sku \in Skus /\ e.qty \in Quantities /\ e.fresh \in BOOLEAN /\ e.seen \in Rows
  BY DEF OpenTxs
<1> QED
  BY <1>1, InventoryAssumption DEF Rows

(* Marking a transaction as out of date keeps what it is.                  *)
LEMMA CloseBumpingType ==
  ASSUME InventoryTypeOK, NEW t \in Txs, NEW k \in Skus, CloseBumping(t, k)
  PROVE  tx' \in [Txs -> OpenTxs \cup Adjustments \cup {None}]
<1>1. ASSUME NEW u \in Txs
      PROVE  tx'[u] \in OpenTxs \cup Adjustments \cup {None}
  <2>1. tx[u] \in OpenTxs \cup Adjustments \cup {None}
    BY DEF InventoryTypeOK
  <2>2. tx[u] \in OpenTxs => [tx[u] EXCEPT !.fresh = FALSE] \in OpenTxs
    BY DEF OpenTxs
  <2>3. tx[u] \in Adjustments => [tx[u] EXCEPT !.fresh = FALSE] \in Adjustments
    BY DEF Adjustments
  <2>4. tx'[u] \in {None, tx[u]} \/ (tx[u] # None /\ tx'[u] = [tx[u] EXCEPT !.fresh = FALSE])
    BY DEF CloseBumping
  <2> QED
    BY <2>1, <2>2, <2>3, <2>4
<1> QED
  BY <1>1 DEF CloseBumping

LEMMA CloseType ==
  ASSUME InventoryTypeOK, NEW t \in Txs, Close(t)
  PROVE  tx' \in [Txs -> OpenTxs \cup Adjustments \cup {None}]
  BY DEF Close, InventoryTypeOK

(* The rows, the ledger and the open transactions always have their type.  *)
THEOREM InventoryTypeCorrect == InventorySpec => []InventoryTypeOK
<1>1. InventoryInit => InventoryTypeOK
  BY InventoryAssumption DEF InventoryInit, InventoryTypeOK, Rows
<1>2. InventoryTypeOK /\ [InventoryNext]_inventory => InventoryTypeOK'
  <2> SUFFICES ASSUME InventoryTypeOK, [InventoryNext]_inventory PROVE InventoryTypeOK'
    OBVIOUS
  <2>1. CASE UNCHANGED inventory
    BY <2>1 DEF inventory, InventoryTypeOK
  <2>2. ASSUME NEW t \in Txs, NEW o \in Ops, NEW k \in Skus, NEW n \in Quantities,
               Read(t, o, k, n)
        PROVE  InventoryTypeOK'
    <3>1. [op |-> o, sku |-> k, qty |-> n, seen |-> row[k], fresh |-> TRUE] \in OpenTxs
      BY DEF InventoryTypeOK, OpenTxs
    <3> QED
      BY <2>2, <3>1 DEF Read, InventoryTypeOK
  <2>3. ASSUME NEW t \in Txs, NEW k \in Skus, NEW d \in Int, ReadToAdjust(t, k, d)
        PROVE  InventoryTypeOK'
    <3>1. [op |-> "adjust", sku |-> k, delta |-> d, seen |-> row[k], fresh |-> TRUE]
            \in Adjustments
      BY DEF InventoryTypeOK, Adjustments
    <3> QED
      BY <2>3, <3>1 DEF ReadToAdjust, InventoryTypeOK
  <2>4. ASSUME NEW t \in Txs, WriteReserve(t) PROVE InventoryTypeOK'
    <3>1. tx[t] \in OpenTxs
      BY <2>4, OpenType DEF WriteReserve, Ops
    <3>2. tx[t].sku \in Skus /\ tx[t].qty \in Int
      BY <3>1, OpenFields
    <3>3. tx' \in [Txs -> OpenTxs \cup Adjustments \cup {None}]
      BY <2>4, <3>2, CloseBumpingType DEF WriteReserve
    <3> QED
      BY <2>4, <3>2, <3>3 DEF WriteReserve, InventoryTypeOK, Rows
  <2>5. ASSUME NEW t \in Txs, WriteCommit(t) PROVE InventoryTypeOK'
    <3>1. tx[t] \in OpenTxs
      BY <2>5, OpenType DEF WriteCommit, Ops
    <3>2. tx[t].sku \in Skus /\ tx[t].qty \in Int
      BY <3>1, OpenFields
    <3>3. tx' \in [Txs -> OpenTxs \cup Adjustments \cup {None}]
      BY <2>5, <3>2, CloseBumpingType DEF WriteCommit
    <3> QED
      BY <2>5, <3>2, <3>3 DEF WriteCommit, InventoryTypeOK, Rows
  <2>6. ASSUME NEW t \in Txs, WriteRelease(t) PROVE InventoryTypeOK'
    <3>1. tx[t] \in OpenTxs
      BY <2>6, OpenType DEF WriteRelease, Ops
    <3>2. tx[t].sku \in Skus /\ Least(tx[t].seen.reserved, tx[t].qty) \in Int
      BY <3>1, OpenFields, LeastType
    <3>3. tx' \in [Txs -> OpenTxs \cup Adjustments \cup {None}]
      BY <2>6, CloseType DEF WriteRelease
    <3> QED
      BY <2>6, <3>2, <3>3 DEF WriteRelease, InventoryTypeOK, Rows
  <2>7. ASSUME NEW t \in Txs, WriteRestock(t) PROVE InventoryTypeOK'
    <3>1. tx[t] \in OpenTxs
      BY <2>7, OpenType DEF WriteRestock, Ops
    <3>2. tx[t].sku \in Skus /\ tx[t].qty \in Int
      BY <3>1, OpenFields
    <3>3. tx' \in [Txs -> OpenTxs \cup Adjustments \cup {None}]
      BY <2>7, <3>2, CloseBumpingType DEF WriteRestock
    <3> QED
      BY <2>7, <3>2, <3>3 DEF WriteRestock, InventoryTypeOK, Rows
  <2>8. ASSUME NEW t \in Txs, WriteAdjust(t) PROVE InventoryTypeOK'
    <3>1. tx[t] \in Adjustments
      BY <2>8, OpenType DEF WriteAdjust
    <3>2. tx[t].sku \in Skus /\ tx[t].delta \in Int /\ tx[t].seen.stock \in Int
      BY <3>1 DEF Adjustments, Rows
    <3>3. tx' \in [Txs -> OpenTxs \cup Adjustments \cup {None}]
      BY <2>8, CloseType DEF WriteAdjust
    <3> QED
      BY <2>8, <3>2, <3>3 DEF WriteAdjust, InventoryTypeOK, Rows
  <2>9. ASSUME NEW t \in Txs, Abort(t) PROVE InventoryTypeOK'
    BY <2>9, CloseType DEF Abort, InventoryTypeOK
  <2>10. \A n \in Quantities : n \in Int /\ -n \in Int
    BY InventoryAssumption
  <2> QED
    BY <2>1, <2>2, <2>3, <2>4, <2>5, <2>6, <2>7, <2>8, <2>9, <2>10
       DEF InventoryNext, ReadToReserve, ReadToCommit, ReadToRelease, ReadToRestock, Ops
<1> QED
  BY <1>1, <1>2, PTL DEF InventorySpec

-----------------------------------------------------------------------------
(* Whatever another transaction does, an open one keeps what it has read.  *)
LEMMA OtherRowsKeep ==
  ASSUME InventoryTypeOK, NEW t \in Txs, NEW u \in Txs, u # t, NEW k \in Skus,
         CloseBumping(t, k) \/ Close(t)
  PROVE  \/ tx'[u] = tx[u]
         \/ /\ tx[u] \in OpenTxs \cup Adjustments
            /\ tx[u].sku = k
            /\ tx'[u] = [tx[u] EXCEPT !.fresh = FALSE]
  BY OpenType DEF CloseBumping, Close, InventoryTypeOK

LEMMA Closed ==
  ASSUME InventoryTypeOK, NEW t \in Txs, NEW k \in Skus, CloseBumping(t, k) \/ Close(t)
  PROVE  tx'[t] = None
  BY DEF CloseBumping, Close, InventoryTypeOK

LEMMA ReleaseSees == InventorySpec => []ReleaseSawReserved
<1>1. InventoryInit => ReleaseSawReserved
  BY DEF InventoryInit, ReleaseSawReserved, None
<1>2. InventoryTypeOK /\ ReleaseSawReserved /\ [InventoryNext]_inventory => ReleaseSawReserved'
  <2> SUFFICES ASSUME InventoryTypeOK, ReleaseSawReserved, [InventoryNext]_inventory,
                      NEW u \in Txs, tx'[u].op = "release"
               PROVE  tx'[u].seen.reserved > 0
    BY DEF ReleaseSawReserved
  <2>1. ASSUME tx'[u] = tx[u] PROVE tx'[u].seen.reserved > 0
    BY <2>1 DEF ReleaseSawReserved
  <2>2. ASSUME NEW t \in Txs, NEW k \in Skus, CloseBumping(t, k) \/ Close(t)
        PROVE  tx'[u].seen.reserved > 0
    <3>1. u # t
      BY <2>2, Closed DEF None
    <3>2. CASE tx[u] \in OpenTxs \cup Adjustments /\ tx'[u] = [tx[u] EXCEPT !.fresh = FALSE]
      <4>1. tx'[u].op = tx[u].op /\ tx'[u].seen = tx[u].seen
        BY <3>2 DEF OpenTxs, Adjustments
      <4> QED
        BY <4>1 DEF ReleaseSawReserved
    <3> QED
      BY <2>1, <2>2, <3>1, <3>2, OtherRowsKeep
  <2>3. ASSUME NEW t \in Txs, NEW o \in Ops, NEW k \in Skus, NEW n \in Quantities,
               Read(t, o, k, n), o = "release" => row[k].reserved > 0
        PROVE  tx'[u].seen.reserved > 0
    <3>1. CASE u = t
      BY <2>3, <3>1 DEF Read, InventoryTypeOK
    <3>2. CASE u # t
      BY <2>3, <3>2, <2>1 DEF Read, InventoryTypeOK
    <3> QED
      BY <3>1, <3>2
  <2>4. ASSUME NEW t \in Txs, NEW k \in Skus, NEW d \in Int, ReadToAdjust(t, k, d)
        PROVE  tx'[u].seen.reserved > 0
    <3>1. u # t
      BY <2>4 DEF ReadToAdjust, InventoryTypeOK
    <3> QED
      BY <2>4, <3>1, <2>1 DEF ReadToAdjust, InventoryTypeOK
  <2>5. \A n \in Quantities : n \in Int /\ -n \in Int
    BY InventoryAssumption
  <2>6. ASSUME NEW t \in Txs, tx[t] # None PROVE tx[t].sku \in Skus
    BY <2>6, OpenType, OpenFields DEF Adjustments
  <2>7. CASE UNCHANGED inventory
    BY <2>1, <2>7 DEF inventory
  <2>8. ASSUME NEW t \in Txs,
               \/ WriteReserve(t) \/ WriteCommit(t) \/ WriteRelease(t)
               \/ WriteRestock(t) \/ WriteAdjust(t) \/ Abort(t)
        PROVE  tx'[u].seen.reserved > 0
    <3>1. tx[t] # None
      BY <2>8 DEF None, WriteReserve, WriteCommit, WriteRelease, WriteRestock,
                  WriteAdjust, Abort
    <3>2. CloseBumping(t, tx[t].sku) \/ Close(t)
      BY <2>8 DEF WriteReserve, WriteCommit, WriteRelease, WriteRestock,
                  WriteAdjust, Abort
    <3> QED
      BY <3>1, <3>2, <2>2, <2>6
  <2> QED
    BY <2>3, <2>4, <2>5, <2>7, <2>8
       DEF InventoryNext, ReadToReserve, ReadToCommit, ReadToRelease, ReadToRestock, Ops
<1> QED
  BY <1>1, <1>2, InventoryTypeCorrect, PTL DEF InventorySpec

(* A reservation whose version check will pass has seen every reservation  *)
(* there is: whatever adds to reservedStock bumps the version.             *)
THEOREM FreshReads == InventorySpec => []FreshReadCovers
<1>1. InventoryInit => FreshReadCovers
  BY DEF InventoryInit, FreshReadCovers, None
<1>2. InventoryTypeOK /\ ReleaseSawReserved /\ FreshReadCovers /\ [InventoryNext]_inventory => FreshReadCovers'
  <2> SUFFICES ASSUME InventoryTypeOK, ReleaseSawReserved, FreshReadCovers, [InventoryNext]_inventory,
                      NEW u \in Txs, tx'[u].op = "reserve", tx'[u].fresh
               PROVE  row'[tx'[u].sku].reserved <= tx'[u].seen.reserved
    BY DEF FreshReadCovers
  <2> DEFINE Goal == row'[tx'[u].sku].reserved <= tx'[u].seen.reserved
  <2>0. ASSUME NEW k \in Skus PROVE row[k].reserved \in Int /\ row[k].stock \in Int
    BY DEF InventoryTypeOK, Rows
  <2>1. ASSUME tx'[u] = tx[u], row' = row PROVE Goal
    BY <2>1 DEF FreshReadCovers
  <2>2. ASSUME NEW t \in Txs, NEW o \in Ops, NEW k \in Skus, NEW n \in Quantities,
               Read(t, o, k, n)
        PROVE  Goal
    <3>1. CASE u = t
      <4>1. tx'[u].sku = k /\ tx'[u].seen = row[k] /\ row' = row
        BY <2>2, <3>1 DEF Read, InventoryTypeOK
      <4> QED
        BY <4>1, <2>0
    <3>2. CASE u # t
      BY <2>2, <3>2, <2>1 DEF Read, InventoryTypeOK
    <3> QED
      BY <3>1, <3>2
  <2>3. ASSUME NEW t \in Txs, NEW k \in Skus, NEW d \in Int, ReadToAdjust(t, k, d)
        PROVE  Goal
    <3>1. u # t
      BY <2>3 DEF ReadToAdjust, InventoryTypeOK
    <3> QED
      BY <2>3, <3>1, <2>1 DEF ReadToAdjust, InventoryTypeOK
  (* A write on the row of u that bumps the version makes u out of date;   *)
  (* one on another row does not concern it.                               *)
  <2>4. ASSUME NEW t \in Txs, NEW k \in Skus, CloseBumping(t, k),
               \A j \in Skus : j # k => row'[j] = row[j]
        PROVE  Goal
    <3>1. u # t
      BY <2>4, Closed DEF None
    <3>2. tx'[u] = tx[u]
      <4>1. CASE tx[u] \in OpenTxs \cup Adjustments /\ tx'[u] = [tx[u] EXCEPT !.fresh = FALSE]
        <5>1. tx'[u].fresh = FALSE
          BY <4>1 DEF OpenTxs, Adjustments
        <5> QED
          BY <5>1
      <4> QED
        BY <2>4, <3>1, <4>1, OtherRowsKeep
    <3>3. tx[u] \in OpenTxs /\ tx[u].sku \in Skus
      BY <3>2, OpenType, OpenFields DEF Ops
    <3>4. tx[u].sku # k
      <4>1. tx[u] # None
        BY <3>3 DEF OpenTxs, None
      <4>2. SUFFICES ASSUME tx[u].sku = k PROVE FALSE
        OBVIOUS
      <4>3. tx'[u] = [tx[u] EXCEPT !.fresh = FALSE]
        BY <2>4, <3>1, <4>1, <4>2 DEF CloseBumping
      <4>4. tx'[u].fresh = FALSE
        BY <3>3, <4>3 DEF OpenTxs
      <4> QED
        BY <4>4
    <3> QED
      BY <2>4, <3>2, <3>3, <3>4 DEF FreshReadCovers
  <2>5. ASSUME NEW t \in Txs, WriteReserve(t) \/ WriteCommit(t) \/ WriteRestock(t)
        PROVE  Goal
    <3>1. tx[t].sku \in Skus
      BY <2>5, OpenType, OpenFields DEF WriteReserve, WriteCommit, WriteRestock, Ops
    <3>2. CloseBumping(t, tx[t].sku)
      BY <2>5 DEF WriteReserve, WriteCommit, WriteRestock
    <3>3. \A j \in Skus : j # tx[t].sku => row'[j] = row[j]
      BY <2>5 DEF WriteReserve, WriteCommit, WriteRestock, InventoryTypeOK
    <3> QED
      BY <3>1, <3>2, <3>3, <2>4
  (* A release takes off at least one unit, an adjustment none.            *)
  <2>6. ASSUME NEW t \in Txs, NEW k \in Skus, Close(t),
               \A j \in Skus : row'[j].reserved <= row[j].reserved /\ row'[j].reserved \in Int
        PROVE  Goal
    <3>1. u # t
      BY <2>6, Closed DEF None
    <3>2. tx'[u] = tx[u]
      BY <2>6, <3>1 DEF Close, InventoryTypeOK
    <3>3. tx[u].sku \in Skus /\ tx[u].seen.reserved \in Int
      BY <3>2, OpenType, OpenFields DEF Ops
    <3>4. row[tx[u].sku].reserved <= tx[u].seen.reserved
      BY <3>2 DEF FreshReadCovers
    <3> QED
      BY <2>6, <2>0, <3>2, <3>3, <3>4
  <2>7. ASSUME NEW t \in Txs, WriteRelease(t) PROVE Goal
    <3>1. tx[t].sku \in Skus /\ tx[t].qty \in Nat /\ tx[t].seen.reserved \in Int
      BY <2>7, OpenType, OpenFields DEF WriteRelease, Ops
    <3>2. tx[t].seen.reserved > 0
      BY <2>7 DEF WriteRelease, ReleaseSawReserved
    <3> DEFINE m == Least(tx[t].seen.reserved, tx[t].qty)
    <3>3. m \in Int /\ m >= 0
      BY <3>1, <3>2 DEF Least
    <3>4. row' = [row EXCEPT ![tx[t].sku].reserved = @ - m] /\ Close(t)
      BY <2>7 DEF WriteRelease
    <3> HIDE DEF m
    <3>5. ASSUME NEW j \in Skus
          PROVE  row'[j].reserved <= row[j].reserved /\ row'[j].reserved \in Int
      BY <3>3, <3>4, <2>0 DEF InventoryTypeOK, Rows
    <3> QED
      BY <3>1, <3>4, <3>5, <2>6
  <2>8. ASSUME NEW t \in Txs, WriteAdjust(t) PROVE Goal
    <3>1. tx[t].sku \in Skus
      BY <2>8, OpenType DEF WriteAdjust, Adjustments
    <3>2. ASSUME NEW j \in Skus
          PROVE  row'[j].reserved <= row[j].reserved /\ row'[j].reserved \in Int
      BY <2>8, <2>0 DEF WriteAdjust, InventoryTypeOK, Rows
    <3> QED
      BY <2>8, <3>1, <3>2, <2>6 DEF WriteAdjust
  <2>9. ASSUME NEW t \in Txs, Abort(t) PROVE Goal
    <3>1. tx[t] \in OpenTxs \cup Adjustments
      BY <2>9, OpenType DEF Abort
    <3>2. tx[t].sku \in Skus
      BY <3>1, OpenFields DEF Adjustments
    <3> QED
      BY <2>9, <3>2, <2>0, <2>6 DEF Abort
  <2>10. \A n \in Quantities : n \in Int /\ -n \in Int
    BY InventoryAssumption
  <2>11. CASE UNCHANGED inventory
    BY <2>11, <2>1 DEF inventory
  <2> QED
    BY <2>2, <2>3, <2>5, <2>7, <2>8, <2>9, <2>10, <2>11
       DEF InventoryNext, ReadToReserve, ReadToCommit, ReadToRelease, ReadToRestock, Ops
<1> QED
  BY <1>1, <1>2, InventoryTypeCorrect, ReleaseSees, PTL DEF InventorySpec

-----------------------------------------------------------------------------
(* Staff adjust the rows of Adjusted only.                                 *)
OnlyAdjusted == \A t \in Txs : tx[t].op = "adjust" => tx[t].sku \in Adjusted

LEMMA OnlySales == InventorySpec => []OnlyAdjusted
<1> DEFINE Good(u) == tx'[u].op = "adjust" => tx'[u].sku \in Adjusted
<1>1. InventoryInit => OnlyAdjusted
  BY DEF InventoryInit, OnlyAdjusted, None
<1>2. InventoryTypeOK /\ OnlyAdjusted /\ [InventoryNext]_inventory => OnlyAdjusted'
  <2> SUFFICES ASSUME InventoryTypeOK, OnlyAdjusted, [InventoryNext]_inventory, NEW u \in Txs
               PROVE  Good(u)
    BY DEF OnlyAdjusted
  <2>0. ASSUME tx'[u] = tx[u] \/ tx'[u] = None PROVE Good(u)
    BY <2>0 DEF OnlyAdjusted, None
  <2>1. ASSUME NEW t \in Txs, NEW k \in Skus, CloseBumping(t, k) \/ Close(t)
        PROVE  Good(u)
    <3>1. CASE u = t
      BY <2>0, <2>1, <3>1, Closed
    <3>2. CASE tx[u] \in OpenTxs \cup Adjustments /\ tx'[u] = [tx[u] EXCEPT !.fresh = FALSE]
      <4>1. tx'[u].op = tx[u].op /\ tx'[u].sku = tx[u].sku
        BY <3>2 DEF OpenTxs, Adjustments
      <4> QED
        BY <4>1 DEF OnlyAdjusted
    <3> QED
      BY <2>0, <2>1, <3>1, <3>2, OtherRowsKeep
  <2>2. ASSUME NEW t \in Txs, NEW o \in Ops, NEW k \in Skus, NEW n \in Quantities,
               Read(t, o, k, n)
        PROVE  Good(u)
    <3>1. CASE u = t
      BY <2>2, <3>1 DEF Read, InventoryTypeOK, Ops
    <3>2. CASE u # t
      BY <2>0, <2>2, <3>2 DEF Read, InventoryTypeOK
    <3> QED
      BY <3>1, <3>2
  <2>3. ASSUME NEW t \in Txs, NEW k \in Skus, NEW d \in Int, ReadToAdjust(t, k, d)
        PROVE  Good(u)
    <3>1. CASE u = t
      BY <2>3, <3>1 DEF ReadToAdjust, InventoryTypeOK
    <3>2. CASE u # t
      BY <2>0, <2>3, <3>2 DEF ReadToAdjust, InventoryTypeOK
    <3> QED
      BY <3>1, <3>2
  <2>4. ASSUME NEW t \in Txs,
               \/ WriteReserve(t) \/ WriteCommit(t) \/ WriteRelease(t)
               \/ WriteRestock(t) \/ WriteAdjust(t) \/ Abort(t)
        PROVE  Good(u)
    <3>1. tx[t] # None
      BY <2>4 DEF None, WriteReserve, WriteCommit, WriteRelease, WriteRestock,
                  WriteAdjust, Abort
    <3>2. tx[t].sku \in Skus
      BY <3>1, OpenType, OpenFields DEF Adjustments
    <3>3. CloseBumping(t, tx[t].sku) \/ Close(t)
      BY <2>4 DEF WriteReserve, WriteCommit, WriteRelease, WriteRestock,
                  WriteAdjust, Abort
    <3> QED
      BY <3>2, <3>3, <2>1
  <2>5. CASE UNCHANGED inventory
    BY <2>0, <2>5 DEF inventory
  <2>6. \A n \in Quantities : n \in Int /\ -n \in Int
    BY InventoryAssumption
  <2> HIDE DEF Good
  <2> QED
    BY <2>2, <2>3, <2>4, <2>5, <2>6
       DEF InventoryNext, ReadToReserve, ReadToCommit, ReadToRelease, ReadToRestock, Ops
<1> QED
  BY <1>1, <1>2, InventoryTypeCorrect, PTL DEF InventorySpec

(* The steps that leave every row and its ledger as they are.              *)
LEMMA QuietSteps ==
  ASSUME NEW t \in Txs,
         \/ \E k \in Skus, n \in Quantities :
              \/ ReadToReserve(t, k, n) \/ ReadToCommit(t, k, n)
              \/ ReadToRelease(t, k, n) \/ ReadToRestock(t, k, n)
              \/ ReadToAdjust(t, k, n) \/ ReadToAdjust(t, k, -n)
         \/ Abort(t)
  PROVE  row' = row /\ ledger' = ledger
  BY DEF ReadToReserve, ReadToCommit, ReadToRelease, ReadToRestock, ReadToAdjust,
         Read, Abort

(* A reservation that goes through leaves what is reserved within stock.   *)
LEMMA ReserveCovered ==
  ASSUME InventoryTypeOK, FreshReadCovers, NEW t \in Txs, WriteReserve(t)
  PROVE  /\ row'[tx[t].sku].reserved <= row'[tx[t].sku].stock
         /\ \A j \in Skus : j # tx[t].sku => row'[j] = row[j]
<1>1. tx[t].sku \in Skus /\ tx[t].qty \in Nat /\ tx[t].seen.reserved \in Int
  BY OpenType, OpenFields DEF WriteReserve, Ops
<1>2. row[tx[t].sku].reserved <= tx[t].seen.reserved
  BY DEF WriteReserve, FreshReadCovers
<1>3. row[tx[t].sku].reserved \in Int /\ row[tx[t].sku].stock \in Int
  BY <1>1 DEF InventoryTypeOK, Rows
<1>4. row[tx[t].sku].reserved + tx[t].qty <= row[tx[t].sku].stock
  BY <1>1, <1>2, <1>3 DEF WriteReserve
<1> QED
  BY <1>1, <1>3, <1>4 DEF WriteReserve, InventoryTypeOK, Rows

(* Of a row that nobody adjusts by hand, no interleaving of checkouts,     *)
(* sales, releases and restocks ever promises more units than there are.   *)
THEOREM NeverOverPromised == InventorySpec => []NoOverPromise
<1>1. InventoryInit => NoOverPromise
  BY InventoryAssumption DEF InventoryInit, NoOverPromise
<1>2. /\ InventoryTypeOK /\ FreshReadCovers /\ ReleaseSawReserved /\ OnlyAdjusted
      /\ NoOverPromise /\ [InventoryNext]_inventory
      => NoOverPromise'
  <2> SUFFICES ASSUME InventoryTypeOK, FreshReadCovers, ReleaseSawReserved, OnlyAdjusted,
                      NoOverPromise, [InventoryNext]_inventory, NEW j \in Skus \ Adjusted
               PROVE  row'[j].reserved <= row'[j].stock
    BY DEF NoOverPromise
  <2>0. /\ row[j].reserved \in Int /\ row[j].stock \in Int
        /\ row[j].reserved <= row[j].stock
    BY DEF InventoryTypeOK, Rows, NoOverPromise
  <2>1. ASSUME NEW t \in Txs, WriteReserve(t) PROVE row'[j].reserved <= row'[j].stock
    BY <2>0, <2>1, ReserveCovered
  <2>2. ASSUME NEW t \in Txs, WriteCommit(t) PROVE row'[j].reserved <= row'[j].stock
    <3>1. tx[t].sku \in Skus /\ tx[t].qty \in Nat
      BY <2>2, OpenType, OpenFields DEF WriteCommit, Ops
    <3> QED
      BY <2>0, <2>2, <3>1 DEF WriteCommit, InventoryTypeOK, Rows
  <2>3. ASSUME NEW t \in Txs, WriteRelease(t) PROVE row'[j].reserved <= row'[j].stock
    <3>1. tx[t].sku \in Skus /\ tx[t].qty \in Nat /\ tx[t].seen.reserved \in Int
      BY <2>3, OpenType, OpenFields DEF WriteRelease, Ops
    <3>2. tx[t].seen.reserved > 0
      BY <2>3 DEF WriteRelease, ReleaseSawReserved
    <3> DEFINE m == Least(tx[t].seen.reserved, tx[t].qty)
    <3>3. m \in Int /\ m >= 0
      BY <3>1, <3>2 DEF Least
    <3>4. row' = [row EXCEPT ![tx[t].sku].reserved = @ - m]
      BY <2>3 DEF WriteRelease
    <3> HIDE DEF m
    <3> QED
      BY <2>0, <3>3, <3>4 DEF InventoryTypeOK, Rows
  <2>4. ASSUME NEW t \in Txs, WriteRestock(t) PROVE row'[j].reserved <= row'[j].stock
    <3>1. tx[t].sku \in Skus /\ tx[t].qty \in Nat
      BY <2>4, OpenType, OpenFields DEF WriteRestock, Ops
    <3> QED
      BY <2>0, <2>4, <3>1 DEF WriteRestock, InventoryTypeOK, Rows
  <2>5. ASSUME NEW t \in Txs, WriteAdjust(t) PROVE row'[j] = row[j]
    BY <2>5 DEF WriteAdjust, OnlyAdjusted, InventoryTypeOK
  <2>6. CASE UNCHANGED inventory
    BY <2>0, <2>6 DEF inventory
  <2> QED
    BY <2>0, <2>1, <2>2, <2>3, <2>4, <2>5, <2>6, QuietSteps DEF InventoryNext
<1> QED
  BY <1>1, <1>2, InventoryTypeCorrect, FreshReads, ReleaseSees, OnlySales, PTL DEF InventorySpec

(* Nor is any sale or restock of it lost: the ledger accounts for the      *)
(* stock.                                                                  *)
THEOREM LedgerAccounts == InventorySpec => []LedgerAgrees
<1>1. InventoryInit => LedgerAgrees
  BY InventoryAssumption DEF InventoryInit, LedgerAgrees
<1>2. InventoryTypeOK /\ OnlyAdjusted /\ LedgerAgrees /\ [InventoryNext]_inventory => LedgerAgrees'
  <2> SUFFICES ASSUME InventoryTypeOK, OnlyAdjusted, LedgerAgrees, [InventoryNext]_inventory,
                      NEW j \in Skus \ Adjusted
               PROVE  row'[j].stock = InitialStock + ledger'[j]
    BY DEF LedgerAgrees
  <2>0. /\ row[j].stock \in Int /\ ledger[j] \in Int
        /\ row[j].stock = InitialStock + ledger[j]
    BY DEF InventoryTypeOK, Rows, LedgerAgrees
  <2>1. ASSUME NEW t \in Txs, WriteReserve(t) \/ WriteRelease(t)
        PROVE  row'[j].stock = InitialStock + ledger'[j]
    BY <2>0, <2>1 DEF WriteReserve, WriteRelease, InventoryTypeOK, Rows
  <2>2. ASSUME NEW t \in Txs, WriteCommit(t) \/ WriteRestock(t)
        PROVE  row'[j].stock = InitialStock + ledger'[j]
    <3>1. tx[t].sku \in Skus /\ tx[t].qty \in Nat
      BY <2>2, OpenType, OpenFields DEF WriteCommit, WriteRestock, Ops
    <3>2. InitialStock \in Nat
      BY InventoryAssumption
    <3> QED
      BY <2>0, <2>2, <3>1, <3>2 DEF WriteCommit, WriteRestock, InventoryTypeOK, Rows
  <2>3. ASSUME NEW t \in Txs, WriteAdjust(t) PROVE row'[j] = row[j] /\ ledger'[j] = ledger[j]
    BY <2>3 DEF WriteAdjust, OnlyAdjusted, InventoryTypeOK
  <2>4. CASE UNCHANGED inventory
    BY <2>0, <2>4 DEF inventory
  <2> QED
    BY <2>0, <2>1, <2>2, <2>3, <2>4, QuietSteps DEF InventoryNext
<1> QED
  BY <1>1, <1>2, InventoryTypeCorrect, OnlySales, PTL DEF InventorySpec

(* Even while staff adjust the stock, no reservation is granted that the   *)
(* row does not cover at that moment.                                      *)
THEOREM ReservationsCovered == InventorySpec => ReservationIsCovered
<1>1. /\ InventoryTypeOK /\ FreshReadCovers /\ ReleaseSawReserved /\ [InventoryNext]_inventory
      => [\A k \in Skus :
            row'[k].reserved > row[k].reserved => row'[k].reserved <= row'[k].stock]_inventory
  <2> SUFFICES ASSUME InventoryTypeOK, FreshReadCovers, ReleaseSawReserved, InventoryNext,
                      NEW j \in Skus, row'[j].reserved > row[j].reserved
               PROVE  row'[j].reserved <= row'[j].stock
    OBVIOUS
  <2>0. row[j].reserved \in Int /\ row[j].stock \in Int
    BY DEF InventoryTypeOK, Rows
  <2>1. ASSUME NEW t \in Txs, WriteReserve(t) PROVE row'[j].reserved <= row'[j].stock
    BY <2>0, <2>1, ReserveCovered
  <2>2. ASSUME NEW t \in Txs, WriteCommit(t) PROVE FALSE
    <3>1. tx[t].sku \in Skus /\ tx[t].qty \in Nat
      BY <2>2, OpenType, OpenFields DEF WriteCommit, Ops
    <3> QED
      BY <2>0, <2>2, <3>1 DEF WriteCommit, InventoryTypeOK, Rows
  <2>3. ASSUME NEW t \in Txs, WriteRelease(t) PROVE FALSE
    <3>1. tx[t].sku \in Skus /\ tx[t].qty \in Nat /\ tx[t].seen.reserved \in Int
      BY <2>3, OpenType, OpenFields DEF WriteRelease, Ops
    <3>2. tx[t].seen.reserved > 0
      BY <2>3 DEF WriteRelease, ReleaseSawReserved
    <3> DEFINE m == Least(tx[t].seen.reserved, tx[t].qty)
    <3>3. m \in Int /\ m >= 0
      BY <3>1, <3>2 DEF Least
    <3>4. row' = [row EXCEPT ![tx[t].sku].reserved = @ - m]
      BY <2>3 DEF WriteRelease
    <3> HIDE DEF m
    <3> QED
      BY <2>0, <3>3, <3>4 DEF InventoryTypeOK, Rows
  <2>4. ASSUME NEW t \in Txs, WriteRestock(t) \/ WriteAdjust(t) PROVE FALSE
    BY <2>0, <2>4 DEF WriteRestock, WriteAdjust, InventoryTypeOK, Rows
  <2> QED
    BY <2>0, <2>1, <2>2, <2>3, <2>4, QuietSteps DEF InventoryNext
<1> QED
  BY <1>1, InventoryTypeCorrect, FreshReads, ReleaseSees, PTL DEF InventorySpec, ReservationIsCovered

-----------------------------------------------------------------------------
(***************************************************************************)
(* Accounts, for any number of handlers, requests, addresses, orders and     *)
(* faults: a token has one successor and a link sets one password            *)
(* (TokensServe), sessions that are ended stay ended (SessionsEnd), the purge *)
(* of guests' data spares customers (CustomersAreSpared), and a verified     *)
(* address has been shown to be the customer's (AddressesAreShown).           *)
(***************************************************************************)
Kinds == {"login", "refresh", "reissue", "pause", "email", "forgot", "reset", "verify", "resend",
          "register", "convert", "purge"}
Steps == {"issue", "delete", "rotate", "bump", "wipe", "deactivate", "address", "unlink", "mail", "link",
          "apply", "verify", "candidates", "attach", "create", "convert", "scrub"}
Issuers == {"login", "reissue", "convert"}

(* What a request has still to do: tokens and links are made by the last    *)
(* step of the requests that make them, a password is set by the first.     *)
Orderly(kind, todo) ==
    /\ todo \in Seq(Steps) /\ Len(todo) > 0
    /\ \A i \in 1 .. Len(todo) :
         /\ todo[i] \in {"issue", "rotate", "link"} => i = Len(todo)
         /\ todo[i] = "issue" => kind \in Issuers
         /\ todo[i] \in {"delete", "rotate"} => kind = "refresh"
         /\ todo[i] = "link" => kind = "forgot"
         /\ todo[i] = "address" => kind = "email"
         /\ todo[i] = "convert" => kind = "convert"
         /\ todo[i] = "scrub" => kind = "purge"
         /\ todo[i] = "verify" => kind = "verify" /\ i = 1
         /\ todo[i] = "create" => kind = "register"
         /\ todo[i] \in {"unlink", "mail"} => kind \in {"email", "resend", "register"}
         /\ kind = "email" /\ i = Len(todo) - 1 => todo[i] = "unlink"
         /\ kind = "email" /\ i = Len(todo) => todo[i] = "mail"
         /\ todo[i] = "apply" => kind = "reset" /\ i = 1
         /\ todo[i] \in {"candidates", "attach"} => kind \in {"verify", "convert"}
         /\ kind = "refresh" => todo[i] \in {"delete", "rotate"}

LEMMA PlanIsOrderly == ASSUME NEW kind \in Kinds PROVE Orderly(kind, Plan(kind))
<1>1. CASE kind = "login"
  BY <1>1 DEF Plan, Orderly, Issuers, Steps
<1>2. CASE kind = "refresh"
  BY <1>2 DEF Plan, Orderly, Issuers, Steps
<1>3. CASE kind = "reissue"
  BY <1>3 DEF Plan, Orderly, Issuers, Steps
<1>4. CASE kind = "pause"
  BY <1>4 DEF Plan, Orderly, Issuers, Steps
<1>5. CASE kind = "email"
  BY <1>5 DEF Plan, Orderly, Issuers, Steps
<1>6. CASE kind = "forgot"
  BY <1>6 DEF Plan, Orderly, Issuers, Steps
<1>7. CASE kind = "reset"
  BY <1>7 DEF Plan, Orderly, Issuers, Steps
<1>8. CASE kind = "verify"
  BY <1>8 DEF Plan, Orderly, Issuers, Steps
<1>9. CASE kind = "resend"
  BY <1>9 DEF Plan, Orderly, Issuers, Steps
<1>10. CASE kind = "register"
  BY <1>10 DEF Plan, Orderly, Issuers, Steps
<1>11. CASE kind = "convert"
  BY <1>11 DEF Plan, Orderly, Issuers, Steps
<1>12. CASE kind = "purge"
  BY <1>12 DEF Plan, Orderly, Issuers, Steps
<1> QED
  BY <1>1, <1>2, <1>3, <1>4, <1>5, <1>6, <1>7, <1>8, <1>9, <1>10, <1>11, <1>12 DEF Kinds

LEMMA TailIsOrderly ==
  ASSUME NEW kind, NEW todo, Orderly(kind, todo), Len(todo) # 1
  PROVE  /\ Orderly(kind, Tail(todo)) /\ Len(Tail(todo)) = Len(todo) - 1
         /\ \A i \in 1 .. Len(Tail(todo)) : Tail(todo)[i] \notin {"apply", "verify"}
<1>0. todo \in Seq(Steps) /\ Len(todo) > 0
  BY DEF Orderly
<1> DEFINE rest == Tail(todo)
<1>1. /\ rest \in Seq(Steps) /\ Len(rest) = Len(todo) - 1 /\ Len(todo) \in Nat /\ Len(rest) \in Nat
      /\ \A i \in 1 .. Len(rest) : rest[i] = todo[i + 1]
  BY <1>0
<1> HIDE DEF rest
<1>2. ASSUME NEW i \in 1 .. Len(rest)
      PROVE  \E j \in 1 .. Len(todo) : /\ rest[i] = todo[j] /\ j # 1
                                       /\ j = Len(todo) => i = Len(rest)
                                       /\ i = Len(rest) - 1 => j = Len(todo) - 1
                                       /\ i = Len(rest) => j = Len(todo)
  <2>1. /\ rest[i] = todo[i + 1] /\ i \in Nat
    BY <1>1
  <2>2. /\ i + 1 \in 1 .. Len(todo) /\ i + 1 # 1 /\ (i + 1 = Len(todo) => i = Len(rest))
        /\ i = Len(rest) - 1 => i + 1 = Len(todo) - 1
        /\ i = Len(rest) => i + 1 = Len(todo)
    BY <1>1
  <2> QED
    BY <2>1, <2>2
<1>3. ASSUME NEW i \in 1 .. Len(rest)
      PROVE  /\ rest[i] \in {"issue", "rotate", "link"} => i = Len(rest)
             /\ rest[i] = "issue" => kind \in Issuers
             /\ rest[i] \in {"delete", "rotate"} => kind = "refresh"
             /\ rest[i] = "link" => kind = "forgot"
             /\ rest[i] = "address" => kind = "email"
             /\ rest[i] = "convert" => kind = "convert"
             /\ rest[i] = "scrub" => kind = "purge"
             /\ rest[i] # "verify"
             /\ rest[i] = "create" => kind = "register"
             /\ rest[i] \in {"unlink", "mail"} => kind \in {"email", "resend", "register"}
             /\ kind = "email" /\ i = Len(rest) - 1 => rest[i] = "unlink"
             /\ kind = "email" /\ i = Len(rest) => rest[i] = "mail"
             /\ rest[i] # "apply"
             /\ rest[i] \in {"candidates", "attach"} => kind \in {"verify", "convert"}
             /\ kind = "refresh" => rest[i] \in {"delete", "rotate"}
  <2>1. PICK j \in 1 .. Len(todo) : /\ rest[i] = todo[j] /\ j # 1
                                    /\ j = Len(todo) => i = Len(rest)
                                    /\ i = Len(rest) - 1 => j = Len(todo) - 1
                                    /\ i = Len(rest) => j = Len(todo)
    BY <1>2
  <2> QED
    BY <2>1 DEF Orderly
<1>4. Len(rest) > 0
  BY <1>1
<1> QED
  BY <1>1, <1>3, <1>4 DEF Orderly, rest

LEMMA HeadIsOrderly ==
  ASSUME NEW kind, NEW todo, Orderly(kind, todo)
  PROVE  /\ todo # <<>> /\ Len(todo) \in Nat \ {0} /\ Head(todo) = todo[1] /\ 1 \in 1 .. Len(todo)
         /\ Head(todo) \in {"issue", "rotate", "link"} => Len(todo) = 1
         /\ Head(todo) = "issue" => kind \in Issuers
         /\ Head(todo) \in {"delete", "rotate"} => kind = "refresh"
         /\ Head(todo) = "link" => kind = "forgot"
         /\ Head(todo) = "address" => kind = "email"
         /\ Head(todo) = "convert" => kind = "convert"
         /\ Head(todo) = "scrub" => kind = "purge"
         /\ Head(todo) = "verify" => kind = "verify"
         /\ Head(todo) = "create" => kind = "register"
         /\ Head(todo) \in {"unlink", "mail"} => kind \in {"email", "resend", "register"}
         /\ kind = "email" /\ Len(todo) = 2 => Head(todo) = "unlink"
         /\ kind = "email" /\ Len(todo) = 1 => Head(todo) = "mail"
         /\ Head(todo) = "apply" => kind = "reset"
         /\ Head(todo) \in {"candidates", "attach"} => kind \in {"verify", "convert"}
         /\ kind = "refresh" => Head(todo) \in {"delete", "rotate"}
<1>0. todo \in Seq(Steps) /\ Len(todo) > 0
  BY DEF Orderly
<1>1. todo # <<>> /\ Len(todo) \in Nat \ {0} /\ Head(todo) = todo[1] /\ 1 \in 1 .. Len(todo)
  BY <1>0
<1>2. /\ todo[1] \in {"issue", "rotate", "link"} => 1 = Len(todo)
      /\ todo[1] = "issue" => kind \in Issuers
      /\ todo[1] \in {"delete", "rotate"} => kind = "refresh"
      /\ todo[1] = "link" => kind = "forgot"
      /\ todo[1] = "address" => kind = "email"
      /\ todo[1] = "convert" => kind = "convert"
      /\ todo[1] = "scrub" => kind = "purge"
      /\ todo[1] = "verify" => kind = "verify"
      /\ todo[1] = "create" => kind = "register"
  BY <1>1 DEF Orderly
<1>3. /\ todo[1] \in {"unlink", "mail"} => kind \in {"email", "resend", "register"}
      /\ kind = "email" /\ 1 = Len(todo) - 1 => todo[1] = "unlink"
      /\ kind = "email" /\ 1 = Len(todo) => todo[1] = "mail"
      /\ todo[1] = "apply" => kind = "reset"
      /\ todo[1] \in {"candidates", "attach"} => kind \in {"verify", "convert"}
      /\ kind = "refresh" => todo[1] \in {"delete", "rotate"}
  BY <1>1 DEF Orderly
<1> QED
  BY <1>1, <1>2, <1>3

-----------------------------------------------------------------------------
Fields == {"todo", "kind", "id", "begun", "version", "email", "more"}
Shaped(r) == r = [f \in Fields |-> r[f]]
Makers == Issuers \cup {"refresh"}

(* Every request has a number of its own.                                   *)
Numbered ==
    /\ req = [h \in Handlers |-> req[h]]
    /\ served \in 0 .. MaxRequests
    /\ \A h \in Handlers :
         Busy(h) => /\ Shaped(req[h]) /\ req[h].kind \in Kinds /\ req[h].id \in 1 .. served
                    /\ Orderly(req[h].kind, req[h].todo)
    /\ \A g, h \in Handlers : Busy(g) /\ Busy(h) /\ req[g].id = req[h].id => g = h

(* A token bears the number of the request that has made it.  One that has  *)
(* been replaced is in no row, and is locked while it is being replaced.    *)
TokensAreNumbered ==
    /\ rotations \in [Serials -> Nat]
    /\ \A n \in Serials : rotations[n] <= 1 /\ (n > served => rotations[n] = 0)
    /\ \A t \in tokens : t.id \in 1 .. served /\ rotations[t.id] = 0
    /\ \A t, u \in tokens : t.id = u.id => t = u
    /\ \A h \in Handlers :
         Busy(h) /\ req[h].kind \in Makers =>
             rotations[req[h].id] = 0 /\ \A t \in tokens : t.id # req[h].id

RefreshesAreApart ==
    \A h \in Handlers : Busy(h) /\ req[h].kind = "refresh" =>
        /\ req[h].more.id \in 1 .. served
        /\ \A t \in tokens : t.id = req[h].more.id => t = req[h].more
        /\ \A g \in Handlers : Busy(g) => /\ req[g].kind \in Makers => req[g].id # req[h].more.id
                                          /\ req[g].kind = "refresh" /\ req[g].more.id = req[h].more.id
                                               => req[g].more = req[h].more
        /\ At(h, "rotate") =>
             /\ rotations[req[h].more.id] = 0
             /\ \A g \in Handlers : At(g, "rotate") /\ req[g].more = req[h].more => g = h

(* A link that has set a password is used, and so is no good to a new       *)
(* request.                                                                 *)
LinksAreNumbered ==
    /\ resets \in [Serials -> Nat]
    /\ links \subseteq [id : Nat, used : BOOLEAN]
    /\ \A n \in Serials : n > served => resets[n] = 0
    /\ \A l \in links : l.id \in 1 .. served /\ (resets[l.id] # 0 => l.used)
    /\ \A h \in Handlers : Busy(h) /\ req[h].kind = "forgot" =>
         resets[req[h].id] = 0 /\ \A l \in links : l.id # req[h].id
    /\ \A g, h \in Handlers :
         Busy(g) /\ Busy(h) /\ req[h].kind = "reset" =>
             req[h].more \in 1 .. served /\ (req[g].kind = "forgot" => req[h].more # req[g].id)
    /\ ~crossed => /\ \A n \in Serials : resets[n] <= 1
                   /\ \A h \in Handlers : At(h, "apply") => resets[req[h].more] = 0
                   /\ \A g, h \in Handlers :
                        Busy(g) /\ Busy(h) /\ req[g].kind = "reset" /\ req[h].kind = "reset" => g = h

Inv == Numbered /\ TokensAreNumbered /\ RefreshesAreApart /\ LinksAreNumbered

(* What a request is after a step of its own.                               *)
Continues(h, r) ==
    /\ Shaped(r) /\ r.kind = req[h].kind /\ r.id = req[h].id
    /\ Orderly(r.kind, r.todo) /\ Head(r.todo) # "apply"
    /\ r.kind \in {"refresh", "reset", "purge"} => r.more = req[h].more

LEMMA RestContinues ==
  ASSUME Inv, NEW h \in Handlers, Busy(h)
  PROVE  /\ Rest(h) = Idle \/ (Continues(h, Rest(h)) /\ Rest(h).more = req[h].more)
         /\ Head(req[h].todo) \in {"issue", "rotate", "link"} => Rest(h) = Idle
         /\ Rest(h) # Idle => Len(req[h].todo) # 1 /\ Rest(h).todo = Tail(req[h].todo)
<1> DEFINE r == req[h]
<1>1. Shaped(r) /\ Orderly(r.kind, r.todo)
  BY DEF Inv, Numbered
<1>2. Head(r.todo) \in {"issue", "rotate", "link"} => Len(r.todo) = 1
  BY <1>1, HeadIsOrderly
<1>3. CASE Len(r.todo) = 1
  <2>1. Rest(h) = Idle
    BY <1>3 DEF Rest
  <2> QED
    BY <2>1
<1>4. CASE Len(r.todo) # 1
  <2>1. Rest(h) = [r EXCEPT !.todo = Tail(r.todo)]
    BY <1>4 DEF Rest
  <2>2. /\ Shaped(Rest(h)) /\ Rest(h).kind = r.kind /\ Rest(h).id = r.id /\ Rest(h).more = r.more
        /\ Rest(h).todo = Tail(r.todo)
    BY <1>1, <2>1 DEF Shaped, Fields
  <2>3. Orderly(r.kind, Tail(r.todo)) /\ \A i \in 1 .. Len(Tail(r.todo)) : Tail(r.todo)[i] # "apply"
    BY <1>1, <1>4, TailIsOrderly
  <2>4. Head(Tail(r.todo)) # "apply"
    <3>1. Head(Tail(r.todo)) = Tail(r.todo)[1] /\ 1 \in 1 .. Len(Tail(r.todo))
      BY <2>3, HeadIsOrderly
    <3> QED
      BY <2>3, <3>1
  <2> QED
    BY <1>2, <1>4, <2>2, <2>3, <2>4 DEF Continues
<1> QED
  BY <1>2, <1>3, <1>4

(* A step that makes and replaces nothing                                   *)
LEMMA QuietKeeps ==
  ASSUME Inv, NEW h \in Handlers, Busy(h), NEW r, r = Idle \/ (Continues(h, r) /\ r.kind # "refresh"),
         req' = [req EXCEPT ![h] = r], tokens' \subseteq tokens, links' \subseteq links,
         UNCHANGED <<rotations, resets, served, crossed>>
  PROVE  Inv'
<1>1. \A g \in Handlers : req'[g] = IF g = h THEN r ELSE req[g]
  BY DEF Inv, Numbered
<1>2. r # Idle => /\ Busy(h) /\ Shaped(r) /\ r.kind = req[h].kind /\ r.id = req[h].id
                  /\ r.kind # "refresh" /\ Head(r.todo) # "apply"
                  /\ (r.kind = "reset" => r.more = req[h].more)
                  /\ Orderly(r.kind, r.todo) /\ r.todo # <<>>
  BY HeadIsOrderly DEF Continues
<1>3. r = Idle => r.todo = <<>>
  BY DEF Idle
<1>4. \A g \in Handlers :
        /\ Busy(g)' => Busy(g) /\ req'[g].kind = req[g].kind /\ req'[g].id = req[g].id
                       /\ (req'[g].kind \in {"refresh", "reset"} => req'[g].more = req[g].more)
                       /\ Shaped(req'[g]) /\ Orderly(req'[g].kind, req'[g].todo)
        /\ Busy(g)' /\ req'[g].kind = "refresh" => g # h /\ req'[g] = req[g]
        /\ At(g, "apply")' => At(g, "apply") /\ g # h /\ req'[g] = req[g]
        /\ At(g, "rotate")' => (g # h /\ req'[g] = req[g] /\ At(g, "rotate")) \/ g = h
  BY <1>1, <1>2, <1>3 DEF Busy, At, Inv, Numbered
<1>5. \A g \in Handlers : At(g, "rotate")' => g # h /\ req'[g] = req[g] /\ At(g, "rotate")
  BY <1>1, <1>2, <1>3, <1>4, HeadIsOrderly DEF Busy, At
<1>6. Numbered'
  <2>1. req' = [g \in Handlers |-> req'[g]]
    BY DEF Inv, Numbered
  <2> QED
    BY <1>4, <2>1 DEF Inv, Numbered
<1>7. TokensAreNumbered'
  BY <1>4 DEF Inv, TokensAreNumbered
<1>8. RefreshesAreApart'
  BY <1>4, <1>5 DEF Inv, RefreshesAreApart
<1>9. LinksAreNumbered'
  BY <1>4 DEF Inv, LinksAreNumbered, At
<1> QED
  BY <1>6, <1>7, <1>8, <1>9 DEF Inv

(* A new request takes the next number.                                     *)
LEMMA BeginKeeps ==
  ASSUME Inv, NEW h \in Handlers, NEW kind \in Kinds, NEW more, Begin(h, kind, more),
         kind = "refresh" => more \in tokens,
         kind = "reset" => \E l \in links : ~l.used /\ more = l.id,
         tokens' = tokens, links' \subseteq links, UNCHANGED <<rotations, resets>>
  PROVE  Inv'
<1> DEFINE new == [todo |-> Plan(kind), kind |-> kind, id |-> served + 1, begun |-> changes,
                   version |-> user.version, email |-> user.email, more |-> more]
<1>1. /\ ~Busy(h) /\ served' = served + 1 /\ served' \in 1 .. MaxRequests /\ served \in Nat
      /\ req' = [req EXCEPT ![h] = new]
      /\ ~crossed' => ~crossed /\ Doing(kind) = {}
  <2>1. /\ ~Busy(h) /\ served < MaxRequests /\ served' = served + 1
        /\ req' = [req EXCEPT ![h] = new]
    BY DEF Begin
  <2>2. ~crossed' => ~crossed /\ Doing(kind) = {}
    BY DEF Begin
  <2>3. served \in 0 .. MaxRequests /\ MaxRequests \in Nat
    BY AccountsAssumption DEF Inv, Numbered
  <2> QED
    BY <2>1, <2>2, <2>3
<1>2. \A g \in Handlers : req'[g] = IF g = h THEN new ELSE req[g]
  BY <1>1 DEF Inv, Numbered
<1>3. /\ Shaped(new) /\ new.kind = kind /\ new.id = served + 1 /\ new.more = more
      /\ new.todo = Plan(kind)
  BY DEF Shaped, Fields
<1>4. Orderly(kind, Plan(kind))
  BY PlanIsOrderly
<1>5. /\ kind = "refresh" => Head(Plan(kind)) = "delete"
      /\ Head(Plan(kind)) = "apply" => kind = "reset"
  <2>1. ASSUME kind = "refresh" PROVE Head(Plan(kind)) = "delete"
    BY <2>1 DEF Plan
  <2>2. Head(Plan(kind)) = "apply" => kind = "reset"
    BY <1>4, HeadIsOrderly
  <2> QED
    BY <2>1, <2>2
<1> HIDE DEF new
<1>6. \A g \in Handlers : g # h => req'[g] = req[g] /\ (Busy(g)' <=> Busy(g))
                                  /\ (At(g, "rotate")' <=> At(g, "rotate"))
                                  /\ (At(g, "apply")' <=> At(g, "apply"))
  BY <1>2 DEF Busy, At
<1>7. /\ req'[h] = new
      /\ At(h, "rotate")' => Head(Plan(kind)) = "rotate"
      /\ At(h, "apply")' => kind = "reset"
  BY <1>2, <1>3, <1>5 DEF At
<1>8. ~At(h, "rotate")'
  <2>1. Head(Plan(kind)) = "rotate" => kind = "refresh"
    BY <1>4, HeadIsOrderly
  <2> QED
    BY <1>5, <1>7, <2>1
<1>9. Numbered'
  <2>1. req' = [g \in Handlers |-> req'[g]]
    BY <1>1 DEF Inv, Numbered
  <2>2. \A g \in Handlers : Busy(g)' => /\ Shaped(req'[g]) /\ req'[g].kind \in Kinds
                                        /\ req'[g].id \in 1 .. served'
                                        /\ Orderly(req'[g].kind, req'[g].todo)
    BY <1>1, <1>3, <1>4, <1>6, <1>7 DEF Inv, Numbered
  <2>3. \A g \in Handlers : g # h /\ Busy(g) => req[g].id # served + 1
    BY <1>1 DEF Inv, Numbered
  <2>4. \A f, g \in Handlers : Busy(f)' /\ Busy(g)' /\ req'[f].id = req'[g].id => f = g
    BY <1>3, <1>6, <1>7, <2>3 DEF Inv, Numbered
  <2> QED
    BY <1>1, <2>1, <2>2, <2>4 DEF Numbered
<1>10. served + 1 \in Serials /\ served + 1 > served /\ 1 .. served \subseteq 1 .. served'
  BY <1>1 DEF Serials
<1>11. TokensAreNumbered'
  <2>1. rotations[served + 1] = 0 /\ \A t \in tokens : t.id # served + 1
    BY <1>1, <1>10 DEF Inv, TokensAreNumbered
  <2>2. \A n \in Serials : n > served' => n > served
    BY <1>1 DEF Serials
  <2>3. \A g \in Handlers :
          Busy(g)' /\ req'[g].kind \in Makers =>
             rotations[req'[g].id] = 0 /\ \A t \in tokens : t.id # req'[g].id
    BY <1>3, <1>6, <1>7, <2>1 DEF Inv, TokensAreNumbered
  <2> QED
    BY <1>10, <2>2, <2>3 DEF Inv, TokensAreNumbered
<1>12. RefreshesAreApart'
  <2> SUFFICES ASSUME NEW f \in Handlers, Busy(f)', req'[f].kind = "refresh"
               PROVE
        /\ req'[f].more.id \in 1 .. served'
        /\ \A t \in tokens' : t.id = req'[f].more.id => t = req'[f].more
        /\ \A g \in Handlers : Busy(g)' => /\ req'[g].kind \in Makers => req'[g].id # req'[f].more.id
                                           /\ req'[g].kind = "refresh" /\ req'[g].more.id = req'[f].more.id
                                               => req'[g].more = req'[f].more
        /\ At(f, "rotate")' =>
             /\ rotations'[req'[f].more.id] = 0
             /\ \A g \in Handlers : At(g, "rotate")' /\ req'[g].more = req'[f].more => g = f
    BY DEF RefreshesAreApart
  <2>1. \A g \in Handlers : Busy(g) => req[g].id \in 1 .. served
    BY DEF Inv, Numbered
  <2>2. CASE f # h
    <3>1. Busy(f) /\ req[f].kind = "refresh" /\ req'[f] = req[f]
      BY <1>6, <2>2
    <3>2. req[f].more.id \in 1 .. served /\ served + 1 # req[f].more.id
      BY <1>1, <3>1 DEF Inv, RefreshesAreApart
    <3>3. kind = "refresh" /\ more.id = req[f].more.id => more = req[f].more
      BY <3>1 DEF Inv, RefreshesAreApart
    <3> QED
      BY <1>3, <1>6, <1>7, <1>8, <1>10, <2>2, <3>1, <3>2, <3>3 DEF Inv, RefreshesAreApart
  <2>3. CASE f = h
    <3>1. kind = "refresh" /\ req'[f].more = more /\ more \in tokens
      BY <1>3, <1>7, <2>3
    <3>2. more.id \in 1 .. served /\ more.id # served + 1
      BY <1>1, <3>1 DEF Inv, TokensAreNumbered
    <3>3. \A t \in tokens : t.id = more.id => t = more
      BY <3>1 DEF Inv, TokensAreNumbered
    <3>4. \A g \in Handlers : Busy(g) /\ req[g].kind \in Makers => req[g].id # more.id
      BY <3>1 DEF Inv, TokensAreNumbered
    <3>5. \A g \in Handlers : Busy(g) /\ req[g].kind = "refresh" /\ req[g].more.id = more.id
                                => req[g].more = more
      BY <3>1 DEF Inv, RefreshesAreApart
    <3> QED
      BY <1>3, <1>6, <1>7, <1>8, <1>10, <2>3, <3>1, <3>2, <3>3, <3>4, <3>5
  <2> QED
    BY <2>2, <2>3
<1>13. LinksAreNumbered'
  <2>1. resets[served + 1] = 0
    BY <1>1, <1>10 DEF Inv, LinksAreNumbered
  <2>2. \A n \in Serials : n > served' => n > served
    BY <1>1 DEF Serials
  <2>3. \A g \in Handlers : Busy(g)' /\ req'[g].kind = "forgot" =>
          resets[req'[g].id] = 0 /\ \A l \in links' : l.id # req'[g].id
    BY <1>1, <1>3, <1>6, <1>7, <2>1 DEF Inv, LinksAreNumbered
  <2>4. \A g \in Handlers : Busy(g) => req[g].id \in 1 .. served
    BY DEF Inv, Numbered
  <2>5. kind = "reset" => more \in 1 .. served /\ more # served + 1 /\ resets[more] = 0
    BY <1>1, <1>10 DEF Inv, LinksAreNumbered, Serials
  <2>6. ASSUME NEW f \in Handlers, NEW g \in Handlers, Busy(f)', Busy(g)', req'[g].kind = "reset"
        PROVE  req'[g].more \in 1 .. served' /\ (req'[f].kind = "forgot" => req'[g].more # req'[f].id)
    <3>1. CASE g = h
      <4>1. kind = "reset" /\ req'[g].more = more
        BY <1>3, <1>7, <2>6, <3>1
      <4>2. f # h /\ req'[f].kind = "forgot" => more # req'[f].id
        <5> SUFFICES ASSUME f # h, req'[f].kind = "forgot" PROVE more # req[f].id
          BY <1>6
        <5>1. Busy(f) /\ req[f].kind = "forgot"
          BY <1>6, <2>6
        <5> QED
          BY <4>1, <5>1 DEF Inv, LinksAreNumbered
      <4> QED
        BY <1>3, <1>7, <1>10, <2>5, <3>1, <4>1, <4>2
    <3>2. CASE g # h
      <4>1. Busy(g) /\ req[g].kind = "reset" /\ req'[g].more = req[g].more
        BY <1>6, <2>6, <3>2
      <4>2. req[g].more \in 1 .. served /\ req[g].more # served + 1
        BY <1>1, <4>1 DEF Inv, LinksAreNumbered
      <4> QED
        BY <1>3, <1>6, <1>7, <1>10, <2>6, <4>1, <4>2 DEF Inv, LinksAreNumbered
    <3> QED
      BY <3>1, <3>2
  <2>7. ~crossed' => \A g \in Handlers : At(g, "apply")' => resets[req'[g].more] = 0
    BY <1>1, <1>3, <1>6, <1>7, <2>5 DEF Inv, LinksAreNumbered
  <2>8. ~crossed' => \A f, g \in Handlers :
            Busy(f)' /\ Busy(g)' /\ req'[f].kind = "reset" /\ req'[g].kind = "reset" => f = g
    BY <1>1, <1>3, <1>6, <1>7 DEF Inv, LinksAreNumbered, Doing
  <2> QED
    BY <1>1, <1>10, <2>2, <2>3, <2>6, <2>7, <2>8 DEF Inv, LinksAreNumbered
<1> QED
  BY <1>9, <1>11, <1>12, <1>13 DEF Inv

-----------------------------------------------------------------------------
(* A request that ends leaves the others as they were.                      *)
LEMMA DoneLeaves ==
  ASSUME Inv, NEW h \in Handlers, Busy(h), req' = [req EXCEPT ![h] = Idle], served' = served
  PROVE  /\ Numbered'
         /\ \A g \in Handlers : Busy(g)' => g # h /\ Busy(g) /\ req'[g] = req[g]
         /\ \A g \in Handlers : At(g, "rotate")' => g # h /\ At(g, "rotate") /\ req'[g] = req[g]
         /\ \A g \in Handlers : At(g, "apply")' => g # h /\ At(g, "apply") /\ req'[g] = req[g]
<1>1. \A g \in Handlers : req'[g] = IF g = h THEN Idle ELSE req[g]
  BY DEF Inv, Numbered
<1>2. Idle.todo = <<>>
  BY DEF Idle
<1>3. \A g \in Handlers : Busy(g)' => g # h /\ Busy(g) /\ req'[g] = req[g]
  BY <1>1, <1>2 DEF Busy
<1>4. \A g \in Handlers : At(g, "rotate")' => g # h /\ At(g, "rotate") /\ req'[g] = req[g]
  BY <1>3 DEF At
<1>5. \A g \in Handlers : At(g, "apply")' => g # h /\ At(g, "apply") /\ req'[g] = req[g]
  BY <1>3 DEF At
<1>6. req' = [g \in Handlers |-> req'[g]]
  BY DEF Inv, Numbered
<1>7. Numbered'
  BY <1>3, <1>6 DEF Inv, Numbered
<1> QED
  BY <1>3, <1>4, <1>5, <1>7

LEMMA IssueKeeps == ASSUME Inv, NEW h \in Handlers, Busy(h), Issue(h) PROVE Inv'
<1> DEFINE s == Session(h)
<1>1. /\ At(h, "issue") /\ tokens' = tokens \cup {s} /\ req' = [req EXCEPT ![h] = Rest(h)]
      /\ UNCHANGED <<links, served, rotations, resets, crossed>>
  BY DEF Issue, Proceed, history
<1>2. req[h].kind \in Issuers /\ Rest(h) = Idle
  BY <1>1, RestContinues, HeadIsOrderly DEF Inv, Numbered, At
<1>3. /\ Numbered'
      /\ \A g \in Handlers : Busy(g)' => g # h /\ Busy(g) /\ req'[g] = req[g]
      /\ \A g \in Handlers : At(g, "rotate")' => g # h /\ At(g, "rotate") /\ req'[g] = req[g]
      /\ \A g \in Handlers : At(g, "apply")' => g # h /\ At(g, "apply") /\ req'[g] = req[g]
  BY <1>1, <1>2, DoneLeaves
<1>4. s.id = req[h].id
  BY DEF Session
<1> HIDE DEF s
<1>5. /\ s.id \in 1 .. served /\ rotations[s.id] = 0 /\ \A t \in tokens : t.id # s.id
      /\ \A g \in Handlers : g # h /\ Busy(g) => req[g].id # s.id
      /\ \A g \in Handlers : Busy(g) /\ req[g].kind = "refresh" => req[g].more.id # s.id
  BY <1>2, <1>4 DEF Inv, Numbered, TokensAreNumbered, RefreshesAreApart, Makers
<1>6. TokensAreNumbered'
  BY <1>1, <1>3, <1>5 DEF Inv, TokensAreNumbered
<1>7. RefreshesAreApart'
  BY <1>1, <1>3, <1>5 DEF Inv, RefreshesAreApart
<1>8. LinksAreNumbered'
  BY <1>1, <1>3 DEF Inv, LinksAreNumbered
<1> QED
  BY <1>3, <1>6, <1>7, <1>8 DEF Inv

LEMMA RefreshDeleteKeeps == ASSUME Inv, NEW h \in Handlers, Busy(h), RefreshDelete(h) PROVE Inv'
<1> DEFINE r == Rest(h)
<1>1. /\ At(h, "delete") /\ ~LockedToken(req[h].more)
      /\ UNCHANGED <<tokens, links, served, rotations, resets, crossed>>
  BY DEF RefreshDelete, history
<1>2. req[h].kind = "refresh" /\ (r = Idle \/ (Continues(h, r) /\ r.more = req[h].more))
  BY <1>1, RestContinues, HeadIsOrderly DEF Inv, Numbered, At
<1>3. CASE Stop(h) \/ r = Idle
  <2>1. req' = [req EXCEPT ![h] = Idle]
    BY <1>3 DEF RefreshDelete, Stop, Proceed
  <2> QED
    BY <1>1, <2>1, QuietKeeps
<1>4. CASE ~Stop(h) /\ r # Idle
  <2>1. req' = [req EXCEPT ![h] = r] /\ req[h].more \in tokens
    BY <1>4 DEF RefreshDelete, Deletes, Proceed
  <2>2. Continues(h, r) /\ r.more = req[h].more
    BY <1>2, <1>4
  <2> HIDE DEF r
  <2>3. \A g \in Handlers : req'[g] = IF g = h THEN r ELSE req[g]
    BY <2>1 DEF Inv, Numbered
  <2>4. /\ Shaped(r) /\ r.kind = "refresh" /\ r.id = req[h].id /\ Orderly(r.kind, r.todo)
        /\ Head(r.todo) # "apply"
    BY <1>2, <2>2 DEF Continues
  <2>5. \A g \in Handlers : /\ Busy(g)' => /\ Busy(g) /\ req'[g].kind = req[g].kind
                                           /\ req'[g].id = req[g].id /\ req'[g].more = req[g].more
                            /\ Busy(g)' => Shaped(req'[g]) /\ Orderly(req'[g].kind, req'[g].todo)
    BY <1>2, <2>2, <2>3, <2>4 DEF Busy, Inv, Numbered
  <2>6. \A g \in Handlers : /\ At(g, "apply")' => At(g, "apply")
                            /\ At(g, "rotate")' => g = h \/ At(g, "rotate")
    BY <2>3, <2>4 DEF At, Busy
  <2>7. Numbered'
    <3>1. req' = [g \in Handlers |-> req'[g]]
      BY <2>1 DEF Inv, Numbered
    <3> QED
      BY <1>1, <2>5, <3>1 DEF Inv, Numbered
  <2>8. TokensAreNumbered'
    BY <1>1, <2>5 DEF Inv, TokensAreNumbered
  <2>9. RefreshesAreApart'
    <3>1. rotations[req[h].more.id] = 0
      BY <2>1 DEF Inv, TokensAreNumbered
    <3>2. \A g \in Handlers : At(g, "rotate") => req[g].more # req[h].more
      BY <1>1 DEF LockedToken
    <3>3. \A g \in Handlers : At(g, "rotate")' => Busy(g)'
      BY DEF At
    <3> QED
      BY <1>1, <2>5, <2>6, <3>1, <3>2, <3>3 DEF Inv, RefreshesAreApart
  <2>10. LinksAreNumbered'
    <3>1. \A g \in Handlers : At(g, "apply")' => Busy(g)'
      BY DEF At
    <3> QED
      BY <1>1, <2>5, <2>6, <3>1 DEF Inv, LinksAreNumbered
  <2> QED
    BY <2>7, <2>8, <2>9, <2>10 DEF Inv
<1> QED
  BY <1>3, <1>4

LEMMA RefreshCommitKeeps == ASSUME Inv, NEW h \in Handlers, Busy(h), RefreshCommit(h) PROVE Inv'
<1> DEFINE t == req[h].more
           s == [id |-> req[h].id, begun |-> t.begun, late |-> t.late \/ req[h].begun < changes]
<1>1. /\ At(h, "rotate") /\ tokens' = (tokens \ {t}) \cup {s} /\ req' = [req EXCEPT ![h] = Rest(h)]
      /\ rotations' = [rotations EXCEPT ![t.id] = @ + 1]
      /\ UNCHANGED <<links, served, resets, crossed>>
  BY DEF RefreshCommit, Proceed
<1>2. req[h].kind = "refresh" /\ Rest(h) = Idle
  BY <1>1, RestContinues, HeadIsOrderly DEF Inv, Numbered, At
<1>3. /\ Numbered'
      /\ \A g \in Handlers : Busy(g)' => g # h /\ Busy(g) /\ req'[g] = req[g]
      /\ \A g \in Handlers : At(g, "rotate")' => g # h /\ At(g, "rotate") /\ req'[g] = req[g]
      /\ \A g \in Handlers : At(g, "apply")' => g # h /\ At(g, "apply") /\ req'[g] = req[g]
  BY <1>1, <1>2, DoneLeaves
<1>4. s.id = req[h].id
  OBVIOUS
<1> HIDE DEF s
<1>5. /\ s.id \in 1 .. served /\ rotations[s.id] = 0 /\ \A u \in tokens : u.id # s.id
      /\ \A g \in Handlers : g # h /\ Busy(g) => req[g].id # s.id
      /\ \A g \in Handlers : Busy(g) /\ req[g].kind = "refresh" => req[g].more.id # s.id
  BY <1>2, <1>4 DEF Inv, Numbered, TokensAreNumbered, RefreshesAreApart, Makers
<1>6. /\ t.id \in 1 .. served /\ t.id \in Serials /\ rotations[t.id] = 0
      /\ \A u \in tokens : u.id = t.id => u = t
      /\ \A g \in Handlers : Busy(g) /\ req[g].kind \in Makers => req[g].id # t.id
      /\ \A g \in Handlers : At(g, "rotate") /\ req[g].kind = "refresh" /\ req[g].more.id = t.id => g = h
  <2>1. t.id \in Serials
    BY <1>2, AccountsAssumption DEF Inv, Numbered, RefreshesAreApart, Serials
  <2>2. \A g \in Handlers : At(g, "rotate") => Busy(g)
    BY DEF At
  <2> QED
    BY <1>1, <1>2, <2>1, <2>2 DEF Inv, RefreshesAreApart
<1> HIDE DEF t
<1>7. \A n \in Serials : rotations'[n] = IF n = t.id THEN 1 ELSE rotations[n]
  BY <1>1, <1>6 DEF Inv, TokensAreNumbered
<1>8. rotations' \in [Serials -> Nat]
  BY <1>1, <1>6 DEF Inv, TokensAreNumbered
<1>9. s.id # t.id
  BY <1>2, <1>4, <1>6 DEF Makers
<1>10. 1 .. served \subseteq Serials
  BY AccountsAssumption DEF Inv, Numbered, Serials
<1>11. \A u \in tokens' : u = s \/ (u \in tokens /\ u.id # t.id)
  BY <1>1, <1>6
<1>12. TokensAreNumbered'
  <2>1. \A n \in Serials : rotations'[n] <= 1 /\ (n > served' => rotations'[n] = 0)
    <3> SUFFICES ASSUME NEW n \in Serials
                 PROVE  rotations'[n] <= 1 /\ (n > served' => rotations'[n] = 0)
      OBVIOUS
    <3>1. CASE n = t.id
      <4>1. rotations'[n] = 1 /\ n \in 1 .. served /\ served \in Nat
        BY <1>6, <1>7, <3>1 DEF Inv, Numbered
      <4> QED
        BY <1>1, <4>1
    <3>2. CASE n # t.id
      BY <1>1, <1>7, <3>2 DEF Inv, TokensAreNumbered
    <3> QED
      BY <3>1, <3>2
  <2>2. \A u \in tokens' : u.id \in 1 .. served' /\ rotations'[u.id] = 0
    BY <1>1, <1>5, <1>7, <1>9, <1>10, <1>11 DEF Inv, TokensAreNumbered
  <2>3. \A u, v \in tokens' : u.id = v.id => u = v
    BY <1>5, <1>11 DEF Inv, TokensAreNumbered
  <2>4. \A g \in Handlers :
          Busy(g)' /\ req'[g].kind \in Makers =>
             rotations'[req'[g].id] = 0 /\ \A u \in tokens' : u.id # req'[g].id
    <3> SUFFICES ASSUME NEW g \in Handlers, Busy(g)', req'[g].kind \in Makers
                 PROVE  rotations'[req'[g].id] = 0 /\ \A u \in tokens' : u.id # req'[g].id
      OBVIOUS
    <3>1. g # h /\ Busy(g) /\ req'[g] = req[g] /\ req[g].kind \in Makers
      BY <1>3
    <3>2. req[g].id \in Serials /\ req[g].id # t.id /\ req[g].id # s.id
      BY <1>5, <1>6, <1>10, <3>1 DEF Inv, Numbered
    <3>3. rotations[req[g].id] = 0 /\ \A u \in tokens : u.id # req[g].id
      BY <3>1 DEF Inv, TokensAreNumbered
    <3> QED
      BY <1>7, <1>11, <3>1, <3>2, <3>3
  <2> QED
    BY <1>8, <2>1, <2>2, <2>3, <2>4 DEF TokensAreNumbered
<1>13. RefreshesAreApart'
  <2> SUFFICES ASSUME NEW f \in Handlers, Busy(f)', req'[f].kind = "refresh"
               PROVE
        /\ req'[f].more.id \in 1 .. served'
        /\ \A u \in tokens' : u.id = req'[f].more.id => u = req'[f].more
        /\ \A g \in Handlers : Busy(g)' => /\ req'[g].kind \in Makers => req'[g].id # req'[f].more.id
                                           /\ req'[g].kind = "refresh" /\ req'[g].more.id = req'[f].more.id
                                               => req'[g].more = req'[f].more
        /\ At(f, "rotate")' =>
             /\ rotations'[req'[f].more.id] = 0
             /\ \A g \in Handlers : At(g, "rotate")' /\ req'[g].more = req'[f].more => g = f
    BY DEF RefreshesAreApart
  <2>1. f # h /\ Busy(f) /\ req'[f] = req[f] /\ req[f].kind = "refresh"
    BY <1>3
  <2>2. /\ req[f].more.id \in 1 .. served /\ req[f].more.id \in Serials /\ req[f].more.id # s.id
        /\ \A u \in tokens : u.id = req[f].more.id => u = req[f].more
    BY <1>5, <1>10, <2>1 DEF Inv, RefreshesAreApart
  <2>3. \A u \in tokens' : u.id = req'[f].more.id => u = req'[f].more
    BY <1>11, <2>1, <2>2
  <2>4. \A g \in Handlers : Busy(g)' =>
          /\ req'[g].kind \in Makers => req'[g].id # req'[f].more.id
          /\ req'[g].kind = "refresh" /\ req'[g].more.id = req'[f].more.id => req'[g].more = req'[f].more
    BY <1>3, <2>1 DEF Inv, RefreshesAreApart
  <2>5. At(f, "rotate")' =>
          /\ rotations'[req'[f].more.id] = 0
          /\ \A g \in Handlers : At(g, "rotate")' /\ req'[g].more = req'[f].more => g = f
    <3> SUFFICES ASSUME At(f, "rotate")'
                 PROVE  /\ rotations'[req'[f].more.id] = 0
                        /\ \A g \in Handlers : At(g, "rotate")' /\ req'[g].more = req'[f].more => g = f
      OBVIOUS
    <3>1. At(f, "rotate") /\ req[f].more.id # t.id
      BY <1>3, <1>6, <2>1
    <3>2. /\ rotations[req[f].more.id] = 0
          /\ \A g \in Handlers : At(g, "rotate") /\ req[g].more = req[f].more => g = f
      BY <2>1, <3>1 DEF Inv, RefreshesAreApart
    <3> QED
      BY <1>3, <1>7, <2>1, <2>2, <3>1, <3>2
  <2>6. req'[f].more.id \in 1 .. served'
    BY <1>1, <2>1, <2>2
  <2> QED
    BY <2>3, <2>4, <2>5, <2>6
<1>14. LinksAreNumbered'
  BY <1>1, <1>3 DEF Inv, LinksAreNumbered
<1> QED
  BY <1>3, <1>12, <1>13, <1>14 DEF Inv

LEMMA CreateLinkKeeps == ASSUME Inv, NEW h \in Handlers, Busy(h), CreateLink(h) PROVE Inv'
<1> DEFINE l == [id |-> req[h].id, used |-> FALSE]
<1>1. /\ At(h, "link") /\ links' = links \cup {l} /\ req' = [req EXCEPT ![h] = Rest(h)]
      /\ UNCHANGED <<tokens, served, rotations, resets, crossed>>
  BY DEF CreateLink, Proceed, history
<1>2. req[h].kind = "forgot" /\ Rest(h) = Idle
  BY <1>1, RestContinues, HeadIsOrderly DEF Inv, Numbered, At
<1>3. /\ Numbered'
      /\ \A g \in Handlers : Busy(g)' => g # h /\ Busy(g) /\ req'[g] = req[g]
      /\ \A g \in Handlers : At(g, "rotate")' => g # h /\ At(g, "rotate") /\ req'[g] = req[g]
      /\ \A g \in Handlers : At(g, "apply")' => g # h /\ At(g, "apply") /\ req'[g] = req[g]
  BY <1>1, <1>2, DoneLeaves
<1>4. /\ l.id = req[h].id /\ l.id \in 1 .. served /\ served \in Nat
      /\ \A g \in Handlers : g # h /\ Busy(g) => req[g].id # l.id
  BY DEF Inv, Numbered
<1>5. resets[l.id] = 0
  BY <1>2 DEF Inv, LinksAreNumbered
<1>6. l \in [id : Nat, used : BOOLEAN]
  BY <1>4
<1> HIDE DEF l
<1>7. TokensAreNumbered'
  BY <1>1, <1>3 DEF Inv, TokensAreNumbered
<1>8. RefreshesAreApart'
  BY <1>1, <1>3 DEF Inv, RefreshesAreApart
<1>9. LinksAreNumbered'
  BY <1>1, <1>3, <1>4, <1>5, <1>6 DEF Inv, LinksAreNumbered
<1> QED
  BY <1>3, <1>7, <1>8, <1>9 DEF Inv

LEMMA ApplyResetKeeps == ASSUME Inv, NEW h \in Handlers, Busy(h), ApplyReset(h) PROVE Inv'
<1> DEFINE n == req[h].more
           mine == {l \in links : l.id = n}
           r == Rest(h)
<1>1. At(h, "apply") /\ UNCHANGED <<tokens, served, rotations, crossed>>
  BY DEF ApplyReset
<1>2. req[h].kind = "reset" /\ (r = Idle \/ Continues(h, r))
  BY <1>1, RestContinues, HeadIsOrderly DEF Inv, Numbered, At
<1>3. CASE mine = {}
  <2>1. req' = [req EXCEPT ![h] = Idle] /\ UNCHANGED <<links, resets>>
    BY <1>3 DEF ApplyReset, Stop
  <2> QED
    BY <1>1, <2>1, QuietKeeps
<1>4. CASE mine # {}
  <2>1. /\ links' = (links \ mine) \cup {Spent(l) : l \in mine}
        /\ resets' = [resets EXCEPT ![n] = @ + 1] /\ req' = [req EXCEPT ![h] = r]
    BY <1>4 DEF ApplyReset, Proceed
  <2>2. \A g \in Handlers : req'[g] = IF g = h THEN r ELSE req[g]
    BY <2>1 DEF Inv, Numbered
  <2>3. r # Idle => /\ Shaped(r) /\ r.kind = "reset" /\ r.id = req[h].id /\ r.more = n
                    /\ Orderly(r.kind, r.todo) /\ Head(r.todo) # "apply"
    BY <1>2 DEF Continues
  <2>4. Idle.todo = <<>>
    BY DEF Idle
  <2> HIDE DEF r
  <2>5. \A g \in Handlers : /\ Busy(g)' => /\ Busy(g) /\ req'[g].kind = req[g].kind
                                           /\ req'[g].id = req[g].id /\ req'[g].more = req[g].more
                                           /\ Shaped(req'[g]) /\ Orderly(req'[g].kind, req'[g].todo)
    BY <1>2, <2>2, <2>3, <2>4 DEF Busy, Inv, Numbered
  <2>6. Head(r.todo) \in {"delete", "rotate"} => r = Idle \/ r.kind = "refresh"
    BY <2>3, HeadIsOrderly
  <2>7. \A g \in Handlers : /\ At(g, "apply")' => g # h /\ At(g, "apply")
                            /\ At(g, "rotate")' => At(g, "rotate")
    BY <2>2, <2>3, <2>4, <2>6 DEF At, Busy
  <2>8. Numbered'
    <3>1. req' = [g \in Handlers |-> req'[g]]
      BY <2>1 DEF Inv, Numbered
    <3> QED
      BY <1>1, <2>5, <3>1 DEF Inv, Numbered
  <2>9. TokensAreNumbered'
    BY <1>1, <2>5 DEF Inv, TokensAreNumbered
  <2>10. \A g \in Handlers : At(g, "rotate")' => Busy(g)'
    BY DEF At
  <2>11. RefreshesAreApart'
    BY <1>1, <2>5, <2>7, <2>10 DEF Inv, RefreshesAreApart
  <2>12. n \in 1 .. served /\ n \in Serials /\ 1 .. served \subseteq Serials /\ served \in Nat
    BY <1>2, AccountsAssumption DEF Inv, Numbered, LinksAreNumbered, Serials
  <2> HIDE DEF n
  <2>13. resets' \in [Serials -> Nat] /\ \A m \in Serials : resets'[m] = IF m = n THEN resets[n] + 1
                                                                           ELSE resets[m]
    BY <2>1, <2>12 DEF Inv, LinksAreNumbered
  <2>14. \A l \in links : /\ Spent(l) \in [id : Nat, used : BOOLEAN]
                          /\ Spent(l).id = l.id /\ Spent(l).used
    BY DEF Spent, Inv, LinksAreNumbered
  <2>15. \A l \in links' : \/ l \in links /\ l.id # n
                           \/ l \in [id : Nat, used : BOOLEAN] /\ l.id = n /\ l.used
    BY <2>1, <2>14
  <2>16. LinksAreNumbered'
    <3>1. links' \subseteq [id : Nat, used : BOOLEAN]
      BY <2>15 DEF Inv, LinksAreNumbered
    <3>2. \A m \in Serials : m > served' => resets'[m] = 0
      <4>1. \A m \in Serials : m > served => m # n
        BY <2>12
      <4> QED
        BY <1>1, <2>13, <4>1 DEF Inv, LinksAreNumbered
    <3>3. \A l \in links' : l.id \in 1 .. served' /\ (resets'[l.id] # 0 => l.used)
      BY <1>1, <2>12, <2>13, <2>15 DEF Inv, LinksAreNumbered
    <3>4. \A g \in Handlers : Busy(g)' /\ req'[g].kind = "forgot" =>
            resets'[req'[g].id] = 0 /\ \A l \in links' : l.id # req'[g].id
      <4> SUFFICES ASSUME NEW g \in Handlers, Busy(g)', req'[g].kind = "forgot"
                   PROVE  resets'[req'[g].id] = 0 /\ \A l \in links' : l.id # req'[g].id
        OBVIOUS
      <4>1. Busy(g) /\ req[g].kind = "forgot" /\ req'[g].id = req[g].id /\ req[g].id \in Serials
        BY <2>5, <2>12 DEF Inv, Numbered
      <4>2. req[g].id # n
        BY <1>2, <4>1 DEF Inv, LinksAreNumbered, n
      <4> QED
        BY <2>13, <2>15, <4>1, <4>2 DEF Inv, LinksAreNumbered
    <3>5. \A f, g \in Handlers :
            Busy(f)' /\ Busy(g)' /\ req'[g].kind = "reset" =>
              req'[g].more \in 1 .. served' /\ (req'[f].kind = "forgot" => req'[g].more # req'[f].id)
      BY <1>1, <2>5 DEF Inv, LinksAreNumbered
    <3>6. ASSUME ~crossed PROVE \A f, g \in Handlers :
            Busy(f) /\ Busy(g) /\ req[f].kind = "reset" /\ req[g].kind = "reset" => f = g
      BY <3>6 DEF Inv, LinksAreNumbered
    <3>7. ASSUME ~crossed PROVE \A m \in Serials : resets'[m] <= 1
      <4>1. resets[n] = 0
        BY <1>1, <3>7 DEF Inv, LinksAreNumbered, n
      <4> QED
        BY <2>13, <3>7, <4>1 DEF Inv, LinksAreNumbered
    <3>8. ASSUME ~crossed PROVE \A g \in Handlers : ~At(g, "apply")'
      <4>1. ASSUME NEW g \in Handlers, At(g, "apply") PROVE Busy(g) /\ req[g].kind = "reset"
        BY <4>1, HeadIsOrderly DEF At, Inv, Numbered
      <4> QED
        BY <1>1, <1>2, <2>7, <3>6, <3>8, <4>1
    <3>9. ASSUME ~crossed PROVE \A f, g \in Handlers :
            Busy(f)' /\ Busy(g)' /\ req'[f].kind = "reset" /\ req'[g].kind = "reset" => f = g
      BY <2>5, <3>6, <3>9
    <3> QED
      BY <1>1, <2>13, <3>1, <3>2, <3>3, <3>4, <3>5, <3>7, <3>8, <3>9 DEF LinksAreNumbered
  <2> QED
    BY <2>8, <2>9, <2>11, <2>16 DEF Inv
<1> QED
  BY <1>3, <1>4

-----------------------------------------------------------------------------
(* Steps that make no token and no link                                     *)
LEMMA RestIsQuiet ==
  ASSUME Inv, NEW h \in Handlers, NEW step, At(h, step), step \notin {"delete", "rotate"}
  PROVE  Rest(h) = Idle \/ (Continues(h, Rest(h)) /\ Rest(h).kind # "refresh")
<1>1. Busy(h) /\ req[h].kind # "refresh"
  BY HeadIsOrderly DEF Inv, Numbered, At
<1> QED
  BY <1>1, RestContinues DEF Continues

LEMMA RestWith ==
  ASSUME Inv, NEW h \in Handlers, NEW step, At(h, step), step \notin {"delete", "rotate"}, NEW v,
         NEW r, \/ r = [Rest(h) EXCEPT !.version = v] \/ r = [Rest(h) EXCEPT !.email = v]
                \/ r = [Rest(h) EXCEPT !.begun = v]
                \/ r = [Rest(h) EXCEPT !.more = v] /\ step \in {"candidates", "attach"}
  PROVE  r = Idle \/ (Continues(h, r) /\ r.kind # "refresh")
<1>1. Busy(h) /\ req[h].kind # "refresh"
      /\ (step \in {"candidates", "attach"} => req[h].kind \in {"verify", "convert"})
  BY HeadIsOrderly DEF Inv, Numbered, At
<1>2. CASE Rest(h) = Idle
  BY <1>2 DEF Idle
<1>3. CASE Rest(h) # Idle
  <2>1. Continues(h, Rest(h)) /\ Rest(h).more = req[h].more
    BY <1>1, <1>3, RestContinues
  <2>2. Shaped(Rest(h))
    BY <2>1 DEF Continues
  <2>3. /\ Shaped(r) /\ r.kind = Rest(h).kind /\ r.id = Rest(h).id /\ r.todo = Rest(h).todo
        /\ step \notin {"candidates", "attach"} => r.more = Rest(h).more
    BY <2>2 DEF Shaped, Fields
  <2> QED
    BY <1>1, <2>1, <2>3 DEF Continues
<1> QED
  BY <1>2, <1>3

LEMMA ProceedKeeps ==
  ASSUME Inv, NEW h \in Handlers, NEW step, At(h, step), step \notin {"delete", "rotate"},
         Proceed(h) \/ Stop(h),
         UNCHANGED <<tokens, links, rotations, resets, served, crossed>>
  PROVE  Inv'
<1>1. Busy(h)
  BY DEF At
<1>2. CASE Proceed(h)
  BY <1>1, <1>2, RestIsQuiet, QuietKeeps DEF Proceed
<1>3. CASE Stop(h)
  BY <1>1, <1>3, QuietKeeps DEF Stop
<1> QED
  BY <1>2, <1>3

LEMMA StepKeeps == ASSUME Inv, NEW h \in Handlers, Busy(h), Step(h) PROVE Inv'
<1>1. CASE Issue(h)
  BY <1>1, IssueKeeps
<1>2. CASE RefreshDelete(h)
  BY <1>2, RefreshDeleteKeeps
<1>3. CASE RefreshCommit(h)
  BY <1>3, RefreshCommitKeeps
<1>4. CASE CreateLink(h)
  BY <1>4, CreateLinkKeeps
<1>5. CASE ApplyReset(h)
  BY <1>5, ApplyResetKeeps
<1>6. CASE Deactivate(h)
  BY <1>6, ProceedKeeps DEF Deactivate, history
<1>7. CASE Unlink(h)
  BY <1>7, ProceedKeeps DEF Unlink, history
<1>8. CASE SendMail(h)
  BY <1>8, ProceedKeeps DEF SendMail, history
<1>9. CASE MarkVerified(h)
  BY <1>9, ProceedKeeps DEF MarkVerified, history
<1>10. CASE CreateUser(h)
  BY <1>10, ProceedKeeps DEF CreateUser
<1>11. CASE ConvertGuest(h)
  BY <1>11, ProceedKeeps DEF ConvertGuest, history
<1>12. CASE Scrub(h)
  BY <1>12, ProceedKeeps DEF Scrub, history
<1>13. CASE Fails(h)
  BY <1>13, QuietKeeps DEF Fails, Stop
<1>14. CASE Bump(h)
  BY <1>14, RestWith, QuietKeeps DEF Bump, history
<1>15. CASE WriteAddress(h)
  BY <1>15, RestWith, QuietKeeps DEF WriteAddress, history
<1>16. CASE Candidates(h)
  BY <1>16, RestWith, QuietKeeps DEF Candidates, history
<1>17. CASE Wipe(h)
  <2>1. /\ At(h, "wipe") /\ tokens' \subseteq tokens
        /\ req' = [req EXCEPT ![h] = IF Rest(h) = Idle THEN Idle
                                     ELSE [Rest(h) EXCEPT !.begun = changes + 1]]
        /\ UNCHANGED <<links, rotations, resets, served, crossed>>
    BY <1>17 DEF Wipe, RefreshTokensLeft
  <2>2. CASE Rest(h) = Idle
    BY <2>1, <2>2, QuietKeeps
  <2>3. CASE Rest(h) # Idle
    BY <2>1, <2>3, RestWith, QuietKeeps
  <2> QED
    BY <2>2, <2>3
<1>18. CASE Attach(h)
  <2>1. At(h, "attach") /\ UNCHANGED <<tokens, links, rotations, resets, served, crossed>>
    BY <1>18 DEF Attach, history
  <2>2. CASE req[h].more = {}
    BY <1>18, <2>1, <2>2, ProceedKeeps DEF Attach
  <2>3. CASE req[h].more # {}
    <3>1. PICK o \in req[h].more : req' = [req EXCEPT ![h].more = @ \ {o}]
      BY <1>18, <2>3 DEF Attach
    <3> DEFINE r == [req[h] EXCEPT !.more = req[h].more \ {o}]
    <3>2. req' = [req EXCEPT ![h] = r]
      BY <3>1
    <3>3. Shaped(req[h]) /\ Orderly(req[h].kind, req[h].todo) /\ req[h].kind \in {"verify", "convert"}
      BY <2>1, HeadIsOrderly DEF Inv, Numbered, At
    <3>4. /\ Shaped(r) /\ r.kind = req[h].kind /\ r.id = req[h].id /\ r.todo = req[h].todo
      BY <3>3 DEF Shaped, Fields
    <3> HIDE DEF r
    <3>5. Continues(h, r) /\ r.kind # "refresh"
      BY <2>1, <3>3, <3>4 DEF Continues, At
    <3> QED
      BY <2>1, <3>2, <3>5, QuietKeeps
  <2> QED
    BY <2>2, <2>3
<1> QED
  BY <1>1, <1>2, <1>3, <1>4, <1>5, <1>6, <1>7, <1>8, <1>9, <1>10, <1>11, <1>12, <1>13, <1>14,
     <1>15, <1>16, <1>17, <1>18 DEF Step

LEMMA RequestKeeps == ASSUME Inv, NEW h \in Handlers, Request(h) PROVE Inv'
<1>1. CASE Login(h)
  BY <1>1, BeginKeeps DEF Login, Kinds
<1>2. CASE Refresh(h)
  BY <1>2, BeginKeeps DEF Refresh, Kinds
<1>3. CASE Reissue(h)
  BY <1>3, BeginKeeps DEF Reissue, Kinds
<1>4. CASE PauseAccount(h)
  BY <1>4, BeginKeeps DEF PauseAccount, Kinds
<1>5. CASE ForgotPassword(h)
  BY <1>5, BeginKeeps DEF ForgotPassword, Kinds
<1>6. CASE ResetPassword(h)
  BY <1>6, BeginKeeps DEF ResetPassword, Kinds
<1>7. CASE ChangeEmail(h)
  BY <1>7, BeginKeeps DEF ChangeEmail, Kinds
<1>8. CASE ResendVerification(h)
  BY <1>8, BeginKeeps DEF ResendVerification, Kinds
<1>9. CASE VerifyEmail(h)
  BY <1>9, BeginKeeps DEF VerifyEmail, Kinds
<1>10. CASE Register(h)
  BY <1>10, BeginKeeps DEF Register, Kinds
<1>11. CASE Purge(h)
  BY <1>11, BeginKeeps DEF Purge, Kinds
<1> QED
  BY <1>1, <1>2, <1>3, <1>4, <1>5, <1>6, <1>7, <1>8, <1>9, <1>10, <1>11 DEF Request

(* No request is touched, and at most tokens are deleted.                   *)
LEMMA OthersKeep ==
  ASSUME Inv, tokens' \subseteq tokens, UNCHANGED <<links, req, served, rotations, resets, crossed>>
  PROVE  Inv'
<1>1. \A h \in Handlers : (Busy(h)' <=> Busy(h)) /\ (At(h, "rotate")' <=> At(h, "rotate"))
                          /\ (At(h, "apply")' <=> At(h, "apply"))
  BY DEF Busy, At
<1>2. Numbered'
  BY <1>1 DEF Inv, Numbered
<1>3. TokensAreNumbered'
  BY <1>1 DEF Inv, TokensAreNumbered
<1>4. RefreshesAreApart'
  BY <1>1 DEF Inv, RefreshesAreApart
<1>5. LinksAreNumbered'
  BY <1>1 DEF Inv, LinksAreNumbered
<1> QED
  BY <1>2, <1>3, <1>4, <1>5 DEF Inv

LEMMA InvInit == Init => Inv
<1> SUFFICES ASSUME Init PROVE Inv
  OBVIOUS
<1>1. \A h \in Handlers : ~Busy(h) /\ req[h] = Idle
  BY DEF Init, Busy, Idle
<1>2. served = 0 /\ tokens = {} /\ links = {} /\ \A h \in Handlers : ~At(h, "rotate") /\ ~At(h, "apply")
  BY <1>1 DEF Init, At
<1>3. Numbered
  BY <1>1, <1>2, AccountsAssumption DEF Init, Numbered
<1>4. TokensAreNumbered
  BY <1>1, <1>2 DEF Init, TokensAreNumbered
<1>5. RefreshesAreApart
  BY <1>1 DEF RefreshesAreApart
<1>6. LinksAreNumbered
  BY <1>1, <1>2 DEF Init, LinksAreNumbered
<1> QED
  BY <1>3, <1>4, <1>5, <1>6 DEF Inv

LEMMA InvNext == Inv /\ [Next]_vars => Inv'
<1> SUFFICES ASSUME Inv, [Next]_vars PROVE Inv'
  OBVIOUS
<1>1. ASSUME NEW h \in Handlers, IF Busy(h) THEN Step(h) ELSE Request(h) PROVE Inv'
  BY <1>1, StepKeeps, RequestKeeps
<1>2. ASSUME NEW o \in Orders, PlaceAsGuest(o) \/ Grow(o) PROVE Inv'
  BY <1>2, OthersKeep DEF PlaceAsGuest, Grow, history
<1>3. CASE Logout
  BY <1>3, OthersKeep DEF Logout, history
<1>4. CASE setUserActive
  BY <1>4, OthersKeep DEF setUserActive, history
<1>5. CASE CreateGuest
  BY <1>5, OthersKeep DEF CreateGuest, history
<1>6. CASE UNCHANGED vars
  BY <1>6, OthersKeep DEF vars, history
<1> QED
  BY <1>1, <1>2, <1>3, <1>4, <1>5, <1>6 DEF Next

(* A refresh token has one successor, whoever presents it when and however  *)
(* many requests are at work (services/auth.service.js, refreshAccessToken), *)
(* and a reset link that is never presented twice at once sets one password *)
(* (resetPassword).                                                        *)
THEOREM TokensServe == Spec => []TokensServeOnce
<1>1. Inv => TokensServeOnce
  BY DEF Inv, TokensAreNumbered, LinksAreNumbered, TokensServeOnce
<1> QED
  BY <1>1, InvInit, InvNext, PTL DEF Spec

-----------------------------------------------------------------------------
(* What a request carries is of its time: it was begun no later than now,   *)
(* the version is none yet to come, and the token to replace, unless late    *)
(* or left by a failed delete, was begun after all sessions ended last.     *)
Sound(r, now, version, left) ==
    /\ r.begun \in 0 .. now /\ r.version \in 0 .. version /\ r.email \in Emails
    /\ r.kind = "email" => r.more \in Emails
    /\ r.kind = "refresh" => /\ r.more.begun \in 0 .. now
                             /\ r.more.late \/ left \/ r.more.begun = r.begun

Users == [kind : {"none", "guest", "full"}, version : Nat, active : BOOLEAN,
          email : Emails, verified : BOOLEAN, purged : BOOLEAN]
OrderRows == [owner : {"none", "account"} \cup {Shell(o) : o \in Orders}, age : Ages, scrubbed : BOOLEAN]

UserRows ==
    /\ user \in Users /\ changes \in Nat /\ faults \in 0 .. MaxFaults
    /\ versions \subseteq 0 .. user.version
    /\ mails \subseteq [id : Nat, to : Emails, used : BOOLEAN]
    /\ orders \in [Orders -> OrderRows]

Sessions ==
    /\ \A t \in tokens : t.begun \in 0 .. changes /\ (t.begun = changes \/ t.late \/ kept)
    /\ \A h \in Handlers : Busy(h) => Sound(req[h], changes, user.version, kept)

SInv == Inv /\ UserRows /\ Sessions

LEMMA SoundRest ==
  ASSUME Inv, NEW h \in Handlers, Busy(h), NEW now, NEW version, NEW left,
         Sound(req[h], now, version, left)
  PROVE  Rest(h) # Idle => Sound(Rest(h), now, version, left)
<1> DEFINE r == req[h]
<1>1. SUFFICES ASSUME Rest(h) # Idle PROVE Sound(Rest(h), now, version, left)
  OBVIOUS
<1>2. Rest(h) = [r EXCEPT !.todo = Tail(r.todo)]
  BY <1>1 DEF Rest
<1>3. Shaped(r)
  BY DEF Inv, Numbered
<1>4. /\ Rest(h).kind = r.kind /\ Rest(h).more = r.more /\ Rest(h).begun = r.begun
      /\ Rest(h).version = r.version /\ Rest(h).email = r.email /\ Shaped(Rest(h))
  BY <1>2, <1>3 DEF Shaped, Fields
<1> QED
  BY <1>4 DEF Sound

(* Time and versions only rise.                                             *)
LEMMA SessionsStay ==
  ASSUME SInv, NEW h \in Handlers, Busy(h), NEW r, req' = [req EXCEPT ![h] = r],
         user'.version \in Nat, user.version <= user'.version, changes' \in Nat, changes <= changes',
         kept => kept', r = Idle \/ Sound(r, changes', user'.version, kept')
  PROVE  \A g \in Handlers : Busy(g)' => Sound(req'[g], changes', user'.version, kept')
<1>1. \A g \in Handlers : req'[g] = IF g = h THEN r ELSE req[g]
  BY DEF SInv, Inv, Numbered
<1>2. Idle.todo = <<>>
  BY DEF Idle
<1>3. changes \in Nat /\ user.version \in Nat
  BY DEF SInv, UserRows, Users
<1>4. \A g \in Handlers : Busy(g) => Sound(req[g], changes', user'.version, kept')
  <2> SUFFICES ASSUME NEW g \in Handlers, Busy(g) PROVE Sound(req[g], changes', user'.version, kept')
    OBVIOUS
  <2>1. Sound(req[g], changes, user.version, kept)
    BY DEF SInv, Sessions
  <2>2. 0 .. changes \subseteq 0 .. changes' /\ 0 .. user.version \subseteq 0 .. user'.version
    BY <1>3
  <2> QED
    BY <2>1, <2>2 DEF Sound
<1> QED
  BY <1>1, <1>2, <1>4 DEF Busy

(* Steps that end no session                                                *)
LEMMA SessionsPass ==
  ASSUME SInv, NEW h \in Handlers, Busy(h), Proceed(h) \/ Stop(h), UNCHANGED <<changes, kept>>,
         user'.version = user.version
  PROVE  \A g \in Handlers : Busy(g)' => Sound(req'[g], changes', user'.version, kept')
<1>1. changes \in Nat /\ user.version \in Nat
  BY DEF SInv, UserRows, Users
<1>2. Rest(h) # Idle => Sound(Rest(h), changes, user.version, kept)
  BY SoundRest DEF SInv, Sessions
<1>3. PICK r : /\ req' = [req EXCEPT ![h] = r]
               /\ r = Idle \/ Sound(r, changes, user.version, kept)
  BY <1>2 DEF Proceed, Stop
<1>4. /\ user'.version \in Nat /\ user.version <= user'.version /\ changes' \in Nat /\ changes <= changes'
      /\ kept => kept'
  BY <1>1
<1>5. r = Idle \/ Sound(r, changes', user'.version, kept')
  BY <1>3
<1> QED
  BY <1>3, <1>4, <1>5, SessionsStay

LEMMA SessionsQuiet ==
  ASSUME SInv, NEW h \in Handlers, Busy(h), Proceed(h) \/ Stop(h), UNCHANGED <<changes, kept>>,
         tokens' \subseteq tokens, user'.version = user.version
  PROVE  Sessions'
<1>1. \A g \in Handlers : Busy(g)' => Sound(req'[g], changes', user'.version, kept')
  BY SessionsPass
<1> QED
  BY <1>1 DEF SInv, Sessions

(* A step that changes what its request carries                             *)
LEMMA SoundWith ==
  ASSUME SInv, NEW h \in Handlers, NEW step, At(h, step), step \notin {"delete", "rotate"},
         NEW now \in Nat, NEW version \in Nat, changes <= now, user.version <= version, NEW left,
         kept => left, NEW r,
         \/ r = [Rest(h) EXCEPT !.version = version] \/ r = [Rest(h) EXCEPT !.begun = now]
         \/ \E e \in Emails : r = [Rest(h) EXCEPT !.email = e]
         \/ (\E v : r = [Rest(h) EXCEPT !.more = v]) /\ step \in {"candidates", "attach"}
  PROVE  r = Idle \/ Sound(r, now, version, left)
<1> DEFINE q == Rest(h)
<1>1. Busy(h) /\ Inv /\ req[h].kind # "refresh"
      /\ (step \in {"candidates", "attach"} => req[h].kind \in {"verify", "convert"})
  BY HeadIsOrderly DEF SInv, Inv, Numbered, At
<1>2. CASE q = Idle
  BY <1>2 DEF Idle
<1>3. CASE q # Idle
  <2>1. Shaped(q) /\ q.kind = req[h].kind
    BY <1>1, <1>3, RestContinues DEF Continues
  <2>2. Sound(q, now, version, left)
    <3>1. Sound(req[h], changes, user.version, kept) /\ changes \in Nat /\ user.version \in Nat
      BY <1>1 DEF SInv, Sessions, UserRows, Users
    <3>2. 0 .. changes \subseteq 0 .. now /\ 0 .. user.version \subseteq 0 .. version
      BY <3>1
    <3>3. Sound(req[h], now, version, left)
      BY <3>1, <3>2 DEF Sound
    <3> QED
      BY <1>1, <1>3, <3>3, SoundRest
  <2> HIDE DEF q
  <2>3. /\ Shaped(r) /\ r.kind = q.kind
        /\ r.begun = q.begun \/ r.begun = now
        /\ r.version = q.version \/ r.version = version
        /\ r.email = q.email \/ r.email \in Emails
        /\ step \notin {"candidates", "attach"} => r.more = q.more
    <3>1. CASE r = [q EXCEPT !.version = version]
      BY <2>1, <3>1 DEF Shaped, Fields
    <3>2. CASE r = [q EXCEPT !.begun = now]
      BY <2>1, <3>2 DEF Shaped, Fields
    <3>3. CASE \E e \in Emails : r = [q EXCEPT !.email = e]
      BY <2>1, <3>3 DEF Shaped, Fields
    <3>4. CASE (\E v : r = [q EXCEPT !.more = v]) /\ step \in {"candidates", "attach"}
      BY <2>1, <3>4 DEF Shaped, Fields
    <3> QED
      BY <3>1, <3>2, <3>3, <3>4 DEF q
  <2>4. r.kind # "refresh" /\ (r.kind = "email" => r.more = q.more)
    BY <1>1, <2>1, <2>3
  <2> QED
    BY <2>2, <2>3, <2>4 DEF Sound
<1> QED
  BY <1>2, <1>3

LEMMA SessionsWith ==
  ASSUME SInv, NEW h \in Handlers, NEW step, At(h, step), step \notin {"delete", "rotate"},
         NEW r, req' = [req EXCEPT ![h] = r],
         \/ r = [Rest(h) EXCEPT !.version = user'.version]
         \/ \E e \in Emails : r = [Rest(h) EXCEPT !.email = e]
         \/ (\E v : r = [Rest(h) EXCEPT !.more = v]) /\ step \in {"candidates", "attach"},
         user'.version \in Nat, user.version <= user'.version, UNCHANGED <<tokens, changes, kept>>
  PROVE  Sessions'
<1>1. changes' \in Nat /\ changes <= changes' /\ (kept => kept') /\ Busy(h)
  BY DEF SInv, UserRows, At
<1>2. r = Idle \/ Sound(r, changes', user'.version, kept')
  BY <1>1, SoundWith
<1>3. \A g \in Handlers : Busy(g)' => Sound(req'[g], changes', user'.version, kept')
  BY <1>1, <1>2, SessionsStay
<1> QED
  BY <1>3 DEF SInv, Sessions

LEMMA StepsOfSessions ==
  ASSUME SInv, NEW h \in Handlers, Busy(h), Step(h)
  PROVE  UserRows' /\ Sessions'
<1> USE DEF SInv
<1>0. /\ changes \in Nat /\ user.version \in Nat /\ user \in Users
      /\ Sound(req[h], changes, user.version, kept)
  BY DEF UserRows, Users, Sessions
<1>1. CASE Issue(h)
  <2>1. /\ tokens' = tokens \cup {Session(h)} /\ versions' = versions \cup {req[h].version} /\ Proceed(h)
        /\ UNCHANGED <<user, mails, orders, faults, changes, kept>>
    BY <1>1 DEF Issue, history
  <2>2. \A g \in Handlers : Busy(g)' => Sound(req'[g], changes', user'.version, kept')
    BY <2>1, SessionsPass
  <2>3. Session(h).begun \in 0 .. changes /\ (Session(h).begun = changes \/ Session(h).late)
    <3>1. Session(h).begun = req[h].begun /\ Session(h).late = (req[h].begun < changes)
      BY DEF Session
    <3>2. req[h].begun \in 0 .. changes /\ (req[h].begun < changes \/ req[h].begun = changes)
      BY <1>0 DEF Sound
    <3> QED
      BY <3>1, <3>2
  <2>4. Sessions'
    BY <2>1, <2>2, <2>3 DEF Sessions
  <2>5. UserRows'
    BY <1>0, <2>1 DEF UserRows, Sound
  <2> QED
    BY <2>4, <2>5
<1>2. CASE RefreshDelete(h)
  BY <1>0, <1>2, SessionsQuiet DEF RefreshDelete, history, UserRows
<1>3. CASE RefreshCommit(h)
  <2> DEFINE t == req[h].more
             s == [id |-> req[h].id, begun |-> t.begun, late |-> t.late \/ req[h].begun < changes]
  <2>1. /\ tokens' = (tokens \ {t}) \cup {s} /\ versions' = versions \cup {req[h].version} /\ Proceed(h)
        /\ UNCHANGED <<user, mails, orders, faults, changes, kept>>
    BY <1>3 DEF RefreshCommit
  <2>2. \A g \in Handlers : Busy(g)' => Sound(req'[g], changes', user'.version, kept')
    BY <2>1, SessionsPass
  <2>3. s.begun \in 0 .. changes /\ (s.begun = changes \/ s.late \/ kept)
    <3>1. req[h].kind = "refresh"
      BY <1>3, HeadIsOrderly DEF RefreshCommit, At, Inv, Numbered
    <3>2. /\ t.begun \in 0 .. changes /\ req[h].begun \in 0 .. changes
          /\ t.late \/ kept \/ t.begun = req[h].begun
      BY <1>0, <3>1 DEF Sound
    <3>3. s.begun = t.begun /\ s.late = (t.late \/ req[h].begun < changes)
      OBVIOUS
    <3>4. req[h].begun < changes \/ req[h].begun = changes
      BY <1>0, <3>2
    <3> QED
      BY <3>2, <3>3, <3>4
  <2>4. Sessions'
    BY <2>1, <2>2, <2>3 DEF Sessions
  <2>5. UserRows'
    BY <1>0, <2>1 DEF UserRows, Sound
  <2> QED
    BY <2>4, <2>5
<1>4. CASE Deactivate(h)
  <2>1. user' \in Users /\ user'.version = user.version
    BY <1>0, <1>4 DEF Deactivate, Users
  <2> QED
    BY <1>4, <2>1, SessionsQuiet DEF Deactivate, history, UserRows
<1>5. CASE Bump(h)
  <2>1. user' \in Users /\ user'.version = user.version + 1
    BY <1>0, <1>5 DEF Bump, Users
  <2>2. Sessions'
    <3>1. /\ At(h, "bump") /\ UNCHANGED <<tokens, changes, kept>>
          /\ req' = [req EXCEPT ![h] = [Rest(h) EXCEPT !.version = user.version + 1]]
      BY <1>5 DEF Bump, history
    <3> DEFINE r == [Rest(h) EXCEPT !.version = user.version + 1]
    <3>2. req' = [req EXCEPT ![h] = r] /\ r = [Rest(h) EXCEPT !.version = user'.version]
      BY <2>1, <3>1
    <3>3. user'.version \in Nat /\ user.version <= user'.version
      BY <1>0, <2>1
    <3> QED
      BY <3>1, <3>2, <3>3, SessionsWith
  <2>3. 0 .. user.version \subseteq 0 .. user'.version
    BY <1>0, <2>1
  <2>4. UserRows'
    BY <1>5, <2>1, <2>3 DEF Bump, history, UserRows
  <2> QED
    BY <2>2, <2>4
<1>6. CASE Wipe(h)
  <2>1. /\ At(h, "wipe") /\ changes' = changes + 1 /\ UNCHANGED <<user, versions, mails, orders>>
        /\ \/ tokens' = {} /\ UNCHANGED <<kept, faults>>
           \/ faults < MaxFaults /\ faults' = faults + 1 /\ kept' = TRUE /\ UNCHANGED tokens
    BY <1>6 DEF Wipe, RefreshTokensLeft
  <2>2. kept => kept'
    BY <2>1
  <2>3. changes' \in Nat /\ changes <= changes' /\ user'.version \in Nat /\ user.version <= user'.version
    BY <1>0, <2>1
  <2>4. PICK r : /\ req' = [req EXCEPT ![h] = r]
                 /\ r = Idle \/ r = [Rest(h) EXCEPT !.begun = changes']
    BY <1>6, <2>1 DEF Wipe
  <2>5. r = Idle \/ Sound(r, changes', user'.version, kept')
    BY <2>1, <2>2, <2>3, <2>4, SoundWith
  <2>6. \A g \in Handlers : Busy(g)' => Sound(req'[g], changes', user'.version, kept')
    BY <2>2, <2>3, <2>4, <2>5, SessionsStay
  <2>7. \A t \in tokens' : t.begun \in 0 .. changes' /\ (t.begun = changes' \/ t.late \/ kept')
    <3>1. 0 .. changes \subseteq 0 .. changes'
      BY <1>0, <2>3
    <3> QED
      BY <2>1, <3>1 DEF Sessions
  <2>8. UserRows'
    BY <1>0, <2>1, <2>3, AccountsAssumption DEF UserRows
  <2> QED
    BY <2>6, <2>7, <2>8 DEF Sessions
<1>7. CASE CreateLink(h)
  BY <1>0, <1>7, SessionsQuiet DEF CreateLink, history, UserRows
<1>8. CASE ApplyReset(h)
  BY <1>0, <1>8, SessionsQuiet DEF ApplyReset, history, UserRows
<1>9. CASE WriteAddress(h)
  <2>1. At(h, "address") /\ req[h].more \in Emails
    BY <1>0, <1>9, HeadIsOrderly DEF WriteAddress, At, Inv, Numbered, Sound
  <2>2. user' \in Users /\ user'.version = user.version
    BY <1>0, <1>9, <2>1 DEF WriteAddress, Users, VerifiedAfterChange
  <2>3. Sessions'
    <3>1. /\ UNCHANGED <<tokens, changes, kept>>
          /\ req' = [req EXCEPT ![h] = [Rest(h) EXCEPT !.email = req[h].more]]
      BY <1>9 DEF WriteAddress, history
    <3> DEFINE r == [Rest(h) EXCEPT !.email = req[h].more]
    <3>2. req' = [req EXCEPT ![h] = r] /\ \E e \in Emails : r = [Rest(h) EXCEPT !.email = e]
      BY <2>1, <3>1
    <3>3. user'.version \in Nat /\ user.version <= user'.version
      BY <1>0, <2>2
    <3> QED
      BY <2>1, <3>1, <3>2, <3>3, SessionsWith
  <2> QED
    BY <1>9, <2>2, <2>3 DEF WriteAddress, history, UserRows
<1>10. CASE Unlink(h)
  BY <1>0, <1>10, SessionsQuiet DEF Unlink, history, UserRows
<1>11. CASE SendMail(h)
  <2>1. [id |-> req[h].id, to |-> req[h].email, used |-> FALSE] \in [id : Nat, to : Emails, used : BOOLEAN]
    BY <1>0 DEF Sound, Inv, Numbered
  <2> QED
    BY <1>0, <1>11, <2>1, SessionsQuiet DEF SendMail, history, UserRows
<1>12. CASE MarkVerified(h)
  <2>1. user' \in Users /\ user'.version = user.version
    BY <1>0, <1>12 DEF MarkVerified, Users
  <2>2. mails' \subseteq [id : Nat, to : Emails, used : BOOLEAN]
    <3>1. \A m \in mails : [m EXCEPT !.used = m.used \/ m.id = req[h].more.id]
                             \in [id : Nat, to : Emails, used : BOOLEAN]
      BY DEF UserRows
    <3> QED
      BY <1>12, <3>1 DEF MarkVerified
  <2> QED
    BY <1>12, <2>1, <2>2, SessionsQuiet DEF MarkVerified, history, UserRows
<1>13. CASE CreateUser(h)
  <2>1. user' \in Users /\ user'.version = user.version
    BY <1>0, <1>13 DEF CreateUser, Users
  <2> QED
    BY <1>13, <2>1, SessionsQuiet DEF CreateUser, UserRows
<1>14. CASE ConvertGuest(h)
  <2>1. user' \in Users /\ user'.version = user.version
    BY <1>0, <1>14 DEF ConvertGuest, Users
  <2> QED
    BY <1>14, <2>1, SessionsQuiet DEF ConvertGuest, history, UserRows
<1>15. CASE Candidates(h)
  <2>1. Sessions'
    <3>1. /\ At(h, "candidates") /\ UNCHANGED <<user, tokens, changes, kept>>
          /\ req' = [req EXCEPT ![h] = [Rest(h) EXCEPT !.more = Linkable(user.email)]]
      BY <1>15 DEF Candidates, history
    <3> DEFINE r == [Rest(h) EXCEPT !.more = Linkable(user.email)]
    <3>2. req' = [req EXCEPT ![h] = r] /\ \E v : r = [Rest(h) EXCEPT !.more = v]
      BY <3>1
    <3>3. user'.version \in Nat /\ user.version <= user'.version
      BY <1>0, <3>1
    <3> QED
      BY <3>1, <3>2, <3>3, SessionsWith
  <2> QED
    BY <1>15, <2>1 DEF Candidates, history, UserRows
<1>16. CASE Attach(h)
  <2>1. At(h, "attach") /\ UNCHANGED <<user, tokens, versions, mails, faults, changes, kept>>
    BY <1>16 DEF Attach, history
  <2>2. CASE req[h].more = {}
    BY <1>16, <2>1, <2>2, SessionsQuiet DEF Attach, UserRows
  <2>3. CASE req[h].more # {}
    <3>1. PICK o \in req[h].more : /\ orders' = [orders EXCEPT ![o].owner = "account"]
                                   /\ req' = [req EXCEPT ![h].more = @ \ {o}]
      BY <1>16, <2>3 DEF Attach
    <3>2. orders' \in [Orders -> OrderRows]
      BY <3>1 DEF UserRows, OrderRows
    <3> DEFINE r == [req[h] EXCEPT !.more = req[h].more \ {o}]
    <3>3. req' = [req EXCEPT ![h] = r]
      BY <3>1
    <3>4. Shaped(req[h]) /\ req[h].kind \in {"verify", "convert"}
      BY <2>1, HeadIsOrderly DEF Inv, Numbered, At
    <3>5. r.kind = req[h].kind /\ r.begun = req[h].begun /\ r.version = req[h].version /\ r.email = req[h].email
      BY <3>4 DEF Shaped, Fields
    <3> HIDE DEF r
    <3>6. Sound(r, changes, user.version, kept)
      BY <1>0, <3>4, <3>5 DEF Sound
    <3>7. \A g \in Handlers : Busy(g)' => Sound(req'[g], changes', user'.version, kept')
      <4>1. /\ user'.version \in Nat /\ user.version <= user'.version
            /\ changes' \in Nat /\ changes <= changes' /\ (kept => kept')
        BY <1>0, <2>1
      <4>2. Sound(r, changes', user'.version, kept')
        BY <2>1, <3>6
      <4> QED
        BY <3>3, <4>1, <4>2, SessionsStay
    <3>8. Sessions'
      BY <2>1, <3>7 DEF Sessions
    <3>9. UserRows'
      BY <2>1, <3>2 DEF UserRows
    <3> QED
      BY <3>8, <3>9
  <2> QED
    BY <2>2, <2>3
<1>17. CASE Scrub(h)
  <2>1. user' \in Users /\ user'.version = user.version
    BY <1>0, <1>17 DEF Scrub, Users
  <2>2. orders' \in [Orders -> OrderRows]
    <3>1. \A o \in Orders : [orders[o] EXCEPT !.scrubbed = @ \/ orders[o].owner = req[h].more] \in OrderRows
      BY DEF UserRows, OrderRows
    <3> QED
      BY <1>17, <3>1 DEF Scrub
  <2> QED
    BY <1>17, <2>1, <2>2, SessionsQuiet DEF Scrub, history, UserRows
<1>18. CASE Fails(h)
  <2>1. faults' \in 0 .. MaxFaults
    BY <1>18, AccountsAssumption DEF Fails, UserRows
  <2> QED
    BY <1>0, <1>18, <2>1, SessionsQuiet DEF Fails, UserRows
<1> QED
  BY <1>1, <1>2, <1>3, <1>4, <1>5, <1>6, <1>7, <1>8, <1>9, <1>10, <1>11, <1>12, <1>13, <1>14,
     <1>15, <1>16, <1>17, <1>18 DEF Step

LEMMA RequestsOfSessions ==
  ASSUME SInv, NEW h \in Handlers, NEW kind, NEW more, Begin(h, kind, more),
         kind = "email" => more \in Emails, kind = "refresh" => more \in tokens,
         UNCHANGED <<user, tokens, versions, mails, orders, faults, changes, kept>>
  PROVE  UserRows' /\ Sessions'
<1> USE DEF SInv
<1> DEFINE new == [todo |-> Plan(kind), kind |-> kind, id |-> served + 1, begun |-> changes,
                   version |-> user.version, email |-> user.email, more |-> more]
<1>1. ~Busy(h) /\ req' = [req EXCEPT ![h] = new]
  BY DEF Begin
<1>2. /\ new.kind = kind /\ new.begun = changes /\ new.version = user.version
      /\ new.email = user.email /\ new.more = more
  OBVIOUS
<1> HIDE DEF new
<1>3. changes \in Nat /\ user.version \in Nat /\ user.email \in Emails
  BY DEF UserRows, Users
<1>4. ASSUME kind = "refresh" PROVE /\ more.begun \in 0 .. changes
                                    /\ more.late \/ kept \/ more.begun = changes
  BY <1>4 DEF Sessions
<1>5. Sound(new, changes, user.version, kept)
  BY <1>2, <1>3, <1>4 DEF Sound
<1>6. \A g \in Handlers : req'[g] = IF g = h THEN new ELSE req[g]
  BY <1>1 DEF Inv, Numbered
<1>7. \A g \in Handlers : Busy(g)' => Sound(req'[g], changes, user.version, kept)
  BY <1>5, <1>6 DEF Sessions, Busy
<1> QED
  BY <1>7 DEF UserRows, Sessions

LEMMA RequestSessions == ASSUME SInv, NEW h \in Handlers, Request(h) PROVE UserRows' /\ Sessions'
<1>1. CASE Login(h)
  BY <1>1, RequestsOfSessions DEF Login
<1>2. CASE Refresh(h)
  BY <1>2, RequestsOfSessions DEF Refresh
<1>3. CASE Reissue(h)
  BY <1>3, RequestsOfSessions DEF Reissue
<1>4. CASE PauseAccount(h)
  BY <1>4, RequestsOfSessions DEF PauseAccount
<1>5. CASE ForgotPassword(h)
  BY <1>5, RequestsOfSessions DEF ForgotPassword
<1>6. CASE ResetPassword(h)
  BY <1>6, RequestsOfSessions DEF ResetPassword
<1>7. CASE ChangeEmail(h)
  BY <1>7, RequestsOfSessions DEF ChangeEmail
<1>8. CASE ResendVerification(h)
  BY <1>8, RequestsOfSessions DEF ResendVerification
<1>9. CASE VerifyEmail(h)
  BY <1>9, RequestsOfSessions DEF VerifyEmail
<1>10. CASE Register(h)
  BY <1>10, RequestsOfSessions DEF Register
<1>11. CASE Purge(h)
  BY <1>11, RequestsOfSessions DEF Purge
<1> QED
  BY <1>1, <1>2, <1>3, <1>4, <1>5, <1>6, <1>7, <1>8, <1>9, <1>10, <1>11 DEF Request

(* No session begins or ends, and no request is touched.                    *)
LEMMA OtherSessions ==
  ASSUME SInv, tokens' \subseteq tokens, user' \in Users, user'.version = user.version,
         orders' \in [Orders -> OrderRows], UNCHANGED <<versions, mails, req, faults, changes, kept>>
  PROVE  UserRows' /\ Sessions'
<1>1. \A h \in Handlers : Busy(h)' <=> Busy(h)
  BY DEF Busy
<1> QED
  BY <1>1 DEF SInv, UserRows, Sessions

LEMMA SInvNext == SInv /\ [Next]_vars => SInv'
<1> SUFFICES ASSUME SInv, [Next]_vars PROVE SInv'
  OBVIOUS
<1>0. Inv' /\ user \in Users /\ orders \in [Orders -> OrderRows]
  BY InvNext DEF SInv, UserRows
<1>1. ASSUME NEW h \in Handlers, IF Busy(h) THEN Step(h) ELSE Request(h) PROVE UserRows' /\ Sessions'
  BY <1>1, StepsOfSessions, RequestSessions
<1>2. ASSUME NEW o \in Orders, PlaceAsGuest(o) PROVE UserRows' /\ Sessions'
  <2>1. orders' \in [Orders -> OrderRows]
    BY <1>0, <1>2 DEF PlaceAsGuest, OrderRows
  <2> QED
    BY <1>0, <1>2, <2>1, OtherSessions DEF PlaceAsGuest, history
<1>3. ASSUME NEW o \in Orders, Grow(o) PROVE UserRows' /\ Sessions'
  <2>1. orders' \in [Orders -> OrderRows]
    BY <1>0, <1>3 DEF Grow, OrderRows, Ages
  <2> QED
    BY <1>0, <1>3, <2>1, OtherSessions DEF Grow, history
<1>4. ASSUME Logout PROVE UserRows' /\ Sessions'
  <2>1. /\ tokens' \subseteq tokens /\ user' \in Users /\ user'.version = user.version
        /\ orders' \in [Orders -> OrderRows] /\ UNCHANGED <<versions, mails, req, faults, changes, kept>>
    BY <1>0, <1>4 DEF Logout, history
  <2> QED
    BY <2>1, OtherSessions
<1>5. ASSUME setUserActive PROVE UserRows' /\ Sessions'
  <2>1. user' \in Users /\ user'.version = user.version
    BY <1>0, <1>5 DEF setUserActive, Users
  <2>2. /\ tokens' \subseteq tokens /\ orders' \in [Orders -> OrderRows]
        /\ UNCHANGED <<versions, mails, req, faults, changes, kept>>
    BY <1>0, <1>5 DEF setUserActive, history
  <2> QED
    BY <2>1, <2>2, OtherSessions
<1>6. ASSUME CreateGuest PROVE UserRows' /\ Sessions'
  <2>1. user' \in Users /\ user'.version = user.version
    BY <1>0, <1>6 DEF CreateGuest, Users
  <2>2. /\ tokens' \subseteq tokens /\ orders' \in [Orders -> OrderRows]
        /\ UNCHANGED <<versions, mails, req, faults, changes, kept>>
    BY <1>0, <1>6 DEF CreateGuest, history
  <2> QED
    BY <2>1, <2>2, OtherSessions
<1>7. ASSUME UNCHANGED vars PROVE UserRows' /\ Sessions'
  <2>1. /\ tokens' \subseteq tokens /\ user' \in Users /\ user'.version = user.version
        /\ orders' \in [Orders -> OrderRows] /\ UNCHANGED <<versions, mails, req, faults, changes, kept>>
    BY <1>0, <1>7 DEF vars, history
  <2> QED
    BY <2>1, OtherSessions
<1> QED
  BY <1>0, <1>1, <1>2, <1>3, <1>4, <1>5, <1>6, <1>7 DEF Next, SInv

LEMMA SInvInit == Init => SInv
<1> SUFFICES ASSUME Init PROVE SInv
  OBVIOUS
<1>1. user \in Users
  <2>1. user \in [kind : {"none", "guest", "full"}, version : {0}, active : {TRUE},
                  email : {First}, verified : {TRUE}, purged : {FALSE}]
    BY DEF Init
  <2>2. /\ {0} \subseteq Nat /\ {First} \subseteq Emails /\ {TRUE} \subseteq BOOLEAN
        /\ {FALSE} \subseteq BOOLEAN
    BY AccountsAssumption
  <2> QED
    BY <2>1, <2>2 DEF Users
<1>2. orders \in [Orders -> OrderRows]
  BY DEF Init, OrderRows, Ages
<1>3. UserRows
  BY <1>1, <1>2, AccountsAssumption DEF Init, UserRows
<1>4. Sessions
  BY DEF Init, Sessions, Busy, Idle
<1> QED
  BY <1>3, <1>4, InvInit DEF SInv

(* A session that can still be renewed was begun after all were ended last, *)
(* or is made by a request that was under way then, or a failed delete of    *)
(* the refresh tokens has been swallowed (services/auth.service.js,         *)
(* invalidateAllSessions): for any number of handlers, requests and faults.  *)
THEOREM SessionsEnd == Spec => []SignedOut
<1>1. SInv => SignedOut
  <2> SUFFICES ASSUME SInv PROVE SignedOut
    OBVIOUS
  <2>1. 1 .. served \subseteq Serials /\ served \in 0 .. MaxRequests
    BY AccountsAssumption DEF SInv, Inv, Numbered, Serials
  <2>2. TypeOK
    <3>1. user.kind \in {"none", "guest", "full"} /\ user.version \in Nat /\ user.email \in Emails
      BY DEF SInv, UserRows, Users
    <3>2. \A t \in tokens : t.id \in Serials /\ t.begun \in 0 .. changes
      BY <2>1 DEF SInv, Inv, TokensAreNumbered, Sessions
    <3>3. \A l \in links : l.id \in Serials /\ l.used \in BOOLEAN
      BY <2>1 DEF SInv, Inv, LinksAreNumbered
    <3>4. \A m \in mails : m.to \in Emails
      BY DEF SInv, UserRows
    <3> QED
      BY <2>1, <3>1, <3>2, <3>3, <3>4 DEF TypeOK, SInv, UserRows, OrderRows
  <2> QED
    BY <2>2 DEF SignedOut, SInv, Sessions
<1> QED
  BY <1>1, SInvInit, SInvNext, PTL DEF Spec

-----------------------------------------------------------------------------
(* A job that purges the guest's row has found a guest there, and no request *)
(* that makes it a customer's is under way, unless two have overlapped.     *)
GuestsAreGuests ==
    ~crossed =>
      /\ \A h \in Handlers : Busy(h) /\ req[h].kind = "purge" /\ req[h].more = "account"
                                => user.kind = "guest"
      /\ \A g, h \in Handlers : ~(Busy(g) /\ Busy(h) /\ req[g].kind = "purge" /\ req[h].kind = "convert")

PInv == SInv /\ GuestsAreGuests

LEMMA StepContinues ==
  ASSUME Inv, NEW h \in Handlers, Busy(h), Step(h)
  PROVE  \E r : req' = [req EXCEPT ![h] = r] /\ (r = Idle \/ Continues(h, r))
<1>1. CASE Proceed(h) \/ Stop(h)
  BY <1>1, RestContinues DEF Proceed, Stop
<1>2. CASE Bump(h)
  <2>1. At(h, "bump") /\ req' = [req EXCEPT ![h] = [Rest(h) EXCEPT !.version = user.version + 1]]
    BY <1>2 DEF Bump
  <2>2. [Rest(h) EXCEPT !.version = user.version + 1] = Idle
        \/ Continues(h, [Rest(h) EXCEPT !.version = user.version + 1])
    BY <2>1, RestWith
  <2> QED
    BY <2>1, <2>2
<1>3. CASE Wipe(h)
  <2>1. At(h, "wipe") /\ req' = [req EXCEPT ![h] = IF Rest(h) = Idle THEN Idle
                                                   ELSE [Rest(h) EXCEPT !.begun = changes + 1]]
    BY <1>3 DEF Wipe
  <2>2. [Rest(h) EXCEPT !.begun = changes + 1] = Idle
        \/ Continues(h, [Rest(h) EXCEPT !.begun = changes + 1])
    BY <2>1, RestWith
  <2> QED
    BY <2>1, <2>2
<1>4. CASE WriteAddress(h)
  <2>1. At(h, "address") /\ req' = [req EXCEPT ![h] = [Rest(h) EXCEPT !.email = req[h].more]]
    BY <1>4 DEF WriteAddress
  <2>2. [Rest(h) EXCEPT !.email = req[h].more] = Idle
        \/ Continues(h, [Rest(h) EXCEPT !.email = req[h].more])
    BY <2>1, RestWith
  <2> QED
    BY <2>1, <2>2
<1>5. CASE Candidates(h)
  <2>1. /\ At(h, "candidates")
        /\ req' = [req EXCEPT ![h] = [Rest(h) EXCEPT !.more = Linkable(user.email)]]
    BY <1>5 DEF Candidates
  <2>2. [Rest(h) EXCEPT !.more = Linkable(user.email)] = Idle
        \/ Continues(h, [Rest(h) EXCEPT !.more = Linkable(user.email)])
    BY <2>1, RestWith
  <2> QED
    BY <2>1, <2>2
<1>6. CASE Attach(h) /\ ~Proceed(h)
  <2>1. At(h, "attach")
    BY <1>6 DEF Attach
  <2>2. PICK o : req' = [req EXCEPT ![h].more = @ \ {o}]
    BY <1>6 DEF Attach
  <2> DEFINE r == [req[h] EXCEPT !.more = req[h].more \ {o}]
  <2>3. req' = [req EXCEPT ![h] = r]
    BY <2>2
  <2>4. Shaped(req[h]) /\ Orderly(req[h].kind, req[h].todo) /\ req[h].kind \in {"verify", "convert"}
    BY <2>1, HeadIsOrderly DEF Inv, Numbered, At
  <2>5. Shaped(r) /\ r.kind = req[h].kind /\ r.id = req[h].id /\ r.todo = req[h].todo
    BY <2>4 DEF Shaped, Fields
  <2> HIDE DEF r
  <2>6. Continues(h, r)
    BY <2>1, <2>4, <2>5 DEF Continues, At
  <2> QED
    BY <2>3, <2>6
<1> QED
  BY <1>1, <1>2, <1>3, <1>4, <1>5, <1>6
     DEF Step, Issue, RefreshDelete, RefreshCommit, Deactivate, CreateLink, ApplyReset, Unlink,
         SendMail, MarkVerified, CreateUser, ConvertGuest, Scrub, Fails

LEMMA GuestsStay ==
  ASSUME SInv, GuestsAreGuests, NEW h \in Handlers, Busy(h), Step(h)
  PROVE  GuestsAreGuests'
<1>1. PICK r : req' = [req EXCEPT ![h] = r] /\ (r = Idle \/ Continues(h, r))
  BY StepContinues DEF SInv
<1>2. \A g \in Handlers : req'[g] = IF g = h THEN r ELSE req[g]
  BY <1>1 DEF SInv, Inv, Numbered
<1>3. r # Idle => r.kind = req[h].kind /\ (r.kind = "purge" => r.more = req[h].more)
  BY <1>1 DEF Continues
<1>4. \A g \in Handlers : Busy(g)' => /\ Busy(g) /\ req'[g].kind = req[g].kind
                                      /\ req'[g].kind = "purge" => req'[g].more = req[g].more
  BY <1>2, <1>3 DEF Busy, Idle
<1>5. crossed' = crossed
  BY DEF Step, Issue, RefreshDelete, RefreshCommit, Deactivate, Bump, Wipe, CreateLink, ApplyReset,
         WriteAddress, Unlink, SendMail, MarkVerified, CreateUser, ConvertGuest, Candidates, Attach,
         Scrub, Fails, history
<1>6. ASSUME ~crossed, user.kind = "guest", NEW g \in Handlers, Busy(g), req[g].kind = "purge"
      PROVE  user'.kind = "guest"
  <2>1. ~At(h, "convert")
    BY <1>6, HeadIsOrderly DEF GuestsAreGuests, SInv, Inv, Numbered, At
  <2>2. user \in Users
    BY DEF SInv, UserRows
  <2>3. user' = user \/ (\E b \in BOOLEAN : user' = [user EXCEPT !.active = b])
        \/ user' = [user EXCEPT !.version = @ + 1]
        \/ user' = [user EXCEPT !.email = req[h].more, !.verified = VerifiedAfterChange]
        \/ user' = [user EXCEPT !.verified = TRUE] \/ user' = [user EXCEPT !.purged = TRUE]
    BY <1>6, <2>1
       DEF Step, Issue, RefreshDelete, RefreshCommit, Deactivate, Bump, Wipe, CreateLink, ApplyReset,
           WriteAddress, Unlink, SendMail, MarkVerified, CreateUser, ConvertGuest, Candidates, Attach,
           Scrub, Fails
  <2> QED
    BY <1>6, <2>2, <2>3 DEF Users
<1> QED
  BY <1>4, <1>5, <1>6 DEF GuestsAreGuests

LEMMA GuestsBegin ==
  ASSUME SInv, GuestsAreGuests, NEW h \in Handlers, NEW kind, NEW more, Begin(h, kind, more),
         kind = "purge" /\ more = "account" => user.kind = "guest", UNCHANGED user
  PROVE  GuestsAreGuests'
<1> DEFINE new == [todo |-> Plan(kind), kind |-> kind, id |-> served + 1, begun |-> changes,
                   version |-> user.version, email |-> user.email, more |-> more]
<1>1. /\ req' = [req EXCEPT ![h] = new]
      /\ ~crossed' => /\ ~crossed
                      /\ kind = "convert" => Doing("purge") = {}
                      /\ kind = "purge" => Doing("convert") = {}
  BY DEF Begin
<1>2. new.kind = kind /\ new.more = more
  OBVIOUS
<1> HIDE DEF new
<1>3. \A g \in Handlers : req'[g] = IF g = h THEN new ELSE req[g]
  BY <1>1 DEF SInv, Inv, Numbered
<1>4. \A g \in Handlers : Busy(g)' => \/ g = h /\ req'[g].kind = kind /\ req'[g].more = more
                                      \/ g # h /\ Busy(g) /\ req'[g] = req[g]
  BY <1>2, <1>3 DEF Busy
<1>5. ~crossed' => \A g \in Handlers : /\ kind = "convert" => ~(Busy(g) /\ req[g].kind = "purge")
                                       /\ kind = "purge" => ~(Busy(g) /\ req[g].kind = "convert")
  BY <1>1 DEF Doing
<1> QED
  BY <1>1, <1>4, <1>5 DEF GuestsAreGuests

LEMMA GuestsRequest ==
  ASSUME SInv, GuestsAreGuests, NEW h \in Handlers, Request(h)
  PROVE  GuestsAreGuests' /\ UNCHANGED orders
<1>1. CASE Login(h)
  BY <1>1, GuestsBegin DEF Login
<1>2. CASE Refresh(h)
  BY <1>2, GuestsBegin DEF Refresh
<1>3. CASE Reissue(h)
  BY <1>3, GuestsBegin DEF Reissue
<1>4. CASE PauseAccount(h)
  BY <1>4, GuestsBegin DEF PauseAccount
<1>5. CASE ForgotPassword(h)
  BY <1>5, GuestsBegin DEF ForgotPassword
<1>6. CASE ResetPassword(h)
  BY <1>6, GuestsBegin DEF ResetPassword
<1>7. CASE ChangeEmail(h)
  BY <1>7, GuestsBegin DEF ChangeEmail
<1>8. CASE ResendVerification(h)
  BY <1>8, GuestsBegin DEF ResendVerification
<1>9. CASE VerifyEmail(h)
  BY <1>9, GuestsBegin DEF VerifyEmail
<1>10. CASE Register(h)
  BY <1>10, GuestsBegin DEF Register
<1>11. CASE Purge(h)
  <2>1. PICK u \in Guests \cup {Shell(o) : o \in Orders} : Begin(h, "purge", u)
    BY <1>11 DEF Purge
  <2>2. u = "account" => user.kind = "guest"
    BY AccountsAssumption DEF Guests, Shell
  <2> QED
    BY <1>11, <2>1, <2>2, GuestsBegin DEF Purge
<1> QED
  BY <1>1, <1>2, <1>3, <1>4, <1>5, <1>6, <1>7, <1>8, <1>9, <1>10, <1>11 DEF Request

LEMMA GuestsElse ==
  ASSUME GuestsAreGuests, UNCHANGED <<req, crossed>>, user.kind = "guest" => user'.kind = "guest"
  PROVE  GuestsAreGuests'
BY DEF GuestsAreGuests, Busy

LEMMA PInvNext == PInv /\ [Next]_vars => PInv'
<1> SUFFICES ASSUME PInv, [Next]_vars PROVE GuestsAreGuests'
  BY SInvNext DEF PInv
<1>0. SInv /\ GuestsAreGuests /\ user \in Users
  BY DEF PInv, SInv, UserRows
<1>1. ASSUME NEW h \in Handlers, IF Busy(h) THEN Step(h) ELSE Request(h) PROVE GuestsAreGuests'
  BY <1>0, <1>1, GuestsStay, GuestsRequest
<1>2. CASE (\E o \in Orders : PlaceAsGuest(o) \/ Grow(o)) \/ Logout \/ UNCHANGED vars
  BY <1>0, <1>2, GuestsElse DEF PlaceAsGuest, Grow, Logout, vars, history
<1>3. CASE setUserActive \/ CreateGuest
  <2>1. user.kind = "guest" => user'.kind = "guest"
    BY <1>0, <1>3 DEF setUserActive, CreateGuest, Users
  <2> QED
    BY <1>0, <1>3, <2>1, GuestsElse DEF setUserActive, CreateGuest, history
<1> QED
  BY <1>1, <1>2, <1>3 DEF Next

LEMMA PInvInit == Init => PInv
<1>1. Init => \A h \in Handlers : ~Busy(h)
  BY DEF Init, Busy, Idle
<1> QED
  BY <1>1, SInvInit DEF PInv, GuestsAreGuests

(* Every order the purge takes the addresses from is not a customer's, or    *)
(* the customer's account is still a guest's.                               *)
LEMMA ScrubSpares ==
  ASSUME PInv, [Next]_vars, NEW o \in Orders, ~orders[o].scrubbed, orders'[o].scrubbed
  PROVE  crossed \/ orders[o].owner # "account" \/ user.kind = "guest"
<1>0. orders \in [Orders -> OrderRows]
  BY DEF PInv, SInv, UserRows
<1>1. PICK h \in Handlers : Busy(h) /\ Scrub(h)
  <2>1. ASSUME NEW p \in Orders, PlaceAsGuest(p) \/ Grow(p) PROVE FALSE
    <3>1. \/ \E w : orders' = [orders EXCEPT ![p].owner = w]
          \/ \E w : orders' = [orders EXCEPT ![p].age = w]
      BY <2>1 DEF PlaceAsGuest, Grow
    <3>2. orders'[o].scrubbed = orders[o].scrubbed
      BY <1>0, <3>1 DEF OrderRows
    <3> QED
      BY <3>2
  <2>2. ASSUME NEW g \in Handlers, Attach(g) PROVE FALSE
    <3>1. orders' = orders \/ \E p : orders' = [orders EXCEPT ![p].owner = "account"]
      BY <2>2 DEF Attach
    <3>2. orders'[o].scrubbed = orders[o].scrubbed
      BY <1>0, <3>1 DEF OrderRows
    <3> QED
      BY <3>2
  <2>3. ASSUME NEW g \in Handlers, Busy(g), Step(g), ~Scrub(g) PROVE FALSE
    BY <2>2, <2>3
       DEF Step, Issue, RefreshDelete, RefreshCommit, Deactivate, Bump, Wipe, CreateLink, ApplyReset,
           WriteAddress, Unlink, SendMail, MarkVerified, CreateUser, ConvertGuest, Candidates, Fails
  <2>4. ASSUME NEW g \in Handlers, Request(g) PROVE FALSE
    BY <2>4, GuestsRequest DEF PInv
  <2>5. CASE Logout \/ setUserActive \/ CreateGuest \/ UNCHANGED vars
    BY <2>5 DEF Logout, setUserActive, CreateGuest, vars
  <2> QED
    BY <2>1, <2>3, <2>4, <2>5 DEF Next
<1>2. orders'[o] = [orders[o] EXCEPT !.scrubbed = @ \/ orders[o].owner = req[h].more]
  BY <1>1 DEF Scrub
<1>3. orders[o].owner = req[h].more
  BY <1>0, <1>2 DEF OrderRows
<1>4. req[h].kind = "purge"
  BY <1>1, HeadIsOrderly DEF Scrub, At, PInv, SInv, Inv, Numbered
<1> QED
  BY <1>1, <1>3, <1>4 DEF PInv, GuestsAreGuests

(* The purge of guests' data takes no address from an order of a registered *)
(* customer, unless the guest registered between the job's read and its     *)
(* transaction (services/guest-retention.service.js, purgeExpiredGuestData). *)
THEOREM CustomersAreSpared == Spec => OnlyGuestsArePurged
<1>1. PInv /\ [Next]_vars =>
        [\A o \in Orders : ~ orders[o].scrubbed /\ orders'[o].scrubbed
            => crossed \/ orders[o].owner # "account" \/ user.kind = "guest"]_vars
  BY ScrubSpares
<1> QED
  BY <1>1, PInvInit, PInvNext, PTL DEF Spec, OnlyGuestsArePurged

-----------------------------------------------------------------------------
(* As long as requests about the address have not overlapped, the one there *)
(* is knows the address of the row, and links in mails were sent there but   *)
(* for those a change of address has yet to delete.                         *)
About(h) == Busy(h) /\ req[h].kind \in AboutAddress
Changing == \E h \in Handlers : Busy(h) /\ req[h].kind = "email" /\ Len(req[h].todo) > 1

AboutRow(h) ==
    /\ req[h].email = user.email
    /\ req[h].kind = "email" => user.kind = "full"
    /\ req[h].kind # "register" => user.kind # "none"
    /\ user.kind = "none" => Head(req[h].todo) = "create"
    /\ Head(req[h].todo) = "verify" => req[h].more.to = user.email /\ req[h].more.to \in shown

Addressed ==
    ~muddled =>
      /\ \A g, h \in Handlers : About(g) /\ About(h) => g = h
      /\ user.kind # "full" => user.email = First /\ First \in shown
      /\ user.kind = "full" /\ user.verified => user.email \in shown
      /\ user.kind = "none" => mails = {}
      /\ \A h \in Handlers : About(h) => AboutRow(h)
      /\ \A m \in mails : m.to = user.email \/ Changing

AInv == SInv /\ Addressed

(* What follows a request h after a step of its own                         *)
Follows(h, r) ==
    /\ r # Idle => /\ r.kind = req[h].kind /\ r.email = req[h].email
                   /\ Head(r.todo) # "verify"
    /\ req[h].kind = "email" /\ Len(req[h].todo) > 2 => r # Idle /\ Len(r.todo) > 1

LEMMA RestFollows ==
  ASSUME Inv, NEW h \in Handlers, Busy(h)
  PROVE  /\ Follows(h, Rest(h))
         /\ Rest(h) # Idle => Shaped(Rest(h)) /\ Len(Rest(h).todo) = Len(req[h].todo) - 1
<1> DEFINE r == req[h]
<1>1. Shaped(r) /\ Orderly(r.kind, r.todo) /\ Len(r.todo) \in Nat
  BY HeadIsOrderly DEF Inv, Numbered
<1>2. CASE Len(r.todo) = 1
  BY <1>2 DEF Rest, Follows
<1>3. CASE Len(r.todo) # 1
  <2>1. Rest(h) = [r EXCEPT !.todo = Tail(r.todo)]
    BY <1>3 DEF Rest
  <2>2. /\ Shaped(Rest(h)) /\ Rest(h).kind = r.kind /\ Rest(h).email = r.email
        /\ Rest(h).todo = Tail(r.todo)
    BY <1>1, <2>1 DEF Shaped, Fields
  <2>3. /\ Orderly(r.kind, Tail(r.todo)) /\ Len(Tail(r.todo)) = Len(r.todo) - 1
        /\ \A i \in 1 .. Len(Tail(r.todo)) : Tail(r.todo)[i] \notin {"apply", "verify"}
    BY <1>1, <1>3, TailIsOrderly
  <2>4. /\ Head(Tail(r.todo)) = Tail(r.todo)[1] /\ 1 \in 1 .. Len(Tail(r.todo))
        /\ Tail(r.todo) # <<>>
    BY <2>3, HeadIsOrderly
  <2>5. Rest(h) # Idle
    <3>1. Idle.todo = <<>>
      BY DEF Idle
    <3> QED
      BY <2>2, <2>4, <3>1
  <2> QED
    BY <1>1, <2>2, <2>3, <2>4, <2>5 DEF Follows
<1> QED
  BY <1>2, <1>3

LEMMA WithFollows ==
  ASSUME Inv, NEW h \in Handlers, Busy(h), NEW v, NEW r,
         r = [Rest(h) EXCEPT !.version = v] \/ r = [Rest(h) EXCEPT !.begun = v] \/ r = [Rest(h) EXCEPT !.more = v]
  PROVE  Follows(h, r)
<1>1. CASE Rest(h) = Idle
  BY <1>1, RestFollows DEF Follows, Idle
<1>2. CASE Rest(h) # Idle
  <2>1. Shaped(Rest(h)) /\ Follows(h, Rest(h)) /\ Rest(h).todo # <<>>
    BY <1>2, RestFollows, RestContinues, HeadIsOrderly DEF Continues
  <2>2. r.kind = Rest(h).kind /\ r.email = Rest(h).email /\ r.todo = Rest(h).todo
    BY <2>1 DEF Shaped, Fields
  <2>3. r # Idle
    BY <2>1, <2>2 DEF Idle
  <2> QED
    BY <1>2, <2>1, <2>2, <2>3 DEF Follows
<1> QED
  BY <1>1, <1>2

LEMMA AddressPlain ==
  ASSUME AInv, NEW h \in Handlers, NEW step, At(h, step),
         step \notin {"create", "unlink", "verify", "address"},
         NEW r, req' = [req EXCEPT ![h] = r], Follows(h, r), UNCHANGED <<muddled, shown>>,
         \A m \in mails' : m \in mails \/ m.to = user.email, user.kind = "none" => mails' = mails,
         user'.email = user.email, user'.kind = user.kind, user'.verified = user.verified
  PROVE  Addressed'
<1> SUFFICES ASSUME ~muddled PROVE Addressed'
  BY DEF Addressed
<1>1. \A g \in Handlers : req'[g] = IF g = h THEN r ELSE req[g]
  BY DEF AInv, SInv, Inv, Numbered
<1>2. \A g \in Handlers : Busy(g)' => /\ Busy(g) /\ req'[g].kind = req[g].kind /\ req'[g].email = req[g].email
                                      /\ g # h => req'[g] = req[g]
                                      /\ g = h => Head(req'[g].todo) # "verify"
  <2>1. Idle.todo = <<>>
    BY DEF Idle
  <2>2. Busy(h)
    BY DEF At
  <2> QED
    BY <1>1, <2>1, <2>2 DEF Busy, Follows
<1>3. Head(req[h].todo) # "create" /\ Busy(h)
  BY DEF At
<1>4. /\ req[h].kind = "email" /\ Len(req[h].todo) > 1 => Len(req[h].todo) > 2
      /\ Len(req[h].todo) \in Nat
  <2>1. Orderly(req[h].kind, req[h].todo) /\ Head(req[h].todo) = step
    BY DEF AInv, SInv, Inv, Numbered, At
  <2>2. /\ Len(req[h].todo) \in Nat
        /\ req[h].kind = "email" => Len(req[h].todo) # 2
    BY <2>1, HeadIsOrderly
  <2>3. \A n \in Nat : n # 2 /\ n > 1 => n > 2
    OBVIOUS
  <2> QED
    BY <2>2, <2>3
<1>5. Changing => Changing'
  <2> SUFFICES ASSUME NEW g \in Handlers, Busy(g), req[g].kind = "email", Len(req[g].todo) > 1
               PROVE  Changing'
    BY DEF Changing
  <2>1. CASE g # h
    BY <1>1, <2>1 DEF Changing, Busy
  <2>2. CASE g = h
    <3>1. r # Idle /\ Len(r.todo) > 1 /\ r.kind = "email"
      BY <1>4, <2>2 DEF Follows
    <3>2. Busy(h)'
      <4>1. req'[h] = r
        BY <1>1
      <4>2. r.todo # <<>>
        BY <3>1
      <4> QED
        BY <4>1, <4>2 DEF Busy
    <3> QED
      BY <1>1, <3>1, <3>2 DEF Changing
  <2> QED
    BY <2>1, <2>2
<1>6. \A g \in Handlers : About(g)' => About(g)
  BY <1>2 DEF About
<1>7. ASSUME NEW g \in Handlers, About(g)' PROVE AboutRow(g)'
  <2>1. About(g) /\ AboutRow(g) /\ Busy(g)'
    BY <1>6, <1>7 DEF About, AInv, Addressed
  <2>2. CASE g = h
    BY <1>2, <1>3, <2>1, <2>2 DEF AboutRow
  <2>3. CASE g # h
    BY <1>2, <2>1, <2>3 DEF AboutRow
  <2> QED
    BY <2>2, <2>3
<1> QED
  BY <1>5, <1>6, <1>7 DEF AInv, Addressed

(* What a step leaves of its own request is all that changes.               *)
LEMMA Others ==
  ASSUME Inv, NEW h \in Handlers, Busy(h), NEW r, req' = [req EXCEPT ![h] = r], Follows(h, r)
  PROVE  /\ \A g \in Handlers : Busy(g)' => /\ Busy(g) /\ req'[g].kind = req[g].kind
                                            /\ req'[g].email = req[g].email
                                            /\ g # h => req'[g] = req[g]
                                            /\ g = h => req'[g] = r /\ r # Idle /\ Head(r.todo) # "verify"
         /\ \A g \in Handlers : About(g)' => About(g)
<1>1. \A g \in Handlers : req'[g] = IF g = h THEN r ELSE req[g]
  BY DEF Inv, Numbered
<1>2. Idle.todo = <<>>
  BY DEF Idle
<1> QED
  BY <1>1, <1>2 DEF Busy, Follows, About

LEMMA AddressWritten ==
  ASSUME AInv, NEW h \in Handlers, Busy(h), WriteAddress(h)
  PROVE  Addressed'
<1> SUFFICES ASSUME ~muddled PROVE Addressed'
  BY DEF Addressed, WriteAddress, history
<1> USE DEF AInv, SInv
<1> DEFINE new == req[h].more
           r == [Rest(h) EXCEPT !.email = new]
<1>1. /\ At(h, "address") /\ user' = [user EXCEPT !.email = new, !.verified = FALSE]
      /\ req' = [req EXCEPT ![h] = r] /\ UNCHANGED <<mails, shown, muddled>>
  BY DEF WriteAddress, VerifiedAfterChange, history
<1>2. /\ req[h].kind = "email" /\ Len(req[h].todo) \in Nat /\ Len(req[h].todo) # 0
      /\ Len(req[h].todo) # 1 /\ Len(req[h].todo) # 2
  BY <1>1, HeadIsOrderly DEF Inv, Numbered, At
<1>3. Len(req[h].todo) > 2
  <2>1. \A n \in Nat : n # 0 /\ n # 1 /\ n # 2 => n > 2
    OBVIOUS
  <2> QED
    BY <1>2, <2>1
<1>4. /\ Rest(h) # Idle /\ Len(Rest(h).todo) > 1 /\ Shaped(Rest(h))
      /\ Rest(h).kind = "email" /\ Head(Rest(h).todo) # "verify"
  BY <1>2, <1>3, RestFollows DEF Follows
<1>5. r.kind = "email" /\ r.todo = Rest(h).todo /\ r.email = new
  BY <1>4 DEF Shaped, Fields
<1> HIDE DEF r
<1>6. \A g \in Handlers : req'[g] = IF g = h THEN r ELSE req[g]
  BY <1>1 DEF Inv, Numbered
<1>7. About(h) /\ \A g \in Handlers : About(g)' => g = h
  <2>1. About(h)
    BY <1>2 DEF About, AboutAddress
  <2>2. \A g \in Handlers : About(g)' => About(g) \/ g = h
    BY <1>6 DEF About, Busy
  <2> QED
    BY <2>1, <2>2 DEF Addressed
<1>8. user.kind = "full" /\ user'.kind = "full" /\ user'.email = new /\ ~user'.verified
  BY <1>1, <1>2, <1>7 DEF Addressed, AboutRow, UserRows, Users
<1>9. Changing'
  <2>1. Busy(h)' /\ req'[h] = r
    BY <1>4, <1>5, <1>6 DEF Busy
  <2> QED
    BY <1>4, <1>5, <2>1 DEF Changing
<1>10. AboutRow(h)'
  BY <1>4, <1>5, <1>6, <1>8 DEF AboutRow
<1> QED
  BY <1>7, <1>8, <1>9, <1>10 DEF Addressed

LEMMA MailsUnlinked ==
  ASSUME AInv, NEW h \in Handlers, Busy(h), Unlink(h)
  PROVE  Addressed'
<1> SUFFICES ASSUME ~muddled PROVE Addressed'
  BY DEF Addressed, Unlink, history
<1> USE DEF AInv, SInv
<1>1. /\ At(h, "unlink") /\ mails' = {} /\ req' = [req EXCEPT ![h] = Rest(h)]
      /\ UNCHANGED <<user, shown, muddled>>
  BY DEF Unlink, Proceed, history
<1> DEFINE r == Rest(h)
<1>2. Follows(h, r) /\ Head(req[h].todo) # "create"
  BY <1>1, RestFollows DEF At
<1>3. /\ \A g \in Handlers : Busy(g)' => /\ Busy(g) /\ req'[g].kind = req[g].kind
                                         /\ req'[g].email = req[g].email
                                         /\ g # h => req'[g] = req[g]
                                         /\ g = h => req'[g] = r /\ r # Idle /\ Head(r.todo) # "verify"
      /\ \A g \in Handlers : About(g)' => About(g)
  BY <1>1, <1>2, Others
<1> HIDE DEF r
<1>4. ASSUME NEW g \in Handlers, About(g)' PROVE AboutRow(g)'
  <2>1. About(g) /\ AboutRow(g) /\ Busy(g)'
    BY <1>3, <1>4 DEF About, Addressed
  <2> QED
    BY <1>1, <1>2, <1>3, <2>1 DEF AboutRow
<1> QED
  BY <1>1, <1>3, <1>4 DEF Addressed

LEMMA AddressShown ==
  ASSUME AInv, NEW h \in Handlers, Busy(h), MarkVerified(h)
  PROVE  Addressed'
<1> SUFFICES ASSUME ~muddled PROVE Addressed'
  BY DEF Addressed, MarkVerified, history
<1> USE DEF AInv, SInv
<1>1. /\ At(h, "verify") /\ user' = [user EXCEPT !.verified = TRUE]
      /\ mails' = {[m EXCEPT !.used = m.used \/ m.id = req[h].more.id] : m \in mails}
      /\ req' = [req EXCEPT ![h] = Rest(h)] /\ UNCHANGED <<shown, muddled>>
  BY DEF MarkVerified, Proceed, history
<1> DEFINE r == Rest(h)
<1>2. Follows(h, r) /\ Head(req[h].todo) # "create" /\ req[h].kind = "verify"
  BY <1>1, RestFollows, HeadIsOrderly DEF At, Inv, Numbered
<1>3. /\ \A g \in Handlers : Busy(g)' => /\ Busy(g) /\ req'[g].kind = req[g].kind
                                         /\ req'[g].email = req[g].email
                                         /\ g # h => req'[g] = req[g]
                                         /\ g = h => req'[g] = r /\ r # Idle /\ Head(r.todo) # "verify"
      /\ \A g \in Handlers : About(g)' => About(g)
  BY <1>1, <1>2, Others
<1> HIDE DEF r
<1>4. user'.kind = user.kind /\ user'.email = user.email
  BY <1>1 DEF UserRows, Users
<1>5. About(h) /\ AboutRow(h) /\ user.email \in shown /\ user.kind # "none"
  BY <1>1, <1>2 DEF About, AboutAddress, Addressed, AboutRow, At
<1>6. \A g \in Handlers : About(g)' => AboutRow(g)'
  <2> SUFFICES ASSUME NEW g \in Handlers, About(g)' PROVE AboutRow(g)'
    OBVIOUS
  <2>1. About(g) /\ AboutRow(g) /\ Busy(g)'
    BY <1>3 DEF About, Addressed
  <2> QED
    BY <1>1, <1>2, <1>3, <1>4, <2>1 DEF AboutRow
<1>7. ~Changing
  BY <1>2, <1>5 DEF Changing, Addressed, About, AboutAddress
<1>8. \A m \in mails' : m.to = user'.email
  <2>1. \A m \in mails : /\ m.to = user.email
                         /\ [m EXCEPT !.used = m.used \/ m.id = req[h].more.id].to = m.to
    BY <1>7 DEF Addressed, UserRows
  <2> QED
    BY <1>1, <1>4, <2>1
<1> QED
  BY <1>1, <1>3, <1>4, <1>5, <1>6, <1>8 DEF Addressed

LEMMA RowCreated ==
  ASSUME AInv, NEW h \in Handlers, Busy(h), CreateUser(h)
  PROVE  Addressed'
<1> SUFFICES ASSUME ~muddled PROVE Addressed'
  BY DEF Addressed, CreateUser
<1> USE DEF AInv, SInv
<1>1. At(h, "create") /\ UNCHANGED <<mails, muddled>> /\ req[h].kind = "register"
  BY HeadIsOrderly DEF CreateUser, At, Inv, Numbered
<1>2. CASE user.kind = "none"
  <2>1. /\ user' = [user EXCEPT !.kind = "full", !.verified = FALSE] /\ req' = [req EXCEPT ![h] = Rest(h)]
    BY <1>2 DEF CreateUser, Proceed
  <2>2. user'.kind = "full" /\ ~user'.verified /\ user'.email = user.email
    BY <2>1 DEF UserRows, Users
  <2> DEFINE r == Rest(h)
  <2>3. Follows(h, r)
    BY RestFollows
  <2>4. /\ \A g \in Handlers : Busy(g)' => /\ Busy(g) /\ req'[g].kind = req[g].kind
                                           /\ req'[g].email = req[g].email
                                           /\ g # h => req'[g] = req[g]
                                           /\ g = h => req'[g] = r /\ r # Idle /\ Head(r.todo) # "verify"
        /\ \A g \in Handlers : About(g)' => About(g)
    BY <2>1, <2>3, Others
  <2> HIDE DEF r
  <2>5. \A g \in Handlers : About(g)' => g = h
    BY <1>1, <2>4 DEF Addressed, About, AboutAddress
  <2>6. About(h)' => AboutRow(h)'
    <3>1. About(h) /\ AboutRow(h)
      BY <1>1 DEF About, AboutAddress, Addressed
    <3>2. Busy(h)' => /\ req'[h].kind = "register" /\ req'[h].email = user'.email
                      /\ Head(req'[h].todo) # "verify"
      <4>1. req[h].email = user.email
        BY <3>1 DEF AboutRow
      <4>2. Busy(h)' => /\ req'[h].kind = req[h].kind /\ req'[h].email = req[h].email
                        /\ req'[h] = r /\ Head(r.todo) # "verify"
        BY <2>4
      <4> QED
        BY <1>1, <2>2, <4>1, <4>2
    <3>3. user'.kind # "none"
      BY <2>2
    <3> QED
      BY <3>2, <3>3 DEF AboutRow, About
  <2>7. mails' = {}
    BY <1>1, <1>2 DEF Addressed
  <2> QED
    BY <2>2, <2>5, <2>6, <2>7 DEF Addressed
<1>3. CASE user.kind # "none"
  <2>1. req' = [req EXCEPT ![h] = Idle] /\ UNCHANGED <<user, shown>>
    BY <1>3 DEF CreateUser, Stop
  <2>2. \A g \in Handlers : Busy(g)' => g # h /\ Busy(g) /\ req'[g] = req[g]
    BY <2>1, DoneLeaves DEF CreateUser
  <2>3. \A g \in Handlers : g # h => req'[g] = req[g]
    BY <2>1 DEF Inv, Numbered
  <2>4. Changing => Changing'
    BY <1>1, <2>3 DEF Changing, Busy
  <2> QED
    BY <1>1, <1>3, <2>1, <2>2, <2>4 DEF Addressed, About, AboutRow
<1> QED
  BY <1>2, <1>3

LEMMA AddressStep == ASSUME AInv, NEW h \in Handlers, Busy(h), Step(h) PROVE Addressed'
<1> USE DEF AInv, SInv
<1>0. Follows(h, Rest(h)) /\ user \in Users
  BY RestFollows DEF UserRows
<1>1. CASE WriteAddress(h)
  BY <1>1, AddressWritten
<1>2. CASE Unlink(h)
  BY <1>2, MailsUnlinked
<1>3. CASE MarkVerified(h)
  BY <1>3, AddressShown
<1>4. CASE CreateUser(h)
  BY <1>4, RowCreated
<1>5. CASE SendMail(h)
  <2>1. /\ At(h, "mail") /\ req' = [req EXCEPT ![h] = Rest(h)] /\ UNCHANGED <<user, shown, muddled>>
        /\ mails' = mails \cup {[id |-> req[h].id, to |-> req[h].email, used |-> FALSE]}
    BY <1>5 DEF SendMail, Proceed, history
  <2>2. req[h].kind \in {"email", "resend", "register"}
    BY <2>1, HeadIsOrderly DEF Inv, Numbered, At
  <2>3. ~muddled => req[h].email = user.email /\ user.kind # "none"
    BY <2>1, <2>2 DEF Addressed, AboutRow, About, AboutAddress, At
  <2>4. CASE ~muddled
    <3>1. \A m \in mails' : m \in mails \/ m.to = user.email
      BY <2>1, <2>3, <2>4
    <3>2. user.kind = "none" => mails' = mails
      BY <2>3, <2>4
    <3>3. user'.email = user.email /\ user'.kind = user.kind /\ user'.verified = user.verified
      BY <2>1
    <3> QED
      BY <1>0, <2>1, <3>1, <3>2, <3>3, AddressPlain
  <2>5. CASE muddled
    BY <2>1, <2>5 DEF Addressed
  <2> QED
    BY <2>4, <2>5
<1>6. CASE Fails(h)
  <2>1. /\ req' = [req EXCEPT ![h] = Idle] /\ UNCHANGED <<user, mails, shown, served>>
        /\ ~muddled' => ~muddled /\ req[h].kind # "email"
    BY <1>6 DEF Fails, Stop
  <2>2. \A g \in Handlers : Busy(g)' => g # h /\ Busy(g) /\ req'[g] = req[g]
    BY <2>1, DoneLeaves
  <2>3. \A g \in Handlers : g # h => req'[g] = req[g]
    BY <2>1 DEF Inv, Numbered
  <2>4. ~muddled' /\ Changing => Changing'
    BY <2>1, <2>3 DEF Changing, Busy
  <2> QED
    BY <2>1, <2>2, <2>4 DEF Addressed, About, AboutRow
<1>7. CASE ConvertGuest(h)
  <2>1. /\ At(h, "convert") /\ user' = [user EXCEPT !.kind = "full"]
        /\ req' = [req EXCEPT ![h] = Rest(h)] /\ UNCHANGED <<mails, shown, muddled>>
    BY <1>7 DEF ConvertGuest, Proceed, history
  <2>2. user'.kind = "full" /\ user'.email = user.email /\ user'.verified = user.verified
    BY <1>0, <2>1 DEF Users
  <2>3. req[h].kind = "convert"
    BY <2>1, HeadIsOrderly DEF Inv, Numbered, At
  <2>4. /\ \A g \in Handlers : Busy(g)' => /\ Busy(g) /\ req'[g].kind = req[g].kind
                                           /\ g # h => req'[g] = req[g]
        /\ \A g \in Handlers : About(g)' => About(g)
    BY <1>0, <2>1, Others
  <2>5. ASSUME NEW g \in Handlers, About(g)' PROVE g # h /\ About(g) /\ req'[g] = req[g]
    <3>1. Busy(g)' /\ About(g)
      BY <2>4, <2>5 DEF About
    <3>2. g # h
      BY <2>3, <3>1 DEF About, AboutAddress
    <3> QED
      BY <2>4, <3>1, <3>2
  <2>6. \A g \in Handlers : g # h => req'[g] = req[g]
    BY <2>1 DEF Inv, Numbered
  <2>7. Changing => Changing'
    BY <2>3, <2>6 DEF Changing, Busy
  <2> QED
    BY <2>1, <2>2, <2>5, <2>7 DEF Addressed, AboutRow
<1>8. CASE \/ Issue(h) \/ RefreshDelete(h) \/ RefreshCommit(h) \/ Deactivate(h)
           \/ CreateLink(h) \/ ApplyReset(h) \/ Scrub(h)
  <2>1. /\ \E step \in Steps \ {"create", "unlink", "verify", "address"} :
             At(h, step) /\ (step \in {"delete", "apply"} \/ Proceed(h))
        /\ Proceed(h) \/ Stop(h)
    BY <1>8 DEF Issue, RefreshDelete, RefreshCommit, Deactivate, CreateLink, ApplyReset, Scrub,
                Steps, history
  <2>2. UNCHANGED <<mails, shown, muddled>>
    BY <1>8 DEF Issue, RefreshDelete, RefreshCommit, Deactivate, CreateLink, ApplyReset, Scrub, history
  <2>3. user'.email = user.email /\ user'.kind = user.kind /\ user'.verified = user.verified
    BY <1>0, <1>8 DEF Issue, RefreshDelete, RefreshCommit, Deactivate, CreateLink, ApplyReset, Scrub, Users
  <2>4. PICK step \in Steps \ {"create", "unlink", "verify", "address"} :
             At(h, step) /\ (step \in {"delete", "apply"} \/ Proceed(h))
    BY <2>1
  <2>5. step \in {"delete", "apply"} => req[h].kind # "email"
    BY <2>4, HeadIsOrderly DEF Inv, Numbered, At
  <2>6. Follows(h, Idle) \/ Proceed(h)
    BY <2>4, <2>5 DEF Follows
  <2>7. PICK r : req' = [req EXCEPT ![h] = r] /\ Follows(h, r)
    BY <1>0, <2>1, <2>6 DEF Proceed, Stop
  <2> QED
    BY <2>2, <2>3, <2>4, <2>7, AddressPlain
<1>9. CASE Bump(h)
  <2>1. /\ At(h, "bump") /\ req' = [req EXCEPT ![h] = [Rest(h) EXCEPT !.version = user.version + 1]]
        /\ user' = [user EXCEPT !.version = @ + 1] /\ UNCHANGED <<mails, shown, muddled>>
    BY <1>9 DEF Bump, history
  <2>2. user'.email = user.email /\ user'.kind = user.kind /\ user'.verified = user.verified
    BY <1>0, <2>1 DEF Users
  <2>3. Follows(h, [Rest(h) EXCEPT !.version = user.version + 1])
    BY WithFollows
  <2> QED
    BY <2>1, <2>2, <2>3, AddressPlain
<1>10. CASE Wipe(h)
  <2>1. /\ At(h, "wipe") /\ UNCHANGED <<user, mails, shown, muddled>>
        /\ req' = [req EXCEPT ![h] = IF Rest(h) = Idle THEN Idle
                                     ELSE [Rest(h) EXCEPT !.begun = changes + 1]]
    BY <1>10 DEF Wipe
  <2>2. Follows(h, [Rest(h) EXCEPT !.begun = changes + 1])
    BY WithFollows
  <2>3. PICK r : req' = [req EXCEPT ![h] = r] /\ Follows(h, r)
    BY <1>0, <2>1, <2>2
  <2> QED
    BY <2>1, <2>3, AddressPlain
<1>11. CASE Candidates(h)
  <2>1. /\ At(h, "candidates") /\ UNCHANGED <<user, mails, shown, muddled>>
        /\ req' = [req EXCEPT ![h] = [Rest(h) EXCEPT !.more = Linkable(user.email)]]
    BY <1>11 DEF Candidates, history
  <2>2. Follows(h, [Rest(h) EXCEPT !.more = Linkable(user.email)])
    BY WithFollows
  <2> QED
    BY <2>1, <2>2, AddressPlain
<1>12. CASE Attach(h)
  <2>1. At(h, "attach") /\ UNCHANGED <<user, mails, shown, muddled>>
    BY <1>12 DEF Attach, history
  <2>2. CASE Proceed(h)
    BY <1>0, <2>1, <2>2, AddressPlain DEF Proceed
  <2>3. CASE ~Proceed(h)
    <3>1. PICK o : req' = [req EXCEPT ![h].more = @ \ {o}]
      BY <1>12, <2>3 DEF Attach
    <3> DEFINE r == [req[h] EXCEPT !.more = req[h].more \ {o}]
    <3>2. req' = [req EXCEPT ![h] = r]
      BY <3>1
    <3>3. Shaped(req[h]) /\ req[h].kind \in {"verify", "convert"} /\ Head(req[h].todo) = "attach"
      BY <2>1, HeadIsOrderly DEF Inv, Numbered, At
    <3>4. r.kind = req[h].kind /\ r.email = req[h].email /\ r.todo = req[h].todo
      BY <3>3 DEF Shaped, Fields
    <3> HIDE DEF r
    <3>5. Follows(h, r)
      BY <3>3, <3>4 DEF Follows
    <3> QED
      BY <2>1, <3>2, <3>5, AddressPlain
  <2> QED
    BY <2>2, <2>3
<1> QED
  BY <1>1, <1>2, <1>3, <1>4, <1>5, <1>6, <1>7, <1>8, <1>9, <1>10, <1>11, <1>12 DEF Step

LEMMA AddressBegin ==
  ASSUME AInv, NEW h \in Handlers, NEW kind, NEW more, Begin(h, kind, more),
         kind = "email" => user.kind = "full", kind \in {"resend", "verify"} => user.kind # "none",
         kind = "verify" => more \in mails /\ shown' = shown \cup {more.to},
         kind # "verify" => shown' = shown, Orderly(kind, Plan(kind)),
         UNCHANGED <<user, mails>>
  PROVE  Addressed'
<1> USE DEF AInv, SInv
<1> DEFINE new == [todo |-> Plan(kind), kind |-> kind, id |-> served + 1, begun |-> changes,
                   version |-> user.version, email |-> user.email, more |-> more]
<1>1. /\ ~Busy(h) /\ req' = [req EXCEPT ![h] = new]
      /\ ~muddled' => /\ ~muddled
                      /\ kind \in AboutAddress => \A k \in AboutAddress : Doing(k) = {}
  BY DEF Begin
<1>2. new.kind = kind /\ new.more = more /\ new.email = user.email /\ new.todo = Plan(kind)
  OBVIOUS
<1> HIDE DEF new
<1> SUFFICES ASSUME ~muddled' PROVE Addressed'
  BY DEF Addressed
<1>3. \A g \in Handlers : req'[g] = IF g = h THEN new ELSE req[g]
  BY <1>1 DEF Inv, Numbered
<1>4. kind \in AboutAddress => \A g \in Handlers : ~About(g)
  BY <1>1 DEF About, Doing
<1>5. \A g \in Handlers : About(g)' => \/ g = h /\ kind \in AboutAddress
                                       \/ g # h /\ About(g)
  BY <1>2, <1>3 DEF About, Busy
<1>6. shown \subseteq shown'
  OBVIOUS
<1>7. ~Changing \/ (kind \notin AboutAddress /\ Changing')
  BY <1>1, <1>3, <1>4 DEF Changing, About, AboutAddress, Busy
<1>8. kind \in AboutAddress => AboutRow(h)'
  <2> SUFFICES ASSUME kind \in AboutAddress PROVE AboutRow(h)'
    OBVIOUS
  <2>1. req'[h] = new
    BY <1>3
  <2>2. kind = "verify" => more.to = user.email /\ more.to \in shown'
    <3>1. ~Changing
      BY <1>7
    <3> QED
      BY <1>1, <3>1 DEF Addressed
  <2>3. Head(Plan(kind)) = "verify" => kind = "verify"
    BY HeadIsOrderly
  <2>4. kind = "register" => Head(Plan(kind)) = "create"
    BY DEF Plan
  <2>5. kind # "register" => user.kind # "none"
    BY DEF AboutAddress
  <2> QED
    BY <1>2, <2>1, <2>2, <2>3, <2>4, <2>5 DEF AboutRow
<1>9. ASSUME NEW g \in Handlers, g # h, About(g) PROVE AboutRow(g)'
  <2>1. req'[g] = req[g] /\ AboutRow(g)
    BY <1>1, <1>3, <1>9 DEF Addressed
  <2> QED
    BY <1>6, <2>1 DEF AboutRow
<1>10. \A f, g \in Handlers : About(f)' /\ About(g)' => f = g
  BY <1>1, <1>4, <1>5 DEF Addressed
<1>11. \A g \in Handlers : About(g)' => AboutRow(g)'
  BY <1>5, <1>8, <1>9
<1>12. \A m \in mails' : m.to = user'.email \/ Changing'
  BY <1>1, <1>7 DEF Addressed
<1> QED
  BY <1>1, <1>6, <1>10, <1>11, <1>12 DEF Addressed

LEMMA AddressRequest == ASSUME AInv, NEW h \in Handlers, Request(h) PROVE Addressed'
<1>0. \A kind \in Kinds : Orderly(kind, Plan(kind))
  BY PlanIsOrderly
<1>1. CASE Login(h)
  BY <1>0, <1>1, AddressBegin DEF Login, Kinds
<1>2. CASE Refresh(h)
  BY <1>0, <1>2, AddressBegin DEF Refresh, Kinds
<1>3. CASE Reissue(h)
  BY <1>0, <1>3, AddressBegin DEF Reissue, Kinds
<1>4. CASE PauseAccount(h)
  BY <1>0, <1>4, AddressBegin DEF PauseAccount, Kinds
<1>5. CASE ForgotPassword(h)
  BY <1>0, <1>5, AddressBegin DEF ForgotPassword, Kinds
<1>6. CASE ResetPassword(h)
  BY <1>0, <1>6, AddressBegin DEF ResetPassword, Kinds
<1>7. CASE ChangeEmail(h)
  BY <1>0, <1>7, AddressBegin DEF ChangeEmail, Authenticated, Kinds
<1>8. CASE ResendVerification(h)
  BY <1>0, <1>8, AddressBegin DEF ResendVerification, Kinds
<1>9. CASE VerifyEmail(h)
  <2>1. PICK m \in mails : /\ Begin(h, "verify", m) /\ shown' = shown \cup {m.to}
                           /\ UNCHANGED <<user, mails>>
    BY <1>9 DEF VerifyEmail
  <2>2. CASE user.kind # "none"
    BY <1>0, <2>1, <2>2, AddressBegin DEF Kinds
  <2>3. CASE user.kind = "none"
    <3>1. muddled
      BY <2>1, <2>3 DEF AInv, Addressed
    <3> QED
      BY <2>1, <3>1 DEF Addressed, Begin
  <2> QED
    BY <2>2, <2>3
<1>10. CASE Register(h)
  BY <1>0, <1>10, AddressBegin DEF Register, Kinds
<1>11. CASE Purge(h)
  BY <1>0, <1>11, AddressBegin DEF Purge, Kinds
<1> QED
  BY <1>1, <1>2, <1>3, <1>4, <1>5, <1>6, <1>7, <1>8, <1>9, <1>10, <1>11 DEF Request

LEMMA AddressElse ==
  ASSUME Addressed, UNCHANGED <<req, mails, shown, muddled>>,
         user'.email = user.email, user'.verified = user.verified,
         user'.kind = user.kind \/ (user.kind = "none" /\ user'.kind = "guest")
  PROVE  Addressed'
<1>1. (Changing <=> Changing') /\ \A h \in Handlers : About(h)' <=> About(h)
  BY DEF Changing, About, Busy
<1>2. \A h \in Handlers : AboutRow(h) => AboutRow(h)'
  BY DEF AboutRow
<1> QED
  BY <1>1, <1>2 DEF Addressed

LEMMA AInvNext == AInv /\ [Next]_vars => AInv'
<1> SUFFICES ASSUME AInv, [Next]_vars PROVE Addressed'
  BY SInvNext DEF AInv
<1>0. Addressed /\ user \in Users
  BY DEF AInv, SInv, UserRows
<1>1. ASSUME NEW h \in Handlers, IF Busy(h) THEN Step(h) ELSE Request(h) PROVE Addressed'
  BY <1>1, AddressStep, AddressRequest
<1>2. CASE (\E o \in Orders : PlaceAsGuest(o) \/ Grow(o)) \/ Logout \/ UNCHANGED vars
  BY <1>0, <1>2, AddressElse DEF PlaceAsGuest, Grow, Logout, vars, history
<1>3. CASE setUserActive \/ CreateGuest
  <2>1. /\ user'.email = user.email /\ user'.verified = user.verified
        /\ user'.kind = user.kind \/ (user.kind = "none" /\ user'.kind = "guest")
        /\ UNCHANGED <<req, mails, shown, muddled>>
    BY <1>0, <1>3 DEF setUserActive, CreateGuest, Users, history
  <2> QED
    BY <1>0, <2>1, AddressElse
<1> QED
  BY <1>1, <1>2, <1>3 DEF Next

LEMMA AInvInit == Init => AInv
<1> SUFFICES ASSUME Init PROVE AInv
  OBVIOUS
<1>1. \A h \in Handlers : ~Busy(h)
  BY DEF Init, Busy, Idle
<1>2. user.email = First /\ mails = {} /\ First \in shown
  BY DEF Init
<1> QED
  BY <1>1, <1>2, SInvInit DEF AInv, Addressed, About

(* A verified address is one the customer has shown to be theirs, as long as *)
(* no change of address overlaps a verification or breaks off               *)
(* (services/auth.service.js, changeEmail and verifyEmail).                 *)
THEOREM AddressesAreShown == Spec => []VerifiedIsShown
<1>1. AInv => VerifiedIsShown
  BY DEF AInv, Addressed, VerifiedIsShown
<1> QED
  BY <1>1, AInvInit, AInvNext, PTL DEF Spec
=============================================================================
