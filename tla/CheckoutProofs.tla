--------------------------- MODULE CheckoutProofs ---------------------------
(***************************************************************************)
(* Checkouts paid by PaymentIntent, for any number of checkouts, handlers   *)
(* and units, any credit and any faults.                                    *)
(***************************************************************************)
EXTENDS Checkout, SumTheorems

(* What a handler carries                                                   *)
LEMMA JobFields ==
  ASSUME NEW j \in Jobs
  PROVE  /\ j.at \in Places /\ j.at # "idle" /\ j.on \in Intents /\ j.ok \in BOOLEAN
         /\ j.amount \in Nat /\ j.final \in {"FAILED", "EXPIRED"} /\ j.forced \in BOOLEAN
         /\ j.seen \in Seen /\ j.seen.status \in Statuses /\ j.seen.credit \in Nat
         /\ j.seen.key \in Keys /\ j.seen.reserved \in Int
  BY DEF Jobs, Seen, Places

LEMMA AtWork ==
  ASSUME TypeOK, NEW h \in Handlers
  PROVE  job[h] # Idle => job[h] \in Jobs
  BY DEF TypeOK

LEMMA Somewhere ==
  ASSUME NEW h \in Handlers, NEW place \in Places, At(h, place)
  PROVE  job[h] # Idle
  BY DEF At, Places, Idle

LEMMA UnseenType == Unseen \in Seen
  BY DEF Unseen, Seen, Statuses, Keys

LEMMA GotoType ==
  ASSUME TypeOK, NEW h \in Handlers, job[h] # Idle, NEW place \in Places, Goto(h, place)
  PROVE  job' \in [Handlers -> Jobs \cup {Idle}]
<1>1. job[h] \in Jobs
  BY AtWork
<1>2. [job[h] EXCEPT !.at = place, !.amount = 0, !.seen = Unseen] \in Jobs
  BY <1>1, UnseenType DEF Jobs
<1>3. job' = [job EXCEPT ![h] = [job[h] EXCEPT !.at = place, !.amount = 0, !.seen = Unseen]]
  BY DEF Goto
<1> QED
  BY <1>2, <1>3 DEF TypeOK

LEMMA DoneType ==
  ASSUME TypeOK, NEW h \in Handlers, Done(h)
  PROVE  job' \in [Handlers -> Jobs \cup {Idle}]
  BY DEF Done, TypeOK

LEMMA StartType ==
  ASSUME TypeOK, NEW h \in Handlers, NEW place \in Places, NEW i \in Intents, NEW ok \in BOOLEAN,
         NEW final \in {"FAILED", "EXPIRED"}, NEW forced \in BOOLEAN,
         Start(h, place, i, ok, final, forced)
  PROVE  job' \in [Handlers -> Jobs \cup {Idle}]
<1>1. [at |-> place, on |-> i, ok |-> ok, amount |-> 0,
       seen |-> Unseen, final |-> final, forced |-> forced] \in Jobs
  BY UnseenType DEF Jobs
<1> QED
  BY <1>1 DEF Start, TypeOK

LEMMA PositiveType ==
  ASSUME NEW n \in Int
  PROVE  Positive(n) \in Nat /\ (n <= 0 => Positive(n) = 0) /\ (n > 0 => Positive(n) = n)
  BY DEF Positive

LEMMA Spending == TypeOK => Spendable \in Nat /\ (Spendable > 0 => Spendable = wallet.balance - wallet.held)
  BY PositiveType DEF Spendable, TypeOK

LEMMA Given ==
  ASSUME NEW i \in Intents
  PROVE  Qty[i] \in Nat \ {0} /\ Ask[i] \in Nat
  BY CheckoutAssumption DEF CheckoutAssumption

LEMMA SeenType ==
  ASSUME NEW status \in Statuses, NEW credit \in Nat, NEW key \in Keys, NEW reserved \in Int
  PROVE  /\ [Unseen EXCEPT !.status = status, !.credit = credit, !.key = key] \in Seen
         /\ [Unseen EXCEPT !.credit = credit, !.reserved = reserved] \in Seen
  BY UnseenType DEF Seen

LEMMA SeesType ==
  ASSUME TypeOK, NEW h \in Handlers, job[h] # Idle, NEW place \in Places, NEW seen \in Seen,
         job' = [job EXCEPT ![h].at = place, ![h].seen = seen]
  PROVE  job' \in [Handlers -> Jobs \cup {Idle}]
<1>1. [job[h] EXCEPT !.at = place, !.seen = seen] \in Jobs
  BY AtWork DEF Jobs
<1> QED
  BY <1>1 DEF TypeOK

LEMMA CarriesType ==
  ASSUME TypeOK, NEW h \in Handlers, job[h] # Idle, NEW place \in Places, NEW amount \in Nat,
         job' = [job EXCEPT ![h].at = place, ![h].amount = amount]
  PROVE  job' \in [Handlers -> Jobs \cup {Idle}]
<1>1. [job[h] EXCEPT !.at = place, !.amount = amount] \in Jobs
  BY AtWork DEF Jobs
<1> QED
  BY <1>1 DEF TypeOK

LEMMA IntentFields ==
  ASSUME TypeOK, NEW i \in Intents
  PROVE  /\ intent[i].status \in Statuses /\ intent[i].credit \in Nat
         /\ intent[i].key \in Keys /\ intent[i].order \in Keys
  BY DEF TypeOK, IntentRows

(* Every variable keeps its type.                                           *)
LEMMA StepType == NothingOverdrawn /\ [Next]_vars => TypeOK'
<1> SUFFICES ASSUME TypeOK, NothingOverdrawn, [Next]_vars PROVE TypeOK'
  BY DEF NothingOverdrawn
<1> DEFINE JobsTyped == job' \in [Handlers -> Jobs \cup {Idle}]
           MoneyTyped == row' \in [stock : Int, reserved : Int] /\ wallet' \in [balance : Int, held : Int]
           RestTyped == /\ intent' \in [Intents -> IntentRows] /\ orders' \subseteq OrderRows
                        /\ paid' \subseteq Intents /\ declined' \subseteq Intents
                        /\ owns' \in [Intents -> Int]
<1> SUFFICES JobsTyped /\ MoneyTyped /\ RestTyped
  BY DEF TypeOK
<1>1. ASSUME NEW i \in Intents, AttachPayment(i) \/ Decline(i) \/ Pay(i)
      PROVE  JobsTyped /\ MoneyTyped /\ RestTyped
  BY <1>1 DEF AttachPayment, Decline, Pay, TypeOK, IntentRows, Keys
<1>2. ASSUME NEW h \in Handlers, NEW i \in Intents,
             \/ Create(h, i) \/ Webhook(h, i) \/ ThankYou(h, i)
             \/ PaymentFailed(h, i) \/ Expire(h, i) \/ Supersede(h, i)
      PROVE  JobsTyped /\ MoneyTyped /\ RestTyped
  <2>1. JobsTyped
    BY <1>2, StartType DEF Create, Webhook, ThankYou, PaymentFailed, Expire, Supersede, Places
  <2>2. MoneyTyped /\ RestTyped
    <3>1. CASE Create(h, i)
      BY <3>1, Given DEF Create, TypeOK, IntentRows, Statuses
    <3>2. CASE Webhook(h, i)
      BY <3>2 DEF Webhook, TypeOK, IntentRows, Keys
    <3> QED
      BY <1>2, <3>1, <3>2 DEF ThankYou, PaymentFailed, Expire, Supersede, TypeOK
  <2> QED
    BY <2>1, <2>2
<1>3. ASSUME NEW h \in Handlers, Step(h)
      PROVE  JobsTyped /\ MoneyTyped /\ RestTyped
  <2>1. CASE Quote(h) \/ QuoteFails(h) \/ HoldFails(h) \/ WriteFails(h) \/ HandleError(h) \/ ReleaseFails(h)
    <3>1. JobsTyped
      BY <2>1, GotoType, DoneType, Somewhere DEF Quote, QuoteFails, HoldFails, WriteFails, HandleError,
         ReleaseFails, Places, At, Idle
    <3> QED
      BY <2>1, <3>1 DEF Quote, QuoteFails, HoldFails, WriteFails, HandleError, ReleaseFails, TypeOK
  <2>2. CASE Hold(h)
    <3> DEFINE amount == Least(Ask[On(h)], Spendable)
    <3>1. job[h] # Idle /\ job[h].on \in Intents
      BY <2>2, Somewhere, AtWork, JobFields DEF Hold, Places
    <3>2. amount \in Nat
      BY <3>1, Spending, Given DEF On, Least
    <3>3. JobsTyped
      BY <2>2, <3>1, <3>2, CarriesType DEF Hold, Places
    <3> QED
      BY <2>2, <3>2, <3>3 DEF Hold, TypeOK
  <2>3. CASE Total(h)
    <3>1. job[h].on \in Intents /\ job[h].amount \in Nat
      BY <2>3, Somewhere, AtWork, JobFields DEF Total, Places
    <3> QED
      BY <2>3, <3>1, DoneType DEF Total, On, TypeOK, IntentRows
  <2>4. CASE Lookup(h)
    <3>1. job[h] # Idle /\ job[h].on \in Intents
      BY <2>4, Somewhere, AtWork, JobFields DEF Lookup, Places
    <3>2. JobsTyped
      BY <2>4, <3>1, GotoType, DoneType, CarriesType, IntentFields DEF Lookup, On, Places
    <3> QED
      BY <2>4, <3>2 DEF Lookup, TypeOK
  <2>5. CASE Rehold(h)
    <3>1. job[h] # Idle /\ job[h].amount \in Nat
      BY <2>5, Somewhere, AtWork, JobFields DEF Rehold, Places
    <3>2. JobsTyped
      BY <2>5, <3>1, GotoType DEF Rehold, Places
    <3>3. Least(job[h].amount, Spendable) \in Int
      BY <3>1, Spending DEF Least
    <3> QED
      BY <2>5, <3>2, <3>3 DEF Rehold, TypeOK
  <2>6. CASE ReadIntent(h)
    <3>1. job[h] # Idle /\ job[h].on \in Intents
      BY <2>6, Somewhere, AtWork, JobFields DEF ReadIntent, Places
    <3>2. [Unseen EXCEPT !.status = intent[On(h)].status, !.credit = intent[On(h)].credit,
                         !.key = intent[On(h)].key] \in Seen
      BY <3>1, IntentFields, UnseenType DEF On, Seen
    <3>3. JobsTyped
      BY <2>6, <3>1, <3>2, GotoType, DoneType, SeesType DEF ReadIntent, Places
    <3> QED
      BY <2>6, <3>3 DEF ReadIntent, TypeOK
  <2>7. CASE WriteOrder(h)
    <3>1. job[h].on \in Intents /\ job[h].seen.credit \in Nat /\ job[h].seen.key \in Keys
      BY <2>7, Somewhere, AtWork, JobFields DEF WriteOrder, Places
    <3>2. Least(wallet.held, job[h].seen.credit) \in Nat
      BY <3>1 DEF TypeOK, NothingOverdrawn, Least
    <3>3. MoneyTyped
      BY <2>7, <3>1, <3>2, Given DEF WriteOrder, On, TypeOK
    <3>4. orders' \subseteq OrderRows
      BY <2>7, <3>1, <3>2 DEF WriteOrder, On, TypeOK, OrderRows
    <3>5. /\ intent' \in [Intents -> IntentRows] /\ owns' \in [Intents -> Int]
          /\ paid' \subseteq Intents /\ declined' \subseteq Intents
      BY <2>7, <3>1, Given DEF WriteOrder, On, TypeOK, IntentRows, Statuses
    <3> QED
      BY <2>7, <3>3, <3>4, <3>5, DoneType DEF WriteOrder
  <2>8. CASE ReadRelease(h)
    <3>1. job[h] # Idle /\ job[h].on \in Intents
      BY <2>8, Somewhere, AtWork, JobFields DEF ReadRelease, Places
    <3>2. [Unseen EXCEPT !.credit = intent[On(h)].credit, !.reserved = row.reserved] \in Seen
      BY <3>1, IntentFields, SeenType DEF On, TypeOK, Statuses, Keys
    <3>3. JobsTyped
      BY <2>8, <3>1, <3>2, GotoType, SeesType DEF ReadRelease, Places
    <3> QED
      BY <2>8, <3>3 DEF ReadRelease, TypeOK
  <2>9. CASE WriteRelease(h)
    <3>1. job[h] # Idle /\ job[h].on \in Intents /\ job[h].seen.credit \in Nat /\ job[h].seen.reserved \in Int
      BY <2>9, Somewhere, AtWork, JobFields DEF WriteRelease, Places
    <3>2. JobsTyped
      BY <2>9, <3>1, GotoType DEF WriteRelease, Places
    <3>3. /\ Least(wallet.held, job[h].seen.credit) \in Int
          /\ Positive(Least(job[h].seen.reserved, Qty[job[h].on])) \in Int
      BY <3>1, Given DEF TypeOK, Least, Positive
    <3> QED
      BY <2>9, <3>1, <3>2, <3>3 DEF WriteRelease, On, TypeOK
  <2>10. CASE Mark(h)
    <3>1. job[h].on \in Intents /\ job[h].final \in Statuses
      BY <2>10, Somewhere, AtWork, JobFields DEF Mark, Places, Statuses
    <3> QED
      BY <2>10, <3>1, DoneType DEF Mark, On, TypeOK, IntentRows
  <2>11. CASE Crash(h)
    BY <2>11, DoneType DEF Crash, TypeOK
  <2> QED
    BY <1>3, <2>1, <2>2, <2>3, <2>4, <2>5, <2>6, <2>7, <2>8, <2>9, <2>10, <2>11 DEF Step
<1>4. CASE UNCHANGED vars
  BY <1>4 DEF vars, TypeOK
<1> QED
  BY <1>1, <1>2, <1>3, <1>4 DEF Next

(* Units and credit are promised out of what is there.                      *)
LEMMA StepOverdrawsNothing == NothingOverdrawn /\ [Next]_vars => NothingOverdrawn'
<1> SUFFICES ASSUME TypeOK, NothingOverdrawn, [Next]_vars, TypeOK'
             PROVE  row'.reserved <= row'.stock /\ 0 <= wallet'.held /\ wallet'.held <= wallet'.balance
  BY StepType DEF NothingOverdrawn
<1> DEFINE Sound == row'.reserved <= row'.stock /\ 0 <= wallet'.held /\ wallet'.held <= wallet'.balance
<1>0. /\ row \in [stock : Int, reserved : Int] /\ wallet \in [balance : Int, held : Int]
      /\ row.reserved <= row.stock /\ 0 <= wallet.held /\ wallet.held <= wallet.balance
  BY DEF TypeOK, NothingOverdrawn
<1>1. UNCHANGED <<row, wallet>> => Sound
  BY <1>0
<1>2. ASSUME NEW i \in Intents, AttachPayment(i) \/ Decline(i) \/ Pay(i)
      PROVE  Sound
  BY <1>1, <1>2 DEF AttachPayment, Decline, Pay
<1>3. ASSUME NEW h \in Handlers, NEW i \in Intents,
             \/ Create(h, i) \/ Webhook(h, i) \/ ThankYou(h, i)
             \/ PaymentFailed(h, i) \/ Expire(h, i) \/ Supersede(h, i)
      PROVE  Sound
  <2>1. CASE Create(h, i)
    <3>1. row.reserved + Qty[i] <= row.stock
      BY <1>0, <2>1, Given DEF Create, CanReserve, Available, Positive
    <3> QED
      BY <1>0, <2>1, <3>1, Given DEF Create
  <2> QED
    BY <1>1, <1>3, <2>1 DEF Webhook, ThankYou, PaymentFailed, Expire, Supersede
<1>4. ASSUME NEW h \in Handlers, Step(h)
      PROVE  Sound
  <2>1. CASE Hold(h)
    <3>1. job[h].on \in Intents
      BY <2>1, Somewhere, AtWork, JobFields DEF Hold, Places
    <3>2. LET amount == Least(Ask[On(h)], Spendable)
          IN  amount \in Nat /\ wallet.held + amount <= wallet.balance
      BY <1>0, <2>1, <3>1, Spending, Given DEF Hold, On, Least
    <3> QED
      BY <1>0, <2>1, <3>2 DEF Hold
  <2>2. CASE Rehold(h)
    <3>1. job[h].amount \in Nat
      BY <2>2, Somewhere, AtWork, JobFields DEF Rehold, Places
    <3>2. CASE Spendable > 0
      <4>1. LET amount == Least(job[h].amount, Spendable)
            IN  amount \in Nat /\ wallet.held + amount <= wallet.balance
        BY <1>0, <3>1, <3>2, Spending DEF Least
      <4> QED
        BY <1>0, <2>2, <3>2, <4>1 DEF Rehold
    <3>3. CASE ~(Spendable > 0)
      BY <1>1, <2>2, <3>3 DEF Rehold
    <3> QED
      BY <3>2, <3>3
  <2>3. CASE WriteOrder(h)
    <3>1. job[h].on \in Intents /\ job[h].seen.credit \in Nat
      BY <2>3, Somewhere, AtWork, JobFields DEF WriteOrder, Places
    <3>2. LET captured == Least(wallet.held, job[h].seen.credit)
          IN  captured \in Nat /\ captured <= wallet.held
      BY <1>0, <3>1 DEF Least
    <3>3. 0 <= wallet'.held /\ wallet'.held <= wallet'.balance
      BY <1>0, <2>3, <3>2 DEF WriteOrder
    <3>4. CASE job[h].seen.status = "PENDING"
      BY <1>0, <2>3, <3>1, <3>3, <3>4, Given DEF WriteOrder, On
    <3>5. CASE job[h].seen.status # "PENDING"
      <4>1. row.reserved + Qty[job[h].on] <= row.stock
        BY <1>0, <2>3, <3>1, <3>5, Given DEF WriteOrder, On, CanReserve, Available, Positive
      <4> QED
        BY <1>0, <2>3, <3>1, <3>3, <3>5, <4>1, Given DEF WriteOrder, On
    <3> QED
      BY <3>4, <3>5
  <2>4. CASE WriteRelease(h)
    <3>1. job[h].on \in Intents /\ job[h].seen.credit \in Nat /\ job[h].seen.reserved \in Int
      BY <2>4, Somewhere, AtWork, JobFields DEF WriteRelease, Places
    <3>2. /\ Least(wallet.held, job[h].seen.credit) \in Nat
          /\ Least(wallet.held, job[h].seen.credit) <= wallet.held
          /\ Positive(Least(job[h].seen.reserved, Qty[job[h].on])) \in Nat
      BY <1>0, <3>1, Given DEF Least, Positive
    <3> QED
      BY <1>0, <2>4, <3>2 DEF WriteRelease, On
  <2> QED
    BY <1>1, <1>4, <2>1, <2>2, <2>3, <2>4 DEF Step, Quote, QuoteFails, HoldFails, Total, Lookup,
       ReadIntent, WriteFails, HandleError, ReadRelease, ReleaseFails, Mark, Crash
<1>5. CASE UNCHANGED vars
  BY <1>1, <1>5 DEF vars
<1> QED
  BY <1>2, <1>3, <1>4, <1>5 DEF Next

LEMMA InitOverdrawsNothing == Init => NothingOverdrawn
  BY CheckoutAssumption DEF CheckoutAssumption, Init, NothingOverdrawn, TypeOK, IntentRows, Statuses, Keys

(* Whatever creations, recoveries, sales, releases and failures interleave, *)
(* at most the units on hand are reserved and at most the credit of the     *)
(* wallet is held: the conditions of reserveOrderLineStock and holdCredit   *)
(* suffice.                                                                 *)
THEOREM NeverOverdrawn == Spec => []NothingOverdrawn
<1>1. Init => NothingOverdrawn
  BY InitOverdrawsNothing
<1>2. NothingOverdrawn /\ [Next]_vars => NothingOverdrawn'
  BY StepOverdrawsNothing
<1> QED
  BY <1>1, <1>2, PTL DEF Spec

(* A consumed intent is left alone by everything but a forced mark.         *)
LEMMA StepKeepsConsumed ==
  NothingOverdrawn /\ [Next]_vars =>
    [\A i \in Intents :
       intent[i].status = "CONSUMED" /\ intent'[i].status # "CONSUMED"
         => \E h \in Handlers : At(h, "mark") /\ On(h) = i /\ job[h].forced]_vars
<1> SUFFICES ASSUME TypeOK, Next,
                    NEW i \in Intents, intent[i].status = "CONSUMED", intent'[i].status # "CONSUMED"
             PROVE  \E h \in Handlers : At(h, "mark") /\ On(h) = i /\ job[h].forced
  BY DEF NothingOverdrawn
<1>0. intent \in [Intents -> IntentRows]
  BY DEF TypeOK
<1>1. ASSUME NEW j \in Intents, AttachPayment(j) \/ Decline(j) \/ Pay(j)
      PROVE  FALSE
  BY <1>0, <1>1 DEF AttachPayment, Decline, Pay, IntentRows
<1>2. ASSUME NEW h \in Handlers, NEW j \in Intents,
             \/ Create(h, j) \/ Webhook(h, j) \/ ThankYou(h, j)
             \/ PaymentFailed(h, j) \/ Expire(h, j) \/ Supersede(h, j)
      PROVE  FALSE
  BY <1>0, <1>2 DEF Create, Webhook, ThankYou, PaymentFailed, Expire, Supersede, IntentRows
<1>3. ASSUME NEW h \in Handlers, Step(h)
      PROVE  At(h, "mark") /\ On(h) = i /\ job[h].forced
  <2>1. CASE Mark(h)
    BY <1>0, <2>1 DEF Mark, IntentRows
  <2>2. CASE Total(h)
    BY <1>0, <2>2 DEF Total, IntentRows
  <2>3. CASE WriteOrder(h)
    BY <1>0, <2>3 DEF WriteOrder, IntentRows
  <2> QED
    BY <1>3, <2>1, <2>2, <2>3 DEF Step, Quote, QuoteFails, Hold, HoldFails, Lookup, Rehold,
       ReadIntent, WriteFails, HandleError, ReadRelease, WriteRelease, ReleaseFails, Crash
<1> QED
  BY <1>1, <1>2, <1>3 DEF Next

(* No late failure, sweep or superseding checkout reopens a checkout that   *)
(* has become an order, though they release its resources all the same.     *)
THEOREM ConsumedStays == Spec => ConsumedIsFinal
<1>1. Init => NothingOverdrawn
  BY InitOverdrawsNothing
<1>2. NothingOverdrawn /\ [Next]_vars => NothingOverdrawn'
  BY StepOverdrawsNothing
<1>3. NothingOverdrawn /\ [Next]_vars =>
        [\A i \in Intents :
           intent[i].status = "CONSUMED" /\ intent'[i].status # "CONSUMED"
             => \E h \in Handlers : At(h, "mark") /\ On(h) = i /\ job[h].forced]_vars
  BY StepKeepsConsumed
<1> QED
  BY <1>1, <1>2, <1>3, PTL DEF Spec, ConsumedIsFinal

(***************************************************************************)
(* A payment by PaymentIntent has one Stripe id from the start, and the     *)
(* orders made of an intent are unique by it.                               *)
(***************************************************************************)
Fulfilling == {"lookup", "rehold", "read", "write"}

OneKey ==
    /\ \A i \in Intents : /\ intent[i].key \in {"none", "pi"}
                          /\ i \in paid => intent[i].key = "pi"
    /\ \A o \in orders : o.key = "pi"
    /\ \A h \in Handlers :
         /\ job[h].at \in Fulfilling => job[h].on \in paid
         /\ job[h].at = "write" => job[h].seen.key = "pi"

Inv == NothingOverdrawn /\ OneKey

LEMMA StepKeepsOneKey == ~Hosted /\ Inv /\ [Next]_vars => OneKey'
<1> SUFFICES ASSUME ~Hosted, TypeOK, OneKey, [Next]_vars PROVE OneKey'
  BY DEF Inv, NothingOverdrawn
<1> DEFINE KeyOK == \A i \in Intents : /\ intent'[i].key \in {"none", "pi"}
                                       /\ i \in paid' => intent'[i].key = "pi"
           OrderOK == \A o \in orders' : o.key = "pi"
           JobOK == \A h \in Handlers : /\ job'[h].at \in Fulfilling => job'[h].on \in paid'
                                        /\ job'[h].at = "write" => job'[h].seen.key = "pi"
<1> SUFFICES KeyOK /\ OrderOK /\ JobOK
  BY DEF OneKey
<1>0. /\ intent \in [Intents -> IntentRows] /\ job \in [Handlers -> Jobs \cup {Idle}]
      /\ paid \subseteq Intents
  BY DEF TypeOK
<1>a. /\ UNCHANGED <<intent, paid>> => KeyOK
      /\ UNCHANGED orders => OrderOK
      /\ UNCHANGED <<job, paid>> => JobOK
  BY DEF OneKey
<1>b. ASSUME NEW h \in Handlers, Done(h), paid' = paid
      PROVE  JobOK
  BY <1>0, <1>b DEF Done, Idle, OneKey, Fulfilling
<1>c. ASSUME NEW h \in Handlers, NEW place \in Places \ {"write"}, Goto(h, place), job[h] # Idle,
             paid' = paid, place \in Fulfilling => job[h].on \in paid
      PROVE  JobOK
  BY <1>0, <1>c, AtWork, JobFields DEF Goto, OneKey, Fulfilling, Jobs
<1>1. ASSUME NEW i \in Intents, AttachPayment(i)
      PROVE  KeyOK /\ OrderOK /\ JobOK
  <2>1. KeyOK
    BY <1>0, <1>1 DEF AttachPayment, OneKey, IntentRows
  <2> QED
    BY <1>a, <1>1, <2>1 DEF AttachPayment
<1>2. ASSUME NEW i \in Intents, Decline(i)
      PROVE  KeyOK /\ OrderOK /\ JobOK
  BY <1>a, <1>2 DEF Decline
<1>3. ASSUME NEW i \in Intents, Pay(i)
      PROVE  KeyOK /\ OrderOK /\ JobOK
  BY <1>0, <1>a, <1>3 DEF Pay, OneKey
<1>4. ASSUME NEW h \in Handlers, NEW i \in Intents,
             \/ Create(h, i) \/ Webhook(h, i) \/ ThankYou(h, i)
             \/ PaymentFailed(h, i) \/ Expire(h, i) \/ Supersede(h, i)
      PROVE  KeyOK /\ OrderOK /\ JobOK
  <2>1. OrderOK
    BY <1>a, <1>4 DEF Create, Webhook, ThankYou, PaymentFailed, Expire, Supersede
  <2>2. KeyOK
    <3>1. CASE Create(h, i)
      BY <1>0, <3>1 DEF Create, OneKey, IntentRows
    <3>2. CASE Webhook(h, i)
      BY <1>0, <3>2 DEF Webhook, OneKey, IntentRows
    <3> QED
      BY <1>a, <1>4, <3>1, <3>2 DEF ThankYou, PaymentFailed, Expire, Supersede
  <2>3. JobOK
    <3>1. CASE Webhook(h, i) \/ ThankYou(h, i)
      BY <1>0, <3>1 DEF Webhook, ThankYou, Start, OneKey, Fulfilling
    <3> QED
      BY <1>0, <1>4, <3>1 DEF Create, PaymentFailed, Expire, Supersede, Start, OneKey, Fulfilling
  <2> QED
    BY <2>1, <2>2, <2>3
<1>5. ASSUME NEW h \in Handlers, Step(h)
      PROVE  KeyOK /\ OrderOK /\ JobOK
  <2>1. paid' = paid
    BY <1>5 DEF Step, Quote, QuoteFails, Hold, HoldFails, Total, Lookup, Rehold, ReadIntent, WriteOrder,
       WriteFails, HandleError, ReadRelease, WriteRelease, ReleaseFails, Mark, Crash
  <2>2. KeyOK
    <3>1. CASE Total(h)
      BY <1>0, <2>1, <3>1 DEF Total, OneKey, IntentRows
    <3>2. CASE WriteOrder(h)
      BY <1>0, <2>1, <3>2 DEF WriteOrder, OneKey, IntentRows
    <3>3. CASE Mark(h)
      BY <1>0, <2>1, <3>3 DEF Mark, OneKey, IntentRows
    <3> QED
      BY <1>a, <1>5, <3>1, <3>2, <3>3 DEF Step, Quote, QuoteFails, Hold, HoldFails, Lookup, Rehold,
         ReadIntent, WriteFails, HandleError, ReadRelease, WriteRelease, ReleaseFails, Crash
  <2>3. OrderOK
    <3>1. CASE WriteOrder(h)
      BY <3>1 DEF WriteOrder, At, OneKey
    <3> QED
      BY <1>a, <1>5, <3>1 DEF Step, Quote, QuoteFails, Hold, HoldFails, Total, Lookup, Rehold,
         ReadIntent, WriteFails, HandleError, ReadRelease, WriteRelease, ReleaseFails, Mark, Crash
  <2>4. JobOK
    <3>1. CASE Total(h) \/ WriteOrder(h) \/ Mark(h) \/ Crash(h)
      BY <1>b, <2>1, <3>1 DEF Total, WriteOrder, Mark, Crash
    <3>2. CASE Quote(h) \/ QuoteFails(h) \/ HoldFails(h) \/ WriteFails(h) \/ HandleError(h)
               \/ WriteRelease(h) \/ ReleaseFails(h)
      BY <1>b, <1>c, <2>1, <3>2 DEF Quote, QuoteFails, HoldFails, WriteFails, HandleError,
         WriteRelease, ReleaseFails, Places, Fulfilling, At, Idle
    <3>3. CASE Hold(h)
      BY <1>0, <2>1, <3>3 DEF Hold, At, OneKey, Fulfilling, Jobs, Idle
    <3>4. CASE Lookup(h)
      <4>1. job[h] # Idle /\ job[h].on \in paid
        BY <3>4 DEF Lookup, At, Idle, OneKey, Fulfilling
      <4>2. CASE job' = [job EXCEPT ![h].at = "rehold", ![h].amount = intent[On(h)].credit]
        BY <1>0, <2>1, <4>1, <4>2 DEF OneKey, Fulfilling, Jobs, Idle
      <4> QED
        BY <1>b, <1>c, <2>1, <3>4, <4>1, <4>2 DEF Lookup, Places, Fulfilling
    <3>5. CASE Rehold(h)
      <4>1. job[h] # Idle /\ job[h].on \in paid
        BY <3>5 DEF Rehold, At, Idle, OneKey, Fulfilling
      <4> QED
        BY <1>c, <2>1, <3>5, <4>1 DEF Rehold, Places, Fulfilling
    <3>6. CASE ReadIntent(h)
      <4>1. job[h] # Idle /\ job[h].on \in paid
        BY <3>6 DEF ReadIntent, At, Idle, OneKey, Fulfilling
      <4>2. intent[On(h)].key = "pi"
        BY <1>0, <4>1 DEF On, OneKey
      <4>3. ASSUME NEW seen, job' = [job EXCEPT ![h].at = "write", ![h].seen = seen], seen.key = "pi"
            PROVE  JobOK
        BY <1>0, <2>1, <4>1, <4>3 DEF OneKey, Fulfilling, Jobs, Idle
      <4>4. [Unseen EXCEPT !.status = intent[On(h)].status, !.credit = intent[On(h)].credit,
                           !.key = intent[On(h)].key].key = "pi"
        BY <4>2 DEF Unseen
      <4> QED
        BY <1>b, <1>c, <2>1, <3>6, <4>1, <4>3, <4>4 DEF ReadIntent, Places, Fulfilling
    <3>7. CASE ReadRelease(h)
      <4>1. job[h] # Idle /\ job[h].at = "relread"
        BY <3>7 DEF ReadRelease, At, Idle
      <4>2. ASSUME NEW seen, job' = [job EXCEPT ![h].at = "relwrite", ![h].seen = seen]
            PROVE  JobOK
        BY <1>0, <2>1, <4>1, <4>2 DEF OneKey, Fulfilling, Jobs, Idle
      <4> QED
        BY <1>c, <2>1, <3>7, <4>1, <4>2 DEF ReadRelease, Places, Fulfilling
    <3> QED
      BY <1>5, <3>1, <3>2, <3>3, <3>4, <3>5, <3>6, <3>7 DEF Step
  <2> QED
    BY <2>2, <2>3, <2>4
<1>6. CASE UNCHANGED vars
  BY <1>a, <1>6 DEF vars
<1> QED
  BY <1>1, <1>2, <1>3, <1>4, <1>5, <1>6 DEF Next

(* A step sells, pays or changes nothing the shopper is owed.               *)
LEMMA StepSells == ~Hosted /\ Inv /\ [Next]_vars => [Sold!Next]_<<paid, Sales, row.stock, wallet.balance>>
<1> SUFFICES ASSUME ~Hosted, TypeOK, NothingOverdrawn, OneKey, Next
             PROVE  \/ Sold!Next
                    \/ /\ paid' = paid /\ Sales' = Sales
                       /\ row'.stock = row.stock /\ wallet'.balance = wallet.balance
  BY DEF Inv, NothingOverdrawn, vars, Sales
<1> DEFINE Stutters == /\ paid' = paid /\ Sales' = Sales
                       /\ row'.stock = row.stock /\ wallet'.balance = wallet.balance
<1>0. /\ row \in [stock : Int, reserved : Int] /\ wallet \in [balance : Int, held : Int]
      /\ 0 <= wallet.held /\ wallet.held <= wallet.balance
  BY DEF TypeOK, NothingOverdrawn
<1>a. orders' = orders => Sales' = Sales
  BY DEF Sales
<1>1. ASSUME NEW i \in Intents, AttachPayment(i) \/ Decline(i)
      PROVE  Stutters
  BY <1>a, <1>1 DEF AttachPayment, Decline
<1>2. ASSUME NEW i \in Intents, Pay(i)
      PROVE  Sold!Next
  BY <1>a, <1>2 DEF Pay, Sold!Next, Sold!Pay
<1>3. ASSUME NEW h \in Handlers, NEW i \in Intents,
             \/ Create(h, i) \/ Webhook(h, i) \/ ThankYou(h, i)
             \/ PaymentFailed(h, i) \/ Expire(h, i) \/ Supersede(h, i)
      PROVE  Stutters
  BY <1>0, <1>a, <1>3 DEF Create, Webhook, ThankYou, PaymentFailed, Expire, Supersede
<1>4. ASSUME NEW h \in Handlers, WriteOrder(h)
      PROVE  Sold!Next
  <2> DEFINE i == job[h].on
             captured == Least(wallet.held, job[h].seen.credit)
  <2>1. i \in Intents /\ i \in paid /\ job[h].seen.key = "pi" /\ job[h].seen.credit \in Nat
    BY <1>4, Somewhere, AtWork, JobFields DEF WriteOrder, Places, At, OneKey, Fulfilling
  <2>2. \A s \in Sales : s.intent # i
    BY <1>4, <2>1 DEF WriteOrder, On, KeyTaken, OneKey, Sales
  <2>3. captured \in 0 .. wallet.balance
    BY <1>0, <2>1 DEF Least
  <2>4. Sales' = Sales \cup {[intent |-> i, credit |-> captured]}
    <3> DEFINE new == [intent |-> i, key |-> job[h].seen.key, credit |-> job[h].seen.credit,
                       captured |-> captured]
               SaleOf(o) == [intent |-> o.intent, credit |-> o.captured]
    <3>1. orders' = orders \cup {new}
      BY <1>4 DEF WriteOrder, On
    <3>2. SaleOf(new) = [intent |-> i, credit |-> captured]
      OBVIOUS
    <3>3. Sales = {SaleOf(o) : o \in orders} /\ Sales' = {SaleOf(o) : o \in orders'}
      BY DEF Sales
    <3> HIDE DEF new, SaleOf
    <3>4. {SaleOf(o) : o \in orders \cup {new}} = {SaleOf(o) : o \in orders} \cup {SaleOf(new)}
      OBVIOUS
    <3> QED
      BY <3>1, <3>2, <3>3, <3>4
  <2>5. /\ wallet'.balance = wallet.balance - captured
        /\ row'.stock = row.stock - Qty[i] /\ paid' = paid
    BY <1>4 DEF WriteOrder, On
  <2>6. Sold!Sell(i)
    BY <2>1, <2>2, <2>3, <2>4, <2>5 DEF Sold!Sell
  <2> QED
    BY <2>1, <2>6 DEF Sold!Next
<1>5. ASSUME NEW h \in Handlers, Step(h), ~WriteOrder(h)
      PROVE  Stutters
  <2>1. paid' = paid /\ orders' = orders
    BY <1>5 DEF Step, Quote, QuoteFails, Hold, HoldFails, Total, Lookup, Rehold, ReadIntent,
       WriteFails, HandleError, ReadRelease, WriteRelease, ReleaseFails, Mark, Crash
  <2>2. row'.stock = row.stock /\ wallet'.balance = wallet.balance
    BY <1>0, <1>5 DEF Step, Quote, QuoteFails, Hold, HoldFails, Total, Lookup, Rehold, ReadIntent,
       WriteFails, HandleError, ReadRelease, WriteRelease, ReleaseFails, Mark, Crash
  <2> QED
    BY <1>a, <2>1, <2>2
<1> QED
  BY <1>1, <1>2, <1>3, <1>4, <1>5 DEF Next

(* However many deliveries, pages and retries fulfil a checkout paid by     *)
(* PaymentIntent, and whatever fails between, it is sold at most once, only *)
(* when paid, and stock and credit leave with that sale alone.  (The ids of *)
(* a hosted session change under way: there uniqueness is not enough.)      *)
THEOREM SaleImplemented == ASSUME ~Hosted PROVE Spec => ImplementsSale
<1>1. Init => Inv /\ Sold!Init
  <2>1. Init => OneKey
    BY DEF Init, OneKey, Fulfilling, Idle
  <2>2. Init => Sold!Init
    BY DEF Init, Sold!Init, Sales
  <2> QED
    BY <2>1, <2>2, InitOverdrawsNothing DEF Inv
<1>2. Inv /\ [Next]_vars => Inv'
  BY StepOverdrawsNothing, StepKeepsOneKey DEF Inv
<1>3. Inv /\ [Next]_vars => [Sold!Next]_<<paid, Sales, row.stock, wallet.balance>>
  BY StepSells
<1> QED
  BY <1>1, <1>2, <1>3, PTL DEF Spec, ImplementsSale, Sold!Spec, Sold!vars

(***************************************************************************)
(* The units of checkouts, whatever dies or fails: those of a checkout in   *)
(* progress stay reserved, and no checkout that is over keeps more than it  *)
(* must.                                                                    *)
(***************************************************************************)
(* A request works on intents that exist; nobody pays for one that does     *)
(* not; and a sale that reserves anew is of an intent that was given up.    *)
Reached ==
    /\ \A i \in Intents : intent[i].status = "none" => intent[i].key = "none" /\ owns[i] = 0
    /\ \A i \in paid \cup declined : intent[i].key # "none"
    /\ \A h \in Handlers : job[h].at # "idle" =>
         /\ intent[job[h].on].status # "none"
         /\ job[h].at = "write" /\ job[h].seen.status # "PENDING"
              => intent[job[h].on].status # "PENDING"

(* The reserved units are those the ledger leaves to intents.               *)
Counted == row.reserved = SumFunctionOnSet(owns, Intents)

Marking(i) == \E h \in Handlers : job[h].at = "mark" /\ job[h].on = i
Open(i) == intent[i].status = "PENDING" /\ ~Marking(i)

(* An intent whose handlers do not fail has its units until one of them has *)
(* released it, which then marks it.                                        *)
HasUnits == \A i \in Intents \ Faulty : Open(i) => owns[i] = Qty[i]

(* The intents that may still hold units, and what is known of a handler    *)
(* about to release one: it has seen all the reserved units but those of    *)
(* intents C[h] that were created since, none of which it releases itself.  *)
Holders == {i \in Intents : intent[i].status # "none" /\ (i \in Faulty \/ Open(i))}

ReleaseIn(C, h) ==
    /\ C[h] \subseteq Holders \ {job[h].on}
    /\ row.reserved <= Positive(job[h].seen.reserved) + UnitsOf(C[h])
    /\ \A g \in Handlers :
         job[g].at = "relwrite" /\ job[g].on \in C[h] => C[g] \subseteq C[h]

Bounded(C) ==
    /\ \A h \in Handlers : job[h].at = "relwrite" => ReleaseIn(C, h)
    /\ row.reserved <= UnitsOf(Holders)

Kept == \E C \in [Handlers -> SUBSET Intents] : Bounded(C)

Ledger == Reached /\ Counted /\ HasUnits /\ Kept

LEMMA UnitsType ==
  ASSUME NEW S \in SUBSET Intents
  PROVE  IsFiniteSet(S) /\ UnitsOf(S) \in Nat
<1>1. IsFiniteSet(S) /\ \A i \in S : Qty[i] \in Nat
  BY FS_Subset, CheckoutAssumption DEF CheckoutAssumption
<1> QED
  BY <1>1, SumNat DEF UnitsOf

LEMMA UnitsWithout ==
  ASSUME NEW S \in SUBSET Intents, NEW i \in S
  PROVE  UnitsOf(S) = Qty[i] + UnitsOf(S \ {i})
<1>1. \A j \in S : Qty[j] \in Int
  BY Given
<1> QED
  BY <1>1, UnitsType, SumRemove DEF UnitsOf

LEMMA UnitsPart ==
  ASSUME NEW S \in SUBSET Intents, NEW T \in SUBSET S
  PROVE  UnitsOf(T) <= UnitsOf(S)
<1>1. \A j \in S : Qty[j] \in Nat
  BY Given
<1> QED
  BY <1>1, UnitsType, SumPart DEF UnitsOf

LEMMA UnitsWith ==
  ASSUME NEW S \in SUBSET Intents, NEW i \in Intents \ S
  PROVE  UnitsOf(S \cup {i}) = Qty[i] + UnitsOf(S)
<1>1. \A j \in S \cup {i} : Qty[j] \in Int
  BY Given
<1> QED
  BY <1>1, UnitsType, SumAdd DEF UnitsOf

(* Where a handler's job goes.                                              *)
LEMMA GoesTo ==
  ASSUME TypeOK, NEW h \in Handlers, job[h] # Idle, NEW place, Goto(h, place)
  PROVE  /\ job'[h].at = place /\ job'[h].on = job[h].on
         /\ \A g \in Handlers \ {h} : job'[g] = job[g]
<1>1. job[h] \in Jobs /\ job \in [Handlers -> Jobs \cup {Idle}]
  BY AtWork DEF TypeOK
<1>2. job'[h] = [job[h] EXCEPT !.at = place, !.amount = 0, !.seen = Unseen]
  BY <1>1 DEF Goto
<1> QED
  BY <1>1, <1>2 DEF Goto, Jobs

LEMMA Sees ==
  ASSUME TypeOK, NEW h \in Handlers, job[h] # Idle, NEW place, NEW seen,
         job' = [job EXCEPT ![h].at = place, ![h].seen = seen]
  PROVE  /\ job'[h].at = place /\ job'[h].on = job[h].on /\ job'[h].seen = seen
         /\ \A g \in Handlers \ {h} : job'[g] = job[g]
<1>1. job[h] \in Jobs /\ job \in [Handlers -> Jobs \cup {Idle}]
  BY AtWork DEF TypeOK
<1>2. job'[h] = [job[h] EXCEPT !.at = place, !.seen = seen]
  BY <1>1
<1> QED
  BY <1>1, <1>2 DEF Jobs

LEMMA Carries ==
  ASSUME TypeOK, NEW h \in Handlers, job[h] # Idle, NEW place, NEW amount,
         job' = [job EXCEPT ![h].at = place, ![h].amount = amount]
  PROVE  /\ job'[h].at = place /\ job'[h].on = job[h].on
         /\ \A g \in Handlers \ {h} : job'[g] = job[g]
<1>1. job[h] \in Jobs /\ job \in [Handlers -> Jobs \cup {Idle}]
  BY AtWork DEF TypeOK
<1>2. job'[h] = [job[h] EXCEPT !.at = place, !.amount = amount]
  BY <1>1
<1> QED
  BY <1>1, <1>2 DEF Jobs

LEMMA Finishes ==
  ASSUME TypeOK, NEW h \in Handlers, Done(h)
  PROVE  job'[h].at = "idle" /\ \A g \in Handlers \ {h} : job'[g] = job[g]
  BY DEF TypeOK, Done, Idle

LEMMA Starts ==
  ASSUME TypeOK, NEW h \in Handlers, NEW place, NEW i, NEW ok, NEW final, NEW forced,
         Start(h, place, i, ok, final, forced)
  PROVE  /\ job[h].at = "idle" /\ job'[h].at = place /\ job'[h].on = i
         /\ \A g \in Handlers \ {h} : job'[g] = job[g]
  BY DEF TypeOK, Start, Idle

(* A handler moves on, to a place where it neither marks nor releases, or   *)
(* from such a place.                                                       *)
Quiet == {"idle", "quote", "hold", "total", "lookup", "rehold", "read", "failed", "relread"}

Moves(h, places) ==
    /\ job'[h].at \in places /\ (job'[h].at # "idle" => job'[h].on = job[h].on)
    /\ \A g \in Handlers \ {h} : job'[g] = job[g]

(* Steps that release nothing, of which the reserved units are no concern.  *)
LEMMA AsideKept ==
  ASSUME TypeOK, TypeOK', Kept, Holders' = Holders, row'.reserved <= row.reserved,
         \A h \in Handlers : job'[h].at = "relwrite" => job'[h] = job[h]
  PROVE  Kept'
<1>1. PICK C \in [Handlers -> SUBSET Intents] : Bounded(C)
  BY DEF Kept
<1>2. row.reserved \in Int /\ row'.reserved \in Int /\ Holders \subseteq Intents
  BY DEF TypeOK, Holders
<1>3. ASSUME NEW h \in Handlers, job'[h].at = "relwrite" PROVE ReleaseIn(C, h)'
  <2>1. ReleaseIn(C, h) /\ job'[h] = job[h]
    BY <1>1, <1>3 DEF Bounded
  <2>2. job[h] \in Jobs
    BY <1>3, <2>1 DEF TypeOK, Idle
  <2>3. Positive(job[h].seen.reserved) \in Int /\ UnitsOf(C[h]) \in Int
    BY <2>2, JobFields, PositiveType, UnitsType DEF Seen
  <2>4. UnitsOf(C[h])' = UnitsOf(C[h]) /\ Positive(job[h].seen.reserved)' = Positive(job[h].seen.reserved)
    BY <2>1 DEF UnitsOf, Positive
  <2> QED
    BY <1>2, <2>1, <2>3, <2>4 DEF ReleaseIn
<1>4. row'.reserved <= UnitsOf(Holders)'
  <2>1. UnitsOf(Holders)' = UnitsOf(Holders)
    BY DEF UnitsOf
  <2> QED
    BY <1>1, <1>2, <2>1, UnitsType DEF Bounded
<1> QED
  BY <1>1, <1>3, <1>4 DEF Kept, Bounded

(* An intent is created: its units are more than any release has seen.      *)
LEMMA CreateKept ==
  ASSUME TypeOK, TypeOK', Kept, NEW i \in Intents \ Holders, Holders' = Holders \cup {i},
         row'.reserved = row.reserved + Qty[i],
         \A h \in Handlers : job[h].at = "relwrite" => job[h].on # i,
         \A h \in Handlers : job'[h].at = "relwrite" => job'[h] = job[h]
  PROVE  Kept'
<1>1. PICK C \in [Handlers -> SUBSET Intents] : Bounded(C)
  BY DEF Kept
<1> DEFINE D == [h \in Handlers |-> C[h] \cup {i}]
<1>2. /\ row.reserved \in Int /\ row'.reserved \in Int
      /\ Holders \subseteq Intents /\ Holders' \subseteq Intents /\ Qty[i] \in Nat
  BY Given DEF TypeOK, Holders
<1>3. \A h \in Handlers : job'[h].at = "relwrite" => C[h] \subseteq Holders /\ i \notin C[h]
  BY <1>1 DEF Bounded, ReleaseIn
<1>4. ASSUME NEW h \in Handlers, job'[h].at = "relwrite" PROVE ReleaseIn(D, h)'
  <2>1. ReleaseIn(C, h) /\ job'[h] = job[h] /\ job[h].on # i /\ D[h] = C[h] \cup {i}
    BY <1>1, <1>4 DEF Bounded
  <2>2. job[h] \in Jobs
    BY <1>4, <2>1 DEF TypeOK, Idle
  <2>3. Positive(job[h].seen.reserved) \in Int /\ UnitsOf(C[h]) \in Int
    BY <2>2, JobFields, PositiveType, UnitsType DEF Seen
  <2>4. UnitsOf(D[h])' = Qty[i] + UnitsOf(C[h])
    BY <1>3, <1>4, <2>1, UnitsWith DEF UnitsOf
  <2>5. Positive(job[h].seen.reserved)' = Positive(job[h].seen.reserved)
    BY <2>1 DEF Positive
  <2>6. \A g \in Handlers : job'[g].at = "relwrite" /\ job'[g].on \in D[h] => D[g] \subseteq D[h]
    BY <1>4, <2>1 DEF ReleaseIn
  <2>7. D[h] \subseteq Holders' \ {job'[h].on}
    BY <2>1 DEF ReleaseIn
  <2>8. row'.reserved <= Positive(job[h].seen.reserved)' + UnitsOf(D[h])'
    BY <1>2, <2>1, <2>3, <2>4, <2>5 DEF ReleaseIn
  <2> QED
    BY <2>6, <2>7, <2>8 DEF ReleaseIn
<1>5. row'.reserved <= UnitsOf(Holders)'
  <2>1. UnitsOf(Holders)' = Qty[i] + UnitsOf(Holders)
    BY <1>2, UnitsWith DEF UnitsOf
  <2> QED
    BY <1>1, <1>2, <2>1, UnitsType DEF Bounded
<1>6. D \in [Handlers -> SUBSET Intents]
  OBVIOUS
<1> HIDE DEF D
<1> QED
  BY <1>4, <1>5, <1>6 DEF Kept, Bounded

(* A handler reads all the reserved units.                                  *)
LEMMA ReadKept ==
  ASSUME TypeOK, Kept, NEW h \in Handlers, Holders' = Holders, row' = row,
         job[h].at # "relwrite", job'[h].seen.reserved = row.reserved,
         \A g \in Handlers \ {h} : job'[g] = job[g]
  PROVE  Kept'
<1>1. PICK C \in [Handlers -> SUBSET Intents] : Bounded(C)
  BY DEF Kept
<1> DEFINE D == [C EXCEPT ![h] = {}]
<1>2. row.reserved \in Int /\ Holders \subseteq Intents
  BY DEF TypeOK, Holders
<1>3. /\ D[h] = {} /\ \A g \in Handlers \ {h} : D[g] = C[g]
      /\ D \in [Handlers -> SUBSET Intents]
  OBVIOUS
<1> HIDE DEF D
<1>4. ASSUME NEW g \in Handlers, job'[g].at = "relwrite" PROVE ReleaseIn(D, g)'
  <2>1. CASE g = h
    <3>1. UnitsOf(D[g])' = 0
      BY <1>3, <2>1, SumEmpty DEF UnitsOf
    <3>2. row'.reserved <= Positive(job[g].seen.reserved)'
      BY <1>2, <2>1 DEF Positive
    <3>3. D[g]' = {}
      BY <1>3, <2>1
    <3>4. Positive(job[g].seen.reserved)' \in Int
      BY <1>2, <2>1 DEF Positive
    <3> QED
      BY <1>2, <3>1, <3>2, <3>3, <3>4 DEF ReleaseIn
  <2>2. CASE g # h
    <3>1. ReleaseIn(C, g) /\ job'[g] = job[g] /\ D[g] = C[g]
      BY <1>1, <1>3, <1>4, <2>2 DEF Bounded
    <3>2. /\ UnitsOf(D[g])' = UnitsOf(C[g])
          /\ Positive(job[g].seen.reserved)' = Positive(job[g].seen.reserved)
      BY <3>1 DEF UnitsOf, Positive
    <3>3. \A k \in Handlers : job'[k].at = "relwrite" /\ job'[k].on \in D[g] => D[k] \subseteq D[g]
      <4>1. ASSUME NEW k \in Handlers, job'[k].at = "relwrite", job'[k].on \in D[g]
            PROVE  D[k] \subseteq D[g]
        BY <1>3, <3>1, <4>1 DEF ReleaseIn
      <4> QED
        BY <4>1
    <3>4. D[g] \subseteq Holders' \ {job'[g].on}
      BY <3>1 DEF ReleaseIn
    <3> QED
      BY <3>1, <3>2, <3>3, <3>4 DEF ReleaseIn
  <2> QED
    BY <2>1, <2>2
<1>5. UnitsOf(Holders)' = UnitsOf(Holders)
  BY DEF UnitsOf
<1> QED
  BY <1>1, <1>3, <1>4, <1>5 DEF Kept, Bounded

(* An intent gives up all its units, or as many as a release of it has seen. *)
LEMMA LeaveKept ==
  ASSUME TypeOK, TypeOK', Kept, NEW i \in Holders, Holders' = Holders \ {i},
         NEW h \in Handlers, job'[h].at # "relwrite",
         \/ row'.reserved <= row.reserved - Qty[i]
         \/ /\ job[h].at = "relwrite" /\ job[h].on = i
            /\ row'.reserved <= row.reserved - Positive(job[h].seen.reserved),
         \A g \in Handlers \ {h} : job'[g] = job[g]
  PROVE  Kept'
<1>1. PICK C \in [Handlers -> SUBSET Intents] : Bounded(C)
  BY DEF Kept
<1> DEFINE D == [g \in Handlers |-> C[g] \ {i}]
<1>2. /\ row.reserved \in Int /\ row'.reserved \in Int /\ Holders \subseteq Intents
      /\ i \in Intents /\ Qty[i] \in Nat
  BY Given DEF TypeOK, Holders
<1>3. D \in [Handlers -> SUBSET Intents] /\ \A g \in Handlers : D[g] = C[g] \ {i}
  OBVIOUS
<1> HIDE DEF D
<1>4. ASSUME NEW S \in SUBSET Intents, i \in S,
             ASSUME NEW g \in Handlers, job[g].at = "relwrite", job[g].on = i
             PROVE  C[g] \subseteq S \ {i},
             NEW n \in Nat, row.reserved <= n + UnitsOf(S)
      PROVE  row'.reserved <= n + UnitsOf(S \ {i})
  <2>1. CASE row'.reserved <= row.reserved - Qty[i]
    <3>1. UnitsOf(S) = Qty[i] + UnitsOf(S \ {i}) /\ UnitsOf(S \ {i}) \in Int
      BY <1>4, UnitsWithout, UnitsType
    <3> QED
      BY <1>2, <1>4, <2>1, <3>1
  <2>2. CASE /\ job[h].at = "relwrite" /\ job[h].on = i
             /\ row'.reserved <= row.reserved - Positive(job[h].seen.reserved)
    <3>1. ReleaseIn(C, h)
      BY <1>1, <2>2 DEF Bounded
    <3>2. job[h] \in Jobs
      BY <2>2 DEF TypeOK, Idle
    <3>3. Positive(job[h].seen.reserved) \in Int
      BY <3>2, JobFields, PositiveType
    <3>4. UnitsOf(C[h]) <= UnitsOf(S \ {i}) /\ UnitsOf(C[h]) \in Int /\ UnitsOf(S \ {i}) \in Int
      BY <1>4, <2>2, UnitsPart, UnitsType
    <3>5. row.reserved <= Positive(job[h].seen.reserved) + UnitsOf(C[h])
      BY <3>1 DEF ReleaseIn
    <3> QED
      BY <1>2, <1>4, <2>2, <3>3, <3>4, <3>5
  <2> QED
    BY <2>1, <2>2
<1>5. ASSUME NEW g \in Handlers, job'[g].at = "relwrite" PROVE ReleaseIn(D, g)'
  <2>1. g # h /\ ReleaseIn(C, g) /\ job'[g] = job[g]
    BY <1>1, <1>5 DEF Bounded
  <2>2. job[g] \in Jobs
    BY <1>5, <2>1 DEF TypeOK, Idle
  <2>3. Positive(job[g].seen.reserved) \in Nat /\ UnitsOf(C[g]) \in Nat
    BY <2>2, JobFields, PositiveType, UnitsType
  <2>4. row'.reserved <= Positive(job[g].seen.reserved) + UnitsOf(D[g])
    <3>1. row.reserved <= Positive(job[g].seen.reserved) + UnitsOf(C[g])
      BY <2>1 DEF ReleaseIn
    <3>2. CASE i \in C[g]
      <4>1. ASSUME NEW k \in Handlers, job[k].at = "relwrite", job[k].on = i
            PROVE  C[k] \subseteq C[g] \ {i}
        BY <1>1, <2>1, <3>2, <4>1 DEF Bounded, ReleaseIn
      <4> QED
        BY <1>3, <1>4, <2>3, <3>1, <3>2, <4>1
    <3>3. CASE i \notin C[g]
      <4>1. row'.reserved <= row.reserved
        <5>1. CASE job[h].at = "relwrite" /\ row'.reserved <= row.reserved - Positive(job[h].seen.reserved)
          <6>1. job[h] \in Jobs
            BY <5>1 DEF TypeOK, Idle
          <6>2. Positive(job[h].seen.reserved) \in Nat
            BY <6>1, JobFields, PositiveType
          <6> QED
            BY <1>2, <5>1, <6>2
        <5> QED
          BY <1>2, <5>1
      <4>2. D[g] = C[g]
        <5>1. C[g] \ {i} = C[g]
          BY <3>3
        <5> QED
          BY <1>3, <5>1
      <4> QED
        BY <1>2, <2>3, <3>1, <4>1, <4>2
    <3> QED
      BY <3>2, <3>3
  <2>5. \A k \in Handlers : job'[k].at = "relwrite" /\ job'[k].on \in D[g] => D[k] \subseteq D[g]
    <3>1. ASSUME NEW k \in Handlers, job'[k].at = "relwrite", job'[k].on \in D[g]
          PROVE  D[k] \subseteq D[g]
      BY <1>3, <2>1, <3>1 DEF ReleaseIn
    <3> QED
      BY <3>1
  <2>6. /\ UnitsOf(D[g])' = UnitsOf(D[g])
        /\ Positive(job[g].seen.reserved)' = Positive(job[g].seen.reserved)
    BY <2>1 DEF UnitsOf, Positive
  <2>7. D[g] \subseteq Holders' \ {job'[g].on}
    BY <1>3, <2>1 DEF ReleaseIn
  <2> QED
    BY <2>4, <2>5, <2>6, <2>7 DEF ReleaseIn
<1>6. row'.reserved <= UnitsOf(Holders)'
  <2>1. ASSUME NEW g \in Handlers, job[g].at = "relwrite", job[g].on = i
        PROVE  C[g] \subseteq Holders \ {i}
    BY <1>1, <2>1 DEF Bounded, ReleaseIn
  <2>2. row.reserved <= 0 + UnitsOf(Holders)
    BY <1>1, <1>2, UnitsType DEF Bounded
  <2>3. row'.reserved <= 0 + UnitsOf(Holders \ {i})
    BY <1>2, <1>4, <2>1, <2>2
  <2>4. UnitsOf(Holders)' = UnitsOf(Holders \ {i}) /\ UnitsOf(Holders \ {i}) \in Nat
    BY <1>2, UnitsType DEF UnitsOf
  <2> QED
    BY <2>3, <2>4
<1> QED
  BY <1>3, <1>5, <1>6 DEF Kept, Bounded

(* The ledger of one intent follows the row.                                *)
LEMMA CountedChange ==
  ASSUME TypeOK, Counted, NEW i \in Intents, NEW d \in Int,
         owns' = [owns EXCEPT ![i] = @ + d], row'.reserved = row.reserved + d
  PROVE  Counted'
<1> DEFINE now == [owns EXCEPT ![i] = @ + d]
<1>1. \A j \in Intents : owns[j] \in Int /\ now[j] \in Int
  BY DEF TypeOK
<1>2. \A j \in Intents \ {i} : owns[j] = now[j]
  BY DEF TypeOK
<1>6. now[i] = owns[i] + d /\ owns' = now
  BY DEF TypeOK
<1> HIDE DEF now
<1>3. IsFiniteSet(Intents)
  BY CheckoutAssumption DEF CheckoutAssumption
<1>4. SumFunctionOnSet(now, Intents) = SumFunctionOnSet(owns, Intents) - owns[i] + now[i]
  BY <1>1, <1>2, <1>3, SumChange
<1>5. SumFunctionOnSet(owns, Intents) \in Int
  BY <1>1, <1>3, SumInt
<1>7. owns[i] \in Int
  BY <1>1
<1>8. SumFunctionOnSet(now, Intents) = SumFunctionOnSet(owns, Intents) + d
  BY <1>4, <1>5, <1>6, <1>7
<1> QED
  BY <1>6, <1>8 DEF Counted

(* A handler's step works on its own intent alone, and a sale is of what it *)
(* has just read.                                                           *)
LEMMA StepLocal ==
  ASSUME TypeOK, Reached, NEW h \in Handlers, Step(h)
  PROVE  /\ job[h] # Idle /\ job[h].on \in Intents /\ job[h].at # "idle"
         /\ intent[job[h].on].status # "none" /\ paid' = paid /\ declined' = declined
         /\ \A j \in Intents \ {job[h].on} : intent'[j] = intent[j] /\ owns'[j] = owns[j]
         /\ intent'[job[h].on].key = intent[job[h].on].key
         /\ \/ intent'[job[h].on].status = intent[job[h].on].status
            \/ intent'[job[h].on].status \notin {"none", "PENDING"}
         /\ \A g \in Handlers \ {h} : job'[g] = job[g]
         /\ job'[h].at # "idle" => job'[h].on = job[h].on
         /\ job'[h].at = "write" => job'[h].seen.status = intent[job[h].on].status /\ intent' = intent
<1>a. /\ intent \in [Intents -> IntentRows] /\ job \in [Handlers -> Jobs \cup {Idle}]
      /\ owns \in [Intents -> Int]
  BY DEF TypeOK
<1>0. job[h] # Idle /\ job[h].on \in Intents /\ job[h].at # "idle" /\ intent[job[h].on].status # "none"
  <2>1. job[h] # Idle
    BY Somewhere DEF Step, Quote, QuoteFails, Hold, HoldFails, Total, Lookup, Rehold, ReadIntent,
       WriteOrder, WriteFails, HandleError, ReadRelease, WriteRelease, ReleaseFails, Mark, Crash,
       Places, Idle
  <2> QED
    BY <2>1, AtWork, JobFields DEF Reached
<1>1. paid' = paid /\ declined' = declined
  BY DEF Step, Quote, QuoteFails, Hold, HoldFails, Total, Lookup, Rehold, ReadIntent,
     WriteOrder, WriteFails, HandleError, ReadRelease, WriteRelease, ReleaseFails, Mark, Crash
<1>2. /\ \A j \in Intents \ {job[h].on} : intent'[j] = intent[j] /\ owns'[j] = owns[j]
      /\ intent'[job[h].on].key = intent[job[h].on].key
      /\ \/ intent'[job[h].on].status = intent[job[h].on].status
         \/ intent'[job[h].on].status \notin {"none", "PENDING"}
  <2>1. CASE WriteOrder(h)
    BY <1>a, <1>0, <2>1 DEF WriteOrder, On, IntentRows
  <2>2. CASE WriteRelease(h)
    BY <1>a, <1>0, <2>2 DEF WriteRelease, On
  <2>3. CASE Total(h)
    BY <1>a, <1>0, <2>3 DEF Total, On, IntentRows
  <2>4. CASE Mark(h)
    <3>1. job[h].final \in {"FAILED", "EXPIRED"}
      BY <1>0, AtWork, JobFields
    <3> QED
      BY <1>a, <1>0, <2>4, <3>1 DEF Mark, On, IntentRows
  <2> QED
    BY <2>1, <2>2, <2>3, <2>4 DEF Step, Quote, QuoteFails, Hold, HoldFails, Lookup, Rehold,
       ReadIntent, WriteFails, HandleError, ReadRelease, ReleaseFails, Crash
<1>3. /\ \A g \in Handlers \ {h} : job'[g] = job[g]
      /\ job'[h].at # "idle" => job'[h].on = job[h].on
      /\ job'[h].at = "write" => job'[h].seen.status = intent[job[h].on].status /\ intent' = intent
  <2>1. CASE Total(h) \/ WriteOrder(h) \/ Mark(h) \/ Crash(h)
    BY <2>1, Finishes DEF Total, WriteOrder, Mark, Crash
  <2>2. CASE Quote(h) \/ QuoteFails(h) \/ HoldFails(h) \/ WriteFails(h) \/ HandleError(h)
             \/ WriteRelease(h) \/ ReleaseFails(h) \/ Rehold(h)
    BY <1>0, <2>2, GoesTo, Finishes DEF Quote, QuoteFails, HoldFails, WriteFails, HandleError,
       WriteRelease, ReleaseFails, Rehold
  <2>3. CASE Hold(h) \/ Lookup(h)
    <3>1. ASSUME NEW place \in Places \ {"write"}, NEW amount,
                 job' = [job EXCEPT ![h].at = place, ![h].amount = amount]
          PROVE  /\ \A g \in Handlers \ {h} : job'[g] = job[g]
                 /\ job'[h].on = job[h].on /\ job'[h].at # "write"
      BY <1>a, <1>0, <3>1, Carries
    <3> QED
      BY <1>0, <2>3, <3>1, GoesTo, Finishes DEF Hold, Lookup, Places
  <2>4. CASE ReadIntent(h)
    <3>1. [Unseen EXCEPT !.status = intent[On(h)].status, !.credit = intent[On(h)].credit,
                         !.key = intent[On(h)].key].status = intent[job[h].on].status
      BY DEF Unseen, On
    <3>2. ASSUME NEW seen, job' = [job EXCEPT ![h].at = "write", ![h].seen = seen]
          PROVE  /\ \A g \in Handlers \ {h} : job'[g] = job[g]
                 /\ job'[h].on = job[h].on /\ job'[h].seen = seen
      BY <1>a, <1>0, <3>2 DEF Jobs
    <3>3. \/ Done(h) \/ Goto(h, "failed")
          \/ \E seen : /\ job' = [job EXCEPT ![h].at = "write", ![h].seen = seen]
                       /\ seen.status = intent[job[h].on].status
      BY <2>4, <3>1 DEF ReadIntent
    <3>4. intent' = intent
      BY <2>4 DEF ReadIntent
    <3> QED
      BY <1>0, <3>2, <3>3, <3>4, GoesTo, Finishes
  <2>5. CASE ReadRelease(h)
    BY <1>0, <2>5, GoesTo, Sees DEF ReadRelease
  <2> QED
    BY <2>1, <2>2, <2>3, <2>4, <2>5 DEF Step
<1> QED
  BY <1>0, <1>1, <1>2, <1>3

(* How a step changes what is known of an intent.                           *)
LEMMA StepReaches == Reached /\ TypeOK /\ TypeOK' /\ [Next]_vars => Reached'
<1> SUFFICES ASSUME Reached, TypeOK, TypeOK', [Next]_vars PROVE Reached'
  OBVIOUS
<1>0. /\ intent \in [Intents -> IntentRows] /\ job \in [Handlers -> Jobs \cup {Idle}]
      /\ paid \subseteq Intents /\ declined \subseteq Intents /\ owns \in [Intents -> Int]
  BY DEF TypeOK
<1> DEFINE Stays == \A i \in Intents : intent'[i].status = "none" =>
                      intent'[i].key = "none" /\ owns'[i] = 0
           Paid == \A i \in paid' \cup declined' : intent'[i].key # "none"
           Works(h) == job'[h].at # "idle" =>
                         /\ intent'[job'[h].on].status # "none"
                         /\ job'[h].at = "write" /\ job'[h].seen.status # "PENDING"
                              => intent'[job'[h].on].status # "PENDING"
<1>1. ASSUME NEW i \in Intents, AttachPayment(i) \/ Decline(i) \/ Pay(i)
      PROVE  Reached'
  <2>1. \A j \in Intents : intent'[j].status = intent[j].status
    BY <1>0, <1>1 DEF AttachPayment, Decline, Pay, IntentRows
  <2>2. Stays
    BY <1>0, <1>1 DEF AttachPayment, Decline, Pay, IntentRows, Reached
  <2>3. Paid
    BY <1>0, <1>1 DEF AttachPayment, Decline, Pay, IntentRows, Reached
  <2>4. \A h \in Handlers : Works(h)
    BY <1>0, <1>1, <2>1, JobFields DEF AttachPayment, Decline, Pay, Reached, Idle
  <2> QED
    BY <2>2, <2>3, <2>4 DEF Reached
<1>2. ASSUME NEW h \in Handlers, NEW i \in Intents,
             \/ Create(h, i) \/ Webhook(h, i) \/ ThankYou(h, i)
             \/ PaymentFailed(h, i) \/ Expire(h, i) \/ Supersede(h, i)
      PROVE  Reached'
  <2>1. /\ \A j \in Intents \ {i} : intent'[j] = intent[j] /\ owns'[j] = owns[j]
        /\ intent'[i].status # "none"
        /\ intent[i].status # "none" => intent'[i].status = intent[i].status
        /\ paid' = paid /\ declined' = declined
        /\ intent[i].key # "none" => intent'[i].key # "none"
    <3>1. CASE Create(h, i)
      BY <1>0, <3>1 DEF Create, IntentRows
    <3>2. CASE Webhook(h, i)
      BY <1>0, <3>2 DEF Webhook, IntentRows, Reached
    <3>3. CASE ThankYou(h, i) \/ PaymentFailed(h, i)
      BY <1>0, <3>3 DEF ThankYou, PaymentFailed, IntentRows, Reached
    <3>4. CASE Expire(h, i) \/ Supersede(h, i)
      BY <1>0, <3>4 DEF Expire, Supersede, IntentRows
    <3> QED
      BY <1>2, <3>1, <3>2, <3>3, <3>4
  <2>2. /\ job'[h].at # "write" /\ job'[h].on = i
        /\ \A g \in Handlers \ {h} : job'[g] = job[g]
    <3>1. PICK place \in Places \ {"write"}, ok \in BOOLEAN,
               final \in {"FAILED", "EXPIRED"}, forced \in BOOLEAN :
            Start(h, place, i, ok, final, forced)
      BY <1>2 DEF Create, Webhook, ThankYou, PaymentFailed, Expire, Supersede, Places
    <3> QED
      BY <3>1, Starts
  <2>3. ASSUME NEW g \in Handlers PROVE Works(g)
    <3>1. CASE g = h
      BY <2>1, <2>2, <3>1
    <3>2. CASE g # h
      <4>1. job'[g] = job[g] /\ (job[g].at # "idle" => job[g].on \in Intents)
        BY <1>0, <2>2, <3>2, JobFields DEF Idle
      <4> QED
        BY <2>1, <4>1 DEF Reached
    <3> QED
      BY <3>1, <3>2
  <2> QED
    BY <1>0, <2>1, <2>3 DEF Reached
<1>3. ASSUME NEW h \in Handlers, Step(h)
      PROVE  Reached'
  <2>1. /\ job[h] # Idle /\ job[h].on \in Intents /\ job[h].at # "idle"
        /\ intent[job[h].on].status # "none" /\ paid' = paid /\ declined' = declined
    BY <1>3, StepLocal
  <2>2. /\ \A j \in Intents \ {job[h].on} : intent'[j] = intent[j] /\ owns'[j] = owns[j]
        /\ intent'[job[h].on].key = intent[job[h].on].key
        /\ \/ intent'[job[h].on].status = intent[job[h].on].status
           \/ intent'[job[h].on].status \notin {"none", "PENDING"}
    BY <1>3, StepLocal
  <2>3. /\ \A g \in Handlers \ {h} : job'[g] = job[g]
        /\ job'[h].at # "idle" => job'[h].on = job[h].on
        /\ job'[h].at = "write" => job'[h].seen.status = intent[job[h].on].status /\ intent' = intent
    BY <1>3, StepLocal
  <2>4. ASSUME NEW g \in Handlers PROVE Works(g)
    <3>1. CASE g = h
      BY <2>1, <2>2, <2>3, <3>1
    <3>2. CASE g # h
      <4>1. job'[g] = job[g] /\ (job[g].at # "idle" => job[g].on \in Intents)
        BY <1>0, <2>3, <3>2, JobFields DEF Idle
      <4> QED
        BY <2>2, <4>1 DEF Reached
    <3> QED
      BY <3>1, <3>2
  <2>5. \A i \in Intents : intent'[i].key = intent[i].key
    BY <2>2
  <2>6. Paid
    BY <1>0, <2>1, <2>5 DEF Reached
  <2>7. Stays
    BY <2>1, <2>2 DEF Reached
  <2> QED
    BY <2>4, <2>6, <2>7 DEF Reached
<1>4. CASE UNCHANGED vars
  BY <1>4 DEF vars, Reached
<1> QED
  BY <1>1, <1>2, <1>3, <1>4 DEF Next

(* A step that takes up no release and ends none.                           *)
Idling(h) ==
    /\ intent'[job[h].on].status = intent[job[h].on].status
    /\ row' = row /\ owns' = owns
    /\ job[h].at \notin {"mark", "relwrite"} /\ job'[h].at \notin {"mark", "relwrite"}

LEMMA OtherSteps ==
  ASSUME TypeOK, Reached, NEW h \in Handlers, Step(h),
         ~WriteOrder(h), ~WriteRelease(h), ~Mark(h), ~Crash(h), ~ReleaseFails(h), ~ReadRelease(h)
  PROVE  Idling(h)
<1>1. job[h] # Idle /\ job[h].on \in Intents
  BY StepLocal
<1>2. row' = row /\ owns' = owns
  BY DEF Step, Quote, QuoteFails, Hold, HoldFails, Total, Lookup, Rehold, ReadIntent, WriteFails,
     HandleError
<1>3. job[h].at \notin {"mark", "relwrite"}
  BY DEF Step, Quote, QuoteFails, Hold, HoldFails, Total, Lookup, Rehold, ReadIntent, WriteFails,
     HandleError, At
<1>4. intent'[job[h].on].status = intent[job[h].on].status
  BY <1>1 DEF Step, Quote, QuoteFails, Hold, HoldFails, Total, Lookup, Rehold, ReadIntent, WriteFails,
     HandleError, On, TypeOK, IntentRows
<1>5. job'[h].at \notin {"mark", "relwrite"}
  <2>1. ASSUME NEW place, NEW amount, job' = [job EXCEPT ![h].at = place, ![h].amount = amount]
        PROVE  job'[h].at = place
    BY <1>1, <2>1 DEF TypeOK, Jobs
  <2>2. ASSUME NEW place, NEW seen, job' = [job EXCEPT ![h].at = place, ![h].seen = seen]
        PROVE  job'[h].at = place
    BY <1>1, <2>2 DEF TypeOK, Jobs
  <2>3. CASE Quote(h) \/ QuoteFails(h) \/ HoldFails(h) \/ WriteFails(h) \/ HandleError(h) \/ Rehold(h)
    BY <1>1, <2>3, GoesTo, Finishes DEF Quote, QuoteFails, HoldFails, WriteFails, HandleError, Rehold
  <2>4. CASE Hold(h) \/ Total(h) \/ Lookup(h)
    BY <1>1, <2>1, <2>4, GoesTo, Finishes DEF Hold, Total, Lookup
  <2>5. CASE ReadIntent(h)
    <3>1. \/ Done(h) \/ Goto(h, "failed")
          \/ \E seen : job' = [job EXCEPT ![h].at = "write", ![h].seen = seen]
      BY <2>5 DEF ReadIntent
    <3> QED
      BY <1>1, <2>2, <3>1, GoesTo, Finishes
  <2> QED
    BY <2>3, <2>4, <2>5 DEF Step
<1> QED
  BY <1>2, <1>3, <1>4, <1>5 DEF Idling

(* What a release gives up.                                                 *)
Released(h) == Positive(Least(job[h].seen.reserved, Qty[job[h].on]))

LEMMA GivesUp ==
  ASSUME TypeOK, NEW h \in Handlers, job[h] \in Jobs
  PROVE  /\ Released(h) \in Nat /\ Released(h) <= Qty[job[h].on]
         /\ \/ Released(h) = Qty[job[h].on]
            \/ Released(h) = Positive(job[h].seen.reserved)
<1>1. job[h].on \in Intents /\ job[h].seen.reserved \in Int
  BY JobFields
<1> QED
  BY <1>1, Given DEF Released, Least, Positive

LEMMA StepCounts == Counted /\ Reached /\ TypeOK /\ TypeOK' /\ [Next]_vars => Counted'
<1> SUFFICES ASSUME Counted, Reached, TypeOK, TypeOK', [Next]_vars PROVE Counted'
  OBVIOUS
<1>0. UNCHANGED <<row, owns>> => Counted'
  BY DEF Counted
<1>1. ASSUME NEW i \in Intents, AttachPayment(i) \/ Decline(i) \/ Pay(i)
      PROVE  Counted'
  BY <1>0, <1>1 DEF AttachPayment, Decline, Pay
<1>2. ASSUME NEW h \in Handlers, NEW i \in Intents,
             \/ Create(h, i) \/ Webhook(h, i) \/ ThankYou(h, i)
             \/ PaymentFailed(h, i) \/ Expire(h, i) \/ Supersede(h, i)
      PROVE  Counted'
  <2>1. CASE Create(h, i)
    <3> DEFINE d == Qty[i]
    <3>1. owns' = [owns EXCEPT ![i] = @ + d] /\ row'.reserved = row.reserved + d
      BY <2>1 DEF Create, TypeOK
    <3>2. d \in Int
      BY Given
    <3> HIDE DEF d
    <3> QED
      BY <3>1, <3>2, CountedChange
  <2> QED
    BY <1>0, <1>2, <2>1 DEF Webhook, ThankYou, PaymentFailed, Expire, Supersede
<1>3. ASSUME NEW h \in Handlers, Step(h)
      PROVE  Counted'
  <2>1. job[h] \in Jobs /\ job[h].on \in Intents
    BY <1>3, StepLocal, AtWork
  <2>2. CASE WriteOrder(h)
    <3>1. CASE job[h].seen.status # "PENDING"
      <4>1. owns' = owns /\ row'.reserved = row.reserved
        BY <2>1, <2>2, <3>1 DEF WriteOrder, On, TypeOK
      <4> QED
        BY <4>1 DEF Counted
    <3>2. CASE job[h].seen.status = "PENDING"
      <4> DEFINE i == job[h].on
                 d == -Qty[i]
      <4>1. d \in Int /\ row.reserved \in Int
        BY <2>1, Given DEF TypeOK
      <4>2. owns' = [owns EXCEPT ![i] = @ + d] /\ row'.reserved = row.reserved + d
        <5>1. owns' = [owns EXCEPT ![i] = @ - Qty[i]] /\ row'.reserved = row.reserved - Qty[i]
          BY <2>2, <3>2 DEF WriteOrder, On
        <5>2. owns[i] \in Int /\ owns[i] - Qty[i] = owns[i] + d /\ row.reserved - Qty[i] = row.reserved + d
          BY <2>1, <4>1, Given DEF TypeOK
        <5> HIDE DEF d
        <5> QED
          BY <5>1, <5>2
      <4> HIDE DEF d
      <4> QED
        BY <2>1, <4>1, <4>2, CountedChange
    <3> QED
      BY <3>1, <3>2
  <2>3. CASE WriteRelease(h)
    <3> DEFINE i == job[h].on
               d == -Released(h)
    <3>1. d \in Int /\ row.reserved \in Int /\ owns[i] \in Int /\ Released(h) \in Int
      BY <2>1, GivesUp DEF TypeOK
    <3>2. owns' = [owns EXCEPT ![i] = @ + d] /\ row'.reserved = row.reserved + d
      <4>1. owns' = [owns EXCEPT ![i] = @ - Released(h)] /\ row'.reserved = row.reserved - Released(h)
        BY <2>3 DEF WriteRelease, On, Released, TypeOK
      <4>2. owns[i] - Released(h) = owns[i] + d /\ row.reserved - Released(h) = row.reserved + d
        BY <3>1
      <4> HIDE DEF d
      <4> QED
        BY <4>1, <4>2
    <3> HIDE DEF d
    <3> QED
      BY <2>1, <3>1, <3>2, CountedChange
  <2>4. CASE Mark(h) \/ Crash(h) \/ ReleaseFails(h) \/ ReadRelease(h)
    BY <1>0, <2>4 DEF Mark, Crash, ReleaseFails, ReadRelease
  <2> QED
    BY <1>0, <1>3, <2>2, <2>3, <2>4, OtherSteps DEF Idling
<1>4. CASE UNCHANGED vars
  BY <1>0, <1>4 DEF vars
<1> QED
  BY <1>1, <1>2, <1>3, <1>4 DEF Next

(* What a handler's step leaves of the other intents.                       *)
LEMMA OthersHold ==
  ASSUME TypeOK, Reached, NEW h \in Handlers, Step(h), NEW i \in Intents, i # job[h].on
  PROVE  Open(i)' = Open(i) /\ (i \in Holders' <=> i \in Holders)
<1>1. /\ intent'[i] = intent[i] /\ \A g \in Handlers \ {h} : job'[g] = job[g]
      /\ job[h].at # "idle" /\ (job'[h].at # "idle" => job'[h].on = job[h].on)
  BY StepLocal
<1>2. Marking(i)' <=> Marking(i)
  <2>1. \A g \in Handlers : job'[g].at = "mark" /\ job'[g].on = i <=> job[g].at = "mark" /\ job[g].on = i
    BY <1>1
  <2> QED
    BY <2>1 DEF Marking
<1>3. Open(i)' = Open(i)
  BY <1>1, <1>2 DEF Open
<1> QED
  BY <1>1, <1>3 DEF Holders

(* And of its own: it stays as it was, but for a sale, and for a release,   *)
(* after which it is being marked until it is no longer PENDING.            *)
LEMMA OwnHolds ==
  ASSUME TypeOK, Reached, NEW h \in Handlers, Step(h), ~WriteOrder(h), ~WriteRelease(h),
         NEW i \in Intents \ Faulty, i = job[h].on
  PROVE  Open(i)' = Open(i)
<1>1. /\ job[h] # Idle /\ \A g \in Handlers \ {h} : job'[g] = job[g]
      /\ job'[h].at # "idle" => job'[h].on = job[h].on
  BY StepLocal
<1>2. CASE Idling(h)
  <2>1. \A g \in Handlers : job'[g].at = "mark" /\ job'[g].on = i <=> job[g].at = "mark" /\ job[g].on = i
    BY <1>1, <1>2 DEF Idling
  <2>2. Marking(i)' <=> Marking(i)
    BY <2>1 DEF Marking
  <2> QED
    BY <1>2, <2>2 DEF Idling, Open
<1>3. CASE Mark(h)
  <2>1. job[h].final \in {"FAILED", "EXPIRED"} /\ job[h].at = "mark"
    BY <1>1, <1>3, AtWork, JobFields DEF Mark, At
  <2>2. intent'[i].status # "PENDING"
    BY <1>1, <1>3, <2>1 DEF Mark, On, TypeOK, IntentRows
  <2>3. Marking(i)
    BY <2>1 DEF Marking
  <2>4. ~Open(i) /\ ~Open(i)'
    BY <2>2, <2>3 DEF Open
  <2> QED
    BY <2>4 DEF Open
<1>4. CASE Crash(h) \/ ReleaseFails(h)
  BY <1>4 DEF Crash, ReleaseFails, On
<1>5. CASE ReadRelease(h)
  <2>1. intent' = intent /\ job[h].at = "relread"
    BY <1>5 DEF ReadRelease, At
  <2>2. CASE intent[i].status = "CONSUMED"
    <3>1. ~Open(i) /\ ~Open(i)'
      BY <2>1, <2>2 DEF Open
    <3> QED
      BY <3>1 DEF Open
  <2>3. CASE intent[i].status # "CONSUMED"
    <3>1. job'[h].at = "relwrite"
      <4>1. PICK seen : job' = [job EXCEPT ![h].at = "relwrite", ![h].seen = seen]
        BY <1>5, <2>3 DEF ReadRelease, On
      <4> QED
        BY <1>1, <4>1 DEF TypeOK, Jobs
    <3>2. \A g \in Handlers : job'[g].at = "mark" /\ job'[g].on = i <=> job[g].at = "mark" /\ job[g].on = i
      BY <1>1, <2>1, <3>1
    <3>3. Marking(i)' <=> Marking(i)
      BY <3>2 DEF Marking
    <3> QED
      BY <2>1, <3>3 DEF Open
  <2> QED
    BY <2>2, <2>3
<1> QED
  BY <1>2, <1>3, <1>4, <1>5, OtherSteps

LEMMA SoldOrReleased ==
  ASSUME TypeOK, Reached, NEW h \in Handlers, Step(h), WriteOrder(h) \/ WriteRelease(h),
         NEW i \in Intents, i = job[h].on
  PROVE  ~Open(i)' /\ job'[h].at # "relwrite"
<1>1. job[h] # Idle
  BY StepLocal
<1>2. CASE WriteOrder(h)
  <2>1. intent'[i].status = "CONSUMED"
    BY <1>1, <1>2 DEF WriteOrder, On, TypeOK, IntentRows
  <2>2. job'[h].at = "idle"
    BY <1>2, Finishes DEF WriteOrder
  <2> QED
    BY <2>1, <2>2 DEF Open
<1>3. CASE WriteRelease(h)
  <2>1. job'[h].at = "mark" /\ job'[h].on = i
    BY <1>1, <1>3, GoesTo DEF WriteRelease
  <2>2. Marking(i)'
    BY <2>1 DEF Marking
  <2> QED
    BY <2>1, <2>2 DEF Open
<1> QED
  BY <1>2, <1>3

LEMMA StepHasUnits == HasUnits /\ Reached /\ TypeOK /\ TypeOK' /\ [Next]_vars => HasUnits'
<1> SUFFICES ASSUME HasUnits, Reached, TypeOK, TypeOK', [Next]_vars,
                    NEW i \in Intents \ Faulty, Open(i)'
             PROVE  owns'[i] = Qty[i]
  BY DEF HasUnits
<1>0. Open(i) /\ owns'[i] = owns[i] => owns'[i] = Qty[i]
  BY DEF HasUnits
<1>1. ASSUME NEW j \in Intents, AttachPayment(j) \/ Decline(j) \/ Pay(j)
      PROVE  owns'[i] = Qty[i]
  <2>1. Open(i) /\ owns' = owns
    BY <1>1 DEF AttachPayment, Decline, Pay, Open, Marking, TypeOK, IntentRows
  <2> QED
    BY <1>0, <2>1
<1>2. ASSUME NEW h \in Handlers, NEW j \in Intents,
             \/ Create(h, j) \/ Webhook(h, j) \/ ThankYou(h, j)
             \/ PaymentFailed(h, j) \/ Expire(h, j) \/ Supersede(h, j)
      PROVE  owns'[i] = Qty[i]
  <2>1. job[h].at = "idle" /\ \A g \in Handlers \ {h} : job'[g] = job[g]
    BY <1>2, Starts DEF Create, Webhook, ThankYou, PaymentFailed, Expire, Supersede
  <2>2. Marking(i) => Marking(i)'
    BY <2>1 DEF Marking
  <2>3. CASE Create(h, j) /\ i = j
    <3>1. owns[i] = 0
      BY <2>3 DEF Create, Reached
    <3> QED
      BY <2>3, <3>1, Given DEF Create, TypeOK
  <2>4. CASE ~(Create(h, j) /\ i = j)
    <3>1. intent'[i].status = intent[i].status /\ owns'[i] = owns[i]
      <4>1. CASE Create(h, j)
        BY <2>4, <4>1 DEF Create, TypeOK
      <4>2. CASE Webhook(h, j)
        BY <4>2 DEF Webhook, TypeOK, IntentRows
      <4> QED
        BY <1>2, <4>1, <4>2 DEF ThankYou, PaymentFailed, Expire, Supersede
    <3> QED
      BY <1>0, <2>2, <3>1 DEF Open
  <2> QED
    BY <2>3, <2>4
<1>3. ASSUME NEW h \in Handlers, Step(h)
      PROVE  owns'[i] = Qty[i]
  <2>1. CASE i # job[h].on
    BY <1>0, <1>3, <2>1, OthersHold, StepLocal
  <2>2. CASE i = job[h].on
    <3>1. ~WriteOrder(h) /\ ~WriteRelease(h)
      BY <1>3, <2>2, SoldOrReleased
    <3>2. owns' = owns
      BY <1>3, <3>1 DEF Step, Quote, QuoteFails, Hold, HoldFails, Total, Lookup, Rehold, ReadIntent,
         WriteFails, HandleError, ReadRelease, ReleaseFails, Mark, Crash
    <3>3. Open(i)
      BY <1>3, <2>2, <3>1, OwnHolds
    <3> QED
      BY <1>0, <3>2, <3>3
  <2> QED
    BY <2>1, <2>2
<1>4. CASE UNCHANGED vars
  BY <1>0, <1>4 DEF vars, Open, Marking
<1> QED
  BY <1>1, <1>2, <1>3, <1>4 DEF Next

LEMMA StepKeeps == Kept /\ Reached /\ TypeOK /\ TypeOK' /\ [Next]_vars => Kept'
<1> SUFFICES ASSUME Kept, Reached, TypeOK, TypeOK', [Next]_vars PROVE Kept'
  OBVIOUS
<1>0. row.reserved \in Int /\ row'.reserved \in Int
  BY DEF TypeOK
<1>a. UNCHANGED <<row, job>> /\ (\A i \in Intents : intent'[i].status = intent[i].status) => Kept'
  <2> SUFFICES ASSUME UNCHANGED <<row, job>>, \A i \in Intents : intent'[i].status = intent[i].status
               PROVE  Kept'
    OBVIOUS
  <2>1. Holders' = Holders
    BY DEF Holders, Open, Marking
  <2> QED
    BY <1>0, <2>1, AsideKept
<1>1. ASSUME NEW i \in Intents, AttachPayment(i) \/ Decline(i) \/ Pay(i)
      PROVE  Kept'
  BY <1>a, <1>1 DEF AttachPayment, Decline, Pay, TypeOK, IntentRows
<1>2. ASSUME NEW h \in Handlers, NEW i \in Intents,
             \/ Create(h, i) \/ Webhook(h, i) \/ ThankYou(h, i)
             \/ PaymentFailed(h, i) \/ Expire(h, i) \/ Supersede(h, i)
      PROVE  Kept'
  <2>1. /\ job[h].at = "idle" /\ job'[h].at \in {"quote", "lookup", "relread"}
        /\ \A g \in Handlers \ {h} : job'[g] = job[g]
    BY <1>2, Starts DEF Create, Webhook, ThankYou, PaymentFailed, Expire, Supersede
  <2>2. \A j \in Intents : Marking(j)' <=> Marking(j)
    <3>1. \A g \in Handlers : \/ job'[g] = job[g]
                              \/ job[g].at # "mark" /\ job'[g].at # "mark"
      BY <2>1
    <3> QED
      BY <3>1 DEF Marking
  <2>3. CASE Create(h, i)
    <3>1. /\ intent[i].status = "none" /\ intent'[i].status = "PENDING"
          /\ \A j \in Intents \ {i} : intent'[j] = intent[j]
          /\ row'.reserved = row.reserved + Qty[i]
      BY <2>3 DEF Create, TypeOK, IntentRows
    <3>2. ASSUME NEW g \in Handlers, job[g].at # "idle" PROVE job[g].on # i
      BY <3>1, <3>2 DEF Reached
    <3>3. ~Marking(i)
      BY <3>2 DEF Marking
    <3>4. i \notin Holders /\ Holders' = Holders \cup {i}
      BY <2>2, <3>1, <3>3 DEF Holders, Open
    <3> QED
      BY <2>1, <3>1, <3>2, <3>4, CreateKept
  <2>4. CASE ~Create(h, i)
    <3>1. row' = row /\ \A j \in Intents : intent'[j].status = intent[j].status
      <4>1. CASE Webhook(h, i)
        BY <4>1 DEF Webhook, TypeOK, IntentRows
      <4> QED
        BY <1>2, <2>4, <4>1 DEF ThankYou, PaymentFailed, Expire, Supersede
    <3>2. Holders' = Holders
      BY <2>2, <3>1 DEF Holders, Open
    <3> QED
      BY <1>0, <2>1, <3>1, <3>2, AsideKept
  <2> QED
    BY <2>3, <2>4
<1>3. ASSUME NEW h \in Handlers, Step(h)
      PROVE  Kept'
  <2>0. PICK i \in Intents : i = job[h].on
    BY <1>3, StepLocal
  <2>1. /\ i = job[h].on /\ job[h] # Idle /\ job[h].at # "idle" /\ job[h] \in Jobs
        /\ \A g \in Handlers \ {h} : job'[g] = job[g]
        /\ intent[i].status # "none" /\ intent'[i].status # "none"
    BY <1>3, <2>0, StepLocal, AtWork
  <2>2. \A j \in Intents \ {i} : j \in Holders' <=> j \in Holders
    BY <1>3, <2>0, OthersHold
  <2>3. i \in Holders <=> i \in Faulty \/ Open(i)
    BY <2>1 DEF Holders
  <2>4. i \in Holders' <=> i \in Faulty \/ Open(i)'
    BY <2>1 DEF Holders
  <2>5. Holders \subseteq Intents /\ Holders' \subseteq Intents
    BY DEF Holders
  <2>6. CASE WriteOrder(h) \/ WriteRelease(h)
    <3>1. ~Open(i)' /\ job'[h].at # "relwrite"
      BY <1>3, <2>0, <2>6, SoldOrReleased
    <3>2. row'.reserved <= row.reserved
      <4>1. CASE WriteOrder(h)
        BY <1>0, <2>1, <4>1, Given DEF WriteOrder, On
      <4>2. CASE WriteRelease(h)
        <5>1. row'.reserved = row.reserved - Released(h)
          BY <4>2 DEF WriteRelease, On, Released, TypeOK
        <5> QED
          BY <1>0, <2>1, <5>1, GivesUp
      <4> QED
        BY <2>6, <4>1, <4>2
    <3>3. CASE i \in Faulty \/ ~Open(i)
      <4>1. Holders' = Holders
        BY <2>2, <2>3, <2>4, <2>5, <3>1, <3>3
      <4> QED
        BY <2>1, <3>1, <3>2, <4>1, AsideKept
    <3>4. CASE i \notin Faulty /\ Open(i)
      <4>1. i \in Holders /\ Holders' = Holders \ {i}
        BY <2>2, <2>3, <2>4, <2>5, <3>1, <3>4
      <4>2. CASE WriteOrder(h)
        <5>1. job[h].at = "write" /\ intent[i].status = "PENDING"
          BY <2>1, <3>4, <4>2 DEF WriteOrder, At, Open
        <5>2. job[h].seen.status = "PENDING"
          BY <2>1, <5>1 DEF Reached
        <5>3. row'.reserved = row.reserved - Qty[i]
          BY <2>1, <4>2, <5>2 DEF WriteOrder, On
        <5> QED
          BY <1>0, <2>1, <3>1, <4>1, <5>3, LeaveKept, Given
      <4>3. CASE WriteRelease(h)
        <5>1. row'.reserved = row.reserved - Released(h) /\ job[h].at = "relwrite"
          BY <4>3 DEF WriteRelease, On, Released, TypeOK, At
        <5>2. /\ Released(h) \in Nat /\ Qty[i] \in Nat
              /\ Released(h) = Qty[i] \/ Released(h) = Positive(job[h].seen.reserved)
          BY <2>1, GivesUp, Given
        <5>3. \/ row'.reserved <= row.reserved - Qty[i]
              \/ row'.reserved <= row.reserved - Positive(job[h].seen.reserved)
          BY <1>0, <5>1, <5>2
        <5> QED
          BY <2>1, <3>1, <4>1, <5>1, <5>3, LeaveKept
      <4> QED
        BY <2>6, <4>2, <4>3
    <3> QED
      BY <3>3, <3>4
  <2>7. CASE ~WriteOrder(h) /\ ~WriteRelease(h)
    <3>1. i \notin Faulty => Open(i)' = Open(i)
      BY <1>3, <2>0, <2>7, OwnHolds
    <3>2. Holders' = Holders
      BY <2>2, <2>3, <2>4, <2>5, <3>1
    <3>3. row' = row
      BY <1>3, <2>7 DEF Step, Quote, QuoteFails, Hold, HoldFails, Total, Lookup, Rehold, ReadIntent,
         WriteFails, HandleError, ReadRelease, ReleaseFails, Mark, Crash
    <3>4. CASE job'[h].at # "relwrite"
      BY <1>0, <2>1, <3>2, <3>3, <3>4, AsideKept
    <3>5. CASE job'[h].at = "relwrite"
      <4>1. ReadRelease(h)
        <5>1. CASE Mark(h) \/ Crash(h)
          BY <3>5, <5>1, Finishes DEF Mark, Crash
        <5>2. CASE ReleaseFails(h)
          BY <2>1, <3>5, <5>2, GoesTo DEF ReleaseFails
        <5> QED
          BY <1>3, <2>7, <3>5, <5>1, <5>2, OtherSteps DEF Idling
      <4>2. CASE Goto(h, "mark")
        BY <2>1, <3>5, <4>2, GoesTo
      <4>3. CASE ~Goto(h, "mark")
        <5> DEFINE seen == [Unseen EXCEPT !.credit = intent[On(h)].credit, !.reserved = row.reserved]
        <5>1. job' = [job EXCEPT ![h].at = "relwrite", ![h].seen = seen] /\ job[h].at = "relread"
          BY <4>1, <4>3 DEF ReadRelease, At
        <5>2. seen.reserved = row.reserved
          BY DEF Unseen
        <5> HIDE DEF seen
        <5>3. job'[h].seen = seen
          BY <2>1, <5>1 DEF TypeOK, Jobs
        <5> QED
          BY <2>1, <3>2, <3>3, <5>1, <5>2, <5>3, ReadKept
      <4> QED
        BY <4>2, <4>3
    <3> QED
      BY <3>4, <3>5
  <2> QED
    BY <2>6, <2>7
<1>4. CASE UNCHANGED vars
  BY <1>a, <1>4 DEF vars
<1> QED
  BY <1>1, <1>2, <1>3, <1>4 DEF Next

LEMMA InitLedger == Init => Ledger
<1> SUFFICES ASSUME Init PROVE Ledger
  OBVIOUS
<1>1. Reached
  BY DEF Init, Reached, Idle
<1>2. Counted
  <2>1. IsFiniteSet(Intents) /\ \A i \in Intents : owns[i] = 0
    BY CheckoutAssumption DEF CheckoutAssumption, Init
  <2>2. SumFunctionOnSet(owns, Intents) = 0
    BY <2>1, SumZero
  <2> QED
    BY <2>2 DEF Counted, Init
<1>3. HasUnits
  BY DEF Init, HasUnits, Open
<1>4. Kept
  <2> DEFINE C == [h \in Handlers |-> {}]
  <2>1. C \in [Handlers -> SUBSET Intents]
    OBVIOUS
  <2>2. \A h \in Handlers : job[h].at # "relwrite"
    BY DEF Init, Idle
  <2>3. Holders \subseteq Intents /\ row.reserved = 0
    BY DEF Holders, Init
  <2>4. Bounded(C)
    BY <2>2, <2>3, UnitsType DEF Bounded
  <2> QED
    BY <2>1, <2>4 DEF Kept
<1> QED
  BY <1>1, <1>2, <1>3, <1>4 DEF Ledger

LEMMA LedgerAccounts == TypeOK /\ Ledger => UnitsAccounted
<1> SUFFICES ASSUME TypeOK, Ledger PROVE UnitsAccounted
  OBVIOUS
<1>1. ASSUME \A i \in Intents : owns[i] >= 0 PROVE row.reserved >= UnitsOf(Live)
  <2>1. IsFiniteSet(Intents) /\ Live \subseteq Intents /\ IsFiniteSet(Live)
    BY CheckoutAssumption, FS_Subset DEF CheckoutAssumption, Live
  <2>2. \A i \in Intents : owns[i] \in Nat
    BY <1>1 DEF TypeOK
  <2>3. \A i \in Live : owns[i] = Qty[i]
    <3>1. \A i \in Live : Open(i)
      BY DEF Live, Releasing, On, Open, Marking, Idle
    <3> QED
      BY <3>1 DEF Ledger, HasUnits, Live
  <2>4. UnitsOf(Live) = SumFunctionOnSet(owns, Live)
    <3>1. \A i \in Live : owns[i] \in Int /\ Qty[i] \in Int /\ Qty[i] = owns[i]
      BY <2>1, <2>2, <2>3
    <3> QED
      BY <2>1, <3>1, SumSame DEF UnitsOf
  <2>5. SumFunctionOnSet(owns, Live) <= SumFunctionOnSet(owns, Intents)
    BY <2>1, <2>2, SumPart
  <2> QED
    BY <2>4, <2>5 DEF Ledger, Counted
<1>2. ASSUME Settled PROVE row.reserved <= UnitsOf(Faulty)
  <2>1. Holders \subseteq Faulty /\ Faulty \subseteq Intents
    BY <1>2, CheckoutAssumption DEF CheckoutAssumption, Settled, Holders, Open
  <2>2. UnitsOf(Holders) <= UnitsOf(Faulty)
    BY <2>1, UnitsPart
  <2>3. UnitsOf(Holders) \in Int /\ UnitsOf(Faulty) \in Int /\ row.reserved \in Int
    BY <2>1, UnitsType DEF TypeOK
  <2>4. row.reserved <= UnitsOf(Holders)
    BY DEF Ledger, Kept, Bounded
  <2> QED
    BY <2>2, <2>3, <2>4
<1> QED
  BY <1>1, <1>2 DEF UnitsAccounted

(* However requests, events, sweeps, releases and failures interleave, the  *)
(* units of a checkout in progress stay reserved as long as no release has  *)
(* given back more than its checkout had, and when all is done only those   *)
(* of checkouts whose release was cut short are still kept from sale        *)
(* (releaseIntentResources, createPaidOrderFromCheckoutIntent).             *)
THEOREM UnitsStayAccounted == Spec => []UnitsAccounted
<1>1. Init => NothingOverdrawn /\ Ledger
  BY InitOverdrawsNothing, InitLedger
<1>2. NothingOverdrawn /\ Ledger /\ [Next]_vars => NothingOverdrawn' /\ Ledger'
  BY StepOverdrawsNothing, StepReaches, StepCounts, StepHasUnits, StepKeeps
  DEF Ledger, NothingOverdrawn
<1>3. NothingOverdrawn /\ Ledger => UnitsAccounted
  BY LedgerAccounts DEF NothingOverdrawn
<1> QED
  BY <1>1, <1>2, <1>3, PTL DEF Spec
=============================================================================
