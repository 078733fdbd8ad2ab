--------------------------- MODULE StripeWebhook ---------------------------
(***************************************************************************)
(* Every Stripe event is to be handled once: the StripeWebhookEvent rows of *)
(* lib/stripe-webhook-idempotency.js, claimed, completed and failed by the *)
(* deliveries that processStripeWebhook (services/payment.service.js)      *)
(* serves.                                                                 *)
(*                                                                         *)
(* Stripe delivers an event until a delivery is answered with success, and *)
(* may have several deliveries of it under way: one that has timed out on  *)
(* Stripe's side goes on here.  A statement of a delivery is one step: none *)
(* runs in a transaction with another.                                     *)
(***************************************************************************)
EXTENDS Naturals, FiniteSets

CONSTANTS
    Events,      \* Stripe events, by eventId
    Deliveries,  \* webhook requests that may be under way together
    Swallowed,   \* events whose handlers may return an error instead of throwing it
    Faulty,      \* events during which processes die and database calls fail
    Overlapping  \* events of which Stripe may have several deliveries under way

ASSUME WebhookAssumption ==
    Swallowed \subseteq Events /\ Faulty \subseteq Events /\ Overlapping \subseteq Events

(* The events that nothing worse happens to than a handler that throws.    *)
Calm == Events \ (Swallowed \cup Faulty \cup Overlapping)

VARIABLES
    event,  \* the status of each event's row, or "none"
    del,    \* what each delivery is doing, and for which event
    acked,  \* the events Stripe has been answered success for
    done    \* the events whose effects a handler has brought about

webhook == <<event, del, acked, done>>

Status == {"PENDING", "PROCESSING", "PROCESSED", "FAILED"}

Places == {"begin", "find", "claim", "reclaim", "handle", "complete", "fail"}
Absent == [at |-> "idle"]

WebhookTypeOK ==
    /\ event \in [Events -> Status \cup {"none"}]
    /\ del \in [Deliveries -> [at : Places, on : Events] \cup {Absent}]
    /\ acked \subseteq Events /\ done \subseteq Events

WebhookInit ==
    /\ event = [e \in Events |-> "none"]
    /\ del = [d \in Deliveries |-> Absent]
    /\ acked = {} /\ done = {}

Reached(d, place) == del[d].at = place
On(d) == del[d].on

Goto(d, place) == del' = [del EXCEPT ![d].at = place]

(* The request ends, answered with success or not.                         *)

Answer(d) == del' = [del EXCEPT ![d] = Absent] /\ acked' = acked \cup {On(d)}

(* Fault: a handler that threw is answered as a success.                   *)
RefuseKindly(d) == del' = [del EXCEPT ![d] = Absent] /\ acked' = acked \cup {On(d)}

Refuse(d) == del' = [del EXCEPT ![d] = Absent] /\ UNCHANGED acked

-----------------------------------------------------------------------------
Deliver(d, e) ==
    /\ del[d] = Absent
    /\ e \notin acked
    /\ e \notin Overlapping => \A f \in Deliveries : del[f] # Absent => On(f) # e
    /\ del' = [del EXCEPT ![d] = [at |-> "begin", on |-> e]]
    /\ UNCHANGED <<event, acked, done>>

(* beginStripeWebhookEvent inserts the row, or finds that there is one.    *)
Insert(d) ==
    LET e == On(d)
    IN  /\ Reached(d, "begin")
        /\ IF event[e] = "none"
           THEN event' = [event EXCEPT ![e] = "PENDING"] /\ Goto(d, "claim")
           ELSE Goto(d, "find") /\ UNCHANGED event
        /\ UNCHANGED <<acked, done>>

(* A duplicate of an event that is processed or being processed is         *)
(* answered with success and nothing more is done.                         *)
Find(d) ==
    /\ Reached(d, "find")
    /\ IF event[On(d)] \in {"PROCESSED", "PROCESSING"}
       THEN Answer(d)
       ELSE Goto(d, "reclaim") /\ UNCHANGED acked
    /\ UNCHANGED <<event, done>>

(* Fault: a claim that does not look at the status again.                  *)
ClaimAnyway(d) ==
    /\ Reached(d, "claim") \/ Reached(d, "reclaim")
    /\ event' = [event EXCEPT ![On(d)] = "PROCESSING"]
    /\ Goto(d, "handle")
    /\ UNCHANGED <<acked, done>>

(* The conditional update: the first delivery claims a PENDING row, a      *)
(* later one a FAILED row too.  To have lost the claim is a success.       *)
Claim(d) ==
    LET e == On(d)
        free == IF Reached(d, "claim") THEN {"PENDING"} ELSE {"PENDING", "FAILED"}
    IN  /\ Reached(d, "claim") \/ Reached(d, "reclaim")
        /\ IF event[e] \in free
           THEN event' = [event EXCEPT ![e] = "PROCESSING"] /\ Goto(d, "handle") /\ UNCHANGED acked
           ELSE Answer(d) /\ UNCHANGED event
        /\ UNCHANGED done

-----------------------------------------------------------------------------
(* dispatchStripeWebhookEvent: the handler succeeds, returns an error it   *)
(* has caught, or throws.                                                  *)
Succeed(d) ==
    /\ Reached(d, "handle")
    /\ done' = done \cup {On(d)}
    /\ Goto(d, "complete")
    /\ UNCHANGED <<event, acked>>

Swallow(d) ==
    /\ Reached(d, "handle") /\ On(d) \in Swallowed
    /\ Goto(d, "complete")
    /\ UNCHANGED <<event, acked, done>>

Throw(d) ==
    /\ Reached(d, "handle")
    /\ Goto(d, "fail")
    /\ UNCHANGED <<event, acked, done>>

Complete(d) ==
    /\ Reached(d, "complete")
    /\ event' = [event EXCEPT ![On(d)] = "PROCESSED"]
    /\ Answer(d)
    /\ UNCHANGED done

(* completeStripeWebhookEvent is inside the try block.                     *)
CompleteFails(d) ==
    /\ Reached(d, "complete") /\ On(d) \in Faulty
    /\ Goto(d, "fail")
    /\ UNCHANGED <<event, acked, done>>

Fail(d) ==
    LET e == On(d)
    IN  /\ Reached(d, "fail")
        /\ event' = IF event[e] = "PROCESSING" THEN [event EXCEPT ![e] = "FAILED"] ELSE event
        /\ Refuse(d)
        /\ UNCHANGED done

(* A statement fails outside the try block, or the process dies.           *)
Crash(d) ==
    /\ del[d] # Absent
    /\ On(d) \in Faulty
    /\ Refuse(d)
    /\ UNCHANGED <<event, done>>

-----------------------------------------------------------------------------
DeliveryStep(d) ==
    \/ Insert(d) \/ Find(d) \/ Claim(d)
    \/ Succeed(d) \/ Swallow(d) \/ Throw(d)
    \/ Complete(d) \/ CompleteFails(d) \/ Fail(d)
    \/ Crash(d)

WebhookNext == \E d \in Deliveries : DeliveryStep(d) \/ \E e \in Events : Deliver(d, e)

WebhookSpec == WebhookInit /\ [][WebhookNext]_webhook

(* Stripe goes on delivering every event (no other event keeps it out for  *)
(* ever: Deliveries is a bound of the model), a request goes on, and a     *)
(* handler that is tried again and again succeeds in the end.              *)
WebhookFairness ==
    /\ \A e \in Events :
        /\ SF_webhook(\E d \in Deliveries : Deliver(d, e))
        /\ SF_webhook(\E d \in Deliveries : Succeed(d) /\ On(d) = e)
    /\ \A d \in Deliveries :
        /\ WF_webhook(Insert(d) \/ Find(d) \/ Claim(d) \/ Complete(d) \/ Fail(d))
        /\ WF_webhook(Succeed(d) \/ Throw(d))

WebhookFairSpec == WebhookSpec /\ WebhookFairness

-----------------------------------------------------------------------------
Working(d, e) == del[d] # Absent /\ On(d) = e /\ del[d].at \in {"handle", "complete", "fail"}

(* An event is handled by one delivery at a time: however many are under   *)
(* way, one holds the claim ("Claim exclusive processing rights",          *)
(* lib/stripe-webhook-idempotency.js:22).                                  *)
OneHandler ==
    \A e \in Events, d, f \in Deliveries : Working(d, e) /\ Working(f, e) => d = f

(* A processed event stays so, and no delivery that was under way then, or *)
(* comes later, runs its handler again.                                    *)
ProcessedIsFinal ==
    [][\A e \in Events :
         event[e] = "PROCESSED" =>
            /\ event'[e] = "PROCESSED"
            /\ \A d \in Deliveries : Reached(d, "handle") => On(d) # e]_webhook

(* "PENDING/FAILED remain retryable" (lib/stripe-webhook-idempotency.js:3): *)
(* retries get every calm event handled, whatever happens to the others    *)
(* meanwhile.                                                              *)
CalmIsHandled == \A e \in Calm : <>(e \in done)
=============================================================================
