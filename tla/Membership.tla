----------------------------- MODULE Membership -----------------------------
(***************************************************************************)
(* Farmhouse Friends (ACCESS), the paid membership of one customer          *)
(* (services/membership.service.js, services/membership-eligibility          *)
(* .service.js, services/payment.service.js).  A membership is bought or     *)
(* renewed in a Stripe session of its own, or in the payment of an order.    *)
(* Stripe's webhook and the thank-you page each complete the payment: they   *)
(* look for a receipt of it, read until when the customer is a member, and   *)
(* write the later date and the receipt in one transaction.  No key makes    *)
(* the receipt of a payment unique.  Two daily jobs remind the member before *)
(* and on the last day and tell them of the end: mail first, mark after.     *)
(*                                                                         *)
(* The clock counts days; a job that runs on a day runs at its start.        *)
(***************************************************************************)
EXTENDS Integers, Sequences, FiniteSets

CONSTANTS
    Sessions,      \* Stripe sessions that sell a membership
    Bundles,       \* checkout intents that include one
    Handlers,      \* webhook deliveries and thank-you pages at work
    Term,          \* ACCESS_MEMBERSHIP_DAYS
    Window,        \* ACCESS_RENEWAL_WINDOW_DAYS
    Early,         \* first of ACCESS_RENEWAL_REMINDER_DAYS; the second is 0
    Horizon,       \* bound: the last day
    MaxFaults      \* bound: crashes and failed statements

ASSUME MembershipAssumption ==
    /\ IsFiniteSet(Sessions) /\ IsFiniteSet(Bundles) /\ Sessions \cap Bundles = {}
    /\ Term \in Nat \ {0} /\ Window \in Nat \ {0} /\ Early \in 1 .. Term - 1
    /\ Horizon \in Nat \ {0} /\ MaxFaults \in Nat

VARIABLES
    today,       \* the clock
    until,       \* accessMemberUntil; 0 for null
    marks,       \* which of the ...SentAt columns are set
    stripe,      \* what Stripe knows of each payment
    consumed,    \* bundles whose order has been written
    receipts,    \* MembershipPayment rows of each payment, in order
    completing,  \* the completion each handler is in
    job,         \* the mail a daily job is about to send or mark
    mailed,      \* history: the last day each kind of mail last went out for, how often
    overlapped,  \* history: two completions have overlapped
    faults

membership == <<today, until, marks, stripe, consumed, receipts, completing, job, mailed, overlapped, faults>>

Payments == Sessions \cup Bundles
Kinds == {"renewal", "expiryDay", "expired"}
NoWork == [at |-> "idle"]

MembershipTypeOK ==
    /\ today \in 1 .. Horizon
    /\ until \in Nat
    /\ marks \subseteq Kinds
    /\ stripe \in [Payments -> {"none", "open", "paid"}]
    /\ consumed \subseteq Bundles
    /\ receipts \in [Payments -> Seq([ref : {"session", "intent"}, until : Nat])]
    /\ \A h \in Handlers : completing[h].at \in {"idle", "order", "check", "read", "write"}
    /\ job.at \in {"idle", "mail", "mark"}
    /\ overlapped \in BOOLEAN /\ faults \in 0 .. MaxFaults

MembershipInit ==
    /\ today = 1 /\ until = 0 /\ marks = {}
    /\ stripe = [p \in Payments |-> "none"]
    /\ consumed = {}
    /\ receipts = [p \in Payments |-> <<>>]
    /\ completing = [h \in Handlers |-> NoWork]
    /\ job = NoWork
    /\ mailed = [k \in Kinds |-> [term |-> 0, times |-> 0]]
    /\ overlapped = FALSE /\ faults = 0

-----------------------------------------------------------------------------
(* evaluateMembershipEligibility.                                          *)
Active == until > today
Status ==
    IF until = 0 THEN "none"
    ELSE IF ~ Active THEN "expired"
    ELSE IF until - today <= Window THEN "expiring" ELSE "active"
CanPurchase == Status \in {"none", "expired"}
CanRenew == Status \in {"expired", "expiring"}

(* createMembershipCheckoutSession asks for the right intent, and never     *)
(* again: the session stays payable at Stripe.                             *)
assertMembershipCheckoutAllowed(intent) == IF intent = "renew" THEN CanRenew ELSE CanPurchase

OpenSession(s, intent) ==
    /\ stripe[s] = "none"
    /\ assertMembershipCheckoutAllowed(intent)
    /\ stripe' = [stripe EXCEPT ![s] = "open"]
    /\ UNCHANGED <<today, until, marks, consumed, receipts, completing, job, mailed, overlapped, faults>>

(* A checkout that includes a membership is for those without one.          *)
OpenBundle(b) ==
    /\ stripe[b] = "none"
    /\ ~ Active
    /\ stripe' = [stripe EXCEPT ![b] = "open"]
    /\ UNCHANGED <<today, until, marks, consumed, receipts, completing, job, mailed, overlapped, faults>>

Pay(p) ==
    /\ stripe[p] = "open"
    /\ stripe' = [stripe EXCEPT ![p] = "paid"]
    /\ UNCHANGED <<today, until, marks, consumed, receipts, completing, job, mailed, overlapped, faults>>

-----------------------------------------------------------------------------
Busy(h) == completing[h] # NoWork
Others(h) == {g \in Handlers \ {h} : Busy(g)}

(* A delivery or a page takes up a paid session.                            *)
BeginSession(h, s) ==
    /\ ~ Busy(h) /\ stripe[s] = "paid"
    /\ completing' = [completing EXCEPT ![h] = [at |-> "check", pay |-> s, ref |-> "session"]]
    /\ overlapped' = (overlapped \/ Others(h) # {})
    /\ UNCHANGED <<today, until, marks, stripe, consumed, receipts, job, mailed, faults>>

(* createPaidOrderFromCheckoutIntent reads an intent that is not consumed   *)
(* yet.  The reference of its receipt is the Stripe id on the intent: the   *)
(* session's until the webhook has replaced it with the payment's.          *)
BeginBundle(h, b, ref) ==
    /\ ~ Busy(h) /\ stripe[b] = "paid" /\ b \notin consumed
    /\ completing' = [completing EXCEPT ![h] = [at |-> "order", pay |-> b, ref |-> ref]]
    /\ overlapped' = (overlapped \/ Others(h) # {})
    /\ UNCHANGED <<today, until, marks, stripe, consumed, receipts, job, mailed, faults>>

(* Its transaction writes the order, or finds it written; the membership    *)
(* is completed after it has committed.                                    *)
WriteOrder(h) ==
    /\ completing[h].at = "order"
    /\ consumed' = consumed \cup {completing[h].pay}
    /\ completing' = [completing EXCEPT ![h].at = "check"]
    /\ UNCHANGED <<today, until, marks, stripe, receipts, job, mailed, overlapped, faults>>

(* Fault: the receipt of any payment will do.                              *)
AnyReceipt(pay, ref) == \E p \in Payments : receipts[p] # <<>>
HasReceipt(pay, ref) == \E i \in DOMAIN receipts[pay] : receipts[pay][i].ref = ref

FindReceipt(h) ==
    /\ completing[h].at = "check"
    /\ completing' = [completing EXCEPT ![h] =
                 IF HasReceipt(completing[h].pay, completing[h].ref) THEN NoWork ELSE [@ EXCEPT !.at = "read"]]
    /\ UNCHANGED <<today, until, marks, stripe, consumed, receipts, job, mailed, overlapped, faults>>

(* Fault: a renewal counts from today.                                     *)
FromToday == today
(* The term is added to what is left, or to today.                         *)
Base == IF Active THEN until ELSE today

ReadMember(h) ==
    /\ completing[h].at = "read"
    /\ completing' = [completing EXCEPT ![h] =
                 [at |-> "write", pay |-> completing[h].pay, ref |-> completing[h].ref,
                  until |-> Base + Term]]
    /\ UNCHANGED <<today, until, marks, stripe, consumed, receipts, job, mailed, overlapped, faults>>

(* Of the three marks only the one of the early reminder is cleared.        *)
CompleteMembership(h) ==
    /\ completing[h].at = "write"
    /\ until' = completing[h].until
    /\ marks' = marks \ {"renewal"}
    /\ receipts' = [receipts EXCEPT ![completing[h].pay] =
                      Append(@, [ref |-> completing[h].ref, until |-> completing[h].until])]
    /\ completing' = [completing EXCEPT ![h] = NoWork]
    /\ UNCHANGED <<today, stripe, consumed, job, mailed, overlapped, faults>>

(* A statement fails or the process dies.                                  *)
HandlerFails(h) ==
    /\ Busy(h) /\ faults < MaxFaults
    /\ completing' = [completing EXCEPT ![h] = NoWork]
    /\ faults' = faults + 1
    /\ UNCHANGED <<today, until, marks, stripe, consumed, receipts, job, mailed, overlapped>>

-----------------------------------------------------------------------------
(* sendAccessRenewalReminders and sendAccessExpiredNotices.                 *)
EarlyDue == until = today + Early
LastDayDue == until = today
ExpiredDue == until \in {today - 1, today}

Due(k) ==
    /\ until # 0 /\ k \notin marks
    /\ k = "renewal" => EarlyDue
    /\ k = "expiryDay" => LastDayDue
    /\ k = "expired" => ExpiredDue

SelectMember(k) ==
    /\ job = NoWork
    /\ Due(k)
    /\ job' = [at |-> "mail", kind |-> k, term |-> until]
    /\ UNCHANGED <<today, until, marks, stripe, consumed, receipts, completing, mailed, overlapped, faults>>

Mail ==
    /\ job.at = "mail"
    /\ mailed' = [mailed EXCEPT ![job.kind] =
                    [term |-> job.term, times |-> IF @.term = job.term THEN @.times + 1 ELSE 1]]
    /\ job' = [job EXCEPT !.at = "mark"]
    /\ UNCHANGED <<today, until, marks, stripe, consumed, receipts, completing, overlapped, faults>>

(* Fault: every reminder sets the mark of the early one.                   *)
MarkRenewal(kind) == {"renewal"}
MarkOf(kind) == {kind}

Mark ==
    /\ job.at = "mark"
    /\ marks' = marks \cup MarkOf(job.kind)
    /\ job' = NoWork
    /\ UNCHANGED <<today, until, stripe, consumed, receipts, completing, mailed, overlapped, faults>>

(* The mail or the update fails; both are caught and tried on another run.  *)
JobFails ==
    /\ job # NoWork /\ faults < MaxFaults
    /\ job' = NoWork
    /\ faults' = faults + 1
    /\ UNCHANGED <<today, until, marks, stripe, consumed, receipts, completing, mailed, overlapped>>

(* A completion takes seconds and ends on the day it began, as a job does.  *)
NextDay ==
    /\ today < Horizon
    /\ job = NoWork /\ \A h \in Handlers : ~ Busy(h)
    /\ today' = today + 1
    /\ UNCHANGED <<until, marks, stripe, consumed, receipts, completing, job, mailed, overlapped, faults>>

-----------------------------------------------------------------------------
Completion(h) == WriteOrder(h) \/ FindReceipt(h) \/ ReadMember(h) \/ CompleteMembership(h)
Daily == (\E k \in Kinds : SelectMember(k)) \/ Mail \/ Mark \/ JobFails

MembershipNext ==
    \/ \E s \in Sessions, intent \in {"purchase", "renew"} : OpenSession(s, intent)
    \/ \E b \in Bundles : OpenBundle(b)
    \/ \E p \in Payments : Pay(p)
    \/ \E h \in Handlers, s \in Sessions : BeginSession(h, s)
    \/ \E h \in Handlers, b \in Bundles, ref \in {"session", "intent"} : BeginBundle(h, b, ref)
    \/ \E h \in Handlers : Completion(h) \/ HandlerFails(h)
    \/ Daily
    \/ NextDay

MembershipSpec == MembershipInit /\ [][MembershipNext]_membership

(* Stripe delivers until it is answered, and a handler goes on unless it    *)
(* fails.                                                                  *)
Deliver(p) == \E h \in Handlers : BeginSession(h, p)
MembershipFairness ==
    /\ \A s \in Sessions : SF_membership(Deliver(s))
    /\ \A h \in Handlers : WF_membership(Completion(h))
MembershipFairSpec == MembershipSpec /\ MembershipFairness

-----------------------------------------------------------------------------
Rows == UNION {{p} \X DOMAIN receipts[p] : p \in Payments}
ValidUntil(row) == receipts[row[1]][row[2]].until

(* Completed one after the other, however often Stripe delivers and the     *)
(* page is opened, a payment has one receipt; and the receipts add up: each *)
(* carries the membership a whole term past the one before, and the last is *)
(* the date the member sees.                                               *)
TermsAddUp ==
    /\ MembershipTypeOK
    /\ \/ overlapped
       \/ /\ \A p \in Payments : Len(receipts[p]) <= 1
          /\ \A r1, r2 \in Rows :
                r1 # r2 => \/ ValidUntil(r1) >= ValidUntil(r2) + Term
                           \/ ValidUntil(r2) >= ValidUntil(r1) + Term
          /\ \A r \in Rows : ValidUntil(r) <= until
          /\ until # 0 => \E r \in Rows : ValidUntil(r) = until

(* 'once per term' (services/membership.service.js): no mail of a kind goes *)
(* out twice for one last day, unless a run failed after sending it.       *)
RemindedOnce ==
    \A k \in Kinds : mailed[k].times <= 1 + faults

(* A paid session is granted in the end.                                   *)
PaidIsGranted == \A s \in Sessions : stripe[s] = "paid" ~> receipts[s] # <<>>
=============================================================================
