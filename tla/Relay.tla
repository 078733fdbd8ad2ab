------------------------------- MODULE Relay -------------------------------
(***************************************************************************)
(* A phone as the scanner of a warehouse page (services/scan-relay.service   *)
(* .js): the page opens a session and listens to its events, a phone asks to *)
(* join, the page lets it, and what it scans is sent to the page and kept     *)
(* among the recent scans that a page which reconnects is given.  The         *)
(* session is in the memory of the process; no handler awaits.               *)
(***************************************************************************)
EXTENDS Desk, SequencesExt

CONSTANTS
    Phones,
    MaxRecent   \* MAX_RECENT

ASSUME RelayAssumption == MaxRecent \in Nat \ {0}

VARIABLES
    relay,      \* the session: its state and its recent scans
    link,       \* the page's connection: up, broken and not noticed, or none
    shown,      \* scans that reached the page
    accepted,   \* scans the session took
    overrun     \* history: more scans were kept from the page than are recent

relaying == <<relay, link, shown, accepted, overrun>>

NoPhone == "none"

RelayInit ==
    /\ relay = [open |-> TRUE, joined |-> FALSE, pending |-> NoPhone, device |-> NoPhone,
                recent |-> <<>>]
    /\ link = "none" /\ shown = {} /\ accepted = 0 /\ overrun = FALSE

Instant(h, kind) == Begin(h, kind, <<>>, {})

JoinSession(h) ==
    \E ph \in Phones :
        /\ relay.open /\ Instant(h, "phone")
        /\ relay' = IF relay.joined THEN relay ELSE [relay EXCEPT !.pending = ph]
        /\ UNCHANGED <<link, shown, accepted, overrun>>

ApproveJoin(h) ==
    /\ relay.open /\ (relay.pending # NoPhone \/ relay.joined) /\ Instant(h, "page")
    /\ relay' = [relay EXCEPT !.joined = TRUE, !.pending = NoPhone,
                              !.device = IF relay.pending = NoPhone THEN @ ELSE relay.pending]
    /\ UNCHANGED <<link, shown, accepted, overrun>>

RejectJoin(h) ==
    /\ relay.open /\ Instant(h, "page")
    /\ relay' = [relay EXCEPT !.pending = NoPhone]
    /\ UNCHANGED <<link, shown, accepted, overrun>>

Disconnect(h) ==
    /\ relay.open /\ Instant(h, "page")
    /\ relay' = [relay EXCEPT !.joined = FALSE, !.pending = NoPhone, !.device = NoPhone]
    /\ UNCHANGED <<link, shown, accepted, overrun>>

(* relayScanToSession: newest first, and the oldest dropped                  *)
Recent(scan, scans) == <<scan>> \o SubSeq(scans, 1, Min({Len(scans), MaxRecent - 1}))

RelayScan(h) ==
    /\ relay.open /\ relay.joined /\ Instant(h, "phone")
    /\ accepted' = accepted + 1
    /\ relay' = [relay EXCEPT !.recent = Recent(accepted', @)]
    /\ shown' = IF link = "up" THEN shown \cup {accepted'} ELSE shown
    /\ overrun' = (overrun \/ Cardinality((1 .. accepted') \ shown') > MaxRecent)
    /\ UNCHANGED link

(* subscribeScanSession: a page that connects is sent the recent scans.      *)
Subscribes(h) ==
    /\ relay.open /\ link # "up" /\ Instant(h, "page")
    /\ link' = "up"
    /\ shown' = shown \cup Range(relay.recent)
    /\ UNCHANGED <<relay, accepted, overrun>>

(* The connection breaks; the process notices later.                         *)
LinkBreaks(h) ==
    /\ link # "none" /\ Instant(h, "page")
    /\ link' = IF link = "up" THEN "broken" ELSE "none"
    /\ UNCHANGED <<relay, shown, accepted, overrun>>

(* The session expires, or the process restarts.                             *)
SessionEnds(h) ==
    /\ relay.open /\ Instant(h, "page")
    /\ relay' = [relay EXCEPT !.open = FALSE, !.recent = <<>>]
    /\ UNCHANGED <<link, shown, accepted, overrun>>

RelayStep(h) ==
    \/ JoinSession(h) \/ ApproveJoin(h) \/ RejectJoin(h) \/ Disconnect(h)
    \/ RelayScan(h) \/ Subscribes(h) \/ LinkBreaks(h) \/ SessionEnds(h)

-----------------------------------------------------------------------------
(* Every scan the session took has reached the page or will be shown when it  *)
(* reconnects, as long as the session lives and no more scans came while the   *)
(* page was away than are kept; and a phone is connected only after the page   *)
(* let one in.                                                                *)
ScansArrive ==
    /\ relay.open /\ ~ overrun =>
        \A n \in 1 .. accepted : n \in shown \cup Range(relay.recent)
    /\ relay.joined => relay.device # NoPhone
=============================================================================
