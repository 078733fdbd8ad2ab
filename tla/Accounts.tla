------------------------------ MODULE Accounts ------------------------------
(***************************************************************************)
(* The account of one customer: its sessions, its links in e-mails, and the *)
(* orders placed as a guest under its address (services/auth.service.js,     *)
(* services/guest-order-link.service.js, services/guest-retention.service    *)
(* .js, services/checkout-guest.service.js, middleware/auth.js).            *)
(* A handler awaits between reading the row and each of its statements; most *)
(* of them are in no transaction.  A session is an access token that carries *)
(* the tokenVersion of the row it was made from, and a refresh token, a row *)
(* that a refresh replaces by another.                                     *)
(* Passwords are left out: a request whose password does not match the row  *)
(* it has read changes nothing.                                            *)
(***************************************************************************)
EXTENDS Integers, Sequences, FiniteSets

CONSTANTS
    Emails,        \* addresses the customer has
    First,         \* the one known to the shop at first
    Orders,        \* orders placed as a guest with the first address
    Handlers,      \* requests and jobs at work
    MaxRequests,   \* bound
    MaxFaults      \* bound: crashes and failed statements

ASSUME AccountsAssumption ==
    /\ First \in Emails /\ IsFiniteSet(Emails) /\ IsFiniteSet(Orders)
    /\ "account" \notin Orders
    /\ MaxRequests \in Nat \ {0} /\ MaxFaults \in Nat

VARIABLES
    user,        \* the User row
    tokens,      \* RefreshToken rows
    versions,    \* tokenVersions for which there is an access token
    links,       \* PasswordResetToken rows
    mails,       \* EmailVerificationToken rows
    orders,      \* the guest's orders: whose they are and what is left of them
    req,         \* what each handler has read and has still to do
    served, faults,
    changes,     \* history: how often every session has been ended
    kept,        \* history: a failed delete of refresh tokens has been swallowed
    rotations,   \* history: the successors of each refresh token
    resets,      \* history: passwords set with each reset link
    shown,       \* history: addresses the customer has shown to be theirs
    muddled,     \* history: a change of address overlapped a verification, or broke off
    crossed      \* history: requests of one kind overlapped

history == <<changes, kept, rotations, resets, shown, muddled, crossed>>
vars == <<user, tokens, versions, links, mails, orders, req, served, faults, history>>

Idle == [todo |-> <<>>]
Shell(o) == o      \* the guest row an order of a registered customer is placed under
Ages == {"recent", "past", "gone"}   \* up to 21 days; up to 45 days; older
Serials == 1 .. MaxRequests

Init ==
    /\ user \in [kind : {"none", "guest", "full"}, version : {0}, active : {TRUE},
                 email : {First}, verified : {TRUE}, purged : {FALSE}]
    /\ tokens = {} /\ versions = {} /\ links = {} /\ mails = {}
    /\ orders = [o \in Orders |-> [owner |-> "none", age |-> "recent", scrubbed |-> FALSE]]
    /\ req = [h \in Handlers |-> Idle]
    /\ served = 0 /\ faults = 0
    /\ changes = 0 /\ kept = FALSE
    /\ rotations = [t \in Serials |-> 0] /\ resets = [t \in Serials |-> 0]
    /\ shown = {First} /\ muddled = FALSE /\ crossed = FALSE

TypeOK ==
    /\ user.kind \in {"none", "guest", "full"} /\ user.version \in Nat /\ user.email \in Emails
    /\ \A t \in tokens : t.id \in Serials /\ t.begun \in 0 .. changes
    /\ versions \subseteq 0 .. user.version
    /\ \A l \in links : l.id \in Serials /\ l.used \in BOOLEAN
    /\ \A m \in mails : m.to \in Emails
    /\ orders \in [Orders -> [owner : {"none", "account"} \cup {Shell(o) : o \in Orders},
                              age : Ages, scrubbed : BOOLEAN]]
    /\ served \in 0 .. MaxRequests /\ faults \in 0 .. MaxFaults

-----------------------------------------------------------------------------
(* A request: what it is still to do, step by step.                         *)
Busy(h) == req[h].todo # <<>>
Doing(kind) == {h \in Handlers : Busy(h) /\ req[h].kind = kind}
AboutAddress == {"register", "verify", "resend", "email"}

Plan(kind) ==
    CASE kind = "login"    -> <<"issue">>
      [] kind = "refresh"  -> <<"delete", "rotate">>
      [] kind = "reissue"  -> <<"bump", "wipe", "issue">>
      [] kind = "pause"    -> <<"deactivate", "bump", "wipe">>
      [] kind = "email"    -> <<"address", "bump", "wipe", "unlink", "mail">>
      [] kind = "forgot"   -> <<"link">>
      [] kind = "reset"    -> <<"apply", "bump", "wipe">>
      [] kind = "verify"   -> <<"verify", "candidates", "attach">>
      [] kind = "resend"   -> <<"unlink", "mail">>
      [] kind = "register" -> <<"create", "unlink", "mail">>
      [] kind = "convert"  -> <<"convert", "candidates", "attach", "issue">>
      [] kind = "purge"    -> <<"scrub">>

(* A request carries the row it read and, with more, what else it needs.    *)
Begin(h, kind, more) ==
    /\ ~ Busy(h) /\ served < MaxRequests
    /\ served' = served + 1
    /\ req' = [req EXCEPT ![h] =
                 [todo |-> Plan(kind), kind |-> kind, id |-> served + 1, begun |-> changes,
                  version |-> user.version, email |-> user.email, more |-> more]]
    /\ muddled' = \/ muddled
                  \/ kind \in AboutAddress /\ \E k \in AboutAddress : Doing(k) # {}
    /\ crossed' = \/ crossed \/ Doing(kind) # {}
                  \/ kind = "convert" /\ Doing("purge") # {}
                  \/ kind = "purge" /\ Doing("convert") # {}

At(h, step) == Busy(h) /\ Head(req[h].todo) = step
Rest(h) == IF Len(req[h].todo) = 1 THEN Idle ELSE [req[h] EXCEPT !.todo = Tail(@)]
Proceed(h) == req' = [req EXCEPT ![h] = Rest(h)]
Stop(h) == req' = [req EXCEPT ![h] = Idle]

-----------------------------------------------------------------------------
(* authenticate: the account is active and the token's version is the row's.*)
Authenticated == user.kind = "full" /\ user.active /\ user.version \in versions

Login(h) ==
    /\ user.kind = "full" /\ user.active /\ user.verified
    /\ Begin(h, "login", <<>>)
    /\ UNCHANGED <<user, tokens, versions, links, mails, orders, faults,
                   changes, kept, rotations, resets, shown>>

(* issueSessionTokens: the access token is made from the row as read.       *)
Session(h) == [id |-> req[h].id, begun |-> req[h].begun, late |-> req[h].begun < changes]
Issue(h) ==
    /\ At(h, "issue")
    /\ tokens' = tokens \cup {Session(h)}
    /\ versions' = versions \cup {req[h].version}
    /\ Proceed(h)
    /\ UNCHANGED <<user, links, mails, orders, served, faults, history>>

(* refreshAccessToken: a transaction reads the token and its user, deletes  *)
(* the token, which locks it until the commit, and creates the next.        *)
Refresh(h) ==
    \E t \in tokens :
      /\ user.active
      /\ Begin(h, "refresh", t)
      /\ UNCHANGED <<user, tokens, versions, links, mails, orders, faults,
                     changes, kept, rotations, resets, shown>>

LockedToken(t) == \E h \in Handlers : At(h, "rotate") /\ req[h].more = t

(* Fault: an absent token is deleted without complaint.                     *)
NoMatter(t) == TRUE
Deletes(t) == t \in tokens

RefreshDelete(h) ==
    /\ At(h, "delete")
    /\ ~ LockedToken(req[h].more)
    /\ IF Deletes(req[h].more) THEN Proceed(h) ELSE Stop(h)
    /\ UNCHANGED <<user, tokens, versions, links, mails, orders, served, faults, history>>

RefreshCommit(h) ==
    LET t == req[h].more
    IN  /\ At(h, "rotate")
        /\ tokens' = (tokens \ {t}) \cup
                       {[id |-> req[h].id, begun |-> t.begun, late |-> t.late \/ req[h].begun < changes]}
        /\ versions' = versions \cup {req[h].version}
        /\ rotations' = [rotations EXCEPT ![t.id] = @ + 1]
        /\ Proceed(h)
        /\ UNCHANGED <<user, links, mails, orders, served, faults,
                       changes, kept, resets, shown, muddled, crossed>>

(* logout and logoutByRefreshToken: one session, or all of them with their   *)
(* access tokens left to run out.                                          *)
Logout ==
    /\ \/ \E t \in tokens : ~ LockedToken(t) /\ tokens' = tokens \ {t}
       \/ Authenticated /\ tokens # {} /\ tokens' = {}
    /\ UNCHANGED <<user, versions, links, mails, orders, req, served, faults, history>>

-----------------------------------------------------------------------------
(* changePassword and logoutOtherSessions end every session and start one.  *)
Reissue(h) ==
    /\ Authenticated
    /\ Begin(h, "reissue", <<>>)
    /\ UNCHANGED <<user, tokens, versions, links, mails, orders, faults,
                   changes, kept, rotations, resets, shown>>

PauseAccount(h) ==
    /\ Authenticated
    /\ Begin(h, "pause", <<>>)
    /\ UNCHANGED <<user, tokens, versions, links, mails, orders, faults,
                   changes, kept, rotations, resets, shown>>

Deactivate(h) ==
    /\ At(h, "deactivate")
    /\ user' = [user EXCEPT !.active = FALSE]
    /\ Proceed(h)
    /\ UNCHANGED <<tokens, versions, links, mails, orders, served, faults, history>>

setUserActive ==
    /\ user.kind # "none"
    /\ \E isActive \in BOOLEAN : user' = [user EXCEPT !.active = isActive]
    /\ UNCHANGED <<tokens, versions, links, mails, orders, req, served, faults, history>>

(* invalidateAllSessions: the version first, then the rows.  A session that *)
(* follows in the same request is of the new version.                      *)
Bump(h) ==
    /\ At(h, "bump")
    /\ user' = [user EXCEPT !.version = @ + 1]
    /\ req' = [req EXCEPT ![h] = [Rest(h) EXCEPT !.version = user.version + 1]]
    /\ UNCHANGED <<tokens, versions, links, mails, orders, served, faults, history>>

(* Fault: only the access tokens are ended.                                *)
AllStay == tokens

(* revokeAllRefreshTokens deletes every refresh token of the user           *)
RefreshTokensLeft == {}

(* revokeAllRefreshTokens logs a failure and goes on.                       *)
Wipe(h) ==
    /\ At(h, "wipe")
    /\ \/ tokens' = RefreshTokensLeft /\ UNCHANGED <<kept, faults>>
       \/ faults < MaxFaults /\ faults' = faults + 1 /\ kept' = TRUE /\ UNCHANGED tokens
    /\ changes' = changes + 1
    /\ req' = [req EXCEPT ![h] = IF Rest(h) = Idle THEN Idle
                                 ELSE [Rest(h) EXCEPT !.begun = changes + 1]]
    /\ UNCHANGED <<user, versions, links, mails, orders, served,
                   rotations, resets, shown, muddled, crossed>>

-----------------------------------------------------------------------------
(* forgotPassword deletes the links there are and creates one.              *)
ForgotPassword(h) ==
    /\ user.kind # "none"
    /\ Begin(h, "forgot", <<>>)
    /\ links' = {}
    /\ UNCHANGED <<user, tokens, versions, mails, orders, faults,
                   changes, kept, rotations, resets, shown>>

CreateLink(h) ==
    /\ At(h, "link")
    /\ links' = links \cup {[id |-> req[h].id, used |-> FALSE]}
    /\ Proceed(h)
    /\ UNCHANGED <<user, tokens, versions, mails, orders, served, faults, history>>

ResetPassword(h) ==
    \E l \in links :
      /\ ~ l.used
      /\ Begin(h, "reset", l.id)
      /\ UNCHANGED <<user, tokens, versions, links, mails, orders, faults,
                     changes, kept, rotations, resets, shown>>

Spent(l) == [l EXCEPT !.used = TRUE]

(* A transaction sets the password and marks the link, used or not; without *)
(* the link it fails.                                                      *)
ApplyReset(h) ==
    LET mine == {l \in links : l.id = req[h].more}
    IN  /\ At(h, "apply")
        /\ IF mine = {}
           THEN Stop(h) /\ UNCHANGED <<links, resets>>
           ELSE /\ links' = (links \ mine) \cup {Spent(l) : l \in mine}
                /\ resets' = [resets EXCEPT ![req[h].more] = @ + 1]
                /\ Proceed(h)
        /\ UNCHANGED <<user, tokens, versions, mails, orders, served, faults,
                       changes, kept, rotations, shown, muddled, crossed>>

-----------------------------------------------------------------------------
ChangeEmail(h) ==
    /\ Authenticated
    /\ \E e \in Emails \ {user.email} : Begin(h, "email", e)
    /\ UNCHANGED <<user, tokens, versions, links, mails, orders, faults,
                   changes, kept, rotations, resets, shown>>

(* Fault: the new address counts as verified.                              *)
StillVerified == user.verified
VerifiedAfterChange == FALSE

WriteAddress(h) ==
    /\ At(h, "address")
    /\ user' = [user EXCEPT !.email = req[h].more, !.verified = VerifiedAfterChange]
    /\ req' = [req EXCEPT ![h] = [Rest(h) EXCEPT !.email = req[h].more]]
    /\ UNCHANGED <<tokens, versions, links, mails, orders, served, faults, history>>

(* createEmailVerificationToken deletes the rows there are, then inserts    *)
(* one; the mail goes to the address as read.                              *)
Unlink(h) ==
    /\ At(h, "unlink")
    /\ mails' = {}
    /\ Proceed(h)
    /\ UNCHANGED <<user, tokens, versions, links, orders, served, faults, history>>

SendMail(h) ==
    /\ At(h, "mail")
    /\ mails' = mails \cup {[id |-> req[h].id, to |-> req[h].email, used |-> FALSE]}
    /\ Proceed(h)
    /\ UNCHANGED <<user, tokens, versions, links, orders, served, faults, history>>

ResendVerification(h) ==
    /\ user.kind # "none" /\ ~ user.verified
    /\ Begin(h, "resend", <<>>)
    /\ UNCHANGED <<user, tokens, versions, links, mails, orders, faults,
                   changes, kept, rotations, resets, shown>>

(* A used link is answered without a change.                               *)
VerifyEmail(h) ==
    \E m \in mails :
      /\ ~ m.used
      /\ Begin(h, "verify", m)
      /\ shown' = shown \cup {m.to}
      /\ UNCHANGED <<user, tokens, versions, links, mails, orders, faults,
                     changes, kept, rotations, resets>>

MarkVerified(h) ==
    /\ At(h, "verify")
    /\ user' = [user EXCEPT !.verified = TRUE]
    /\ mails' = {[m EXCEPT !.used = m.used \/ m.id = req[h].more.id] : m \in mails}
    /\ Proceed(h)
    /\ UNCHANGED <<tokens, versions, links, orders, served, faults, history>>

-----------------------------------------------------------------------------
(* register: a new row, refused by its unique key when there is one, or the *)
(* guest's row with a password of the customer's.                          *)
Register(h) ==
    /\ \/ user.kind = "none" /\ Begin(h, "register", <<>>)
       \/ user.kind = "guest" /\ Begin(h, "convert", {})
    /\ UNCHANGED <<user, tokens, versions, links, mails, orders, faults,
                   changes, kept, rotations, resets, shown>>

CreateUser(h) ==
    /\ At(h, "create")
    /\ IF user.kind = "none"
       THEN /\ user' = [user EXCEPT !.kind = "full", !.verified = FALSE]
            /\ shown' = shown \ {First}
            /\ Proceed(h)
       ELSE Stop(h) /\ UNCHANGED <<user, shown>>
    /\ UNCHANGED <<tokens, versions, links, mails, orders, served, faults,
                   changes, kept, rotations, resets, muddled, crossed>>

(* createGuestSession: the row of a guest counts as verified.               *)
CreateGuest ==
    /\ user.kind = "none"
    /\ user' = [user EXCEPT !.kind = "guest"]
    /\ UNCHANGED <<tokens, versions, links, mails, orders, req, served, faults, history>>

ConvertGuest(h) ==
    /\ At(h, "convert")
    /\ user' = [user EXCEPT !.kind = "full"]
    /\ Proceed(h)
    /\ UNCHANGED <<tokens, versions, links, mails, orders, served, faults, history>>

(* A guest's order is placed under the guest's row, or under a row made for *)
(* it when the address is a registered customer's.                         *)
PlaceAsGuest(o) ==
    /\ orders[o].owner = "none" /\ user.kind # "none" /\ user.active
    /\ user.email = First
    /\ orders' = [orders EXCEPT ![o].owner = IF user.kind = "guest" THEN "account" ELSE Shell(o)]
    /\ UNCHANGED <<user, tokens, versions, links, mails, req, served, faults, history>>

Grow(o) ==
    /\ orders[o].owner # "none" /\ orders[o].age # "gone"
    /\ \A h \in Handlers : ~ Busy(h)
    /\ orders' = [orders EXCEPT ![o].age = IF @ = "recent" THEN "past" ELSE "gone"]
    /\ UNCHANGED <<user, tokens, versions, links, mails, req, served, faults, history>>

(* linkEligibleGuestOrdersToUser: orders with the row's address, placed as a *)
(* guest under another row and within the window, one transaction for each. *)
Linkable(e) == {o \in Orders : /\ e = First
                               /\ orders[o].owner = Shell(o)
                               /\ orders[o].age # "gone"}

Candidates(h) ==
    /\ At(h, "candidates")
    /\ req' = [req EXCEPT ![h] = [Rest(h) EXCEPT !.more = Linkable(user.email)]]
    /\ UNCHANGED <<user, tokens, versions, links, mails, orders, served, faults, history>>

Attach(h) ==
    /\ At(h, "attach")
    /\ IF req[h].more = {}
       THEN Proceed(h) /\ UNCHANGED orders
       ELSE \E o \in req[h].more :
              /\ orders' = [orders EXCEPT ![o].owner = "account"]
              /\ req' = [req EXCEPT ![h].more = @ \ {o}]
    /\ UNCHANGED <<user, tokens, versions, links, mails, served, faults, history>>

(* Fault: converted guests are purged as well.                             *)
AnyPurgeable == {"account"}
(* purgeExpiredGuestData: the guests whose orders are all past the limit.    *)
Guests == IF user.kind = "guest" /\ ~ user.purged THEN {"account"} ELSE {}
OrdersOf(u) == {o \in Orders : orders[o].owner = u}
Stale(u) == OrdersOf(u) # {} /\ \A o \in OrdersOf(u) : orders[o].age # "recent"

Purge(h) ==
    \E u \in Guests \cup {Shell(o) : o \in Orders} :
      /\ Stale(u)
      /\ Begin(h, "purge", u)
      /\ UNCHANGED <<user, tokens, versions, links, mails, orders, faults,
                     changes, kept, rotations, resets, shown>>

Scrub(h) ==
    /\ At(h, "scrub")
    /\ orders' = [o \in Orders |-> [orders[o] EXCEPT !.scrubbed = @ \/ orders[o].owner = req[h].more]]
    /\ user' = IF req[h].more = "account" THEN [user EXCEPT !.purged = TRUE] ELSE user
    /\ Proceed(h)
    /\ UNCHANGED <<tokens, versions, links, mails, served, faults, history>>

(* The process dies or a statement fails; a transaction is rolled back.      *)
Fails(h) ==
    /\ Busy(h) /\ faults < MaxFaults
    /\ faults' = faults + 1
    /\ muddled' = (muddled \/ req[h].kind = "email")
    /\ Stop(h)
    /\ UNCHANGED <<user, tokens, versions, links, mails, orders, served,
                   changes, kept, rotations, resets, shown, crossed>>

-----------------------------------------------------------------------------
Request(h) ==
    \/ Login(h) \/ Refresh(h) \/ Reissue(h) \/ PauseAccount(h)
    \/ ForgotPassword(h) \/ ResetPassword(h)
    \/ ChangeEmail(h) \/ ResendVerification(h) \/ VerifyEmail(h)
    \/ Register(h) \/ Purge(h)

Step(h) ==
    \/ Issue(h) \/ RefreshDelete(h) \/ RefreshCommit(h)
    \/ Deactivate(h) \/ Bump(h) \/ Wipe(h)
    \/ CreateLink(h) \/ ApplyReset(h)
    \/ WriteAddress(h) \/ Unlink(h) \/ SendMail(h) \/ MarkVerified(h)
    \/ CreateUser(h) \/ ConvertGuest(h)
    \/ Candidates(h) \/ Attach(h) \/ Scrub(h)
    \/ Fails(h)

Next ==
    \/ \E h \in Handlers : IF Busy(h) THEN Step(h) ELSE Request(h)
    \/ \E o \in Orders : PlaceAsGuest(o) \/ Grow(o)
    \/ Logout \/ setUserActive \/ CreateGuest

Spec == Init /\ [][Next]_vars

-----------------------------------------------------------------------------
(* 'Enterprise session revoke on credential change' (services/auth.service  *)
(* .js, invalidateAllSessions): a session that can still be renewed was      *)
(* begun after the last time all were ended, or is made by a request that   *)
(* was under way then, unless the delete failed and was swallowed.          *)
SignedOut ==
    /\ TypeOK
    /\ \A t \in tokens : t.begun = changes \/ t.late \/ kept

(* 'rotate - consume old refresh, issue a new pair (no reuse)': whoever      *)
(* presents it when, a refresh token has one successor.  A reset link sets  *)
(* one password unless it was presented twice at once.                     *)
TokensServeOnce ==
    /\ \A t \in Serials : rotations[t] <= 1
    /\ \A l \in Serials : resets[l] <= 1 \/ crossed

(* A verified address is one the customer has shown to be theirs, however   *)
(* links, changes and repeated mails follow each other.                    *)
VerifiedIsShown ==
    user.kind = "full" /\ user.verified => user.email \in shown \/ muddled

(* No order of a registered customer loses its addresses to the purge,       *)
(* though orders and guests become customers', unless the guest registered  *)
(* between the job's read and its transaction.                             *)
OnlyGuestsArePurged ==
    [][\A o \in Orders :
         ~ orders[o].scrubbed /\ orders'[o].scrubbed
            => crossed \/ orders[o].owner # "account" \/ user.kind = "guest"]_vars
=============================================================================
