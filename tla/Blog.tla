-------------------------------- MODULE Blog --------------------------------
(***************************************************************************)
(* Articles: staff write, feature, schedule, publish and delete them, and    *)
(* the scheduled job publishes those whose time has come (services/blog      *)
(* .service.js).  The articles here share a title, so that their slugs       *)
(* differ by a number only.                                                  *)
(***************************************************************************)
EXTENDS Desk

CONSTANTS
    Posts,        \* the articles that may be written
    FeaturedMax   \* BLOG_FEATURED_LIMIT

ASSUME BlogAssumption == IsFiniteSet(Posts) /\ FeaturedMax \in Nat

VARIABLES
    post,     \* BlogPost rows
    asked     \* history: what staff last wanted of each article

blog == <<post, asked>>

NoPost == [status |-> "none", slug |-> 0, featured |-> FALSE, at |-> "never", deleted |-> FALSE]

BlogInit ==
    post = [p \in Posts |-> NoPost] /\ asked = [p \in Posts |-> "DRAFT"]

Kept(p) == post[p].status # "none" /\ ~ post[p].deleted

(* uniqueLiveSlug: the first number that no other live article has           *)
FreeSlug(p) ==
    LET used == {post[q].slug : q \in {q \in Posts \ {p} : Kept(q)}}
    IN  CHOOSE n \in 1 .. Cardinality(Posts) :
            n \notin used /\ \A k \in 1 .. n - 1 : k \in used

(* assertFeaturedSlotAvailable                                               *)
SlotFor(p) == Cardinality({q \in Posts \ {p} : Kept(q) /\ post[q].featured}) < FeaturedMax

Change(h, kind, p, change) ==
    /\ Begin(h, kind, <<"put">>, [post |-> p, change |-> change])
    /\ UNCHANGED blog

WritePost(h) ==
    \E p \in Posts, star \in BOOLEAN :
        /\ post[p].status = "none" /\ (star => SlotFor(p))
        /\ \A g \in Doing({"draft"}) : req[g].read.post # p
        /\ Change(h, "draft", p, [NoPost EXCEPT !.status = "DRAFT", !.slug = FreeSlug(p),
                                                !.featured = star])

(* The copy is a draft, of its own slug, and featured nowhere.               *)
DuplicatePost(h) ==
    \E p, source \in Posts :
        /\ Kept(source) /\ post[p].status = "none"
        /\ \A g \in Doing({"draft"}) : req[g].read.post # p
        /\ Change(h, "draft", p, [NoPost EXCEPT !.status = "DRAFT", !.slug = FreeSlug(p)])

(* updatePost: the slug is chosen again if it is edited.                     *)
EditPost(h) ==
    \E p \in Posts, star, reslug \in BOOLEAN :
        /\ Kept(p) /\ (star /\ ~ post[p].featured => SlotFor(p))
        /\ Change(h, "edit", p, [featured |-> star,
                                 slug |-> IF reslug THEN FreeSlug(p) ELSE post[p].slug])

FeaturePost(h) ==
    \E p \in Posts, star \in BOOLEAN :
        /\ Kept(p) /\ (star /\ ~ post[p].featured => SlotFor(p))
        /\ Change(h, "edit", p, [featured |-> star])

(* publishPost, unpublishPost, schedulePost                                  *)
SetPostStatus(h) ==
    \E p \in Posts, s \in {"PUBLISHED", "DRAFT", "SCHEDULED"} :
        /\ Kept(p)
        /\ Change(h, "status", p, [status |-> s,
                                   at |-> IF s = "SCHEDULED" THEN "later" ELSE "never"])

DeletePost(h) ==
    \E p \in Posts :
        /\ Kept(p)
        /\ Change(h, "status", p, [deleted |-> TRUE, featured |-> FALSE])

Put(h) ==
    LET p == req[h].read.post
        change == req[h].read.change
    IN  /\ At(h, "put") /\ Proceed(h)
        /\ post' = [post EXCEPT ![p] =
                      [f \in DOMAIN @ |-> IF f \in DOMAIN change THEN change[f] ELSE @[f]]]
        /\ asked' = [asked EXCEPT ![p] = IF "status" \in DOMAIN change THEN change.status ELSE @]

-----------------------------------------------------------------------------
(* The time of a scheduled article comes.                                    *)
TimeComes(h) ==
    \E p \in Posts :
        /\ post[p].at = "later"
        /\ Begin(h, "clock", <<>>, {})
        /\ post' = [post EXCEPT ![p].at = "past"]
        /\ UNCHANGED asked

(* Fault: the time is not looked at.                                        *)
AnyScheduled == {p \in Posts : Kept(p) /\ post[p].status = "SCHEDULED"}

Due == {p \in Posts : Kept(p) /\ post[p].status = "SCHEDULED" /\ post[p].at = "past"}

(* publishDueScheduledPosts: the due articles are read, then written one     *)
(* after the other, whatever they have become.                              *)
FindDue(h) ==
    LET found == Due
    IN  /\ Begin(h, "publisher", IF found = {} THEN <<>> ELSE <<"publish">>, [found |-> found])
        /\ UNCHANGED blog

PublishDue(h) ==
    \E p \in req[h].read.found :
        LET rest == req[h].read.found \ {p}
        IN  /\ GoOn(h, IF rest = {} THEN <<>> ELSE <<"publish">>, [found |-> rest])
            /\ post' = [post EXCEPT ![p].status = "PUBLISHED", ![p].at = "never"]
            /\ asked' = [asked EXCEPT ![p] = IF @ = "SCHEDULED" /\ post[p].at = "past"
                                             THEN "PUBLISHED" ELSE @]

BlogStep(h) ==
    \/ WritePost(h) \/ DuplicatePost(h) \/ EditPost(h) \/ FeaturePost(h)
    \/ SetPostStatus(h) \/ DeletePost(h) \/ Put(h)
    \/ TimeComes(h) \/ FindDue(h)
    \/ (At(h, "publish") /\ PublishDue(h))

-----------------------------------------------------------------------------
(* The storefront shows what staff asked for: no article is public that they *)
(* withdrew or scheduled for later, unless they did while the job was at      *)
(* work; no more articles are featured than the limit and no two live ones    *)
(* share a slug, unless two were written or edited at once.                  *)
BlogAsAsked ==
    /\ Apart("publisher", "status") => \A p \in Posts : Kept(p) => post[p].status = asked[p]
    /\ Apart("draft", "draft") /\ Apart("draft", "edit") /\ Apart("edit", "edit") =>
        /\ Cardinality({p \in Posts : Kept(p) /\ post[p].featured}) <= FeaturedMax
        /\ \A p, q \in Posts : Kept(p) /\ Kept(q) /\ p # q => post[p].slug # post[q].slug
=============================================================================
