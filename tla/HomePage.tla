------------------------------ MODULE HomePage ------------------------------
(***************************************************************************)
(* The slides of the home page: staff add, change, hide, delete and reorder   *)
(* them, and the first visitor of a page without slides has the default ones   *)
(* made (services/homepage-carousel.service.js,                               *)
(* scripts/seed-homepage-carousel.js).                                        *)
(***************************************************************************)
EXTENDS Desk, FiniteSetsExt

CONSTANTS
    Defaults     \* how many default slides there are

ASSUME HomePageAssumption == Defaults \in Nat \ {0}

VARIABLES
    slide,     \* HomepageCarouselSlide rows by number, those deleted included
    byHand,    \* history: a position was given by hand
    saves      \* history: how many saves gave cards

homepage == <<slide, byHand, saves>>

Own == 0       \* a slide of the staff's; the default ones are 1 .. Defaults
NewSlide(what, pos) ==
    [what |-> what, pos |-> pos, active |-> TRUE, there |-> TRUE, cards |-> {}, meant |-> {}]

Slides == {s \in DOMAIN slide : slide[s].there}
ActiveSlides == {s \in Slides : slide[s].active}

(* The page is empty, or has the default slides and may be hidden.           *)
HomePageInit ==
    /\ slide \in {<<>>, [k \in 1 .. Defaults |-> NewSlide(k, k - 1)],
                  [k \in 1 .. Defaults |-> [NewSlide(k, k - 1) EXCEPT !.active = FALSE]]}
    /\ byHand = FALSE /\ saves = 0

-----------------------------------------------------------------------------
(* listPublicHomepageCarousel: without an active slide the seed is run; it     *)
(* does nothing where there is any slide, else makes the defaults one by one.  *)
Visit(h) ==
    /\ Begin(h, "visit", IF ActiveSlides = {} THEN <<"seed">> ELSE <<>>, [force |-> FALSE])
    /\ UNCHANGED homepage

(* The script, with --force: what is there is deleted first.                 *)
Reseed(h) ==
    /\ Begin(h, "reseed", <<"seed">>, [force |-> TRUE])
    /\ UNCHANGED homepage

Planting == [k \in 1 .. Defaults |-> "plant"]

CountSlides(h) ==
    /\ At(h, "seed")
    /\ GoOn(h, CASE Slides = {} -> Planting
                 [] Slides # {} /\ req[h].read.force -> <<"clear">> \o Planting
                 [] OTHER -> <<>>, req[h].read)
    /\ UNCHANGED homepage

ClearSlides(h) ==
    /\ At(h, "clear") /\ Proceed(h)
    /\ slide' = [s \in DOMAIN slide |-> [slide[s] EXCEPT !.there = FALSE]]
    /\ UNCHANGED <<byHand, saves>>

Plant(h) ==
    LET k == Defaults + 1 - Len(req[h].todo)
    IN  /\ At(h, "plant") /\ Proceed(h)
        /\ slide' = Append(slide, NewSlide(k, k - 1))
        /\ UNCHANGED <<byHand, saves>>

-----------------------------------------------------------------------------
(* createHomepageCarouselSlide: after the last position, unless one is given   *)
Add(h) ==
    \E given \in BOOLEAN :
        /\ Begin(h, "add", <<"add">>,
                 [pos |-> IF given \/ Slides = {} THEN 0 ELSE Max({slide[s].pos : s \in Slides}) + 1])
        /\ byHand' = (byHand \/ given)
        /\ UNCHANGED <<slide, saves>>

WriteSlide(h) ==
    /\ At(h, "add") /\ Stop(h)
    /\ slide' = Append(slide, NewSlide(Own, req[h].read.pos))
    /\ UNCHANGED <<byHand, saves>>

(* updateHomepageCarouselSlide: the transaction deletes the cards that it sees *)
(* and writes the new ones; a slide deleted meanwhile makes it fail.  The form *)
(* may give a position too.                                                  *)
SaveSlide(h) ==
    \E s \in Slides, given, placed \in BOOLEAN :
        /\ Begin(h, "save", IF given THEN <<"cards", "store">> ELSE <<"store">>,
                 [which |-> s, old |-> {}, new |-> IF given THEN {saves + 1} ELSE {}, given |-> given,
                  placed |-> placed])
        /\ saves' = IF given THEN saves + 1 ELSE saves
        /\ byHand' = (byHand \/ placed)
        /\ UNCHANGED slide

DeleteCards(h) ==
    LET read == req[h].read
    IN  /\ At(h, "cards")
        /\ GoOn(h, <<"store">>, [read EXCEPT !.old = slide[read.which].cards])
        /\ UNCHANGED homepage

WriteSave(h) ==
    LET read == req[h].read
        s == read.which
    IN  /\ At(h, "store") /\ Stop(h)
        /\ \E active \in {TRUE, slide[s].active} :
              slide' = IF slide[s].there
                       THEN [slide EXCEPT ![s].cards = (@ \ read.old) \cup read.new,
                                          ![s].active = active,
                                          ![s].meant = IF read.given THEN read.new ELSE @,
                                          ![s].pos = IF read.placed THEN 0 ELSE @]
                       ELSE slide
        /\ UNCHANGED <<byHand, saves>>

(* deleteHomepageCarouselSlide only hides; hardDelete deletes with the cards.  *)
Hide(h) ==
    \E s \in Slides :
        /\ Begin(h, "hide", <<>>, {})
        /\ slide' = [slide EXCEPT ![s].active = FALSE]
        /\ UNCHANGED <<byHand, saves>>

HardDelete(h) ==
    \E s \in Slides :
        /\ Begin(h, "delete", <<>>, {})
        /\ slide' = [slide EXCEPT ![s].there = FALSE]
        /\ UNCHANGED <<byHand, saves>>

(* reorderHomepageCarousel: the slides staff have before them, in a new order;  *)
(* one transaction, which fails if one of them is gone.                       *)
Reorder(h) ==
    \E order \in {f \in [1 .. Cardinality(Slides) -> Slides] : \A i, j \in DOMAIN f :
                      i # j => f[i] # f[j]} :
        /\ order # <<>>
        /\ Begin(h, "arrange", <<"arrange">>, [order |-> order])
        /\ UNCHANGED homepage

WriteOrder(h) ==
    LET order == req[h].read.order
    IN  /\ At(h, "arrange") /\ Stop(h)
        /\ slide' = IF \A i \in DOMAIN order : slide[order[i]].there
                    THEN [s \in DOMAIN slide |->
                            IF \E i \in DOMAIN order : order[i] = s
                            THEN [slide[s] EXCEPT !.pos = (CHOOSE i \in DOMAIN order : order[i] = s) - 1]
                            ELSE slide[s]]
                    ELSE slide
        /\ UNCHANGED <<byHand, saves>>

HomePageStep(h) ==
    \/ Visit(h) \/ Reseed(h) \/ CountSlides(h) \/ ClearSlides(h) \/ Plant(h)
    \/ Add(h) \/ WriteSlide(h) \/ SaveSlide(h) \/ DeleteCards(h) \/ WriteSave(h)
    \/ Hide(h) \/ HardDelete(h) \/ Reorder(h) \/ WriteOrder(h)

-----------------------------------------------------------------------------
(* Unless two of what places slides overlapped, or a position was given, no two *)
(* slides of the home page have one position; no default slide is made twice     *)
(* ("Idempotent seed") unless two visitors or scripts found the page empty at    *)
(* once; and a slide has the cards of its last save alone, unless two saves       *)
(* overlapped.                                                               *)
Placing == {"add", "arrange", "visit", "reseed"}
HomePageAsArranged ==
    /\ ~ byHand /\ (\A pair \in crossed : ~ (pair \subseteq Placing)) =>
          \A s, t \in Slides : s # t => slide[s].pos # slide[t].pos
    /\ Apart("visit", "visit") /\ Apart("visit", "reseed") /\ Apart("reseed", "reseed") =>
          \A s, t \in Slides : slide[s].what = slide[t].what /\ slide[s].what # Own => s = t
    /\ Apart("save", "save") => \A s \in Slides : slide[s].cards = slide[s].meant
=============================================================================
