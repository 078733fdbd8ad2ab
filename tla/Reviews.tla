------------------------------ MODULE Reviews ------------------------------
(***************************************************************************)
(* Reviews of one product by customers who bought it and got it, and the     *)
(* rating the product shows (services/product-review.service.js).  Every     *)
(* write of a review is followed by a count of the live ones and a write of   *)
(* the result to the product: three statements, no transaction.             *)
(***************************************************************************)
EXTENDS Desk, Functions

CONSTANTS
    Customers,   \* customers with a delivered purchase of the product
    Stars        \* the ratings they give

ASSUME ReviewsAssumption ==
    IsFiniteSet(Customers) /\ IsFiniteSet(Stars) /\ Stars \subseteq Nat

VARIABLES
    review,   \* ProductReview rows, one of each customer at most
    rating,   \* averageRating in tenths, reviewCount and ratingBreakdown of the product
    barred    \* history: customers whose review staff took down since they last posted

reviews == <<review, rating, barred>>

NoReview == [status |-> "none", stars |-> 0, deleted |-> FALSE]

(* recomputeProductRating of a breakdown: the mean, rounded half up.         *)
Rated(breakdown) ==
    LET total == SumFunctionOnSet(breakdown, Stars)
        sum == SumFunctionOnSet([s \in Stars |-> s * breakdown[s]], Stars)
    IN  [average |-> IF total = 0 THEN 0 ELSE (20 * sum + total) \div (2 * total),
         count |-> total, breakdown |-> breakdown]

ReviewsInit ==
    /\ review = [c \in Customers |-> NoReview]
    /\ rating = Rated([s \in Stars |-> 0])
    /\ barred = {}

Shown(c) == review[c].status = "APPROVED" /\ ~ review[c].deleted

(* Every request finds the customer's row first, and goes on with it.        *)
Take(h, kind, c, change) ==
    /\ Begin(h, kind, <<"post", "count", "rate">>, [who |-> c, old |-> review[c], new |-> change])
    /\ UNCHANGED reviews

(* createProductReview: a rejected or deleted review is written anew.        *)
CreateReview(h) ==
    \E c \in Customers, s \in Stars :
        /\ ~ Shown(c)
        /\ Take(h, "review", c, [status |-> "APPROVED", stars |-> s, deleted |-> FALSE])

(* updateProductReview: not of a rejected one                                *)
EditReview(h) ==
    \E c \in Customers, s \in Stars :
        /\ Shown(c)
        /\ Take(h, "amend", c, [status |-> "APPROVED", stars |-> s])

(* deleteOwnProductReview, removeProductReviewAdmin, rejectProductReview     *)
DeleteReview(h) ==
    \E c \in Customers, kind \in {"retract", "remove"} :
        /\ review[c].status # "none" /\ ~ review[c].deleted
        /\ Take(h, kind, c, [deleted |-> TRUE])
RejectReview(h) ==
    \E c \in Customers :
        /\ review[c].status # "none" /\ ~ review[c].deleted
        /\ Take(h, "remove", c, [status |-> "REJECTED"])

(* The write names the fields it sets; a create finds the row made meanwhile *)
(* and fails on its unique key.                                              *)
Overwritten(row, change) ==
    [f \in DOMAIN row |-> IF f \in DOMAIN change THEN change[f] ELSE row[f]]

PostReview(h) ==
    LET read == req[h].read
        twice == read.old.status = "none" /\ review[read.who].status # "none"
    IN  /\ At(h, "post")
        /\ IF twice THEN Stop(h) /\ UNCHANGED reviews
           ELSE /\ Proceed(h)
                /\ review' = [review EXCEPT ![read.who] = Overwritten(@, read.new)]
                /\ barred' = IF req[h].kind = "remove" THEN barred \cup {read.who}
                             ELSE IF req[h].kind = "review" THEN barred \ {read.who}
                             ELSE barred
                /\ UNCHANGED rating

(* Fault: deleted reviews are counted.                                      *)
CountedAll(s) ==
    Cardinality({c \in Customers : review[c].status = "APPROVED" /\ review[c].stars = s})

Counted(s) == Cardinality({c \in Customers : Shown(c) /\ review[c].stars = s})

CountReviews(h) ==
    /\ At(h, "count")
    /\ GoOn(h, <<"rate">>, [breakdown |-> [s \in Stars |-> Counted(s)]])
    /\ UNCHANGED reviews

WriteRating(h) ==
    /\ At(h, "rate") /\ Proceed(h)
    /\ rating' = Rated(req[h].read.breakdown)
    /\ UNCHANGED <<review, barred>>

ReviewsStep(h) ==
    \/ CreateReview(h) \/ EditReview(h) \/ DeleteReview(h) \/ RejectReview(h)
    \/ PostReview(h) \/ CountReviews(h) \/ WriteRating(h)

-----------------------------------------------------------------------------
(* Once no request is at work, and if none overlapped another or stopped      *)
(* midway, the product shows how many live reviews gave each rating and a     *)
(* mean within half a tenth of theirs; and a review that staff took down is   *)
(* not shown before its author posts anew, unless an edit was under way.      *)
ReviewKinds == {"review", "amend", "retract", "remove"}
RatingIsTrue ==
    /\ Quiet(ReviewKinds) /\ InTurn(ReviewKinds) =>
        LET live == {c \in Customers : Shown(c)}
            sum == SumFunctionOnSet([c \in live |-> review[c].stars], live)
            error == 2 * (rating.average * Cardinality(live) - 10 * sum)
        IN  /\ \A s \in Stars :
                  rating.breakdown[s] = Cardinality({c \in live : review[c].stars = s})
            /\ -Cardinality(live) <= error /\ error <= Cardinality(live)
    /\ Apart("remove", "amend") => \A c \in barred : ~ Shown(c)
=============================================================================
