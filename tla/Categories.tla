----------------------------- MODULE Categories -----------------------------
(***************************************************************************)
(* The tree of categories and the products filed under them (services/       *)
(* category.service.js).  Where a category may go is decided on rows read     *)
(* before it is written; the database forbids only that a category with       *)
(* subcategories is deleted, and deletes the products of one that is.        *)
(***************************************************************************)
EXTENDS Desk, FiniteSetsExt

CONSTANTS
    Cats,       \* the categories there may be
    Goods,      \* products to file
    MaxDepth    \* MAX_CATEGORY_DEPTH

VARIABLES
    parent,   \* Category.parentId of each, or Root; Absent before, Gone after it is there
    shelf     \* Product.categoryId of each, or Absent once deleted

tree == <<parent, shelf>>

Root == "root"
Absent == "absent"
Gone == "gone"

(* Names of their own, as ids are the database's and never given again.      *)
ASSUME CategoriesAssumption ==
    /\ IsFiniteSet(Cats) /\ Cats \cap {Root, Absent, Gone} = {}
    /\ MaxDepth \in Nat \ {0}

There(c) == parent[c] \notin {Absent, Gone}
Children(up, c) == {d \in Cats : up[d] = c}

Above == Cats \cup {Root, Absent, Gone}
Climb == 0 .. Cardinality(Cats)   \* steps that a walk may take

(* getDepthFromRoot: undefined where it gives up                             *)
Depth(up, c) ==
    LET upTo[n \in Climb] ==
            [d \in Above |-> IF d \notin Cats THEN 0
                             ELSE IF n = 0 THEN MaxDepth + 1 ELSE 1 + upTo[n - 1][up[d]]]
    IN  upTo[Cardinality(Cats)][c]

(* subtreeMaxDepthFromNode, which a cycle sends too deep                     *)
Height(up, c) ==
    LET downTo[n \in Climb] ==
            [d \in Cats |-> IF n = 0 THEN MaxDepth
                            ELSE 1 + Max({0} \cup {downTo[n - 1][e] : e \in Children(up, d)})]
    IN  downTo[Cardinality(Cats)][c]

(* assertNotDescendant walks up from the new parent.                         *)
Under(up, c, d) ==
    LET meets[n \in Climb] ==
            [e \in Above |-> e \in Cats /\ n > 0 /\ (e = c \/ meets[n - 1][up[e]])]
    IN  meets[Cardinality(Cats)][d]

CategoriesInit ==
    /\ parent \in [Cats -> {Root, Absent}]
    /\ shelf \in [Goods -> {c \in Cats : parent[c] = Root}]

-----------------------------------------------------------------------------
(* createCategory: an unknown parent fails on its foreign key.               *)
CreateCategory(h) ==
    \E c \in Cats, up \in Cats \cup {Root} :
        /\ parent[c] = Absent /\ (up \in Cats => There(up))
        /\ Depth(parent, up) + 1 <= MaxDepth
        /\ \A g \in Doing({"create"}) : req[g].read.cat # c
        /\ Begin(h, "create", <<"hang">>, [cat |-> c, up |-> up])
        /\ UNCHANGED tree

(* updateCategory: the rows are read for the subtree and its descendants,    *)
(* the depth of the new parent after them.                                   *)
MoveCategory(h) ==
    \E c \in Cats, up \in Cats \cup {Root} :
        /\ There(c) /\ (up \in Cats => There(up) /\ ~ Under(parent, c, up))
        /\ Begin(h, "reparent", <<"weigh", "hang">>,
                 [cat |-> c, up |-> up, height |-> Height(parent, c)])
        /\ UNCHANGED tree

WeighParent(h) ==
    LET read == req[h].read
    IN  /\ At(h, "weigh")
        /\ IF Depth(parent, read.up) + read.height > MaxDepth THEN Stop(h) ELSE Proceed(h)
        /\ UNCHANGED tree

HangCategory(h) ==
    LET read == req[h].read
        can == /\ read.up \in Cats => There(read.up)
               /\ req[h].kind = "reparent" => There(read.cat)
    IN  /\ At(h, "hang") /\ Proceed(h)
        /\ parent' = IF can THEN [parent EXCEPT ![read.cat] = read.up] ELSE parent
        /\ UNCHANGED shelf

(* deleteCategory of one that has neither products nor subcategories; its     *)
(* delete takes the products that have it by then.                           *)
DeleteCategory(h) ==
    \E c \in Cats :
        /\ There(c) /\ Children(parent, c) = {} /\ \A g \in Goods : shelf[g] # c
        /\ Begin(h, "prune", <<"prune">>, [cat |-> c])
        /\ UNCHANGED tree

Prune(h) ==
    LET c == req[h].read.cat
    IN  /\ At(h, "prune") /\ Proceed(h)
        /\ IF ~ There(c) \/ Children(parent, c) # {} THEN UNCHANGED tree
           ELSE /\ parent' = [parent EXCEPT ![c] = Gone]
                /\ shelf' = [g \in Goods |-> IF shelf[g] = c THEN Absent ELSE shelf[g]]

(* A product is filed under another category, which must exist.              *)
FileProduct(h) ==
    \E g \in Goods, c \in Cats :
        /\ shelf[g] # Absent /\ There(c)
        /\ Begin(h, "file", <<>>, {})
        /\ shelf' = [shelf EXCEPT ![g] = c]
        /\ UNCHANGED parent

CategoriesStep(h) ==
    \/ CreateCategory(h) \/ MoveCategory(h) \/ WeighParent(h) \/ HangCategory(h)
    \/ DeleteCategory(h) \/ Prune(h) \/ FileProduct(h)

-----------------------------------------------------------------------------
(* Unless two categories were placed at once, each hangs from the root by a   *)
(* path no longer than the limit, through categories that exist; and no       *)
(* product is lost with a category, unless it was filed there while the        *)
(* category was being deleted.                                               *)
TreeIsSound ==
    /\ Apart("create", "reparent") /\ Apart("reparent", "reparent") =>
        \A c \in Cats : There(c) => Depth(parent, c) <= MaxDepth
    /\ \A c \in Cats : parent[c] \in Cats => There(parent[c])
    /\ Apart("prune", "file") => \A g \in Goods : shelf[g] # Absent
=============================================================================
