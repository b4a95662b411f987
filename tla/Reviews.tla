------------------------------ MODULE Reviews ------------------------------
(***************************************************************************)
(* The reviews of a product: ReviewService.create, update and delete, and  *)
(* the rating columns of the product's row that summarize them.            *)
(*                                                                         *)
(* create and update recompute the columns with updateRatingAndCount       *)
(* called without the transaction's client: on a connection of its own     *)
(* from the pool, which sees what is committed and commits at once, while  *)
(* the transaction keeps the connection it has.  delete recomputes inside  *)
(* its transaction.  Isolation is READ COMMITTED; a row written by a       *)
(* transaction is locked to its end.                                       *)
(*                                                                         *)
(* The columns averageRating and reviewsCount are represented by the       *)
(* reviews they were computed from.                                        *)
(***************************************************************************)
EXTENDS Naturals, FiniteSets

CONSTANTS
  Users,      \* who review
  Ratings,    \* stars a review may give, 1..5 in the code
  Handlers,   \* requests being served at once
  Pool,       \* connections of the pool, pg's default of 10 in the code
  None        \* no user, no handler

NoReview == 0   \* a user's review that is not there

ASSUME RatingsAssumption == Ratings \subseteq Nat \ {NoReview}
ASSUME NoneAssumption == None \notin Users \union Handlers
ASSUME HandlersAssumption == IsFiniteSet(Handlers)
ASSUME PoolAssumption == Pool \in Nat \ {0}

VARIABLES
  reviews,      \* table Review: the stars each user gave
  rated,        \* the reviews the product's rating columns were computed from
  buyers,       \* users with a completed and paid order of the product
  rowLock,      \* the handler that has written each user's review, not yet committed
  productLock,  \* the handler that has written the product's row, not yet committed
  proc,         \* the step each handler is at, and its locals
  published     \* history: reviews that were committed once

vars == <<reviews, rated, buyers, rowLock, productLock, proc, published>>

Stars == Ratings \union {NoReview}
Nothing == [u \in Users |-> NoReview]

(* stars: what the transaction will leave; tx: "none", "open" or "closed". *)
Handler(pc, u, stars, verified) ==
  [pc |-> pc, user |-> u, stars |-> stars, verified |-> verified,
   seen |-> Nothing, found |-> TRUE, tx |-> "none"]

Idle == Handler("idle", None, NoReview, FALSE)

Init ==
  /\ reviews = Nothing
  /\ rated = Nothing
  /\ buyers = {}
  /\ rowLock = [u \in Users |-> None]
  /\ productLock = None
  /\ proc = [h \in Handlers |-> Idle]
  /\ published = {}

At(h, pc) == proc[h].pc = pc
InTx(h) == proc[h].tx = "open"
User(h) == proc[h].user

(* A transaction keeps a connection; any other query needs one for itself. *)
FreeConnection == Cardinality({h \in Handlers : InTx(h)}) < Pool

(***************************************************************************)
(* The reads before the transaction.  A request they refuse changes        *)
(* nothing.                                                                *)
(***************************************************************************)
CreateRead(h, u, stars) ==
  /\ At(h, "idle") /\ FreeConnection
  /\ reviews[u] = NoReview
  /\ proc' = [proc EXCEPT ![h] = Handler("insert", u, stars, u \in buyers)]
  /\ UNCHANGED <<reviews, rated, buyers, rowLock, productLock, published>>

(* NoReview for stars: an update of the comment alone.                     *)
UpdateRead(h, u, stars) ==
  /\ At(h, "idle") /\ FreeConnection
  /\ reviews[u] # NoReview
  /\ proc' = [proc EXCEPT ![h] = Handler("modify", u, stars, FALSE)]
  /\ UNCHANGED <<reviews, rated, buyers, rowLock, productLock, published>>

DeleteRead(h, u) ==
  /\ At(h, "idle") /\ FreeConnection
  /\ reviews[u] # NoReview
  /\ proc' = [proc EXCEPT ![h] = Handler("remove", u, NoReview, FALSE)]
  /\ UNCHANGED <<reviews, rated, buyers, rowLock, productLock, published>>

(***************************************************************************)
(* The transaction: its own writes first.                                  *)
(***************************************************************************)
Begin(h) ==
  /\ proc[h].pc \in {"insert", "modify", "remove"} /\ proc[h].tx = "none"
  /\ FreeConnection
  /\ proc' = [proc EXCEPT ![h].tx = "open"]
  /\ UNCHANGED <<reviews, rated, buyers, rowLock, productLock, published>>

LockRow(h) ==
  /\ InTx(h)
  /\ rowLock[User(h)] = None
  /\ rowLock' = [rowLock EXCEPT ![User(h)] = h]

(* The insert waits for a transaction that has written the same key, and   *)
(* fails if the key is then taken.  Review.orderId is NOT NULL: a review   *)
(* without an order is refused by the client.                              *)
Insert(h) ==
  /\ At(h, "insert") /\ proc[h].verified
  /\ reviews[User(h)] = NoReview
  /\ LockRow(h)
  /\ proc' = [proc EXCEPT ![h].pc = "recount"]
  /\ UNCHANGED <<reviews, rated, buyers, productLock, published>>

Modify(h) ==
  /\ At(h, "modify") /\ proc[h].found
  /\ LockRow(h)
  /\ proc' = [proc EXCEPT ![h] =
       IF @.stars = NoReview
       THEN [@ EXCEPT !.pc = "commit", !.stars = reviews[User(h)]]
       ELSE [@ EXCEPT !.pc = "recount"]]
  /\ UNCHANGED <<reviews, rated, buyers, productLock, published>>

Remove(h) ==
  /\ At(h, "remove") /\ proc[h].found
  /\ LockRow(h)
  /\ proc' = [proc EXCEPT ![h].pc = "recountInTx"]
  /\ UNCHANGED <<reviews, rated, buyers, productLock, published>>

(***************************************************************************)
(* updateRatingAndCount: one SELECT, then one UPDATE of the product.       *)
(* Outside the transaction both need a connection of their own, and go on  *)
(* even if the transaction has been rolled back meanwhile.                 *)
(***************************************************************************)
Recount_OwnReview(h) ==
  /\ At(h, "recount") /\ FreeConnection
  /\ proc' = [proc EXCEPT ![h].pc = "store",
                          ![h].seen = [reviews EXCEPT ![User(h)] = proc[h].stars]]
  /\ UNCHANGED <<reviews, rated, buyers, rowLock, productLock, published>>

Recount(h) ==
  /\ At(h, "recount") /\ FreeConnection
  /\ proc' = [proc EXCEPT ![h].pc = "store", ![h].seen = reviews]
  /\ UNCHANGED <<reviews, rated, buyers, rowLock, productLock, published>>

Store(h) ==
  /\ At(h, "store") /\ FreeConnection
  /\ productLock = None
  /\ rated' = proc[h].seen
  /\ proc' = [proc EXCEPT ![h].pc = "commit", ![h].seen = Nothing]
  /\ UNCHANGED <<reviews, buyers, rowLock, productLock, published>>

(* In the transaction its own delete is seen, and the product's row stays  *)
(* locked, its columns unseen by others, until the commit.                 *)
RecountInTx(h) ==
  /\ At(h, "recountInTx") /\ InTx(h)
  /\ proc' = [proc EXCEPT ![h].pc = "storeInTx",
                          ![h].seen = [reviews EXCEPT ![User(h)] = NoReview]]
  /\ UNCHANGED <<reviews, rated, buyers, rowLock, productLock, published>>

StoreInTx(h) ==
  /\ At(h, "storeInTx") /\ InTx(h)
  /\ productLock = None
  /\ productLock' = h
  /\ proc' = [proc EXCEPT ![h].pc = "commit"]
  /\ UNCHANGED <<reviews, rated, buyers, rowLock, published>>

(***************************************************************************)
(* The end of the transaction.                                             *)
(***************************************************************************)
Unlock_RowsOnly(h) ==
  /\ rowLock' = [u \in Users |-> IF rowLock[u] = h THEN None ELSE rowLock[u]]
  /\ UNCHANGED productLock

Unlock(h) ==
  /\ rowLock' = [u \in Users |-> IF rowLock[u] = h THEN None ELSE rowLock[u]]
  /\ productLock' = IF productLock = h THEN None ELSE productLock

(* A handler that found a review by its id finds it no more once it is     *)
(* deleted, even if its author writes another.                             *)
Overtaken(g, h) ==
  /\ proc[h].stars = NoReview
  /\ User(g) = User(h)
  /\ proc[g].pc \in {"modify", "remove"}

Commit(h) ==
  /\ At(h, "commit") /\ InTx(h)
  /\ reviews' = [reviews EXCEPT ![User(h)] = proc[h].stars]
  /\ rated' = IF productLock = h THEN proc[h].seen ELSE rated
  /\ Unlock(h)
  /\ proc' = [g \in Handlers |->
       IF g = h THEN Idle
       ELSE IF Overtaken(g, h) THEN [proc[g] EXCEPT !.found = FALSE] ELSE proc[g]]
  /\ published' =
       IF proc[h].stars = NoReview THEN published ELSE published \union {<<User(h), proc[h].stars>>}
  /\ UNCHANGED buyers

(* A request ends early: a call throws, the process crashes.               *)
Fail(h) ==
  /\ ~At(h, "idle")
  /\ Unlock(h)
  /\ proc' = [proc EXCEPT ![h] = Idle]
  /\ UNCHANGED <<reviews, rated, buyers, published>>

Timeout_Never(h) == FALSE /\ UNCHANGED vars

(* Prisma rolls back a transaction open for too long.                      *)
Timeout(h) ==
  /\ InTx(h)
  /\ Unlock(h)
  /\ proc' = [proc EXCEPT ![h].tx = "closed"]
  /\ UNCHANGED <<reviews, rated, buyers, published>>

(* What makes the next query of a handler throw for certain.               *)
Doomed(h) ==
  \/ /\ proc[h].tx = "closed"
     /\ proc[h].pc \in {"insert", "modify", "remove", "recountInTx", "storeInTx", "commit"}
  \/ InTx(h) /\ At(h, "insert") /\ ~proc[h].verified
  \/ InTx(h) /\ At(h, "insert") /\ reviews[User(h)] # NoReview /\ rowLock[User(h)] = None
  \/ InTx(h) /\ proc[h].pc \in {"modify", "remove"} /\ ~proc[h].found

Throw(h) == Doomed(h) /\ Fail(h)

(***************************************************************************)
(* Orders elsewhere: a paid order is completed, and a tenant may set the   *)
(* status of a completed order to anything.                                *)
(***************************************************************************)
CompleteOrder(u) ==
  /\ buyers' = buyers \union {u}
  /\ UNCHANGED <<reviews, rated, rowLock, productLock, proc, published>>

ReopenOrder(u) ==
  /\ u \in buyers
  /\ buyers' = buyers \ {u}
  /\ UNCHANGED <<reviews, rated, rowLock, productLock, proc, published>>

(***************************************************************************)
(* The specification.                                                      *)
(***************************************************************************)
Request(h) ==
  \E u \in Users :
    \/ DeleteRead(h, u)
    \/ \E stars \in Ratings : CreateRead(h, u, stars)
    \/ \E stars \in Stars : UpdateRead(h, u, stars)

HandlerStep(h) ==
  \/ Begin(h) \/ Insert(h) \/ Modify(h) \/ Remove(h)
  \/ Recount(h) \/ Store(h) \/ RecountInTx(h) \/ StoreInTx(h)
  \/ Commit(h) \/ Throw(h)

Next ==
  \/ \E h \in Handlers : Request(h) \/ HandlerStep(h) \/ Fail(h) \/ Timeout(h)
  \/ \E u \in Users : CompleteOrder(u) \/ ReopenOrder(u)

Spec == Init /\ [][Next]_vars

(* Connections and rows are given to those that wait for them in turn, and *)
(* no transaction stays open for ever.                                     *)
Fairness ==
  \A h \in Handlers : SF_vars(HandlerStep(h)) /\ WF_vars(Timeout(h))

FairSpec == Spec /\ Fairness

(***************************************************************************)
(* Properties.                                                             *)
(***************************************************************************)
HandlerPCs ==
  {"idle", "insert", "modify", "remove", "recount", "store", "recountInTx", "storeInTx",
   "commit"}

HandlerState ==
  [pc : HandlerPCs, user : Users \union {None}, stars : Stars, verified : BOOLEAN,
   seen : [Users -> Stars], found : BOOLEAN, tx : {"none", "open", "closed"}]

(* Every variable keeps its type, only an open transaction holds a lock,   *)
(* and the pool is never overdrawn.                                        *)
TypeOK ==
  /\ reviews \in [Users -> Stars]
  /\ rated \in [Users -> Stars]
  /\ buyers \subseteq Users
  /\ rowLock \in [Users -> Handlers \union {None}]
  /\ productLock \in Handlers \union {None}
  /\ proc \in [Handlers -> HandlerState]
  /\ published \subseteq Users \X Ratings
  /\ \A u \in Users, h \in Handlers : rowLock[u] = h => InTx(h) /\ User(h) = u
  /\ \A h \in Handlers : productLock = h => InTx(h)
  /\ Cardinality({h \in Handlers : InTx(h)}) <= Pool

(* What review.service.spec.ts:152 says, "should create an unverified      *)
(* review if user has no completed order", and review.service.ts:74 leaves *)
(* room for: a first review of a product is not refused in its             *)
(* transaction, whoever writes it.  The order it would be without is       *)
(* required by the schema, so that every unverified one is.                *)
FirstReviewsAreTaken ==
  \A h \in Handlers :
    InTx(h) /\ At(h, "insert") /\ reviews[User(h)] = NoReview => ~Doomed(h)

(* The product's rating counts no review that was never published: what    *)
(* updateRatingAndCount writes outside the transaction is not undone with  *)
(* it, so that it must not count the transaction's own review.             *)
OnlyPublishedCount ==
  \A u \in Users : rated[u] # NoReview => <<u, rated[u]>> \in published

(* Every request ends, though create and update ask for a second           *)
(* connection while they keep their first, and a pool full of them has     *)
(* none to give until their transactions time out.                         *)
RequestEnds == \A h \in Handlers : ~At(h, "idle") ~> At(h, "idle")

(* What the code says and its interleavings refute: review.service.ts:78,  *)
(* "Update product average rating and count".  When no request is being    *)
(* served, reviewsCount is the number of reviews.                          *)
Count(f) == Cardinality({u \in Users : f[u] # NoReview})

CountIsCurrent ==
  (\A h \in Handlers : At(h, "idle")) => Count(rated) = Count(reviews)

=============================================================================
