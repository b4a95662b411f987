-------------------------- MODULE ReviewsAndCatalogProofs --------------------------
(***************************************************************************)
(* Proofs about Reviews and about Catalog, two modules that share nothing  *)
(* but this file.                                                          *)
(*                                                                         *)
(* Of Reviews, for any users, ratings, pool and any finite number of       *)
(* handlers: the type invariant, and that the product's rating counts      *)
(* published reviews alone.                                                *)
(*                                                                         *)
(* Of Catalog, for any rows, listings and size of a page: the type         *)
(* invariant, and what a reader of pages meets twice or misses while rows  *)
(* are written.  A listing's places are 0, 1, 2, ... with no gap, so that  *)
(* a page leaves exactly what comes after it; and a write is of one row,   *)
(* which moves the rows behind it by one place.                            *)
(***************************************************************************)
EXTENDS Reviews, Catalog, FiniteSetTheorems, FunctionTheorems, SequenceTheorems, TLAPS

(***************************************************************************)
(* The inductive invariant of Reviews.                                     *)
(***************************************************************************)
Types ==
  /\ reviews \in [Users -> Stars]
  /\ rated \in [Users -> Stars]
  /\ buyers \subseteq Users
  /\ rowLock \in [Users -> Handlers \union {None}]
  /\ productLock \in Handlers \union {None}
  /\ proc \in [Handlers -> HandlerState]
  /\ published \subseteq Users \X Ratings

LocksHeld ==
  /\ \A u \in Users, h \in Handlers : rowLock[u] = h => InTx(h) /\ User(h) = u
  /\ \A h \in Handlers : productLock = h => InTx(h)

Transactions == {h \in Handlers : InTx(h)}

(* A request serves a user, and an idle handler has no transaction.        *)
Serving ==
  \A h \in Handlers : IF At(h, "idle") THEN ~InTx(h) ELSE User(h) \in Users

(* What a recomputation has read was committed.                            *)
SeenPublished ==
  /\ \A u \in Users : reviews[u] # NoReview => <<u, reviews[u]>> \in published
  /\ \A h \in Handlers, u \in Users :
       proc[h].seen[u] # NoReview => <<u, proc[h].seen[u]>> \in published

IInv ==
  /\ Types
  /\ LocksHeld
  /\ Cardinality(Transactions) <= Pool
  /\ Serving
  /\ OnlyPublishedCount /\ SeenPublished

LEMMA IInvIsTypeOK == IInv => TypeOK
BY DEF IInv, Types, LocksHeld, Transactions, TypeOK

LEMMA InitIInv == Init => IInv
<1> SUFFICES ASSUME Init PROVE IInv
  OBVIOUS
<1> USE DEF Init, Idle, Handler, At, InTx, User
<1>1. Types
  BY DEF Types, Nothing, Stars, HandlerState, HandlerPCs
<1>2. LocksHeld
  BY NoneAssumption DEF LocksHeld
<1>3. Transactions = {}
  BY DEF Transactions
<1>4. Cardinality(Transactions) <= Pool
  BY <1>3, FS_EmptySet, PoolAssumption
<1>5. Serving /\ OnlyPublishedCount /\ SeenPublished
  BY DEF Serving, OnlyPublishedCount, SeenPublished, Nothing
<1>6. QED
  BY <1>1, <1>2, <1>4, <1>5 DEF IInv

(***************************************************************************)
(* The pool: a step that opens no transaction keeps within it, and Begin   *)
(* takes a connection only when one is free.                               *)
(***************************************************************************)
LEMMA FewerTransactions ==
  ASSUME NEW S \in SUBSET Handlers, NEW T \in SUBSET S, Cardinality(S) <= Pool
  PROVE  Cardinality(T) <= Pool
<1>1. IsFiniteSet(S) /\ IsFiniteSet(T)
  BY HandlersAssumption, FS_Subset
<1>2. Cardinality(S) \in Nat /\ Cardinality(T) \in Nat /\ Cardinality(T) <= Cardinality(S)
  BY <1>1, FS_Subset, FS_CardinalityType
<1>3. QED
  BY <1>2, PoolAssumption

LEMMA OneMoreTransaction ==
  ASSUME NEW S \in SUBSET Handlers, NEW h, NEW T \in SUBSET (S \union {h}),
         Cardinality(S) < Pool
  PROVE  Cardinality(T) <= Pool
<1>1. IsFiniteSet(S)
  BY HandlersAssumption, FS_Subset
<1>2. /\ IsFiniteSet(S \union {h})
      /\ Cardinality(S \union {h}) \in {Cardinality(S), Cardinality(S) + 1}
  BY <1>1, FS_AddElement
<1>3. Cardinality(S) \in Nat
  BY <1>1, FS_CardinalityType
<1>4. Cardinality(T) \in Nat /\ Cardinality(T) <= Cardinality(S \union {h})
  BY <1>2, FS_Subset, FS_CardinalityType
<1>5. QED
  BY <1>2, <1>3, <1>4, PoolAssumption

(***************************************************************************)
(* The steps.                                                              *)
(***************************************************************************)
LEMMA HandlerUpdates ==
  ASSUME NEW s \in HandlerState
  PROVE  /\ \A pc \in HandlerPCs : [s EXCEPT !.pc = pc] \in HandlerState
         /\ \A seen \in [Users -> Stars] : [s EXCEPT !.seen = seen] \in HandlerState
         /\ \A stars \in Stars : [s EXCEPT !.stars = stars] \in HandlerState
         /\ \A tx \in {"none", "open", "closed"} : [s EXCEPT !.tx = tx] \in HandlerState
BY DEF HandlerState

LEMMA CreateReadStep ==
  ASSUME IInv, NEW h \in Handlers, NEW u \in Users, NEW stars \in Ratings, CreateRead(h, u, stars)
  PROVE  IInv'
<1> USE DEF IInv, Types, CreateRead, Handler, At, InTx, User
<1>1. Types'
  BY DEF HandlerState, HandlerPCs, Stars, Nothing
<1>2. LocksHeld'
  BY NoneAssumption DEF LocksHeld, Serving
<1>3. Transactions' \subseteq Transactions
  BY DEF Transactions
<1>4. Cardinality(Transactions') <= Pool
  BY <1>3, FewerTransactions DEF Transactions
<1>5. Serving'
  BY DEF Serving
<1>6. OnlyPublishedCount' /\ SeenPublished'
  BY DEF OnlyPublishedCount, SeenPublished, Nothing
<1>7. QED
  BY <1>1, <1>2, <1>4, <1>5, <1>6

LEMMA UpdateReadStep ==
  ASSUME IInv, NEW h \in Handlers, NEW u \in Users, NEW stars \in Stars, UpdateRead(h, u, stars)
  PROVE  IInv'
<1> USE DEF IInv, Types, UpdateRead, Handler, At, InTx, User
<1>1. Types'
  BY DEF HandlerState, HandlerPCs, Stars, Nothing
<1>2. LocksHeld'
  BY NoneAssumption DEF LocksHeld, Serving
<1>3. Transactions' \subseteq Transactions
  BY DEF Transactions
<1>4. Cardinality(Transactions') <= Pool
  BY <1>3, FewerTransactions DEF Transactions
<1>5. Serving'
  BY DEF Serving
<1>6. OnlyPublishedCount' /\ SeenPublished'
  BY DEF OnlyPublishedCount, SeenPublished, Nothing
<1>7. QED
  BY <1>1, <1>2, <1>4, <1>5, <1>6

LEMMA DeleteReadStep ==
  ASSUME IInv, NEW h \in Handlers, NEW u \in Users, DeleteRead(h, u)
  PROVE  IInv'
<1> USE DEF IInv, Types, DeleteRead, Handler, At, InTx, User
<1>1. Types'
  BY DEF HandlerState, HandlerPCs, Stars, Nothing
<1>2. LocksHeld'
  BY NoneAssumption DEF LocksHeld, Serving
<1>3. Transactions' \subseteq Transactions
  BY DEF Transactions
<1>4. Cardinality(Transactions') <= Pool
  BY <1>3, FewerTransactions DEF Transactions
<1>5. Serving'
  BY DEF Serving
<1>6. OnlyPublishedCount' /\ SeenPublished'
  BY DEF OnlyPublishedCount, SeenPublished, Nothing
<1>7. QED
  BY <1>1, <1>2, <1>4, <1>5, <1>6

LEMMA BeginStep ==
  ASSUME IInv, NEW h \in Handlers, Begin(h)
  PROVE  IInv'
<1> USE DEF IInv, Types, Begin, FreeConnection, At, InTx, User
<1>1. Types'
  <2>1. proc' = [proc EXCEPT ![h].tx = "open"]
    OBVIOUS
  <2>2. proc' \in [Handlers -> HandlerState]
    BY ONLY <2>1, Types, h \in Handlers, HandlerUpdates
  <2>3. QED
    BY <2>2
<1>2. LocksHeld'
  BY NoneAssumption DEF LocksHeld
<1>3. Transactions' \subseteq Transactions \union {h} /\ Cardinality(Transactions) < Pool
  BY DEF Transactions
<1>4. Cardinality(Transactions') <= Pool
  BY <1>3, OneMoreTransaction DEF Transactions
<1>5. Serving'
  BY DEF Serving
<1>6. OnlyPublishedCount' /\ SeenPublished'
  BY DEF OnlyPublishedCount, SeenPublished
<1>7. QED
  BY <1>1, <1>2, <1>4, <1>5, <1>6

LEMMA InsertStep ==
  ASSUME IInv, NEW h \in Handlers, Insert(h)
  PROVE  IInv'
<1> USE DEF IInv, Types, Insert, LockRow, At, InTx, User
<1>1. Types'
  <2>1. proc' = [proc EXCEPT ![h].pc = "recount"]
    OBVIOUS
  <2>2. proc' \in [Handlers -> HandlerState]
    BY ONLY <2>1, Types, h \in Handlers, HandlerUpdates DEF HandlerPCs
  <2>3. QED
    BY <2>2
<1>2. LocksHeld'
  BY NoneAssumption DEF LocksHeld
<1>3. Transactions' \subseteq Transactions
  BY DEF Transactions
<1>4. Cardinality(Transactions') <= Pool
  BY <1>3, FewerTransactions DEF Transactions
<1>5. Serving'
  BY DEF Serving
<1>6. OnlyPublishedCount' /\ SeenPublished'
  BY DEF OnlyPublishedCount, SeenPublished
<1>7. QED
  BY <1>1, <1>2, <1>4, <1>5, <1>6

LEMMA ModifyStep ==
  ASSUME IInv, NEW h \in Handlers, Modify(h)
  PROVE  IInv'
<1> USE DEF IInv, Types, Modify, LockRow, At, InTx, User
<1>1. Types'
  <2>1. CASE proc[h].stars = NoReview
    <3>1. proc' = [proc EXCEPT ![h].pc = "commit", ![h].stars = reviews[User(h)]]
      BY <2>1
    <3>2. reviews[User(h)] \in Stars
      BY DEF Serving
    <3>3. proc' \in [Handlers -> HandlerState]
      BY ONLY <3>1, <3>2, Types, h \in Handlers, HandlerUpdates DEF HandlerPCs
    <3>4. QED
      BY <3>3
  <2>2. CASE proc[h].stars # NoReview
    <3>1. proc' = [proc EXCEPT ![h].pc = "recount"]
      BY <2>2
    <3>2. proc' \in [Handlers -> HandlerState]
      BY ONLY <3>1, Types, h \in Handlers, HandlerUpdates DEF HandlerPCs
    <3>3. QED
      BY <3>2
  <2>3. QED
    BY <2>1, <2>2
<1>2. LocksHeld'
  BY NoneAssumption DEF LocksHeld
<1>3. Transactions' \subseteq Transactions
  BY DEF Transactions
<1>4. Cardinality(Transactions') <= Pool
  BY <1>3, FewerTransactions DEF Transactions
<1>5. Serving'
  BY DEF Serving
<1>6. OnlyPublishedCount' /\ SeenPublished'
  BY DEF OnlyPublishedCount, SeenPublished
<1>7. QED
  BY <1>1, <1>2, <1>4, <1>5, <1>6

LEMMA RemoveStep ==
  ASSUME IInv, NEW h \in Handlers, Remove(h)
  PROVE  IInv'
<1> USE DEF IInv, Types, Remove, LockRow, At, InTx, User
<1>1. Types'
  <2>1. proc' = [proc EXCEPT ![h].pc = "recountInTx"]
    OBVIOUS
  <2>2. proc' \in [Handlers -> HandlerState]
    BY ONLY <2>1, Types, h \in Handlers, HandlerUpdates DEF HandlerPCs
  <2>3. QED
    BY <2>2
<1>2. LocksHeld'
  BY NoneAssumption DEF LocksHeld
<1>3. Transactions' \subseteq Transactions
  BY DEF Transactions
<1>4. Cardinality(Transactions') <= Pool
  BY <1>3, FewerTransactions DEF Transactions
<1>5. Serving'
  BY DEF Serving
<1>6. OnlyPublishedCount' /\ SeenPublished'
  BY DEF OnlyPublishedCount, SeenPublished
<1>7. QED
  BY <1>1, <1>2, <1>4, <1>5, <1>6

LEMMA RecountStep ==
  ASSUME IInv, NEW h \in Handlers, Recount(h)
  PROVE  IInv'
<1> USE DEF IInv, Types, Recount, At, InTx, User
<1>1. Types'
  <2>1. proc' = [proc EXCEPT ![h].pc = "store", ![h].seen = reviews]
    OBVIOUS
  <2>2. proc' \in [Handlers -> HandlerState]
    BY ONLY <2>1, Types, h \in Handlers, HandlerUpdates DEF HandlerPCs
  <2>3. QED
    BY <2>2
<1>2. LocksHeld'
  BY NoneAssumption DEF LocksHeld
<1>3. Transactions' \subseteq Transactions
  BY DEF Transactions
<1>4. Cardinality(Transactions') <= Pool
  BY <1>3, FewerTransactions DEF Transactions
<1>5. Serving'
  BY DEF Serving
<1>6. OnlyPublishedCount' /\ SeenPublished'
  BY DEF OnlyPublishedCount, SeenPublished
<1>7. QED
  BY <1>1, <1>2, <1>4, <1>5, <1>6

LEMMA StoreStep ==
  ASSUME IInv, NEW h \in Handlers, Store(h)
  PROVE  IInv'
<1> USE DEF IInv, Types, Store, At, InTx, User
<1>1. Types'
  <2>1. proc' = [proc EXCEPT ![h].pc = "commit", ![h].seen = Nothing]
    OBVIOUS
  <2>2. proc' \in [Handlers -> HandlerState]
    BY ONLY <2>1, Types, h \in Handlers, HandlerUpdates DEF HandlerPCs, Stars,
           Nothing
  <2>3. rated' \in [Users -> Stars]
    BY DEF HandlerState
  <2>4. QED
    BY <2>2, <2>3
<1>2. LocksHeld'
  BY NoneAssumption DEF LocksHeld
<1>3. Transactions' \subseteq Transactions
  BY DEF Transactions
<1>4. Cardinality(Transactions') <= Pool
  BY <1>3, FewerTransactions DEF Transactions
<1>5. Serving'
  BY DEF Serving
<1>6. OnlyPublishedCount' /\ SeenPublished'
  BY DEF OnlyPublishedCount, SeenPublished, HandlerState
<1>7. QED
  BY <1>1, <1>2, <1>4, <1>5, <1>6

LEMMA RecountInTxStep ==
  ASSUME IInv, NEW h \in Handlers, RecountInTx(h)
  PROVE  IInv'
<1> USE DEF IInv, Types, RecountInTx, At, InTx, User
<1>1. Types'
  <2>1. proc' = [proc EXCEPT ![h].pc = "storeInTx",
                              ![h].seen = [reviews EXCEPT ![User(h)] = NoReview]]
    OBVIOUS
  <2>2. proc' \in [Handlers -> HandlerState]
    BY ONLY <2>1, Types, h \in Handlers, HandlerUpdates DEF HandlerPCs, Stars
  <2>3. QED
    BY <2>2
<1>2. LocksHeld'
  BY NoneAssumption DEF LocksHeld
<1>3. Transactions' \subseteq Transactions
  BY DEF Transactions
<1>4. Cardinality(Transactions') <= Pool
  BY <1>3, FewerTransactions DEF Transactions
<1>5. Serving'
  BY DEF Serving
<1>6. OnlyPublishedCount' /\ SeenPublished'
  BY DEF OnlyPublishedCount, SeenPublished
<1>7. QED
  BY <1>1, <1>2, <1>4, <1>5, <1>6

LEMMA StoreInTxStep ==
  ASSUME IInv, NEW h \in Handlers, StoreInTx(h)
  PROVE  IInv'
<1> USE DEF IInv, Types, StoreInTx, At, InTx, User
<1>1. Types'
  <2>1. proc' = [proc EXCEPT ![h].pc = "commit"]
    OBVIOUS
  <2>2. proc' \in [Handlers -> HandlerState]
    BY ONLY <2>1, Types, h \in Handlers, HandlerUpdates DEF HandlerPCs
  <2>3. QED
    BY <2>2
<1>2. LocksHeld'
  BY NoneAssumption DEF LocksHeld
<1>3. Transactions' \subseteq Transactions
  BY DEF Transactions
<1>4. Cardinality(Transactions') <= Pool
  BY <1>3, FewerTransactions DEF Transactions
<1>5. Serving'
  BY DEF Serving
<1>6. OnlyPublishedCount' /\ SeenPublished'
  BY DEF OnlyPublishedCount, SeenPublished
<1>7. QED
  BY <1>1, <1>2, <1>4, <1>5, <1>6

LEMMA CommitStep ==
  ASSUME IInv, NEW h \in Handlers, Commit(h)
  PROVE  IInv'
<1> USE DEF IInv, Types, Commit, Unlock, Overtaken, Idle, Handler, At, InTx, User
<1>1. Types'
  <2>1. User(h) \in Users /\ proc[h].stars \in Stars /\ proc[h].seen \in [Users -> Stars]
    BY DEF Serving, HandlerState
  <2>2. reviews' \in [Users -> Stars] /\ rated' \in [Users -> Stars]
    BY <2>1
  <2>3. published' \subseteq Users \X Ratings
    BY <2>1 DEF Stars
  <2>4. \A g \in Handlers : [proc[g] EXCEPT !.found = FALSE] \in HandlerState
    BY ZenonT(40) DEF HandlerState
  <2>5. Idle \in HandlerState
    BY DEF HandlerState, HandlerPCs, Stars, Nothing
  <2>6. proc' \in [Handlers -> HandlerState]
    BY <2>4, <2>5
  <2>7. QED
    BY <2>2, <2>3, <2>6
<1>2. LocksHeld'
  BY NoneAssumption DEF LocksHeld
<1>3. Transactions' \subseteq Transactions
  BY DEF Transactions
<1>4. Cardinality(Transactions') <= Pool
  BY <1>3, FewerTransactions DEF Transactions
<1>5. Serving'
  BY DEF Serving
<1>6. OnlyPublishedCount' /\ SeenPublished'
  BY DEF OnlyPublishedCount, SeenPublished, Nothing
<1>7. QED
  BY <1>1, <1>2, <1>4, <1>5, <1>6

LEMMA FailStep ==
  ASSUME IInv, NEW h \in Handlers, Fail(h)
  PROVE  IInv'
<1> USE DEF IInv, Types, Fail, Unlock, Idle, Handler, At, InTx, User
<1>1. Types'
  BY DEF HandlerState, HandlerPCs, Stars, Nothing
<1>2. LocksHeld'
  BY NoneAssumption DEF LocksHeld
<1>3. Transactions' \subseteq Transactions
  BY DEF Transactions
<1>4. Cardinality(Transactions') <= Pool
  BY <1>3, FewerTransactions DEF Transactions
<1>5. Serving'
  BY DEF Serving
<1>6. OnlyPublishedCount' /\ SeenPublished'
  BY DEF OnlyPublishedCount, SeenPublished, Nothing
<1>7. QED
  BY <1>1, <1>2, <1>4, <1>5, <1>6

LEMMA TimeoutStep ==
  ASSUME IInv, NEW h \in Handlers, Timeout(h)
  PROVE  IInv'
<1> USE DEF IInv, Types, Timeout, Unlock, At, InTx, User
<1>1. Types'
  <2>1. proc' = [proc EXCEPT ![h].tx = "closed"]
    OBVIOUS
  <2>2. proc' \in [Handlers -> HandlerState]
    BY ONLY <2>1, Types, h \in Handlers, HandlerUpdates
  <2>3. QED
    BY <2>2
<1>2. LocksHeld'
  BY NoneAssumption DEF LocksHeld
<1>3. Transactions' \subseteq Transactions
  BY DEF Transactions
<1>4. Cardinality(Transactions') <= Pool
  BY <1>3, FewerTransactions DEF Transactions
<1>5. Serving'
  BY DEF Serving
<1>6. OnlyPublishedCount' /\ SeenPublished'
  BY DEF OnlyPublishedCount, SeenPublished
<1>7. QED
  BY <1>1, <1>2, <1>4, <1>5, <1>6

LEMMA CompleteOrderStep ==
  ASSUME IInv, NEW u \in Users, CompleteOrder(u)
  PROVE  IInv'
<1> USE DEF IInv, Types, CompleteOrder, At, InTx, User
<1>1. Types'
  OBVIOUS
<1>2. LocksHeld'
  BY NoneAssumption DEF LocksHeld
<1>3. Transactions' \subseteq Transactions
  BY DEF Transactions
<1>4. Cardinality(Transactions') <= Pool
  BY <1>3, FewerTransactions DEF Transactions
<1>5. Serving'
  BY DEF Serving
<1>6. OnlyPublishedCount' /\ SeenPublished'
  BY DEF OnlyPublishedCount, SeenPublished
<1>7. QED
  BY <1>1, <1>2, <1>4, <1>5, <1>6

LEMMA ReopenOrderStep ==
  ASSUME IInv, NEW u \in Users, ReopenOrder(u)
  PROVE  IInv'
<1> USE DEF IInv, Types, ReopenOrder, At, InTx, User
<1>1. Types'
  OBVIOUS
<1>2. LocksHeld'
  BY NoneAssumption DEF LocksHeld
<1>3. Transactions' \subseteq Transactions
  BY DEF Transactions
<1>4. Cardinality(Transactions') <= Pool
  BY <1>3, FewerTransactions DEF Transactions
<1>5. Serving'
  BY DEF Serving
<1>6. OnlyPublishedCount' /\ SeenPublished'
  BY DEF OnlyPublishedCount, SeenPublished
<1>7. QED
  BY <1>1, <1>2, <1>4, <1>5, <1>6

(* Throw is a Fail whose guard says why the request ends.                  *)
LEMMA StepIInv == IInv /\ [Next]_vars => IInv'
<1> SUFFICES ASSUME IInv, [Next]_vars PROVE IInv'
  OBVIOUS
<1>1. CASE UNCHANGED vars
  BY <1>1 DEF vars, IInv, Types, LocksHeld, Transactions, Serving,
         OnlyPublishedCount, SeenPublished, At, InTx, User
<1>2. ASSUME NEW h \in Handlers, Request(h) PROVE IInv'
  BY <1>2, CreateReadStep, UpdateReadStep, DeleteReadStep DEF Request
<1>3. ASSUME NEW h \in Handlers, HandlerStep(h) PROVE IInv'
  BY <1>3, BeginStep, InsertStep, ModifyStep, RemoveStep, RecountStep, StoreStep, RecountInTxStep,
     StoreInTxStep, CommitStep, FailStep DEF HandlerStep, Throw
<1>4. ASSUME NEW h \in Handlers, Fail(h) \/ Timeout(h) PROVE IInv'
  BY <1>4, FailStep, TimeoutStep
<1>5. ASSUME NEW u \in Users, CompleteOrder(u) \/ ReopenOrder(u) PROVE IInv'
  BY <1>5, CompleteOrderStep, ReopenOrderStep
<1>6. QED
  BY <1>1, <1>2, <1>3, <1>4, <1>5 DEF Next

(***************************************************************************)
(* The theorems.                                                           *)
(***************************************************************************)
THEOREM Invariance == Spec => []IInv
BY InitIInv, StepIInv, PTL DEF Spec

(* The tables keep their types, only an open transaction holds a lock, and *)
(* transactions never hold more connections than the pool has.             *)
THEOREM TypeCorrect == Spec => []TypeOK
BY Invariance, IInvIsTypeOK, PTL

(* updateRatingAndCount writes outside the transaction, and the product's  *)
(* rating still counts committed reviews alone.                            *)
THEOREM PublishedCount == Spec => []OnlyPublishedCount
<1>1. IInv => OnlyPublishedCount
  BY DEF IInv
<1>2. QED
  BY <1>1, Invariance, PTL

(***************************************************************************)
(* The inductive invariant of Catalog.                                     *)
(***************************************************************************)
Now == Listed(rows, Reading)

(* What a reader of pages has met twice or will, and what it skips.        *)
Paged ==
  Reading.order # "none" /\ ~Reading.padded =>
    /\ IsFiniteSet(Repeats)
    /\ Cardinality(Repeats) + Cardinality(Again) <= during.pushed
    /\ Cardinality(Skipped) <= during.pulled

Threaded == Reading \in Threads => Repeats = {} /\ Again = {}

(* The query that has answered is as far from the table as was written     *)
(* since.                                                                  *)
Within(a, b, d) == a - b \in -d .. d
Totalled ==
  Reading.reads = "whole" =>
    /\ ~reader.more
    /\ "items" \in reader.pending => reader.skip = 0
    /\ reader.pending = {"items", "total"} => during.drift = 0
    /\ reader.pending = {"total"} => Within(Cardinality(Now), reader.found, during.drift)
    /\ reader.pending = {"items"} => Within(reader.total, Cardinality(Now), during.drift)
    /\ reader.pending = {} => Within(reader.total, reader.found, during.drift)

CatalogIInv ==
  /\ CatalogTypeOK
  /\ Shown \subseteq DOMAIN rows
  /\ during.steady \subseteq Now
  /\ Paged /\ Threaded /\ Totalled

(***************************************************************************)
(* Places in a listing.                                                    *)
(***************************************************************************)
Earlier(listed, order, i) == {j \in listed : Before(order, j, i)}
PageOf(listed, order, skip, take) == {i \in listed : Place(listed, order, i) \in skip .. skip + take - 1}
From(listed, order, skip) == {i \in listed : Place(listed, order, i) >= skip}

LEMMA BeforeFacts ==
  ASSUME NEW order, NEW i \in Nat, NEW j \in Nat
  PROVE  /\ ~Before(order, i, i)
         /\ i # j => Before(order, i, j) \/ Before(order, j, i)
         /\ \A k \in Nat : Before(order, i, j) /\ Before(order, j, k) => Before(order, i, k)
<1>1. CASE order = "oldest"
  BY <1>1 DEF Before
<1>2. CASE order # "oldest"
  BY <1>2 DEF Before
<1>3. QED
  BY <1>1, <1>2

(* An item's place is the number of those before it: another for each, and *)
(* less than their number.                                                 *)
LEMMA PlaceFacts ==
  ASSUME NEW listed \in SUBSET Nat, IsFiniteSet(listed), NEW order
  PROVE  /\ Cardinality(listed) \in Nat
         /\ \A i \in listed : Place(listed, order, i) \in 0 .. Cardinality(listed) - 1
         /\ \A i, j \in listed : Before(order, j, i) =>
              Place(listed, order, j) < Place(listed, order, i)
<1>1. Cardinality(listed) \in Nat
  BY FS_CardinalityType
<1>2. ASSUME NEW i \in listed
      PROVE  /\ IsFiniteSet(Earlier(listed, order, i)) /\ Place(listed, order, i) \in Nat
             /\ Place(listed, order, i) = Cardinality(Earlier(listed, order, i))
  BY <1>1, FS_Subset, FS_CardinalityType DEF Earlier, Place
<1>3. ASSUME NEW i \in listed, NEW later \in SUBSET listed, Earlier(listed, order, i) \subseteq later, i \in later
      PROVE  Place(listed, order, i) < Cardinality(later)
  <2>1. i \notin Earlier(listed, order, i)
    BY DEF Earlier, Before
  <2>2. /\ IsFiniteSet(Earlier(listed, order, i) \union {i})
        /\ Cardinality(Earlier(listed, order, i) \union {i}) = Place(listed, order, i) + 1
    BY <1>2, <2>1, FS_AddElement
  <2>3. IsFiniteSet(later) /\ Cardinality(later) \in Nat
    BY <1>1, FS_Subset, FS_CardinalityType
  <2>4. Earlier(listed, order, i) \union {i} \in SUBSET later
    BY <1>3
  <2>5. Cardinality(Earlier(listed, order, i) \union {i}) <= Cardinality(later)
    BY <2>3, <2>4, FS_Subset
  <2>6. QED
    BY <1>2, <2>2, <2>3, <2>5
<1>4. ASSUME NEW i \in listed
      PROVE  Place(listed, order, i) \in 0 .. Cardinality(listed) - 1
  <2>1. Place(listed, order, i) < Cardinality(listed)
    BY <1>3 DEF Earlier
  <2>2. QED
    BY <1>1, <1>2, <2>1
<1>5. ASSUME NEW i \in listed, NEW j \in listed, Before(order, j, i)
      PROVE  Place(listed, order, j) < Place(listed, order, i)
  <2>1. Earlier(listed, order, j) \subseteq Earlier(listed, order, i) /\ j \in Earlier(listed, order, i)
    <3>1. \A k \in listed : k \in Nat
      OBVIOUS
    <3>2. QED
      BY <1>5, <3>1, BeforeFacts, Zenon DEF Earlier
  <2>2. Earlier(listed, order, i) \in SUBSET listed
    BY DEF Earlier
  <2>3. QED
    BY <1>2, <1>3, <2>1, <2>2
<1>6. QED
  BY <1>1, <1>4, <1>5

LEMMA PlacesDiffer ==
  ASSUME NEW listed \in SUBSET Nat, IsFiniteSet(listed), NEW order,
         NEW i \in listed, NEW j \in listed, i # j
  PROVE  Place(listed, order, i) # Place(listed, order, j)
<1>1. Before(order, i, j) \/ Before(order, j, i)
  <2>1. i \in Nat /\ j \in Nat
    OBVIOUS
  <2>2. QED
    BY <2>1, BeforeFacts
<1>2. Place(listed, order, i) \in Int /\ Place(listed, order, j) \in Int
  BY PlaceFacts
<1>3. QED
  BY <1>1, <1>2, PlaceFacts

LEMMA IntervalFacts ==
  ASSUME NEW low \in Nat, NEW high \in Nat, low <= high
  PROVE  IsFiniteSet(low .. high - 1) /\ Cardinality(low .. high - 1) = high - low
<1>1. PICK last \in Int : last = high - 1
  OBVIOUS
<1>2. IsFiniteSet(low .. last) /\ Cardinality(low .. last) = IF low > last THEN 0 ELSE last - low + 1
  BY FS_Interval
<1>3. (IF low > last THEN 0 ELSE last - low + 1) = high - low
  BY <1>1
<1>4. QED
  BY <1>1, <1>2, <1>3

(* No place is empty.                                                      *)
LEMMA PlacesFilled ==
  ASSUME NEW listed \in SUBSET Nat, IsFiniteSet(listed), NEW order
  PROVE  \A k \in 0 .. Cardinality(listed) - 1 : \E i \in listed : Place(listed, order, i) = k
<1> DEFINE place == [i \in listed |-> Place(listed, order, i)]
           places == 0 .. Cardinality(listed) - 1
<1>1. Cardinality(listed) \in Nat
  BY PlaceFacts
<1>2. place \in [listed -> places]
  BY PlaceFacts
<1>3. \A i, j \in listed : place[i] = place[j] => i = j
  BY PlacesDiffer
<1>4. place \in Injection(listed, places)
  BY <1>2, <1>3 DEF Injection, IsInjective
<1>5. IsFiniteSet(places) /\ Cardinality(places) = Cardinality(listed)
  <2>1. IsFiniteSet(0 .. Cardinality(listed) - 1)
          /\ Cardinality(0 .. Cardinality(listed) - 1) = Cardinality(listed) - 0
    BY <1>1, IntervalFacts
  <2>2. QED
    BY <1>1, <2>1
<1>6. place \in Surjection(listed, places)
  BY <1>4, <1>5, FS_Injection
<1>7. QED
  BY <1>6 DEF Surjection

(* After the page from a place on comes what is from there on and not of   *)
(* the page, whether the page is full or the last.                         *)
LEMMA PageTurned ==
  ASSUME NEW listed \in SUBSET Nat, IsFiniteSet(listed), NEW order, NEW skip \in Nat, NEW take \in Nat,
         NEW page, page = PageOf(listed, order, skip, take)
  PROVE  /\ page \subseteq From(listed, order, skip)
         /\ From(listed, order, skip + Cardinality(page)) = From(listed, order, skip) \ page
<1>1. PICK size \in Nat : size = Cardinality(listed)
  BY PlaceFacts
<1>2. PICK end \in Nat : end = IF size < skip + take THEN size ELSE skip + take
  BY <1>1
<1>3. \A i \in listed : Place(listed, order, i) \in Nat /\ Place(listed, order, i) < size
  BY <1>1, PlaceFacts
<1>4. /\ page \subseteq listed
      /\ \A i \in listed : i \in page <=> Place(listed, order, i) \in skip .. end - 1
  BY <1>2, <1>3 DEF PageOf
<1>5. page \subseteq From(listed, order, skip)
  <2>1. \A i \in page : i \in listed /\ Place(listed, order, i) >= skip
    BY <1>3, <1>4
  <2>2. QED
    BY <2>1 DEF From
<1>6. CASE end < skip
  <2>1. From(listed, order, skip) = {}
    <3>1. \A i \in listed : ~(Place(listed, order, i) >= skip)
      BY <1>1, <1>2, <1>3, <1>6
    <3>2. QED
      BY <3>1 DEF From
  <2>2. page = {}
    BY <1>5, <2>1
  <2>3. Cardinality(page) = 0
    BY <2>2, FS_EmptySet
  <2>4. From(listed, order, skip + 0) = {}
    BY <2>1
  <2>5. QED
    BY <2>1, <2>2, <2>3, <2>4
<1>7. CASE skip <= end
  <2> DEFINE place == [i \in page |-> Place(listed, order, i)]
             places == skip .. end - 1
  <2>1. place \in [page -> places]
    BY <1>4
  <2>2. \A i, j \in page : place[i] = place[j] => i = j
    BY <1>4, PlacesDiffer
  <2>3. ASSUME NEW k \in places
        PROVE  \E i \in page : place[i] = k
    <3>1. k \in 0 .. Cardinality(listed) - 1
      BY <1>1, <1>2
    <3>2. PICK i \in listed : Place(listed, order, i) = k
      BY <3>1, PlacesFilled
    <3>3. QED
      BY <1>4, <3>2
  <2>4. place \in Bijection(page, places)
    BY <2>1, <2>2, <2>3 DEF Bijection, Injection, Surjection, IsInjective
  <2>5. IsFiniteSet(places) /\ Cardinality(places) = end - skip
    BY <1>7, IntervalFacts
  <2>6. IsFiniteSet(page)
    BY FS_Subset DEF PageOf
  <2>7. Cardinality(page) = end - skip
    BY <2>4, <2>5, <2>6, FS_Bijection DEF ExistsBijection
  <2>8. skip + Cardinality(page) = end
    BY <2>7
  <2>9. QED
    <3>1. \A i \in listed :
            Place(listed, order, i) >= end <=> Place(listed, order, i) >= skip /\ i \notin page
      BY <1>3, <1>4, <1>7
    <3>2. From(listed, order, end) = From(listed, order, skip) \ page
      BY <3>1 DEF From
    <3>3. QED
      BY <1>5, <2>8, <3>2
<1>8. QED
  BY <1>5, <1>6, <1>7

Gains(new, old, i) == i \notin old /\ new = old \union {i}

(* A row that comes puts those after it one place on; what is from a place *)
(* on grows by one row at most, by itself if it comes there.               *)
LEMMA RowComes ==
  ASSUME NEW old \in SUBSET Nat, IsFiniteSet(old), NEW order, NEW skip \in Nat,
         NEW i \in Nat, NEW new, Gains(new, old, i)
  PROVE  /\ From(old, order, skip) \subseteq From(new, order, skip)
         /\ Place(new, order, i) >= skip => From(new, order, skip) = From(old, order, skip) \union {i}
         /\ Place(new, order, i) < skip =>
              /\ i \notin From(new, order, skip)
              /\ \E j : From(new, order, skip) \subseteq From(old, order, skip) \union {j}
         /\ (\A j \in old : Before(order, j, i)) =>
              From(new, order, skip) \subseteq From(old, order, skip) \union {i}
<1>0. i \notin old /\ new = old \union {i}
  BY DEF Gains
<1>1. new \in SUBSET Nat /\ IsFiniteSet(new) /\ i \in new /\ old \subseteq new
  BY <1>0, FS_AddElement
<1>2. /\ \A j \in old : Place(old, order, j) \in Nat
      /\ \A j \in new : Place(new, order, j) \in Nat
  BY <1>1, PlaceFacts
<1>3. ASSUME NEW j \in old
      PROVE  Place(new, order, j) = Place(old, order, j) + IF Before(order, i, j) THEN 1 ELSE 0
  <2>1. /\ Earlier(new, order, j) = IF Before(order, i, j) THEN Earlier(old, order, j) \union {i}
                                                         ELSE Earlier(old, order, j)
        /\ i \notin Earlier(old, order, j) /\ Earlier(old, order, j) \in SUBSET old
    BY <1>0 DEF Earlier
  <2>2. IsFiniteSet(Earlier(old, order, j))
    BY <2>1, FS_Subset
  <2>3. Cardinality(Earlier(old, order, j) \union {i}) = Cardinality(Earlier(old, order, j)) + 1
    BY <2>1, <2>2, FS_AddElement
  <2>4. /\ Place(old, order, j) = Cardinality(Earlier(old, order, j))
        /\ Place(new, order, j) = Cardinality(Earlier(new, order, j))
    BY DEF Earlier, Place
  <2>5. QED
    BY <1>2, <2>1, <2>3, <2>4
<1>4. /\ \A j : j \in From(new, order, skip) <=> j \in new /\ Place(new, order, j) >= skip
      /\ \A j : j \in From(old, order, skip) <=> j \in old /\ Place(old, order, j) >= skip
  BY DEF From
<1>5. From(old, order, skip) \subseteq From(new, order, skip)
  <2>1. \A j \in old : Place(old, order, j) >= skip => Place(new, order, j) >= skip
    BY <1>2, <1>3
  <2>2. QED
    BY <1>1, <1>4, <2>1, Zenon
<1>6. ASSUME Place(new, order, i) >= skip
      PROVE  From(new, order, skip) = From(old, order, skip) \union {i}
  <2>1. i \in From(new, order, skip)
    BY <1>1, <1>4, <1>6
  <2>2. ASSUME NEW j \in old, Place(new, order, j) >= skip
        PROVE  Place(old, order, j) >= skip
    <3>1. CASE Before(order, i, j)
      <4>1. Place(new, order, i) < Place(new, order, j)
        BY <1>1, <3>1, PlaceFacts
      <4>2. QED
        BY <1>1, <1>2, <1>3, <1>6, <3>1, <4>1
    <3>2. CASE ~Before(order, i, j)
      BY <1>2, <1>3, <2>2, <3>2
    <3>3. QED
      BY <3>1, <3>2
  <2>3. QED
    BY <1>0, <1>4, <1>5, <2>1, <2>2
<1>7. ASSUME Place(new, order, i) < skip
      PROVE  /\ i \notin From(new, order, skip)
             /\ \E j : From(new, order, skip) \subseteq From(old, order, skip) \union {j}
  <2>1. i \notin From(new, order, skip)
    BY <1>1, <1>2, <1>4, <1>7
  <2>2. \A j \in From(new, order, skip) \ From(old, order, skip) : j \in new /\ Place(new, order, j) = skip
    <3>1. \A j \in old : Place(new, order, j) >= skip /\ ~(Place(old, order, j) >= skip)
                         => Place(new, order, j) = skip
      BY <1>2, <1>3
    <3>2. \A j \in From(new, order, skip) \ From(old, order, skip) : j \in old
      BY <1>0, <1>4, <2>1
    <3>3. QED
      BY <1>1, <1>4, <3>1, <3>2, Zenon
  <2>3. \A j, k \in From(new, order, skip) \ From(old, order, skip) : j = k
    <3>1. SUFFICES ASSUME NEW j \in From(new, order, skip) \ From(old, order, skip),
                          NEW k \in From(new, order, skip) \ From(old, order, skip), j # k
                   PROVE  FALSE
      OBVIOUS
    <3>2. j \in new /\ k \in new /\ Place(new, order, j) = Place(new, order, k)
      BY <2>2
    <3>3. QED
      BY <1>1, <3>1, <3>2, PlacesDiffer
  <2>4. QED
    BY <2>1, <2>3
<1>8. ASSUME \A j \in old : Before(order, j, i)
      PROVE  From(new, order, skip) \subseteq From(old, order, skip) \union {i}
  <2>1. \A j \in old : ~Before(order, i, j)
    BY <1>1, <1>8, BeforeFacts
  <2>2. \A j \in old : Place(new, order, j) = Place(old, order, j)
    BY <1>2, <1>3, <2>1
  <2>3. QED
    BY <1>0, <1>4, <2>2
<1>9. QED
  BY <1>5, <1>6, <1>7, <1>8

(***************************************************************************)
(* The invariant holds at first.                                           *)
(***************************************************************************)
RowsTyped ==
  /\ rows \in Seq(RowType) /\ Len(rows) <= MaxRows
  /\ \A i \in DOMAIN rows : rows[i].removed => TableAt(i) \notin Kept

Opened(name) == reader = Fresh(name) /\ during = Unwritten(name)

LEMMA RowFacts ==
  ASSUME RowsTyped
  PROVE  /\ DOMAIN rows = 1 .. Len(rows) /\ Len(rows) \in Nat
         /\ DOMAIN rows \subseteq 1 .. MaxRows
         /\ \A i \in DOMAIN rows : rows[i] \in RowType
<1>1. DOMAIN rows = 1 .. Len(rows) /\ Len(rows) \in Nat /\ \A i \in 1 .. Len(rows) : rows[i] \in RowType
  BY LenProperties, ElementOfSeq DEF RowsTyped
<1>2. Len(rows) <= MaxRows /\ MaxRows \in Nat
  BY PageAssumption DEF RowsTyped
<1>3. QED
  BY <1>1, <1>2

OpensSound == \A name \in DOMAIN Listings : RowsTyped /\ Opened(name) => CatalogIInv

LEMMA OpenedInv == OpensSound
<1> SUFFICES ASSUME NEW name \in DOMAIN Listings, RowsTyped, Opened(name)
             PROVE  CatalogIInv
  BY DEF OpensSound
<1>1. /\ reader.listing = name /\ reader.skip = 0 /\ reader.more = FALSE
      /\ reader.pending = Queries(Listings[name]) /\ reader.found = 0 /\ reader.total = 0
      /\ reader.shown = [i \in 1 .. MaxRows |-> 0]
      /\ during = [writes |-> 0, steady |-> Now, pushed |-> 0, pulled |-> 0, drift |-> 0]
  BY DEF Opened, Fresh, Unwritten, Now, Reading
<1>2. Now \subseteq DOMAIN rows /\ Now \subseteq 1 .. MaxRows
  BY RowFacts DEF Now, Listed
<1>3. CatalogTypeOK
  <2>1. reader \in ReaderType
    BY <1>1 DEF Opened, Fresh, ReaderType, Queries
  <2>2. during \in Counts
    BY <1>1, <1>2, PageAssumption DEF Counts
  <2>3. QED
    BY <2>1, <2>2 DEF RowsTyped, CatalogTypeOK
<1>4. Shown = {} /\ Repeats = {}
  BY <1>1 DEF Shown, Repeats
<1>5. Again = {}
  BY <1>4 DEF Again
<1>6. Skipped = {}
  <2>1. \A i \in Now : Place(Now, Reading.order, i) >= 0
    <3>1. IsFiniteSet(1 .. MaxRows)
      BY FS_Interval, PageAssumption
    <3>2. IsFiniteSet(Now)
      BY <1>2, <3>1, FS_Subset
    <3>3. Now \in SUBSET Nat
      BY <1>2, PageAssumption
    <3>4. \A i \in Now : Place(Now, Reading.order, i) \in Nat
      BY <3>2, <3>3, PlaceFacts
    <3>5. QED
      BY <3>4
  <2>2. QED
    BY <1>1, <2>1 DEF Skipped, Ahead, Now
<1>7. Paged
  BY <1>1, <1>4, <1>5, <1>6, FS_EmptySet DEF Paged
<1>8. Threaded
  BY <1>4, <1>5 DEF Threaded
<1>9. Totalled
  BY <1>1 DEF Totalled, Reading, Queries
<1>10. QED
  BY <1>1, <1>3, <1>4, <1>7, <1>8, <1>9, FS_EmptySet DEF CatalogIInv

LEMMA CatalogInitIInv == CatalogInit => CatalogIInv
<1> SUFFICES ASSUME CatalogInit PROVE CatalogIInv
  OBVIOUS
<1>1. RowsTyped
  BY PageAssumption, EmptySeq DEF CatalogInit, RowsTyped
<1>2. \E name \in DOMAIN Listings : Opened(name)
  BY DEF CatalogInit, Opened
<1>3. QED
  BY <1>1, <1>2, OpenedInv DEF OpensSound

LEMMA OpenStep ==
  ASSUME CatalogIInv, NEW name \in DOMAIN Listings, Open(name)
  PROVE  CatalogIInv'
<1>1. RowsTyped'
  BY DEF CatalogIInv, CatalogTypeOK, RowsTyped, Open, TableAt
<1>2. Opened(name)'
  BY DEF Opened, Open, Unwritten, Fresh
<1>3. OpensSound'
  BY OpenedInv, PTL
<1>4. QED
  BY <1>1, <1>2, <1>3 DEF OpensSound

(***************************************************************************)
(* Reads.                                                                  *)
(***************************************************************************)
LEMMA NowFacts ==
  ASSUME CatalogTypeOK
  PROVE  /\ RowsTyped /\ Reading = Listings[reader.listing] /\ reader.listing \in DOMAIN Listings
         /\ Now \subseteq DOMAIN rows /\ DOMAIN rows \subseteq 1 .. MaxRows
         /\ Now \in SUBSET Nat /\ IsFiniteSet(Now) /\ Cardinality(Now) \in Nat
         /\ reader.skip \in Nat /\ reader.found \in Nat /\ reader.total \in Nat
         /\ reader.shown \in [1 .. MaxRows -> Nat]
         /\ during.pushed \in Nat /\ during.pulled \in Nat /\ during.drift \in Nat
<1>1. RowsTyped
  BY DEF CatalogTypeOK, RowsTyped
<1>2. Now \subseteq DOMAIN rows /\ DOMAIN rows \subseteq 1 .. MaxRows
  BY <1>1, RowFacts DEF Now, Listed
<1>3. IsFiniteSet(1 .. MaxRows)
  BY FS_Interval, PageAssumption
<1>4. IsFiniteSet(Now)
  BY <1>2, <1>3, FS_Subset
<1>5. Cardinality(Now) \in Nat
  BY <1>4, FS_CardinalityType
<1>6. Now \in SUBSET Nat
  BY <1>2, PageAssumption
<1>7. QED
  BY <1>1, <1>2, <1>4, <1>5, <1>6 DEF CatalogTypeOK, ReaderType, Counts, Reading

LEMMA WithinFacts ==
  ASSUME NEW a \in Nat, NEW b \in Nat, NEW d \in Nat
  PROVE  Within(a, b, d) <=> a <= b + d /\ b <= a + d
BY DEF Within

(* What a step that changes neither the rows nor what was shown keeps.     *)
LEMMA StillPaged ==
  ASSUME CatalogIInv, UNCHANGED <<rows, during>>,
         reader'.listing = reader.listing, reader'.skip = reader.skip, reader'.shown = reader.shown
  PROVE  /\ Now' = Now /\ Reading' = Reading
         /\ Shown' \subseteq DOMAIN rows' /\ during'.steady \subseteq Now'
         /\ Paged' /\ Threaded'
<1>1. Reading' = Reading
  BY DEF Reading
<1>2. Now' = Now
  BY <1>1 DEF Now, Listed
<1>3. Shown' = Shown /\ Repeats' = Repeats
  BY DEF Shown, Repeats
<1>4. Ahead(Listed(rows, Reading))' = Ahead(Listed(rows, Reading))
  BY <1>1 DEF Ahead, Listed
<1>5. Again' = Again /\ Skipped' = Skipped
  BY <1>3, <1>4 DEF Again, Skipped
<1>6. Paged' /\ Threaded'
  BY <1>1, <1>3, <1>5 DEF CatalogIInv, Paged, Threaded
<1>7. QED
  BY <1>1, <1>2, <1>3, <1>6 DEF CatalogIInv

LEMMA ReadTotalStep ==
  ASSUME CatalogIInv, ReadTotal
  PROVE  CatalogIInv'
<1>1. /\ "total" \in reader.pending /\ UNCHANGED <<rows, during>>
      /\ reader' = [reader EXCEPT !.pending = @ \ {"total"}, !.total = Cardinality(Now)]
  BY DEF ReadTotal, Now, Reading
<1>2. CatalogTypeOK
  BY DEF CatalogIInv
<1>3. /\ reader' \in ReaderType
      /\ reader'.pending = reader.pending \ {"total"} /\ reader'.total = Cardinality(Now)
      /\ reader'.listing = reader.listing /\ reader'.skip = reader.skip /\ reader'.shown = reader.shown
      /\ reader'.more = reader.more /\ reader'.found = reader.found
      /\ reader.pending \subseteq {"items", "total"}
  BY <1>1, <1>2, NowFacts DEF CatalogTypeOK, ReaderType
<1>4. /\ Now' = Now /\ Reading' = Reading
      /\ Shown' \subseteq DOMAIN rows' /\ during'.steady \subseteq Now'
      /\ Paged' /\ Threaded'
  BY <1>1, <1>3, StillPaged
<1>5. CatalogTypeOK'
  BY <1>1, <1>2, <1>3 DEF CatalogTypeOK, TableAt
<1>6. Totalled'
  <2>1. ASSUME Reading.reads = "whole"
        PROVE  /\ ~reader'.more
               /\ "items" \in reader'.pending => reader'.skip = 0
               /\ reader'.pending \notin {{"items", "total"}, {"total"}}
               /\ reader'.pending = {"items"} => Within(reader'.total, Cardinality(Now), during.drift)
               /\ reader'.pending = {} => Within(reader'.total, reader'.found, during.drift)
    <3>1. /\ ~reader.more
          /\ "items" \in reader.pending => reader.skip = 0
          /\ reader.pending = {"items", "total"} => during.drift = 0
          /\ reader.pending = {"total"} => Within(Cardinality(Now), reader.found, during.drift)
      BY <2>1 DEF CatalogIInv, Totalled
    <3>2. reader.pending = {"items", "total"} \/ reader.pending = {"total"}
      BY <1>1, <1>3
    <3>3. Within(Cardinality(Now), Cardinality(Now), during.drift)
      BY <1>2, NowFacts, WithinFacts
    <3>4. CASE reader.pending = {"items", "total"}
      <4>1. reader'.pending = {"items"}
        BY <1>3, <3>4
      <4>2. reader'.pending \notin {{"items", "total"}, {"total"}} /\ reader'.pending # {}
        BY <4>1
      <4>3. "items" \in reader.pending
        BY <3>4
      <4>4. QED
        BY <1>3, <3>1, <3>3, <3>4, <4>2, <4>3, Zenon
    <3>5. CASE reader.pending = {"total"}
      <4>1. reader'.pending = {}
        BY <1>3, <3>5
      <4>2. reader'.pending \notin {{"items", "total"}, {"total"}} /\ reader'.pending # {"items"}
              /\ "items" \notin reader'.pending
        BY <4>1
      <4>3. QED
        BY <1>3, <3>1, <3>5, <4>2, Zenon
    <3>6. QED
      BY <3>2, <3>4, <3>5
  <2>2. QED
    BY <1>1, <1>4, <2>1 DEF Totalled
<1>7. QED
  BY <1>4, <1>5, <1>6 DEF CatalogIInv

LEMMA NextPageStep ==
  ASSUME CatalogIInv, NextPage
  PROVE  CatalogIInv'
<1>1. /\ reader.more /\ UNCHANGED <<rows, during>> /\ reader' = [reader EXCEPT !.pending = {"items"}]
  BY DEF NextPage
<1>2. CatalogTypeOK
  BY DEF CatalogIInv
<1>3. /\ reader' \in ReaderType /\ reader'.listing = reader.listing
      /\ reader'.skip = reader.skip /\ reader'.shown = reader.shown
  BY <1>1, <1>2 DEF CatalogTypeOK, ReaderType
<1>4. /\ Now' = Now /\ Reading' = Reading
      /\ Shown' \subseteq DOMAIN rows' /\ during'.steady \subseteq Now'
      /\ Paged' /\ Threaded'
  BY <1>1, <1>3, StillPaged
<1>5. CatalogTypeOK'
  BY <1>1, <1>2, <1>3 DEF CatalogTypeOK, TableAt
<1>6. Totalled'
  BY <1>1, <1>4 DEF CatalogIInv, Totalled
<1>7. QED
  BY <1>4, <1>5, <1>6 DEF CatalogIInv

LEMMA MeetFacts ==
  ASSUME NEW i, NEW page
  PROVE  Cardinality({i} \intersect page) = IF i \in page THEN 1 ELSE 0
<1>1. {i} \intersect page = IF i \in page THEN {i} ELSE {}
  OBVIOUS
<1>2. QED
  BY <1>1, FS_EmptySet, FS_Singleton

(* What a page shows, of rows that are met again as many as were shown.    *)
LEMMA PageShown ==
  ASSUME CatalogTypeOK, NEW page \in SUBSET (1 .. MaxRows), IsFiniteSet(page), IsFiniteSet(Repeats),
         \A i \in 1 .. MaxRows : reader'.shown[i] = reader.shown[i] + IF i \in page THEN 1 ELSE 0
  PROVE  /\ Shown' = Shown \union page
         /\ IsFiniteSet(Repeats') /\ Cardinality(Repeats') = Cardinality(Repeats) + Cardinality(page \intersect Shown)
         /\ page \intersect Shown = {} => Repeats' = Repeats
<1> DEFINE met == page \intersect Shown
           one == [i \in met |-> <<i, reader.shown[i] + 1>>]
           added == {<<i, reader.shown[i] + 1>> : i \in met}
<1>1. \A i \in 1 .. MaxRows : reader.shown[i] \in Nat
  BY NowFacts
<1>2. Shown' = Shown \union page
  <2>1. \A i \in 1 .. MaxRows : reader'.shown[i] > 0 <=> reader.shown[i] > 0 \/ i \in page
    BY <1>1
  <2>2. Shown' = {i \in 1 .. MaxRows : reader'.shown[i] > 0}
    BY DEF Shown
  <2>3. QED
    BY <2>1, <2>2 DEF Shown
<1>3. IsFiniteSet(met)
  BY FS_Intersection
<1>4. one \in Bijection(met, added)
  BY DEF Bijection, Injection, Surjection, IsInjective
<1>5. IsFiniteSet(added) /\ Cardinality(added) = Cardinality(met)
  BY <1>3, <1>4, FS_Bijection DEF ExistsBijection
<1>6. Repeats' = Repeats \union added
  <2>1. \A i \in 1 .. MaxRows :
          2 .. reader'.shown[i] = (2 .. reader.shown[i]) \union IF i \in met THEN {reader.shown[i] + 1} ELSE {}
    BY <1>1 DEF Shown
  <2>2. Repeats' = UNION {{i} \X (2 .. reader'.shown[i]) : i \in 1 .. MaxRows}
    BY DEF Repeats
  <2>3. QED
    BY <2>1, <2>2 DEF Repeats, Shown
<1>7. Repeats \intersect added = {}
  BY <1>1 DEF Repeats, Shown
<1>8. /\ IsFiniteSet(Repeats')
      /\ Cardinality(Repeats') = Cardinality(Repeats) + Cardinality(added) - Cardinality({})
  BY <1>5, <1>6, <1>7, FS_Union
<1>9. Cardinality({}) = 0 /\ Cardinality(Repeats) \in Nat /\ Cardinality(added) \in Nat
  BY <1>5, FS_EmptySet, FS_CardinalityType
<1>10. met = {} => Repeats' = Repeats
  BY <1>6
<1>11. QED
  BY <1>2, <1>5, <1>8, <1>9, <1>10

(* What a query answers with is listed.                                    *)
LEMMA QueryFacts ==
  ASSUME CatalogTypeOK, NEW page \in Query(Reading, reader.skip), NEW filling \in Filling(Reading, page)
  PROVE  /\ page \subseteq Now /\ IsFiniteSet(page) /\ Cardinality(page) \in Nat
         /\ filling \subseteq DOMAIN rows /\ IsFiniteSet(filling) /\ Cardinality(filling) \in Nat
         /\ ~Reading.padded => filling = {}
         /\ Reading.reads = "whole" => page = Now /\ filling = {}
<1>1. page \subseteq Now
  <2>1. CASE Reading.reads = "whole"
    BY <2>1 DEF Query, Now
  <2>2. CASE Reading.reads # "whole" /\ Reading = TrendingPosts
    BY <2>2 DEF Query, Now
  <2>3. CASE Reading.reads # "whole" /\ Reading # TrendingPosts
    <3>1. \/ page \in kSubset(Cardinality({i \in Now : Place(Now, Reading.order, i) \in reader.skip .. reader.skip + Take - 1}), Now)
          \/ page = {i \in Now : Place(Now, Reading.order, i) \in reader.skip .. reader.skip + Take - 1}
      BY <2>3 DEF Query, Now
    <3>2. QED
      BY <3>1 DEF kSubset
  <2>4. QED
    BY <2>1, <2>2, <2>3
<1>2. ASSUME Reading.reads = "whole"
      PROVE  page = Now /\ ~Reading.padded
  <2>1. Reading # TrendingPosts
    BY <1>2 DEF TrendingPosts, Listing
  <2>2. Query(Reading, reader.skip) = {Now}
    BY <1>2, <2>1 DEF Query, Now
  <2>3. ~Reading.padded
    BY <1>2, NowFacts, ListingsAssumption
  <2>4. QED
    BY <2>2, <2>3
<1>3. filling \subseteq DOMAIN rows /\ (~Reading.padded => filling = {})
  BY DEF Filling, Listed
<1>4. IsFiniteSet(page) /\ IsFiniteSet(filling)
  <2>1. IsFiniteSet(1 .. MaxRows)
    BY FS_Interval, PageAssumption
  <2>2. page \subseteq 1 .. MaxRows /\ filling \subseteq 1 .. MaxRows
    BY <1>1, <1>3, NowFacts
  <2>3. QED
    BY <2>1, <2>2, FS_Subset
<1>5. Cardinality(page) \in Nat /\ Cardinality(filling) \in Nat
  BY <1>4, FS_CardinalityType
<1>6. QED
  BY <1>1, <1>2, <1>3, <1>4, <1>5

(* An ordered page is what comes next, and leaves what comes after it.     *)
LEMMA PageFacts ==
  ASSUME CatalogIInv, Reading.order # "none", "items" \in reader.pending, NEW page \in Query(Reading, reader.skip)
  PROVE  /\ page \subseteq From(Now, Reading.order, reader.skip)
         /\ From(Now, Reading.order, reader.skip + Cardinality(page))
              = From(Now, Reading.order, reader.skip) \ page
<1>1. CatalogTypeOK
  BY DEF CatalogIInv
<1>2. Reading # TrendingPosts
  BY DEF TrendingPosts, Listing
<1>3. CASE Reading.reads = "whole"
  <2>1. page = Now /\ reader.skip = 0
    <3>1. Query(Reading, reader.skip) = {Now}
      BY <1>2, <1>3 DEF Query, Now
    <3>2. QED
      BY <1>3, <3>1 DEF CatalogIInv, Totalled
  <2>2. \A i \in Now : Place(Now, Reading.order, i) \in 0 .. Cardinality(Now) - 1
    BY <1>1, NowFacts, PlaceFacts
  <2>3. \A i \in Now : Place(Now, Reading.order, i) >= 0 /\ ~(Place(Now, Reading.order, i) >= 0 + Cardinality(Now))
    BY <1>1, <2>2, NowFacts
  <2>4. From(Now, Reading.order, 0) = Now /\ From(Now, Reading.order, 0 + Cardinality(Now)) = {}
    BY <2>3 DEF From
  <2>5. QED
    BY <2>1, <2>4
<1>4. CASE Reading.reads # "whole"
  <2>1. page = PageOf(Now, Reading.order, reader.skip, Take)
    BY <1>2, <1>4 DEF Query, Now, PageOf
  <2>2. Take \in Nat
    BY PageAssumption
  <2>3. QED
    BY <1>1, <2>1, <2>2, NowFacts, PageTurned
<1>5. QED
  BY <1>3, <1>4

LEMMA ReadItemsStep ==
  ASSUME CatalogIInv, ReadItems
  PROVE  CatalogIInv'
<1> DEFINE times(i, p, f) == Cardinality({i} \intersect p) + Cardinality({i} \intersect f)
           Reads(p, f) ==
             reader' = [reader EXCEPT
               !.pending = @ \ {"items"}, !.skip = @ + (Cardinality(p) + Cardinality(f)),
               !.found = IF Reading.reads = "whole" THEN Cardinality(p) + Cardinality(f) ELSE 0,
               !.more = Reading.reads = "pages" /\ Cardinality(p) + Cardinality(f) = Take,
               !.shown = [i \in DOMAIN @ |-> @[i] + times(i, p, f)]]
<1>0. PICK page \in Query(Reading, reader.skip) : \E filling \in Filling(Reading, page) : Reads(page, filling)
  BY DEF ReadItems, Reading
<1>1. PICK filling \in Filling(Reading, page) : Reads(page, filling)
  BY <1>0
<1>2. CatalogTypeOK /\ "items" \in reader.pending /\ UNCHANGED <<rows, during>>
  BY DEF CatalogIInv, ReadItems
<1>3. PICK size \in Nat : size = Cardinality(page) + Cardinality(filling)
  BY <1>2, QueryFacts
<1>4. \A i \in 1 .. MaxRows : times(i, page, filling) = (IF i \in page THEN 1 ELSE 0) + (IF i \in filling THEN 1 ELSE 0)
  BY MeetFacts
<1>5. /\ reader'.listing = reader.listing /\ reader'.pending = reader.pending \ {"items"}
      /\ reader'.skip = reader.skip + size
      /\ Reading.reads = "whole" => reader'.found = size /\ ~reader'.more
      /\ reader'.total = reader.total
      /\ reader'.shown \in [1 .. MaxRows -> Nat]
      /\ \A i \in 1 .. MaxRows : reader'.shown[i]
           = reader.shown[i] + ((IF i \in page THEN 1 ELSE 0) + (IF i \in filling THEN 1 ELSE 0))
      /\ reader' \in ReaderType
  <2>1. PICK more \in BOOLEAN : more = (Reading.reads = "pages" /\ size = Take)
    OBVIOUS
  <2>2. PICK found \in Nat : found = IF Reading.reads = "whole" THEN size ELSE 0
    OBVIOUS
  <2>3. PICK shown \in [1 .. MaxRows -> Nat] :
          shown = [i \in 1 .. MaxRows |->
                     reader.shown[i] + ((IF i \in page THEN 1 ELSE 0) + (IF i \in filling THEN 1 ELSE 0))]
    <3>1. \A i \in 1 .. MaxRows : reader.shown[i] \in Nat
      BY <1>2, NowFacts
    <3>2. \A i \in 1 .. MaxRows :
            reader.shown[i] + ((IF i \in page THEN 1 ELSE 0) + (IF i \in filling THEN 1 ELSE 0)) \in Nat
      BY <3>1
    <3>3. [i \in 1 .. MaxRows |-> reader.shown[i] + ((IF i \in page THEN 1 ELSE 0) + (IF i \in filling THEN 1 ELSE 0))]
            \in [1 .. MaxRows -> Nat]
      BY <3>2
    <3>4. QED
      BY <3>3, Zenon
  <2>4. [i \in DOMAIN reader.shown |-> reader.shown[i] + times(i, page, filling)] = shown
    BY <1>2, <1>4, <2>3, NowFacts
  <2>5. reader' = [reader EXCEPT !.pending = @ \ {"items"}, !.skip = @ + size, !.found = found,
                                 !.more = more, !.shown = shown]
    BY <1>1, <1>3, <2>1, <2>2, <2>4
  <2>6. reader \in ReaderType
    BY <1>2 DEF CatalogTypeOK
  <2>7. reader.skip + size \in Nat /\ reader.pending \ {"items"} \in SUBSET {"items", "total"}
    BY <1>3, <2>6 DEF ReaderType
  <2>8. /\ reader' \in ReaderType
        /\ reader'.listing = reader.listing /\ reader'.pending = reader.pending \ {"items"}
        /\ reader'.skip = reader.skip + size /\ reader'.found = found /\ reader'.more = more
        /\ reader'.total = reader.total /\ reader'.shown = shown
    <3>1. PICK skip \in Nat : skip = reader.skip + size
      BY <2>7
    <3>2. PICK pending \in SUBSET {"items", "total"} : pending = reader.pending \ {"items"}
      BY <2>7
    <3>3. reader' = [reader EXCEPT !.pending = pending, !.skip = skip, !.found = found,
                                   !.more = more, !.shown = shown]
      BY <2>5, <3>1, <3>2
    <3>4. QED
      BY <2>6, <3>1, <3>2, <3>3 DEF ReaderType
  <2>9. Reading.reads = "whole" => reader'.found = size /\ ~reader'.more
    BY <2>1, <2>2, <2>8
  <2>10. \A i \in 1 .. MaxRows : reader'.shown[i]
           = reader.shown[i] + ((IF i \in page THEN 1 ELSE 0) + (IF i \in filling THEN 1 ELSE 0))
    BY <2>3, <2>8
  <2>11. QED
    BY <2>3, <2>8, <2>9, <2>10, Zenon
<1>6. Reading' = Reading /\ Now' = Now
  BY <1>2, <1>5 DEF Reading, Now, Listed
<1>7. CatalogTypeOK'
  BY <1>2, <1>5 DEF CatalogTypeOK, TableAt
<1>8. Shown' \subseteq DOMAIN rows'
  <2>1. \A i \in 1 .. MaxRows : reader'.shown[i] > 0 => reader.shown[i] > 0 \/ i \in page \/ i \in filling
    <3>1. ASSUME NEW i \in 1 .. MaxRows, i \notin page, i \notin filling
          PROVE  reader'.shown[i] = reader.shown[i]
      <4>1. reader'.shown[i] = reader.shown[i] + (0 + 0) /\ reader.shown[i] \in Nat
        BY <1>2, <1>5, <3>1, NowFacts
      <4>2. QED
        BY <4>1
    <3>2. QED
      BY <3>1
  <2>2. page \subseteq DOMAIN rows /\ filling \subseteq DOMAIN rows
    BY <1>2, QueryFacts, NowFacts
  <2>3. Shown' = {i \in 1 .. MaxRows : reader'.shown[i] > 0}
    BY DEF Shown
  <2>4. QED
    BY <1>2, <2>1, <2>2, <2>3 DEF CatalogIInv, Shown
<1>9. during'.steady \subseteq Now'
  BY <1>2, <1>6 DEF CatalogIInv
<1>10. ASSUME Reading.order # "none", ~Reading.padded, IsFiniteSet(Repeats)
       PROVE  /\ IsFiniteSet(Repeats')
              /\ Cardinality(Repeats') + Cardinality(Again') = Cardinality(Repeats) + Cardinality(Again)
              /\ Skipped' = Skipped
              /\ Again = {} => Repeats' = Repeats /\ Again' = {}
  <2>1. filling = {} /\ page \subseteq Now /\ IsFiniteSet(page) /\ page \in SUBSET (1 .. MaxRows)
    BY <1>2, <1>10, QueryFacts, NowFacts
  <2>2. size = Cardinality(page)
    BY <1>2, <1>3, <2>1, QueryFacts, FS_EmptySet
  <2>3. \A i \in 1 .. MaxRows : reader'.shown[i] = reader.shown[i] + IF i \in page THEN 1 ELSE 0
    BY <1>2, <1>5, <2>1, NowFacts
  <2>4. /\ Shown' = Shown \union page /\ IsFiniteSet(Repeats')
        /\ Cardinality(Repeats') = Cardinality(Repeats) + Cardinality(page \intersect Shown)
        /\ page \intersect Shown = {} => Repeats' = Repeats
    BY <1>2, <1>10, <2>1, <2>3, PageShown
  <2>5. /\ Ahead(Now) = From(Now, Reading.order, reader.skip)
        /\ Ahead(Listed(rows, Reading))' = From(Now, Reading.order, reader.skip + size)
    BY <1>2, <1>5, <1>6 DEF Ahead, From, Now, Listed
  <2>6. page \subseteq Ahead(Now) /\ Ahead(Listed(rows, Reading))' = Ahead(Now) \ page
    BY <1>2, <1>10, <2>2, <2>5, PageFacts
  <2>7. Again = Ahead(Now) \intersect Shown /\ Again' = Ahead(Listed(rows, Reading))' \intersect Shown'
    BY DEF Again, Now
  <2>8. page \intersect Shown = page \intersect Again /\ Again' = Again \ page
    BY <2>4, <2>6, <2>7
  <2>9. Skipped' = Skipped
    <3>1. Skipped = (during.steady \ Ahead(Now)) \ Shown
      BY DEF Skipped, Now
    <3>2. Skipped' = (during.steady \ Ahead(Listed(rows, Reading))') \ Shown'
      BY <1>2 DEF Skipped
    <3>3. QED
      BY <2>4, <2>6, <3>1, <3>2
  <2>10. IsFiniteSet(Again) /\ Cardinality(Again) \in Nat
    <3>1. Again \in SUBSET Now
      BY DEF Again, Ahead, Now
    <3>2. QED
      BY <1>2, <3>1, NowFacts, FS_Subset, FS_CardinalityType
  <2>11. Cardinality(Again \ page) = Cardinality(Again) - Cardinality(Again \intersect page)
    BY <2>10, FS_Difference
  <2>12. page \intersect Shown = Again \intersect page
    BY <2>8
  <2>13. Cardinality(Again \intersect page) \in Nat /\ Cardinality(Repeats) \in Nat
    BY <1>10, <2>10, FS_Intersection, FS_CardinalityType
  <2>14. Cardinality(Repeats') + Cardinality(Again') = Cardinality(Repeats) + Cardinality(Again)
    <3>1. /\ Cardinality(Repeats') = Cardinality(Repeats) + Cardinality(Again \intersect page)
          /\ Cardinality(Again') = Cardinality(Again) - Cardinality(Again \intersect page)
      BY <2>4, <2>8, <2>11, <2>12
    <3>2. QED
      BY <2>10, <2>13, <3>1
  <2>15. Again = {} => Repeats' = Repeats /\ Again' = {}
    BY <2>4, <2>8
  <2>16. QED
    BY <2>4, <2>9, <2>14, <2>15
<1>11. Paged'
  <2>1. SUFFICES ASSUME Reading.order # "none", ~Reading.padded
                 PROVE  /\ IsFiniteSet(Repeats')
                        /\ Cardinality(Repeats') + Cardinality(Again') <= during.pushed
                        /\ Cardinality(Skipped') <= during.pulled
    BY <1>2, <1>6 DEF Paged
  <2>2. /\ IsFiniteSet(Repeats)
        /\ Cardinality(Repeats) + Cardinality(Again) <= during.pushed
        /\ Cardinality(Skipped) <= during.pulled
    BY <2>1 DEF CatalogIInv, Paged
  <2>3. QED
    BY <1>10, <2>1, <2>2
<1>12. Threaded'
  <2>1. SUFFICES ASSUME Reading \in Threads PROVE Repeats' = {} /\ Again' = {}
    BY <1>6 DEF Threaded
  <2>2. Reading.order # "none" /\ ~Reading.padded
    BY <2>1 DEF Threads, CommentsByPost, Pages, Listing
  <2>3. Repeats = {} /\ Again = {} /\ IsFiniteSet(Repeats)
    BY <2>1, FS_EmptySet DEF CatalogIInv, Threaded
  <2>4. QED
    BY <1>10, <2>2, <2>3
<1>13. Totalled'
  <2>1. ASSUME Reading.reads = "whole"
        PROVE  /\ ~reader'.more
               /\ "items" \notin reader'.pending
               /\ reader'.pending = {"total"} => Within(Cardinality(Now), reader'.found, during.drift)
               /\ reader'.pending = {} => Within(reader'.total, reader'.found, during.drift)
    <3>1. page = Now /\ filling = {}
      BY <1>2, <2>1, QueryFacts
    <3>2. reader'.found = Cardinality(Now) /\ ~reader'.more
      <4>1. reader'.found = size /\ ~reader'.more
        BY <1>5, <2>1
      <4>2. size = Cardinality(Now) + 0
        BY <1>3, <3>1, FS_EmptySet
      <4>3. Cardinality(Now) \in Nat
        BY <1>2, NowFacts
      <4>4. QED
        BY <4>1, <4>2, <4>3
    <3>3. Within(Cardinality(Now), Cardinality(Now), during.drift)
      <4>1. PICK n \in Nat, d \in Nat : n = Cardinality(Now) /\ d = during.drift
        BY <1>2, NowFacts
      <4>2. n <= n + d
        BY <4>1
      <4>3. Within(n, n, d)
        BY <4>2, WithinFacts
      <4>4. QED
        BY <4>1, <4>3
    <3>4. reader.pending = {"items"} => Within(reader.total, Cardinality(Now), during.drift)
      BY <2>1 DEF CatalogIInv, Totalled
    <3>5. reader'.pending = {} => reader.pending = {"items"}
      BY <1>2, <1>5
    <3>6. "items" \notin reader'.pending
      BY <1>5
    <3>7. QED
      BY <1>5, <3>2, <3>3, <3>4, <3>5, <3>6
  <2>2. ASSUME "items" \notin reader'.pending
        PROVE  reader'.pending # {"items", "total"} /\ reader'.pending # {"items"}
    BY <2>2
  <2>3. QED
    BY <1>2, <1>6, <2>1, <2>2 DEF Totalled
<1>14. QED
  BY <1>7, <1>8, <1>9, <1>11, <1>12, <1>13 DEF CatalogIInv

(***************************************************************************)
(* Writes: each is of one row, which the listing being read keeps, gains   *)
(* or loses.                                                               *)
(***************************************************************************)
WritesRow(i) ==
  /\ i \in DOMAIN rows' /\ DOMAIN rows' = DOMAIN rows \union {i}
  /\ \A j \in DOMAIN rows \ {i} : rows'[j] = rows[j]
  /\ i \in DOMAIN rows =>
       /\ ~rows[i].removed /\ TableOf[rows'[i].shape] = TableAt(i)
       /\ TableAt(i) = "comment" => rows'[i].shape = rows[i].shape /\ rows'[i].offered = rows[i].offered
  /\ i \notin DOMAIN rows => \A j \in DOMAIN rows : j < i

Drifts == IF Cardinality(reader.pending) = 1 THEN 1 ELSE 0
Pushes(i) == IF Place(Now', Reading.order, i) < reader.skip \/ reader.shown[i] > 0 THEN 1 ELSE 0
Pulls(i) == IF Place(Now, Reading.order, i) < reader.skip THEN 1 ELSE 0

Stays == Now' = Now /\ during'.steady = during.steady /\ during'.pushed = during.pushed
           /\ during'.pulled = during.pulled /\ during'.drift = during.drift
Comes(i) ==
  /\ i \notin Now /\ Now' = Now \union {i} /\ during'.steady = during.steady
  /\ during'.pushed = during.pushed + Pushes(i) /\ during'.pulled = during.pulled
  /\ during'.drift = during.drift + Drifts
Goes(i) ==
  /\ i \in Now /\ Now' = Now \ {i} /\ during'.steady = during.steady \ {i}
  /\ during'.pushed = during.pushed /\ during'.pulled = during.pulled + Pulls(i)
  /\ during'.drift = during.drift + Drifts

LEMMA WriteFacts ==
  ASSUME CatalogTypeOK, RowsTyped', NEW new, Write(new), NEW i \in 1 .. MaxRows, WritesRow(i)
  PROVE  /\ UNCHANGED reader /\ Reading' = Reading /\ Shown' = Shown /\ Repeats' = Repeats
         /\ during' \in Counts
         /\ Stays \/ Comes(i) \/ Goes(i)
<1> DEFINE came == Now' \ Now
           gone == Now \ Now'
           pushed == {j \in came : Place(Now', Reading.order, j) < reader.skip \/ reader.shown[j] > 0}
           pulled == {j \in gone : Place(Now, Reading.order, j) < reader.skip}
           drift == IF Cardinality(reader.pending) = 1 THEN Cardinality(came \union gone) ELSE 0
<1>1. UNCHANGED reader /\ Reading' = Reading /\ Shown' = Shown /\ Repeats' = Repeats
  BY DEF Write, Reading, Shown, Repeats
<1>2. rows' = new /\ Now' = Listed(new, Reading)
  BY <1>1 DEF Write, Now, Listed
<1>3. during' = [writes |-> during.writes + 1, steady |-> during.steady \ gone,
                 pushed |-> during.pushed + Cardinality(pushed), pulled |-> during.pulled + Cardinality(pulled),
                 drift |-> during.drift + drift]
  BY <1>2 DEF Write, Now, Reading
<1>4. during.writes \in 0 .. MaxWrites /\ during.writes < MaxWrites /\ during.steady \in SUBSET (1 .. MaxRows)
  BY DEF CatalogTypeOK, Counts, Write
<1>5. during.pushed \in Nat /\ during.pulled \in Nat /\ during.drift \in Nat
  BY NowFacts
<1>6. \A j : j # i => (j \in Now' <=> j \in Now)
  BY <1>1 DEF WritesRow, Now, Listed
<1>7. Cardinality({}) = 0 /\ Cardinality({i}) = 1
  BY FS_EmptySet, FS_Singleton
<1>8. CASE came = {} /\ gone = {}
  <2>1. pushed = {} /\ pulled = {} /\ came \union gone = {}
    BY <1>8
  <2>2. Cardinality(pushed) = 0 /\ Cardinality(pulled) = 0 /\ drift = 0
    BY <1>7, <2>1
  <2>3. during' = [writes |-> during.writes + 1, steady |-> during.steady, pushed |-> during.pushed,
                   pulled |-> during.pulled, drift |-> during.drift]
    <3> HIDE DEF pushed, pulled, drift
    <3>1. during.steady \ gone = during.steady
      BY <1>8
    <3> HIDE DEF came, gone
    <3>2. QED
      BY <1>3, <1>5, <2>2, <3>1
  <2>4. during' \in Counts
    BY <1>4, <1>5, <2>3, PageAssumption DEF Counts
  <2>5. Stays
    BY <1>8, <2>3 DEF Stays
  <2>6. QED
    BY <1>1, <2>4, <2>5
<1>9. CASE came # {}
  <2>1. came = {i} /\ gone = {} /\ came \union gone = {i}
    BY <1>6, <1>9
  <2>2. pulled = {} /\ pushed = IF Place(Now', Reading.order, i) < reader.skip \/ reader.shown[i] > 0 THEN {i} ELSE {}
    BY <2>1
  <2>3. Cardinality(pushed) = Pushes(i) /\ Cardinality(pulled) = 0 /\ drift = Drifts
    BY <1>7, <2>1, <2>2 DEF Pushes, Drifts
  <2>4. during' = [writes |-> during.writes + 1, steady |-> during.steady, pushed |-> during.pushed + Pushes(i),
                   pulled |-> during.pulled, drift |-> during.drift + Drifts]
    <3> HIDE DEF pushed, pulled, drift
    <3>1. during.steady \ gone = during.steady
      BY <2>1
    <3> HIDE DEF came, gone
    <3>2. QED
      BY <1>3, <1>5, <2>3, <3>1
  <2>5. during.pushed + Pushes(i) \in Nat /\ during.drift + Drifts \in Nat
    BY <1>5 DEF Pushes, Drifts
  <2>6. during' \in Counts
    BY <1>4, <1>5, <2>4, <2>5, PageAssumption DEF Counts
  <2>7. i \notin Now /\ Now' = Now \union {i}
    BY <2>1
  <2>8. Comes(i)
    BY <2>4, <2>7 DEF Comes
  <2>9. QED
    BY <1>1, <2>6, <2>8
<1>10. CASE gone # {}
  <2>1. gone = {i} /\ came = {} /\ came \union gone = {i}
    BY <1>6, <1>10
  <2>2. pushed = {} /\ pulled = IF Place(Now, Reading.order, i) < reader.skip THEN {i} ELSE {}
    BY <2>1
  <2>3. Cardinality(pushed) = 0 /\ Cardinality(pulled) = Pulls(i) /\ drift = Drifts
    BY <1>7, <2>1, <2>2 DEF Pulls, Drifts
  <2>4. during' = [writes |-> during.writes + 1, steady |-> during.steady \ {i}, pushed |-> during.pushed,
                   pulled |-> during.pulled + Pulls(i), drift |-> during.drift + Drifts]
    <3> HIDE DEF pushed, pulled, drift
    <3>1. during.steady \ gone = during.steady \ {i}
      BY <2>1
    <3> HIDE DEF came, gone
    <3>2. QED
      BY <1>3, <1>5, <2>3, <3>1
  <2>5. during.pulled + Pulls(i) \in Nat /\ during.drift + Drifts \in Nat
    BY <1>5 DEF Pulls, Drifts
  <2>6. during' \in Counts
    BY <1>4, <1>5, <2>4, <2>5, PageAssumption DEF Counts
  <2>7. i \in Now /\ Now' = Now \ {i}
    BY <2>1
  <2>8. Goes(i)
    BY <2>4, <2>7 DEF Goes
  <2>9. QED
    BY <1>1, <2>6, <2>8
<1>11. QED
  BY <1>8, <1>9, <1>10

LEMMA OneMore ==
  ASSUME NEW S, IsFiniteSet(S), NEW T, NEW x, T \subseteq S \union {x}
  PROVE  Cardinality(T) <= Cardinality(S) + 1
<1>1. /\ IsFiniteSet(S \union {x})
      /\ Cardinality(S \union {x}) = IF x \in S THEN Cardinality(S) ELSE Cardinality(S) + 1
      /\ Cardinality(S) \in Nat
  BY FS_AddElement, FS_CardinalityType
<1>2. T \in SUBSET (S \union {x})
  OBVIOUS
<1>3. IsFiniteSet(T) /\ Cardinality(T) <= Cardinality(S \union {x})
  BY <1>1, <1>2, FS_Subset
<1>4. Cardinality(T) \in Nat
  BY <1>3, FS_CardinalityType
<1>5. QED
  BY <1>1, <1>3, <1>4

LEMMA NoMore ==
  ASSUME NEW S, IsFiniteSet(S), NEW T \in SUBSET S
  PROVE  Cardinality(T) <= Cardinality(S) /\ Cardinality(T) \in Nat /\ Cardinality(S) \in Nat
BY FS_Subset, FS_CardinalityType

(* What is again and what is skipped, by the rows from the skip on.        *)
LEMMA AheadFacts ==
  ASSUME CatalogTypeOK
  PROVE  /\ Again = From(Now, Reading.order, reader.skip) \intersect Shown
         /\ Skipped = (during.steady \ From(Now, Reading.order, reader.skip)) \ Shown
         /\ IsFiniteSet(Again) /\ IsFiniteSet(Skipped)
<1>1. /\ Again = From(Now, Reading.order, reader.skip) \intersect Shown
      /\ Skipped = (during.steady \ From(Now, Reading.order, reader.skip)) \ Shown
  BY DEF Again, Skipped, Ahead, From, Now
<1>2. IsFiniteSet(1 .. MaxRows)
  BY FS_Interval, PageAssumption
<1>3. Again \subseteq 1 .. MaxRows /\ Skipped \subseteq 1 .. MaxRows
  BY <1>1 DEF Shown, CatalogTypeOK, Counts
<1>4. QED
  BY <1>1, <1>2, <1>3, FS_Subset

LEMMA AheadFactsPrimed ==
  ASSUME Reading' = Reading, UNCHANGED reader, Shown' = Shown
  PROVE  /\ Again' = From(Now', Reading.order, reader.skip) \intersect Shown
         /\ Skipped' = (during'.steady \ From(Now', Reading.order, reader.skip)) \ Shown
BY DEF Again, Skipped, Ahead, From, Now

(* A write moves a listing as far as it pushes or pulls.                   *)
Moves ==
  \/ /\ during'.pushed = during.pushed /\ during'.pulled = during.pulled
     /\ Again' \subseteq Again /\ Skipped' \subseteq Skipped
  \/ /\ during'.pushed = during.pushed + 1 /\ during'.pulled = during.pulled
     /\ (\E x : Again' \subseteq Again \union {x}) /\ Skipped' \subseteq Skipped
  \/ /\ during'.pushed = during.pushed /\ during'.pulled = during.pulled + 1
     /\ Again' \subseteq Again /\ \E x : Skipped' \subseteq Skipped \union {x}

LEMMA ComesMoves ==
  ASSUME CatalogTypeOK, NEW i \in 1 .. MaxRows, Comes(i),
         Reading' = Reading, UNCHANGED reader, Shown' = Shown
  PROVE  Moves
<1> DEFINE before == From(Now, Reading.order, reader.skip)
           after == From(Now', Reading.order, reader.skip)
           place == Place(Now', Reading.order, i)
<1>1. i \notin Now /\ Now' = Now \union {i} /\ during'.steady = during.steady
  BY DEF Comes
<1>2. Now \in SUBSET Nat /\ IsFiniteSet(Now) /\ reader.skip \in Nat /\ i \in Nat
  BY NowFacts, PageAssumption
<1>3. /\ before \subseteq after
      /\ place >= reader.skip => after = before \union {i}
      /\ place < reader.skip => \E j : after \subseteq before \union {j}
  <2>1. Gains(Now', Now, i)
    BY <1>1 DEF Gains
  <2>2. QED
    BY <1>2, <2>1, RowComes
<1>4. place \in Nat
  <2>1. Now' \in SUBSET Nat /\ IsFiniteSet(Now') /\ i \in Now'
    BY <1>1, <1>2, FS_AddElement
  <2>2. QED
    BY <2>1, PlaceFacts
<1>5. /\ Again = before \intersect Shown /\ Again' = after \intersect Shown
      /\ Skipped = (during.steady \ before) \ Shown /\ Skipped' = (during.steady \ after) \ Shown
  BY <1>1, AheadFacts, AheadFactsPrimed
<1>6. Skipped' \subseteq Skipped
  BY <1>3, <1>5
<1>7. during'.pulled = during.pulled /\ during'.pushed = during.pushed + Pushes(i) /\ during.pushed \in Nat
  BY NowFacts DEF Comes
<1>8. i \in Shown <=> reader.shown[i] > 0
  BY DEF Shown
<1>9. CASE place < reader.skip
  <2>1. Pushes(i) = 1
    BY <1>9 DEF Pushes
  <2>2. \E x : Again' \subseteq Again \union {x}
    BY <1>3, <1>5, <1>9
  <2>3. QED
    BY <1>6, <1>7, <2>1, <2>2 DEF Moves
<1>10. CASE ~(place < reader.skip) /\ i \in Shown
  <2>1. Pushes(i) = 1
    BY <1>8, <1>10 DEF Pushes
  <2>2. place >= reader.skip
    BY <1>2, <1>4, <1>10
  <2>3. Again' \subseteq Again \union {i}
    BY <1>3, <1>5, <2>2
  <2>4. QED
    BY <1>6, <1>7, <2>1, <2>3 DEF Moves
<1>11. CASE ~(place < reader.skip) /\ i \notin Shown
  <2>1. Pushes(i) = 0
    BY <1>8, <1>11 DEF Pushes
  <2>2. place >= reader.skip
    BY <1>2, <1>4, <1>11
  <2>3. Again' \subseteq Again
    BY <1>3, <1>5, <1>11, <2>2
  <2>4. during'.pushed = during.pushed
    BY <1>7, <2>1
  <2>5. QED
    BY <1>6, <1>7, <2>3, <2>4 DEF Moves
<1>12. QED
  BY <1>9, <1>10, <1>11

LEMMA GoesMoves ==
  ASSUME CatalogTypeOK, NEW i \in 1 .. MaxRows, Goes(i),
         Reading' = Reading, UNCHANGED reader, Shown' = Shown
  PROVE  Moves
<1> DEFINE before == From(Now, Reading.order, reader.skip)
           after == From(Now', Reading.order, reader.skip)
           place == Place(Now, Reading.order, i)
<1>1. i \notin Now' /\ Now = Now' \union {i} /\ i \in Now /\ during'.steady = during.steady \ {i}
  BY DEF Goes
<1>2. /\ Now \in SUBSET Nat /\ IsFiniteSet(Now) /\ reader.skip \in Nat /\ i \in Nat
      /\ Now' \in SUBSET Nat /\ IsFiniteSet(Now')
  <2>1. Now \in SUBSET Nat /\ IsFiniteSet(Now) /\ reader.skip \in Nat /\ i \in Nat
    BY NowFacts, PageAssumption
  <2>2. QED
    BY <1>1, <2>1, FS_Subset
<1>3. /\ after \subseteq before
      /\ place >= reader.skip => before = after \union {i}
      /\ place < reader.skip => \E j : before \subseteq after \union {j}
  <2>1. Gains(Now, Now', i)
    BY <1>1 DEF Gains
  <2>2. QED
    BY <1>2, <2>1, RowComes
<1>4. place \in Nat
  BY <1>1, <1>2, PlaceFacts
<1>5. /\ Again = before \intersect Shown /\ Again' = after \intersect Shown
      /\ Skipped = (during.steady \ before) \ Shown /\ Skipped' = ((during.steady \ {i}) \ after) \ Shown
  BY <1>1, AheadFacts, AheadFactsPrimed
<1>6. Again' \subseteq Again
  BY <1>3, <1>5
<1>7. during'.pushed = during.pushed /\ during'.pulled = during.pulled + Pulls(i) /\ during.pulled \in Nat
  BY NowFacts DEF Goes
<1>8. CASE place < reader.skip
  <2>1. Pulls(i) = 1
    BY <1>8 DEF Pulls
  <2>2. \E x : Skipped' \subseteq Skipped \union {x}
    BY <1>3, <1>5, <1>8
  <2>3. QED
    BY <1>6, <1>7, <2>1, <2>2 DEF Moves
<1>9. CASE ~(place < reader.skip)
  <2>1. Pulls(i) = 0
    BY <1>9 DEF Pulls
  <2>2. place >= reader.skip
    BY <1>2, <1>4, <1>9
  <2>3. Skipped' \subseteq Skipped
    BY <1>3, <1>5, <2>2
  <2>4. during'.pulled = during.pulled
    BY <1>7, <2>1
  <2>5. QED
    BY <1>6, <1>7, <2>3, <2>4 DEF Moves
<1>10. QED
  BY <1>8, <1>9

LEMMA WritePaged ==
  ASSUME CatalogIInv, Moves, Reading' = Reading, Repeats' = Repeats, during' \in Counts
  PROVE  Paged'
<1>1. SUFFICES ASSUME Reading.order # "none", ~Reading.padded
               PROVE  /\ IsFiniteSet(Repeats)
                      /\ Cardinality(Repeats) + Cardinality(Again') <= during'.pushed
                      /\ Cardinality(Skipped') <= during'.pulled
  BY DEF Paged
<1>2. CatalogTypeOK
  BY DEF CatalogIInv
<1>3. /\ IsFiniteSet(Repeats)
      /\ Cardinality(Repeats) + Cardinality(Again) <= during.pushed
      /\ Cardinality(Skipped) <= during.pulled
  BY <1>1 DEF CatalogIInv, Paged
<1>4. IsFiniteSet(Again) /\ IsFiniteSet(Skipped) /\ during.pushed \in Nat /\ during.pulled \in Nat
  BY <1>2, AheadFacts, NowFacts
<1>5. Cardinality(Repeats) \in Nat /\ Cardinality(Again) \in Nat /\ Cardinality(Skipped) \in Nat
  BY <1>3, <1>4, FS_CardinalityType
<1>6. ASSUME Again' \subseteq Again
      PROVE  Cardinality(Again') <= Cardinality(Again) /\ Cardinality(Again') \in Nat
  BY <1>4, <1>6, NoMore
<1>7. ASSUME Skipped' \subseteq Skipped
      PROVE  Cardinality(Skipped') <= Cardinality(Skipped) /\ Cardinality(Skipped') \in Nat
  BY <1>4, <1>7, NoMore
<1>8. CASE /\ during'.pushed = during.pushed /\ during'.pulled = during.pulled
           /\ Again' \subseteq Again /\ Skipped' \subseteq Skipped
  BY <1>3, <1>4, <1>5, <1>6, <1>7, <1>8
<1>9. CASE /\ during'.pushed = during.pushed + 1 /\ during'.pulled = during.pulled
           /\ (\E x : Again' \subseteq Again \union {x}) /\ Skipped' \subseteq Skipped
  <2>1. Cardinality(Again') <= Cardinality(Again) + 1
    BY <1>4, <1>9, OneMore
  <2>2. Cardinality(Again') \in Nat
    BY <1>4, <1>9, FS_AddElement, FS_Subset, FS_CardinalityType
  <2>3. QED
    BY <1>3, <1>4, <1>5, <1>7, <1>9, <2>1, <2>2
<1>10. CASE /\ during'.pushed = during.pushed /\ during'.pulled = during.pulled + 1
            /\ Again' \subseteq Again /\ \E x : Skipped' \subseteq Skipped \union {x}
  <2>1. Cardinality(Skipped') <= Cardinality(Skipped) + 1
    BY <1>4, <1>10, OneMore
  <2>2. Cardinality(Skipped') \in Nat
    BY <1>4, <1>10, FS_AddElement, FS_Subset, FS_CardinalityType
  <2>3. QED
    BY <1>3, <1>4, <1>5, <1>6, <1>10, <2>1, <2>2
<1>11. QED
  BY <1>8, <1>9, <1>10 DEF Moves

LEMMA WriteTotalled ==
  ASSUME CatalogIInv, Reading' = Reading, UNCHANGED reader, NEW i,
         Stays \/ Comes(i) \/ Goes(i)
  PROVE  Totalled'
<1>1. CatalogTypeOK
  BY DEF CatalogIInv
<1>2. PICK size \in Nat, drift \in Nat : size = Cardinality(Now) /\ drift = during.drift
  BY <1>1, NowFacts
<1>3. /\ Cardinality({}) = 0 /\ Cardinality({"items"}) = 1 /\ Cardinality({"total"}) = 1
      /\ Cardinality({"items", "total"}) # 1
  <2>1. IsFiniteSet({"items", "total"})
    <3>1. {"items", "total"} = {"items"} \union {"total"}
      OBVIOUS
    <3>2. IsFiniteSet({"items"})
      BY FS_Singleton
    <3>3. IsFiniteSet({"items"} \union {"total"})
      BY <3>2, FS_AddElement
    <3>4. QED
      BY <3>1, <3>3
  <2>2. ~\E x : {"items", "total"} = {x}
    OBVIOUS
  <2>3. QED
    BY <2>1, <2>2, FS_EmptySet, FS_Singleton
<1>4. PICK new \in Nat : new = Cardinality(Now') /\ new <= size + 1 /\ size <= new + 1
                           /\ (Stays => new = size)
  <2>1. CASE Stays
    BY <1>2, <2>1 DEF Stays
  <2>2. CASE Comes(i)
    <3>1. Cardinality(Now') = size + 1
      BY <1>1, <1>2, <2>2, NowFacts, FS_AddElement DEF Comes
    <3>2. ~Stays
      BY <2>2 DEF Comes, Stays
    <3>3. QED
      BY <3>1, <3>2
  <2>3. CASE Goes(i)
    <3>1. IsFiniteSet(Now') /\ Cardinality(Now') = size - 1
      BY <1>1, <1>2, <2>3, NowFacts, FS_RemoveElement DEF Goes
    <3>2. ~Stays /\ Cardinality(Now') \in Nat
      BY <2>3, <3>1, FS_CardinalityType DEF Goes, Stays
    <3>3. QED
      BY <3>1, <3>2
  <2>4. QED
    BY <2>1, <2>2, <2>3
<1>5. \/ Stays /\ during'.drift = drift
      \/ during'.drift = drift + Drifts
  BY <1>2 DEF Stays, Comes, Goes
<1>6. SUFFICES ASSUME Reading.reads = "whole"
               PROVE  /\ ~reader.more
                      /\ "items" \in reader.pending => reader.skip = 0
                      /\ reader.pending = {"items", "total"} => during'.drift = 0
                      /\ reader.pending = {"total"} => Within(new, reader.found, during'.drift)
                      /\ reader.pending = {"items"} => Within(reader.total, new, during'.drift)
                      /\ reader.pending = {} => Within(reader.total, reader.found, during'.drift)
  BY <1>4 DEF Totalled
<1>7. /\ ~reader.more
      /\ "items" \in reader.pending => reader.skip = 0
      /\ reader.pending = {"items", "total"} => drift = 0
      /\ reader.pending = {"total"} => Within(size, reader.found, drift)
      /\ reader.pending = {"items"} => Within(reader.total, size, drift)
      /\ reader.pending = {} => Within(reader.total, reader.found, drift)
  BY <1>2, <1>6 DEF CatalogIInv, Totalled
<1>8. reader.found \in Nat /\ reader.total \in Nat
  BY <1>1, NowFacts
<1>9. CASE reader.pending = {"items", "total"} \/ reader.pending = {}
  <2>1. Drifts = 0
    BY <1>3, <1>9 DEF Drifts
  <2>2. during'.drift = drift
    BY <1>5, <2>1
  <2>3. reader.pending \notin {{"total"}, {"items"}}
    BY <1>9
  <2>4. QED
    BY <1>7, <2>2, <2>3, Zenon
<1>10. ASSUME reader.pending = {"total"}
       PROVE  Within(new, reader.found, during'.drift)
  <2>1. Drifts = 1
    BY <1>3, <1>10 DEF Drifts
  <2>2. size <= reader.found + drift /\ reader.found <= size + drift
    BY <1>7, <1>8, <1>10, WithinFacts
  <2>3. /\ during'.drift \in Nat
        /\ new <= reader.found + during'.drift /\ reader.found <= new + during'.drift
    BY <1>4, <1>5, <1>8, <2>1, <2>2
  <2>4. QED
    BY <1>8, <2>3, WithinFacts
<1>11. ASSUME reader.pending = {"items"}
       PROVE  Within(reader.total, new, during'.drift)
  <2>1. Drifts = 1
    BY <1>3, <1>11 DEF Drifts
  <2>2. size <= reader.total + drift /\ reader.total <= size + drift
    BY <1>7, <1>8, <1>11, WithinFacts
  <2>3. /\ during'.drift \in Nat
        /\ new <= reader.total + during'.drift /\ reader.total <= new + during'.drift
    BY <1>4, <1>5, <1>8, <2>1, <2>2
  <2>4. QED
    BY <1>8, <2>3, WithinFacts
<1>12. CASE reader.pending # {"items", "total"} /\ reader.pending # {}
  BY <1>7, <1>10, <1>11, <1>12, Zenon
<1>13. QED
  BY <1>9, <1>12

LEMMA WriteStep ==
  ASSUME CatalogIInv, RowsTyped', NEW new, Write(new), NEW i \in 1 .. MaxRows, WritesRow(i)
  PROVE  CatalogIInv'
<1>1. CatalogTypeOK
  BY DEF CatalogIInv
<1>2. /\ UNCHANGED reader /\ Reading' = Reading /\ Shown' = Shown /\ Repeats' = Repeats
      /\ during' \in Counts
      /\ Stays \/ Comes(i) \/ Goes(i)
  BY <1>1, WriteFacts
<1>3. CatalogTypeOK'
  BY <1>1, <1>2 DEF CatalogTypeOK, RowsTyped, TableAt
<1>4. Shown' \subseteq DOMAIN rows'
  BY <1>2 DEF CatalogIInv, WritesRow
<1>5. during'.steady \subseteq Now'
  BY <1>2 DEF CatalogIInv, Stays, Comes, Goes
<1>6. Moves
  <2>1. CASE Stays
    BY <1>1, <1>2, <2>1, AheadFacts, AheadFactsPrimed DEF Stays, Moves
  <2>2. QED
    BY <1>1, <1>2, <2>1, ComesMoves, GoesMoves
<1>7. Paged'
  BY <1>2, <1>6, WritePaged
<1>8. Totalled'
  BY <1>2, WriteTotalled
<1>9. Threaded'
  <2>1. SUFFICES ASSUME Reading \in Threads
                 PROVE  Repeats' = {} /\ Again' = {}
    BY <1>2 DEF Threaded
  <2>2. Repeats = {} /\ Again = {}
    BY <2>1 DEF CatalogIInv, Threaded
  <2>3. Reading.table = "comment" /\ Reading.order = "oldest" /\ ~Reading.offered
    BY <2>1 DEF Threads, CommentsByPost, Pages, Listing
  <2>4. Again' \subseteq Again
    <3>1. CASE Stays
      BY <1>1, <1>2, <3>1, AheadFacts, AheadFactsPrimed DEF Stays
    <3>2. CASE Comes(i)
      <4>1. i \in Now' /\ i \notin Now
        BY <3>2 DEF Comes
      <4>2. i \notin DOMAIN rows
        BY <1>2, <2>3, <4>1 DEF WritesRow, Now, Listed, TableAt
      <4>3. \A j \in Now : j < i
        BY <1>1, <4>2, NowFacts DEF WritesRow
      <4>4. \A j \in Now : Before(Reading.order, j, i)
        BY <2>3, <4>3 DEF Before
      <4>5. Gains(Now', Now, i)
        BY <3>2 DEF Comes, Gains
      <4>6. Now \in SUBSET Nat /\ IsFiniteSet(Now) /\ reader.skip \in Nat /\ i \in Nat
        BY <1>1, NowFacts, PageAssumption
      <4>7. From(Now', Reading.order, reader.skip) \subseteq From(Now, Reading.order, reader.skip) \union {i}
        BY <4>4, <4>5, <4>6, RowComes
      <4>8. i \notin Shown
        BY <4>2 DEF CatalogIInv
      <4>9. QED
        BY <1>1, <1>2, <4>7, <4>8, AheadFacts, AheadFactsPrimed
    <3>3. CASE Goes(i)
      <4>1. Moves
        BY <1>1, <1>2, <3>3, GoesMoves
      <4>2. during'.pushed = during.pushed /\ during.pushed \in Nat
        BY <1>1, <3>3, NowFacts DEF Goes
      <4>3. ~(during'.pushed = during.pushed + 1)
        BY <4>2
      <4>4. QED
        BY <4>1, <4>3 DEF Moves
    <3>4. QED
      BY <1>2, <3>1, <3>2, <3>3
  <2>5. QED
    BY <1>2, <2>2, <2>4
<1>10. QED
  BY <1>3, <1>4, <1>5, <1>7, <1>8, <1>9 DEF CatalogIInv

(* A write of one row that is there.                                       *)
LEMMA ChangeFacts ==
  ASSUME CatalogTypeOK, NEW i \in DOMAIN rows, NEW row \in RowType, rows' = [rows EXCEPT ![i] = row],
         ~rows[i].removed, TableOf[row.shape] = TableAt(i), row.removed => TableAt(i) \notin Kept,
         TableAt(i) = "comment" => row.shape = rows[i].shape /\ row.offered = rows[i].offered
  PROVE  RowsTyped' /\ i \in 1 .. MaxRows /\ WritesRow(i)
<1>1. /\ DOMAIN rows = 1 .. Len(rows) /\ Len(rows) \in Nat /\ i \in 1 .. MaxRows
      /\ rows \in Seq(RowType) /\ Len(rows) <= MaxRows
      /\ \A j \in DOMAIN rows : rows[j].removed => TableAt(j) \notin Kept
  BY NowFacts, RowFacts DEF RowsTyped
<1>2. rows' \in Seq(RowType) /\ Len(rows') = Len(rows)
  BY <1>1, ExceptSeq
<1>3. /\ DOMAIN rows' = DOMAIN rows /\ rows'[i] = row
      /\ \A j \in DOMAIN rows \ {i} : rows'[j] = rows[j]
  BY <1>1
<1>4. RowsTyped'
  <2>1. \A j \in DOMAIN rows' : rows'[j].removed => TableOf[rows'[j].shape] \notin Kept
    BY <1>1, <1>3 DEF TableAt
  <2>2. QED
    BY <1>1, <1>2, <2>1 DEF RowsTyped, TableAt
<1>5. WritesRow(i)
  BY <1>3 DEF WritesRow
<1>6. QED
  BY <1>1, <1>4, <1>5

LEMMA CreateRowStep ==
  ASSUME CatalogIInv, NEW shape \in Shapes, CreateRow(shape)
  PROVE  CatalogIInv'
<1>1. CatalogTypeOK
  BY DEF CatalogIInv
<1>2. /\ DOMAIN rows = 1 .. Len(rows) /\ Len(rows) \in Nat
      /\ rows \in Seq(RowType)
      /\ \A j \in DOMAIN rows : rows[j].removed => TableAt(j) \notin Kept
  BY <1>1, NowFacts, RowFacts DEF RowsTyped
<1>3. PICK row : row = [shape |-> shape, offered |-> InitiallyOffered(TableOf[shape]), removed |-> FALSE]
  OBVIOUS
<1>4. row \in RowType /\ row.removed = FALSE
  BY <1>3 DEF RowType, InitiallyOffered
<1>5. Len(rows) < MaxRows /\ Write(Append(rows, row)) /\ rows' = Append(rows, row)
  BY <1>3 DEF CreateRow, Write
<1>6. PICK i : i = Len(rows) + 1
  OBVIOUS
<1>7. /\ rows' \in Seq(RowType) /\ Len(rows') = i /\ rows'[i] = row
      /\ \A j \in 1 .. Len(rows) : rows'[j] = rows[j]
  BY <1>2, <1>4, <1>5, <1>6, AppendProperties
<1>8. i \in 1 .. MaxRows /\ DOMAIN rows' = 1 .. i /\ DOMAIN rows' = DOMAIN rows \union {i}
  BY <1>2, <1>5, <1>6, <1>7, LenProperties, PageAssumption
<1>9. RowsTyped'
  <2>1. \A j \in DOMAIN rows' : rows'[j].removed => TableOf[rows'[j].shape] \notin Kept
    BY <1>2, <1>4, <1>7, <1>8 DEF TableAt
  <2>2. Len(rows') <= MaxRows
    BY <1>7, <1>8
  <2>3. QED
    BY <1>7, <2>1, <2>2 DEF RowsTyped, TableAt
<1>10. WritesRow(i)
  <2>1. i \notin DOMAIN rows /\ \A j \in DOMAIN rows : j < i
    BY <1>2, <1>6
  <2>2. \A j \in DOMAIN rows \ {i} : rows'[j] = rows[j]
    BY <1>2, <1>7
  <2>3. QED
    BY <1>8, <2>1, <2>2 DEF WritesRow
<1>11. QED
  BY <1>5, <1>8, <1>9, <1>10, WriteStep

LEMMA UpdateRowStep ==
  ASSUME CatalogIInv, NEW i \in DOMAIN rows, NEW shape \in Shapes, NEW offered \in BOOLEAN,
         UpdateRow(i, shape, offered)
  PROVE  CatalogIInv'
<1>1. CatalogTypeOK /\ rows[i] \in RowType
  BY NowFacts, RowFacts DEF CatalogIInv
<1>2. PICK row : row = [rows[i] EXCEPT !.shape = shape, !.offered = offered]
  OBVIOUS
<1>3. row \in RowType /\ row.shape = shape /\ row.offered = offered /\ row.removed = rows[i].removed
  BY <1>1, <1>2 DEF RowType
<1>4. rows' = [rows EXCEPT ![i] = row] /\ Write(rows')
  <2>1. [rows EXCEPT ![i].shape = shape, ![i].offered = offered] = [rows EXCEPT ![i] = row]
    BY <1>2
  <2>2. QED
    BY <2>1 DEF UpdateRow, Write
<1>5. ~rows[i].removed /\ TableOf[row.shape] = TableAt(i)
  BY <1>3 DEF UpdateRow
<1>6. TableAt(i) = "comment" => row.shape = rows[i].shape /\ row.offered = rows[i].offered
  BY <1>3 DEF UpdateRow, Rekeyed, Toggled
<1>7. RowsTyped' /\ i \in 1 .. MaxRows /\ WritesRow(i)
  BY <1>1, <1>3, <1>4, <1>5, <1>6, ChangeFacts
<1>8. QED
  BY <1>4, <1>7, WriteStep

LEMMA DeleteRowStep ==
  ASSUME CatalogIInv, NEW i \in DOMAIN rows, DeleteRow(i)
  PROVE  CatalogIInv'
<1>1. CatalogTypeOK /\ rows[i] \in RowType
  BY NowFacts, RowFacts DEF CatalogIInv
<1>2. PICK row : row = [rows[i] EXCEPT !.removed = TRUE]
  OBVIOUS
<1>3. row \in RowType /\ row.shape = rows[i].shape /\ row.offered = rows[i].offered
  BY <1>1, <1>2 DEF RowType
<1>4. rows' = [rows EXCEPT ![i] = row] /\ Write(rows')
  <2>1. [rows EXCEPT ![i].removed = TRUE] = [rows EXCEPT ![i] = row]
    BY <1>2
  <2>2. QED
    BY <2>1 DEF DeleteRow, Write
<1>5. ~rows[i].removed /\ TableOf[row.shape] = TableAt(i) /\ TableAt(i) \notin Kept
  BY <1>3 DEF DeleteRow, TableAt
<1>6. RowsTyped' /\ i \in 1 .. MaxRows /\ WritesRow(i)
  BY <1>1, <1>3, <1>4, <1>5, ChangeFacts
<1>7. QED
  BY <1>4, <1>6, WriteStep

LEMMA HideRowStep ==
  ASSUME CatalogIInv, NEW i \in DOMAIN rows, HideRow(i)
  PROVE  CatalogIInv'
<1>1. CatalogTypeOK /\ rows[i] \in RowType
  BY NowFacts, RowFacts DEF CatalogIInv
<1>2. PICK row : row = [rows[i] EXCEPT !.offered = FALSE]
  OBVIOUS
<1>3. row \in RowType /\ row.shape = rows[i].shape /\ row.removed = rows[i].removed
  BY <1>1, <1>2 DEF RowType
<1>4. rows' = [rows EXCEPT ![i] = row] /\ Write(rows')
  <2>1. [rows EXCEPT ![i].offered = FALSE] = [rows EXCEPT ![i] = row]
    BY <1>2
  <2>2. QED
    BY <2>1 DEF HideRow, Write
<1>5. TableAt(i) \in Kept /\ TableAt(i) # "comment" /\ TableOf[row.shape] = TableAt(i)
  BY <1>3 DEF HideRow, TableAt, Kept
<1>6. ~rows[i].removed /\ ~row.removed
  BY <1>1, <1>3, <1>5 DEF CatalogTypeOK
<1>7. RowsTyped' /\ i \in 1 .. MaxRows /\ WritesRow(i)
  BY <1>1, <1>3, <1>4, <1>5, <1>6, ChangeFacts
<1>8. QED
  BY <1>4, <1>7, WriteStep

LEMMA CatalogStutterStep ==
  ASSUME CatalogIInv, UNCHANGED catalogVars
  PROVE  CatalogIInv'
<1>1. UNCHANGED rows /\ UNCHANGED reader /\ UNCHANGED during
  BY DEF catalogVars
<1>2. CatalogTypeOK' = CatalogTypeOK
  BY <1>1 DEF CatalogTypeOK, TableAt
<1>3. Reading' = Reading /\ Shown' = Shown /\ Repeats' = Repeats
  BY <1>1 DEF Reading, Shown, Repeats
<1>4. Now' = Now
  BY <1>1, <1>3 DEF Now, Listed
<1>5. Again' = Again /\ Skipped' = Skipped
  BY <1>1, <1>3, <1>4 DEF Again, Skipped, Ahead, Now
<1>6. Paged' = Paged /\ Threaded' = Threaded
  BY <1>1, <1>3, <1>5 DEF Paged, Threaded
<1>7. Totalled' = Totalled
  BY <1>1, <1>3, <1>4 DEF Totalled
<1>8. QED
  BY <1>1, <1>2, <1>3, <1>4, <1>6, <1>7 DEF CatalogIInv

LEMMA CatalogStepIInv == CatalogIInv /\ [CatalogNext]_catalogVars => CatalogIInv'
<1> SUFFICES ASSUME CatalogIInv, [CatalogNext]_catalogVars
             PROVE  CatalogIInv'
  OBVIOUS
<1>1. ASSUME NEW shape \in Shapes, CreateRow(shape) PROVE CatalogIInv'
  BY <1>1, CreateRowStep
<1>2. ASSUME NEW i \in DOMAIN rows, NEW shape \in Shapes, NEW offered \in BOOLEAN, UpdateRow(i, shape, offered)
      PROVE  CatalogIInv'
  BY <1>2, UpdateRowStep
<1>3. ASSUME NEW i \in DOMAIN rows, DeleteRow(i) \/ HideRow(i) PROVE CatalogIInv'
  BY <1>3, DeleteRowStep, HideRowStep
<1>4. ASSUME NEW name \in DOMAIN Listings, Open(name) PROVE CatalogIInv'
  BY <1>4, OpenStep
<1>5. CASE ReadItems \/ ReadTotal \/ NextPage
  BY <1>5, ReadItemsStep, ReadTotalStep, NextPageStep
<1>6. CASE UNCHANGED catalogVars
  BY <1>6, CatalogStutterStep
<1>7. QED
  BY <1>1, <1>2, <1>3, <1>4, <1>5, <1>6 DEF CatalogNext

THEOREM CatalogInvariance == CatalogSpec => []CatalogIInv
BY CatalogInitIInv, CatalogStepIInv, PTL DEF CatalogSpec

(* Rows, the reader and the history of its listing keep their types; no    *)
(* shop, post, order or booking is ever removed, whatever is deleted.      *)
THEOREM CatalogTypeCorrect == CatalogSpec => []CatalogTypeOK
<1>1. CatalogIInv => CatalogTypeOK
  BY DEF CatalogIInv
<1>2. QED
  BY <1>1, CatalogInvariance, PTL

(* Whoever reads an ordered listing page by page meets a row twice at most *)
(* once per row that came before its place, and misses at most one row per *)
(* row that went from there; nobody meets a comment twice; and a search's  *)
(* total is off by at most what was written between its two queries.       *)
THEOREM PagesRight == CatalogSpec => []PagesAccounted
<1>1. CatalogIInv => PagesAccounted
  BY DEF CatalogIInv, PagesAccounted, Paged, Threaded, Totalled, Within
<1>2. QED
  BY <1>1, CatalogInvariance, PTL
=============================================================================
