--------------------------- MODULE EngagementProofs ---------------------------
(***************************************************************************)
(* Proofs about Engagement, for any users, tenants and posts and any       *)
(* finite number of handlers: the type invariant, that a delete removes    *)
(* what its request read, and that a post's counters are off by what was   *)
(* slipped and by nothing else.                                            *)
(***************************************************************************)
EXTENDS Engagement, TLAPS, SequenceTheorems, FiniteSetTheorems

(***************************************************************************)
(* The inductive invariant.                                                *)
(***************************************************************************)

(* Ids are given once: a row that comes later is never the row that a      *)
(* request has read.                                                       *)
Numbered(rows, next) ==
  /\ IsFiniteSet(rows)
  /\ \A r \in rows : r.id < next
  /\ \A r, s \in rows : r.id = s.id => r = s

OnAPost ==
  {"insertLike", "deleteLike", "countLike", "uncountLike", "deleteComment",
   "countComment", "uncountComment"}

(* A request in flight is on a post or a tenant that exists, and the row   *)
(* it will delete by its id, if that is still there, is the one it read.   *)
Sound(h) ==
  LET r == proc[h] IN
  /\ r.pc \in OnAPost => r.on \in PostIds
  /\ r.pc \in {"insertLike", "deleteLike", "insertFollow"} => r.user \in Users
  /\ r.pc = "insertFollow" => r.on \in Tenants
  /\ r.pc = "deleteLike" /\ r.counted =>
       r.row \in Ids /\ r.row < nextId
         /\ \A l \in likes : l.id = r.row => l.on = r.on /\ l.user = r.user
  /\ r.pc = "deleteComment" =>
       r.row \in Ids /\ r.row < nextId /\ \A c \in comments : c.id = r.row => c.on = r.on

(* The rows of one post, and the two halves of CountersAccounted.          *)
On(rows, p) == {r \in rows : r.on = p}

LikesAccounted(p) ==
  posts[p].likesCount + Pending(p, "countLike", "uncountLike") + slipped[p].likesCount
    = Cardinality(On(likes, p))
CommentsAccounted(p) ==
  posts[p].commentsCount + Pending(p, "countComment", "uncountComment") + slipped[p].commentsCount
    = Cardinality(On(comments, p))

IInv ==
  /\ TypeOK
  /\ Numbered(likes, nextId)
  /\ Numbered(comments, nextId)
  /\ \A h \in Handlers : Sound(h)
  /\ \A p \in PostIds : LikesAccounted(p) /\ CommentsAccounted(p)

(***************************************************************************)
(* Posts and rows.                                                         *)
(***************************************************************************)
LEMMA PostFacts ==
  ASSUME TypeOK
  PROVE  /\ Len(posts) \in Nat /\ PostIds = 1 .. Len(posts) /\ DOMAIN slipped = PostIds
         /\ \A p \in PostIds : posts[p] \in PostType
         /\ \A p \in PostIds : slipped[p] \in [likesCount : Int, commentsCount : Int]
BY LenProperties, ElementOfSeq DEF TypeOK, PostIds

LEMMA IdleFacts == Idle \in RequestType /\ Idle.pc = "idle"
BY DEF Idle, Request, RequestType, PCs

(* A new row has an id of its own, and rows that go leave the others       *)
(* theirs.                                                                 *)
LEMMA NumberedAdd ==
  ASSUME NEW next \in Nat, NEW rows, Numbered(rows, next), \A s \in rows : s.id \in Nat,
         NEW r, r.id = next
  PROVE  r \notin rows /\ Numbered(rows \union {r}, next + 1)
<1>1. IsFiniteSet(rows \union {r})
  BY FS_AddElement DEF Numbered
<1>2. \A s \in rows : s.id < next + 1 /\ s.id # next
  BY DEF Numbered
<1>3. QED
  BY <1>1, <1>2 DEF Numbered

LEMMA NumberedKept ==
  ASSUME NEW next \in Nat, NEW later \in Nat, later >= next, NEW rows, Numbered(rows, next),
         \A s \in rows : s.id \in Nat, NEW fewer, fewer \subseteq rows
  PROVE  Numbered(fewer, later)
<1>1. IsFiniteSet(fewer)
  BY FS_Subset DEF Numbered
<1>2. \A s \in fewer : s.id < later
  BY DEF Numbered
<1>3. QED
  BY <1>1, <1>2 DEF Numbered

LEMMA RowFacts ==
  ASSUME TypeOK
  PROVE  /\ nextId \in Nat
         /\ \A l \in likes : l.id \in Nat /\ l.on \in PostIds /\ l.user \in Users
         /\ \A c \in comments : c.id \in Nat /\ c.on \in PostIds
         /\ \A f \in follows : f.id \in Ids
BY BoundsAssumption DEF TypeOK, Ids

(* The rows of one post, when a row is added and when rows of some post    *)
(* are removed.                                                            *)
LEMMA CountAdd ==
  ASSUME NEW rows, IsFiniteSet(rows), NEW r, r \notin rows, NEW p
  PROVE  /\ Cardinality(On(rows, p)) \in Nat
         /\ Cardinality(On(rows \union {r}, p))
              = Cardinality(On(rows, p)) + (IF r.on = p THEN 1 ELSE 0)
<1>1. IsFiniteSet(On(rows, p)) /\ Cardinality(On(rows, p)) \in Nat /\ r \notin On(rows, p)
  BY FS_Subset, FS_CardinalityType DEF On
<1>2. Cardinality(On(rows, p) \union {r}) = Cardinality(On(rows, p)) + 1
  BY <1>1, FS_AddElement
<1>3. On(rows \union {r}, p) = IF r.on = p THEN On(rows, p) \union {r} ELSE On(rows, p)
  BY DEF On
<1>4. QED
  BY <1>1, <1>2, <1>3

Loses(rows, fewer, gone, q) == fewer = rows \ gone /\ gone \subseteq On(rows, q)

LEMMA CountRemove ==
  ASSUME NEW rows, IsFiniteSet(rows), NEW q, NEW gone, NEW fewer, Loses(rows, fewer, gone, q), NEW p
  PROVE  /\ Cardinality(gone) \in Nat /\ Cardinality(On(rows, p)) \in Nat
         /\ Cardinality(On(fewer, p))
              = Cardinality(On(rows, p)) - (IF p = q THEN Cardinality(gone) ELSE 0)
<1>1. IsFiniteSet(On(rows, p)) /\ Cardinality(On(rows, p)) \in Nat
  BY FS_Subset, FS_CardinalityType DEF On
<1>2. Cardinality(gone) \in Nat
  <2>1. gone \subseteq rows
    BY DEF On, Loses
  <2>2. QED
    BY <2>1, FS_Subset, FS_CardinalityType
<1>3. CASE p = q
  <2>1. On(fewer, p) = On(rows, p) \ gone /\ On(rows, p) \intersect gone = gone
    BY <1>3 DEF On, Loses
  <2>2. Cardinality(On(rows, p) \ gone) = Cardinality(On(rows, p)) - Cardinality(gone)
    BY <1>1, <2>1, FS_Difference
  <2>3. QED
    BY <1>1, <1>2, <1>3, <2>1, <2>2
<1>4. CASE p # q
  <2>1. On(fewer, p) = On(rows, p)
    BY <1>4 DEF On, Loses
  <2>2. QED
    BY <1>1, <1>2, <1>4, <2>1
<1>5. QED
  BY <1>3, <1>4

(***************************************************************************)
(* Requests in flight.                                                     *)
(***************************************************************************)

(* What one request will add to the counter of p.                          *)
Owes(r, p, up, down) ==
  IF r.on # p THEN 0 ELSE IF r.pc = up THEN 1 ELSE IF r.pc = down THEN -1 ELSE 0

AtOn(requests, p, pc) == {h \in Handlers : requests[h].pc = pc /\ requests[h].on = p}
TakesUp(h, r) == proc' = [proc EXCEPT ![h] = r]

LEMMA AtOnMoves ==
  ASSUME TypeOK, NEW h \in Handlers, NEW r \in RequestType, TakesUp(h, r),
         NEW p, NEW pc
  PROVE  /\ Cardinality(AtOn(proc, p, pc)) \in Nat
         /\ Cardinality(AtOn(proc', p, pc)) = Cardinality(AtOn(proc, p, pc))
              - (IF proc[h].pc = pc /\ proc[h].on = p THEN 1 ELSE 0)
              + (IF r.pc = pc /\ r.on = p THEN 1 ELSE 0)
<1> DEFINE Rest == AtOn(proc, p, pc) \ {h}
<1>1. IsFiniteSet(Rest) /\ Cardinality(Rest) \in Nat /\ h \notin Rest
  <2>1. Rest \subseteq Handlers
    BY DEF AtOn
  <2>2. QED
    BY <2>1, HandlersAssumption, FS_Subset, FS_CardinalityType
<1>2. Cardinality(Rest \union {h}) = Cardinality(Rest) + 1
  BY <1>1, FS_AddElement
<1>3. AtOn(proc, p, pc) = IF proc[h].pc = pc /\ proc[h].on = p THEN Rest \union {h} ELSE Rest
  BY DEF AtOn
<1>4. AtOn(proc', p, pc) = IF r.pc = pc /\ r.on = p THEN Rest \union {h} ELSE Rest
  BY DEF AtOn, TypeOK, TakesUp
<1> HIDE DEF Rest
<1>5. QED
  BY <1>1, <1>2, <1>3, <1>4

LEMMA PendingMoves ==
  ASSUME TypeOK, NEW h \in Handlers, NEW r \in RequestType, TakesUp(h, r),
         NEW p, NEW up, NEW down, up # down
  PROVE  /\ Pending(p, up, down) \in Int
         /\ Pending(p, up, down)'
              = Pending(p, up, down) - Owes(proc[h], p, up, down) + Owes(r, p, up, down)
<1>1. /\ Cardinality(AtOn(proc, p, up)) \in Nat
      /\ Cardinality(AtOn(proc', p, up)) = Cardinality(AtOn(proc, p, up))
           - (IF proc[h].pc = up /\ proc[h].on = p THEN 1 ELSE 0)
           + (IF r.pc = up /\ r.on = p THEN 1 ELSE 0)
  BY AtOnMoves
<1>2. /\ Cardinality(AtOn(proc, p, down)) \in Nat
      /\ Cardinality(AtOn(proc', p, down)) = Cardinality(AtOn(proc, p, down))
           - (IF proc[h].pc = down /\ proc[h].on = p THEN 1 ELSE 0)
           + (IF r.pc = down /\ r.on = p THEN 1 ELSE 0)
  BY AtOnMoves
<1>3. Pending(p, up, down) = Cardinality(AtOn(proc, p, up)) - Cardinality(AtOn(proc, p, down))
  BY DEF Pending, AtOn, At
<1>4. Pending(p, up, down)' = Cardinality(AtOn(proc', p, up)) - Cardinality(AtOn(proc', p, down))
  BY DEF Pending, AtOn, At
<1>5. QED
  BY <1>1, <1>2, <1>3, <1>4 DEF Owes

Counting == {"countLike", "uncountLike", "countComment", "uncountComment"}

(* A request that goes on leaves the others as sound as they were: rows    *)
(* that come have new ids.                                                 *)
LEMMA SoundKept ==
  ASSUME IInv, NEW h \in Handlers, NEW r \in RequestType, TakesUp(h, r), Sound(h)',
         PostIds' = PostIds, nextId' \in Nat, nextId' >= nextId,
         \A l \in likes' : l \in likes \/ l.id = nextId,
         \A c \in comments' : c \in comments \/ c.id = nextId
  PROVE  proc' \in [Handlers -> RequestType] /\ \A g \in Handlers : Sound(g)'
<1>1. proc' \in [Handlers -> RequestType] /\ \A g \in Handlers \ {h} : proc'[g] = proc[g]
  BY DEF IInv, TypeOK, TakesUp
<1>2. nextId \in Nat /\ \A i \in Ids : i < nextId => i < nextId' /\ i # nextId
  BY BoundsAssumption DEF IInv, TypeOK, Ids
<1>3. ASSUME NEW g \in Handlers \ {h} PROVE Sound(g)'
  BY <1>1, <1>2 DEF IInv, Sound
<1>4. QED
  BY <1>1, <1>3

(* The balance of a post's likes, when a step adds a to its counter, b to  *)
(* what was slipped and c to its rows; and of its comments.                *)
LikesMove(p, a, b, c) ==
  /\ posts'[p].likesCount = posts[p].likesCount + a
  /\ slipped'[p].likesCount = slipped[p].likesCount + b
  /\ Cardinality(On(likes', p)) = Cardinality(On(likes, p)) + c

(* What the request h owed and will owe makes up the difference.           *)
Pays(a, b, r, s, p, up, down, c) == a + b + Owes(r, p, up, down) - Owes(s, p, up, down) = c

LEMMA LikesBalance ==
  ASSUME IInv, NEW h \in Handlers, NEW r \in RequestType, TakesUp(h, r), NEW p \in PostIds,
         NEW a \in Int, NEW b \in Int, NEW c \in Int, LikesMove(p, a, b, c),
         Pays(a, b, r, proc[h], p, "countLike", "uncountLike", c)
  PROVE  LikesAccounted(p)'
<1>1. posts[p].likesCount \in Int /\ slipped[p].likesCount \in Int
  BY PostFacts DEF IInv, PostType
<1>2. /\ Pending(p, "countLike", "uncountLike") \in Int
      /\ Pending(p, "countLike", "uncountLike")'
           = Pending(p, "countLike", "uncountLike")
               - Owes(proc[h], p, "countLike", "uncountLike") + Owes(r, p, "countLike", "uncountLike")
  BY PendingMoves DEF IInv
<1>3. LikesAccounted(p)
  BY DEF IInv
<1>4. Owes(proc[h], p, "countLike", "uncountLike") \in Int /\ Owes(r, p, "countLike", "uncountLike") \in Int
  BY DEF Owes
<1>5. Cardinality(On(likes, p)) \in Int
  BY <1>1, <1>2, <1>3 DEF LikesAccounted
<1>6. QED
  BY <1>1, <1>2, <1>3, <1>4, <1>5 DEF LikesAccounted, LikesMove, Pays

CommentsMove(p, a, b, c) ==
  /\ posts'[p].commentsCount = posts[p].commentsCount + a
  /\ slipped'[p].commentsCount = slipped[p].commentsCount + b
  /\ Cardinality(On(comments', p)) = Cardinality(On(comments, p)) + c

LEMMA CommentsBalance ==
  ASSUME IInv, NEW h \in Handlers, NEW r \in RequestType, TakesUp(h, r), NEW p \in PostIds,
         NEW a \in Int, NEW b \in Int, NEW c \in Int, CommentsMove(p, a, b, c),
         Pays(a, b, r, proc[h], p, "countComment", "uncountComment", c)
  PROVE  CommentsAccounted(p)'
<1>1. posts[p].commentsCount \in Int /\ slipped[p].commentsCount \in Int
  BY PostFacts DEF IInv, PostType
<1>2. /\ Pending(p, "countComment", "uncountComment") \in Int
      /\ Pending(p, "countComment", "uncountComment")'
           = Pending(p, "countComment", "uncountComment")
               - Owes(proc[h], p, "countComment", "uncountComment")
               + Owes(r, p, "countComment", "uncountComment")
  BY PendingMoves DEF IInv
<1>3. CommentsAccounted(p)
  BY DEF IInv
<1>4. /\ Owes(proc[h], p, "countComment", "uncountComment") \in Int
      /\ Owes(r, p, "countComment", "uncountComment") \in Int
  BY DEF Owes
<1>5. Cardinality(On(comments, p)) \in Int
  BY <1>1, <1>2, <1>3 DEF CommentsAccounted
<1>6. QED
  BY <1>1, <1>2, <1>3, <1>4, <1>5 DEF CommentsAccounted, CommentsMove, Pays

(* A step that moves neither counter nor row of a post's.                  *)
LEMMA LikesStill ==
  ASSUME IInv, NEW h \in Handlers, NEW r \in RequestType, TakesUp(h, r), NEW p \in PostIds,
         posts'[p].likesCount = posts[p].likesCount, slipped'[p].likesCount = slipped[p].likesCount,
         On(likes', p) = On(likes, p),
         Owes(r, p, "countLike", "uncountLike") = Owes(proc[h], p, "countLike", "uncountLike")
  PROVE  LikesAccounted(p)'
<1>1. posts[p].likesCount \in Int /\ slipped[p].likesCount \in Int
  BY PostFacts DEF IInv, PostType
<1>2. Pending(p, "countLike", "uncountLike") \in Int /\ LikesAccounted(p)
  BY PendingMoves DEF IInv
<1>3. Owes(proc[h], p, "countLike", "uncountLike") \in Int
  BY DEF Owes
<1>4. Cardinality(On(likes, p)) \in Int
  BY <1>1, <1>2 DEF LikesAccounted
<1>5. /\ LikesMove(p, 0, 0, 0)
      /\ Pays(0, 0, r, proc[h], p, "countLike", "uncountLike", 0)
  BY <1>1, <1>3, <1>4 DEF LikesMove, Pays
<1>6. QED
  BY <1>5, LikesBalance

LEMMA CommentsStill ==
  ASSUME IInv, NEW h \in Handlers, NEW r \in RequestType, TakesUp(h, r), NEW p \in PostIds,
         posts'[p].commentsCount = posts[p].commentsCount,
         slipped'[p].commentsCount = slipped[p].commentsCount, On(comments', p) = On(comments, p),
         Owes(r, p, "countComment", "uncountComment") = Owes(proc[h], p, "countComment", "uncountComment")
  PROVE  CommentsAccounted(p)'
<1>1. posts[p].commentsCount \in Int /\ slipped[p].commentsCount \in Int
  BY PostFacts DEF IInv, PostType
<1>2. Pending(p, "countComment", "uncountComment") \in Int /\ CommentsAccounted(p)
  BY PendingMoves DEF IInv
<1>3. Owes(proc[h], p, "countComment", "uncountComment") \in Int
  BY DEF Owes
<1>4. Cardinality(On(comments, p)) \in Int
  BY <1>1, <1>2 DEF CommentsAccounted
<1>5. /\ CommentsMove(p, 0, 0, 0)
      /\ Pays(0, 0, r, proc[h], p, "countComment", "uncountComment", 0)
  BY <1>1, <1>3, <1>4 DEF CommentsMove, Pays
<1>6. QED
  BY <1>5, CommentsBalance

(***************************************************************************)
(* The steps.                                                              *)
(***************************************************************************)
LEMMA InitIInv == Init => IInv
<1> SUFFICES ASSUME Init PROVE IInv
  OBVIOUS
<1>1. PostIds = {} /\ posts \in Seq(PostType) /\ Len(posts) = 0
  BY DEF Init, PostIds
<1>2. slipped \in Seq([likesCount : Int, commentsCount : Int]) /\ Len(slipped) = Len(posts)
  BY DEF Init
<1>3. TypeOK
  BY <1>1, <1>2, IdleFacts DEF Init, TypeOK
<1>4. Numbered(likes, nextId) /\ Numbered(comments, nextId)
  BY FS_EmptySet DEF Init, Numbered
<1>5. \A h \in Handlers : Sound(h)
  BY IdleFacts DEF Init, Sound, OnAPost
<1>6. QED
  BY <1>1, <1>3, <1>4, <1>5 DEF IInv

(* A step that writes neither a post nor its rows, of a request that owes  *)
(* no counter anything before or after.                                    *)
LEMMA QuietStep ==
  ASSUME IInv, NEW h \in Handlers, NEW r \in RequestType, TakesUp(h, r), Sound(h)',
         UNCHANGED <<posts, likes, comments, slipped>>,
         nextId' \in Nat, nextId' >= nextId, follows' \subseteq [id : Ids, user : Users, on : Tenants],
         proc[h].pc \notin Counting, r.pc \notin Counting
  PROVE  IInv'
<1>1. PostIds' = PostIds
  BY DEF PostIds
<1>2. proc' \in [Handlers -> RequestType] /\ \A g \in Handlers : Sound(g)'
  BY <1>1, SoundKept
<1>3. TypeOK'
  BY <1>1, <1>2 DEF IInv, TypeOK
<1>4. Numbered(likes', nextId') /\ Numbered(comments', nextId')
  BY RowFacts, NumberedKept DEF IInv
<1>5. ASSUME NEW p \in PostIds PROVE LikesAccounted(p)' /\ CommentsAccounted(p)'
  <2>1. /\ Owes(r, p, "countLike", "uncountLike") = Owes(proc[h], p, "countLike", "uncountLike")
        /\ Owes(r, p, "countComment", "uncountComment") = Owes(proc[h], p, "countComment", "uncountComment")
    BY DEF Owes, Counting
  <2>2. QED
    BY <2>1, LikesStill, CommentsStill
<1>6. QED
  BY <1>1, <1>2, <1>3, <1>4, <1>5 DEF IInv

(* A request that ends.                                                    *)
LEMMA IdleSound == ASSUME NEW h \in Handlers, proc'[h].pc = "idle" PROVE Sound(h)'
BY DEF Sound, OnAPost

LEMMA RequestFacts ==
  ASSUME NEW pc \in PCs, NEW user \in Users, NEW on \in Nat \union Tenants,
         NEW row \in Ids \union {None}, NEW counted \in BOOLEAN
  PROVE  Request(pc, user, on, row, counted) \in RequestType
BY DEF Request, RequestType

(* The row that a key or a search leads to.                                *)
LEMMA ReadFacts ==
  ASSUME NEW rows, rows # {}
  PROVE  \E r \in rows : IdIn(rows) = r.id
BY DEF IdIn

LEMMA StartLike ==
  ASSUME IInv, NEW h \in Handlers, NEW u \in Users, NEW p \in PostIds,
         ToggleLike(h, u, p) \/ Like(h, u, p) \/ Unlike(h, u, p)
  PROVE  IInv'
<1>1. PICK r : /\ IsIdle(h) /\ TakesUp(h, r)
              /\ \/ r = Request("insertLike", u, p, None, TRUE)
                 \/ r = Request("insertLike", u, p, None, FALSE)
                 \/ r = Request("deleteLike", u, p, None, FALSE)
                 \/ LikesOf(p, u) # {} /\ r = Request("deleteLike", u, p, IdIn(LikesOf(p, u)), TRUE)
  BY DEF ToggleLike, Like, Unlike, Starts, TakesUp
<1>2. UNCHANGED <<posts, likes, comments, follows, nextId, slipped>>
  BY DEF ToggleLike, Like, Unlike
<1>3. LikesOf(p, u) # {} =>
        /\ IdIn(LikesOf(p, u)) \in Ids /\ IdIn(LikesOf(p, u)) < nextId
        /\ \A l \in likes : l.id = IdIn(LikesOf(p, u)) => l.on = p /\ l.user = u
  <2>1. SUFFICES ASSUME NEW l \in LikesOf(p, u), IdIn(LikesOf(p, u)) = l.id
                 PROVE  /\ l.id \in Ids /\ l.id < nextId
                        /\ \A k \in likes : k.id = l.id => k.on = p /\ k.user = u
    BY ReadFacts
  <2>2. l \in likes /\ l.on = p /\ l.user = u
    BY DEF LikesOf
  <2>3. QED
    BY <2>2 DEF IInv, TypeOK, Numbered
<1>4. p \in Nat
  BY PostFacts DEF IInv
<1>5. r \in RequestType /\ r.pc \notin Counting
  <2>1. \A pc \in {"insertLike", "deleteLike"}, row \in Ids \union {None}, counted \in BOOLEAN :
          Request(pc, u, p, row, counted) \in RequestType
    BY <1>4, RequestFacts DEF PCs
  <2>2. r \in RequestType
    BY <1>1, <1>3, <2>1
  <2>3. r.pc \in {"insertLike", "deleteLike"}
    BY <1>1 DEF Request
  <2>4. QED
    BY <2>2, <2>3 DEF Counting
<1>6. proc'[h] = r
  BY <1>1 DEF TakesUp, IInv, TypeOK
<1>7. Sound(h)'
  BY <1>1, <1>2, <1>3, <1>6 DEF Sound, Request, OnAPost, PostIds
<1>8. proc[h].pc \notin Counting
  BY <1>1, IdleFacts DEF IsIdle, Counting
<1>9. nextId' \in Nat /\ nextId' >= nextId /\ follows' \subseteq [id : Ids, user : Users, on : Tenants]
  BY <1>2 DEF IInv, TypeOK
<1>10. QED
  BY <1>1, <1>2, <1>5, <1>7, <1>8, <1>9, QuietStep

LEMMA StartDeleteComment ==
  ASSUME IInv, NEW h \in Handlers, NEW u \in Users, NEW c \in comments, ReadComment(h, u, c)
  PROVE  IInv'
<1> DEFINE r == Request("deleteComment", u, c.on, c.id, FALSE)
<1>1. IsIdle(h) /\ TakesUp(h, r) /\ UNCHANGED <<posts, likes, comments, follows, nextId, slipped>>
  BY DEF ReadComment, Starts, TakesUp
<1>2. /\ c.id \in Ids /\ c.id < nextId /\ c.on \in PostIds /\ c.on \in Nat
      /\ \A d \in comments : d.id = c.id => d.on = c.on
  BY PostFacts DEF IInv, TypeOK, Numbered
<1>3. r \in RequestType /\ r.pc \notin Counting
  BY <1>2 DEF Request, RequestType, PCs, Counting
<1>4. proc'[h] = r
  BY <1>1 DEF TakesUp, IInv, TypeOK
<1>5. Sound(h)'
  BY <1>1, <1>2, <1>4 DEF Sound, Request, OnAPost, PostIds
<1>6. proc[h].pc \notin Counting
  BY <1>1, IdleFacts DEF IsIdle, Counting
<1>7. nextId' \in Nat /\ nextId' >= nextId /\ follows' \subseteq [id : Ids, user : Users, on : Tenants]
  BY <1>1 DEF IInv, TypeOK
<1>8. QED
  BY <1>1, <1>3, <1>5, <1>6, <1>7, QuietStep

LEMMA StartFollow ==
  ASSUME IInv, NEW h \in Handlers, NEW u \in Users, NEW t \in Tenants,
         Follow(h, u, t) \/ Unfollow(h, u, t)
  PROVE  IInv'
<1>1. PICK r : /\ IsIdle(h) /\ TakesUp(h, r)
              /\ \/ r = Request("insertFollow", u, t, None, FALSE)
                 \/ FollowsOf(u, t) # {} /\ r = Request("deleteFollow", u, t, IdIn(FollowsOf(u, t)), FALSE)
  BY DEF Follow, Unfollow, Starts, TakesUp
<1>2. UNCHANGED <<posts, likes, comments, follows, nextId, slipped>>
  BY DEF Follow, Unfollow
<1>3. FollowsOf(u, t) # {} => IdIn(FollowsOf(u, t)) \in Ids
  <2>1. \A f \in FollowsOf(u, t) : f.id \in Ids
    BY RowFacts DEF FollowsOf, IInv
  <2>2. QED
    BY <2>1, ReadFacts
<1>4. r \in RequestType /\ r.pc \notin Counting
  <2>1. \A pc \in {"insertFollow", "deleteFollow"}, row \in Ids \union {None} :
          Request(pc, u, t, row, FALSE) \in RequestType
    BY RequestFacts DEF PCs
  <2>2. r \in RequestType
    BY <1>1, <1>3, <2>1
  <2>3. r.pc \in {"insertFollow", "deleteFollow"}
    BY <1>1 DEF Request
  <2>4. QED
    BY <2>2, <2>3 DEF Counting
<1>5. proc'[h] = r
  BY <1>1 DEF TakesUp, IInv, TypeOK
<1>6. Sound(h)'
  BY <1>1, <1>5 DEF Sound, Request, OnAPost
<1>7. proc[h].pc \notin Counting
  BY <1>1, IdleFacts DEF IsIdle, Counting
<1>8. nextId' \in Nat /\ nextId' >= nextId /\ follows' \subseteq [id : Ids, user : Users, on : Tenants]
  BY <1>2 DEF IInv, TypeOK
<1>9. QED
  BY <1>1, <1>2, <1>4, <1>6, <1>7, <1>8, QuietStep

LEMMA FollowStep ==
  ASSUME IInv, NEW h \in Handlers, InsertFollow(h) \/ DeleteFollow(h)
  PROVE  IInv'
<1>1. /\ proc[h].pc \in {"insertFollow", "deleteFollow"} /\ TakesUp(h, Idle)
      /\ UNCHANGED <<posts, likes, comments, slipped>>
  BY DEF InsertFollow, DeleteFollow, At, Ends, TakesUp
<1>2. nextId \in Nat /\ MaxRows \in Nat
  BY BoundsAssumption DEF IInv, TypeOK
<1>3. nextId' = nextId \/ NewId
  BY DEF InsertFollow, DeleteFollow
<1>4. nextId' \in Nat /\ nextId' >= nextId /\ (NewId => nextId \in Nat /\ nextId <= MaxRows)
  BY <1>2, <1>3 DEF NewId
<1>5. follows' \subseteq [id : Ids, user : Users, on : Tenants]
  <2>1. CASE InsertFollow(h)
    <3>1. proc[h].user \in Users /\ proc[h].on \in Tenants
      BY <2>1 DEF InsertFollow, At, IInv, Sound
    <3>2. NewId => nextId >= 1
      BY DEF IInv, TypeOK
    <3>3. NewId => Row(h) \in [id : Ids, user : Users, on : Tenants]
      BY <1>2, <1>4, <3>1, <3>2 DEF Row, Ids
    <3>4. QED
      BY <2>1, <3>3 DEF InsertFollow, IInv, TypeOK
  <2>2. CASE DeleteFollow(h)
    BY <2>2 DEF DeleteFollow, IInv, TypeOK
  <2>3. QED
    BY <2>1, <2>2
<1>6. proc'[h] = Idle
  BY <1>1 DEF TakesUp, IInv, TypeOK
<1>7. Sound(h)'
  BY <1>6, IdleFacts, IdleSound
<1>8. proc[h].pc \notin Counting /\ Idle.pc \notin Counting
  BY <1>1, IdleFacts DEF Counting
<1>9. QED
  BY <1>1, <1>4, <1>5, <1>7, <1>8, IdleFacts, QuietStep

(* A counter of one post moves, in the table or in what was slipped.       *)
LEMMA SlipLikesFacts ==
  ASSUME TypeOK, NEW p \in PostIds, NEW n \in Int, SlipLikes(p, n)
  PROVE  /\ slipped' \in Seq([likesCount : Int, commentsCount : Int]) /\ Len(slipped') = Len(posts)
         /\ \A q \in PostIds :
              /\ slipped'[q].likesCount = slipped[q].likesCount + (IF q = p THEN n ELSE 0)
              /\ slipped'[q].commentsCount = slipped[q].commentsCount
<1> DEFINE row == [slipped[p] EXCEPT !.likesCount = @ + n]
<1>1. slipped' = [slipped EXCEPT ![p] = row]
  BY DEF SlipLikes
<1>2. /\ row \in [likesCount : Int, commentsCount : Int]
      /\ row.likesCount = slipped[p].likesCount + n /\ row.commentsCount = slipped[p].commentsCount
      /\ \A q \in PostIds : slipped[q].likesCount \in Int
  BY PostFacts
<1> HIDE DEF row
<1>3. slipped \in Seq([likesCount : Int, commentsCount : Int]) /\ Len(slipped) = Len(posts)
  BY DEF TypeOK
<1>4. p \in 1 .. Len(slipped)
  BY <1>3, PostFacts
<1>5. slipped' \in Seq([likesCount : Int, commentsCount : Int]) /\ Len(slipped') = Len(posts)
  BY <1>1, <1>2, <1>3, <1>4, ExceptSeq
<1>6. \A q \in PostIds : slipped'[q] = IF q = p THEN row ELSE slipped[q]
  BY <1>1, PostFacts, SMTT(30)
<1>7. QED
  BY <1>2, <1>5, <1>6, SMTT(30)

LEMMA SlipCommentsFacts ==
  ASSUME TypeOK, NEW p \in PostIds, NEW n \in Int, SlipComments(p, n)
  PROVE  /\ slipped' \in Seq([likesCount : Int, commentsCount : Int]) /\ Len(slipped') = Len(posts)
         /\ \A q \in PostIds :
              /\ slipped'[q].commentsCount = slipped[q].commentsCount + (IF q = p THEN n ELSE 0)
              /\ slipped'[q].likesCount = slipped[q].likesCount
<1> DEFINE row == [slipped[p] EXCEPT !.commentsCount = @ + n]
<1>1. slipped' = [slipped EXCEPT ![p] = row]
  BY DEF SlipComments
<1>2. /\ row \in [likesCount : Int, commentsCount : Int]
      /\ row.commentsCount = slipped[p].commentsCount + n /\ row.likesCount = slipped[p].likesCount
      /\ \A q \in PostIds : slipped[q].commentsCount \in Int
  BY PostFacts
<1> HIDE DEF row
<1>3. slipped \in Seq([likesCount : Int, commentsCount : Int]) /\ Len(slipped) = Len(posts)
  BY DEF TypeOK
<1>4. p \in 1 .. Len(slipped)
  BY <1>3, PostFacts
<1>5. slipped' \in Seq([likesCount : Int, commentsCount : Int]) /\ Len(slipped') = Len(posts)
  BY <1>1, <1>2, <1>3, <1>4, ExceptSeq
<1>6. \A q \in PostIds : slipped'[q] = IF q = p THEN row ELSE slipped[q]
  BY <1>1, PostFacts, SMTT(30)
<1>7. QED
  BY <1>2, <1>5, <1>6, SMTT(30)

LEMMA CountLikesFacts ==
  ASSUME TypeOK, NEW p \in PostIds, NEW n \in Int, posts' = [posts EXCEPT ![p].likesCount = @ + n]
  PROVE  /\ posts' \in Seq(PostType) /\ Len(posts') = Len(posts) /\ PostIds' = PostIds
         /\ \A q \in PostIds :
              /\ posts'[q].likesCount = posts[q].likesCount + (IF q = p THEN n ELSE 0)
              /\ posts'[q].commentsCount = posts[q].commentsCount
<1> DEFINE row == [posts[p] EXCEPT !.likesCount = @ + n]
<1>1. posts' = [posts EXCEPT ![p] = row]
  OBVIOUS
<1>2. /\ row \in PostType
      /\ row.likesCount = posts[p].likesCount + n /\ row.commentsCount = posts[p].commentsCount
      /\ \A q \in PostIds : posts[q].likesCount \in Int
  BY PostFacts, SMTT(30) DEF PostType
<1> HIDE DEF row
<1>3. posts \in Seq(PostType) /\ p \in 1 .. Len(posts)
  BY PostFacts DEF TypeOK
<1>4. posts' \in Seq(PostType) /\ Len(posts') = Len(posts)
  BY <1>1, <1>2, <1>3, ExceptSeq, SMTT(30)
<1>5. \A q \in PostIds : posts'[q] = IF q = p THEN row ELSE posts[q]
  BY <1>1, PostFacts, SMTT(30)
<1>6. PostIds' = PostIds
  BY <1>1 DEF PostIds
<1>7. QED
  BY <1>2, <1>4, <1>5, <1>6, SMTT(30)

LEMMA CountCommentsFacts ==
  ASSUME TypeOK, NEW p \in PostIds, NEW n \in Int, posts' = [posts EXCEPT ![p].commentsCount = @ + n]
  PROVE  /\ posts' \in Seq(PostType) /\ Len(posts') = Len(posts) /\ PostIds' = PostIds
         /\ \A q \in PostIds :
              /\ posts'[q].commentsCount = posts[q].commentsCount + (IF q = p THEN n ELSE 0)
              /\ posts'[q].likesCount = posts[q].likesCount
<1> DEFINE row == [posts[p] EXCEPT !.commentsCount = @ + n]
<1>1. posts' = [posts EXCEPT ![p] = row]
  OBVIOUS
<1>2. /\ row \in PostType
      /\ row.commentsCount = posts[p].commentsCount + n /\ row.likesCount = posts[p].likesCount
      /\ \A q \in PostIds : posts[q].commentsCount \in Int
  BY PostFacts, SMTT(30) DEF PostType
<1> HIDE DEF row
<1>3. posts \in Seq(PostType) /\ p \in 1 .. Len(posts)
  BY PostFacts DEF TypeOK
<1>4. posts' \in Seq(PostType) /\ Len(posts') = Len(posts)
  BY <1>1, <1>2, <1>3, ExceptSeq, SMTT(30)
<1>5. \A q \in PostIds : posts'[q] = IF q = p THEN row ELSE posts[q]
  BY <1>1, PostFacts, SMTT(30)
<1>6. PostIds' = PostIds
  BY <1>1 DEF PostIds
<1>7. QED
  BY <1>2, <1>4, <1>5, <1>6, SMTT(30)

(* A step that concerns the likes alone, and one that concerns the         *)
(* comments alone.                                                         *)
LEMMA LikesStep ==
  ASSUME IInv, NEW h \in Handlers, NEW r \in RequestType, TakesUp(h, r), Sound(h)',
         UNCHANGED <<comments, follows>>,
         proc[h].pc \notin {"countComment", "uncountComment"}, r.pc \notin {"countComment", "uncountComment"},
         posts' \in Seq(PostType), Len(posts') = Len(posts), PostIds' = PostIds,
         slipped' \in Seq([likesCount : Int, commentsCount : Int]), Len(slipped') = Len(posts),
         \A p \in PostIds :
           posts'[p].commentsCount = posts[p].commentsCount /\ slipped'[p].commentsCount = slipped[p].commentsCount,
         likes' \subseteq [id : Ids, user : Users, on : PostIds], Numbered(likes', nextId'),
         nextId' \in Nat \ {0}, nextId' >= nextId, \A l \in likes' : l \in likes \/ l.id = nextId,
         \A p \in PostIds : LikesAccounted(p)'
  PROVE  IInv'
<1>1. proc' \in [Handlers -> RequestType] /\ \A g \in Handlers : Sound(g)'
  BY SoundKept
<1>2. TypeOK'
  BY <1>1 DEF IInv, TypeOK
<1>3. Numbered(comments', nextId')
  BY RowFacts, NumberedKept DEF IInv
<1>4. ASSUME NEW p \in PostIds PROVE CommentsAccounted(p)'
  <2>1. Owes(r, p, "countComment", "uncountComment") = Owes(proc[h], p, "countComment", "uncountComment")
    BY DEF Owes
  <2>2. QED
    BY <2>1, CommentsStill
<1>5. QED
  BY <1>1, <1>2, <1>3, <1>4 DEF IInv

LEMMA CommentsStep ==
  ASSUME IInv, NEW h \in Handlers, NEW r \in RequestType, TakesUp(h, r), Sound(h)',
         UNCHANGED <<likes, follows>>,
         proc[h].pc \notin {"countLike", "uncountLike"}, r.pc \notin {"countLike", "uncountLike"},
         posts' \in Seq(PostType), Len(posts') = Len(posts), PostIds' = PostIds,
         slipped' \in Seq([likesCount : Int, commentsCount : Int]), Len(slipped') = Len(posts),
         \A p \in PostIds :
           posts'[p].likesCount = posts[p].likesCount /\ slipped'[p].likesCount = slipped[p].likesCount,
         comments' \subseteq [id : Ids, user : Users, on : PostIds], Numbered(comments', nextId'),
         nextId' \in Nat \ {0}, nextId' >= nextId, \A c \in comments' : c \in comments \/ c.id = nextId,
         \A p \in PostIds : CommentsAccounted(p)'
  PROVE  IInv'
<1>1. proc' \in [Handlers -> RequestType] /\ \A g \in Handlers : Sound(g)'
  BY SoundKept
<1>2. TypeOK'
  BY <1>1 DEF IInv, TypeOK
<1>3. Numbered(likes', nextId')
  BY RowFacts, NumberedKept DEF IInv
<1>4. ASSUME NEW p \in PostIds PROVE LikesAccounted(p)'
  <2>1. Owes(r, p, "countLike", "uncountLike") = Owes(proc[h], p, "countLike", "uncountLike")
    BY DEF Owes
  <2>2. QED
    BY <2>1, LikesStill
<1>5. QED
  BY <1>1, <1>2, <1>3, <1>4 DEF IInv

LEMMA NewIdFacts ==
  ASSUME IInv, NewId
  PROVE  nextId \in Ids /\ nextId' = nextId + 1 /\ nextId' \in Nat \ {0} /\ nextId' >= nextId
BY BoundsAssumption DEF IInv, TypeOK, NewId, Ids

LEMMA InsertLikeStep ==
  ASSUME IInv, NEW h \in Handlers, InsertLike(h)
  PROVE  IInv'
<1> DEFINE p == proc[h].on
           u == proc[h].user
<1>1. /\ proc[h] \in RequestType /\ proc[h].pc = "insertLike" /\ p \in PostIds /\ u \in Users
      /\ UNCHANGED <<posts, comments, follows>> /\ PostIds' = PostIds
  BY DEF InsertLike, At, IInv, TypeOK, Sound, OnAPost, PostIds
<1>2. CASE LikesOf(p, u) # {}
  <2>1. TakesUp(h, Idle) /\ UNCHANGED <<likes, nextId, slipped>>
    BY <1>2 DEF InsertLike, Ends, TakesUp
  <2>2. proc'[h] = Idle
    BY <2>1 DEF TakesUp, IInv, TypeOK
  <2>3. nextId' \in Nat /\ nextId' >= nextId /\ follows' \subseteq [id : Ids, user : Users, on : Tenants]
    BY <1>1, <2>1 DEF IInv, TypeOK
  <2>4. proc[h].pc \notin Counting /\ Idle.pc \notin Counting /\ Sound(h)'
    BY <1>1, <2>2, IdleFacts, IdleSound DEF Counting
  <2>5. QED
    BY <1>1, <2>1, <2>3, <2>4, IdleFacts, QuietStep
<1>3. CASE LikesOf(p, u) = {}
  <2>1. likes' = likes \union {Row(h)} /\ NewId
    BY <1>3 DEF InsertLike
  <2>2. Row(h) \in [id : Ids, user : Users, on : PostIds] /\ Row(h).id = nextId /\ Row(h).on = p
    BY <1>1, <2>1, NewIdFacts DEF Row
  <2>3. /\ nextId \in Nat /\ nextId' = nextId + 1 /\ nextId' \in Nat \ {0} /\ nextId' >= nextId
        /\ Numbered(likes, nextId) /\ IsFiniteSet(likes)
    BY <2>1, NewIdFacts, RowFacts DEF IInv, Numbered
  <2>4. Row(h) \notin likes /\ Numbered(likes', nextId')
    BY <2>1, <2>2, <2>3, RowFacts, NumberedAdd DEF IInv
  <2>5. /\ likes' \subseteq [id : Ids, user : Users, on : PostIds]
        /\ \A l \in likes' : l \in likes \/ l.id = nextId
    BY <2>1, <2>2 DEF IInv, TypeOK
  <2>6. \A q \in PostIds : Cardinality(On(likes', q)) = Cardinality(On(likes, q)) + (IF q = p THEN 1 ELSE 0)
    BY <2>1, <2>2, <2>3, <2>4, CountAdd
  <2>7. CASE proc[h].counted
    <3> DEFINE r == [proc[h] EXCEPT !.pc = "countLike"]
    <3>1. TakesUp(h, r) /\ UNCHANGED slipped
      BY <1>3, <2>7 DEF InsertLike, Becomes, TakesUp
    <3>2. r \in RequestType /\ r.pc = "countLike" /\ r.on = p
      BY <1>1 DEF RequestType, PCs
    <3> HIDE DEF r
    <3>3. proc'[h] = r
      BY <3>1 DEF TakesUp, IInv, TypeOK
    <3>4. Sound(h)'
      BY <1>1, <3>2, <3>3 DEF Sound
    <3>5. ASSUME NEW q \in PostIds PROVE LikesAccounted(q)'
      <4> DEFINE n == IF q = p THEN 1 ELSE 0
      <4>1. posts[q].likesCount \in Int /\ slipped[q].likesCount \in Int
        BY PostFacts DEF IInv, PostType
      <4>2. LikesMove(q, 0, 0, n)
        BY <1>1, <2>6, <3>1, <4>1 DEF LikesMove
      <4>3. Pays(0, 0, r, proc[h], q, "countLike", "uncountLike", n)
        BY <1>1, <3>2 DEF Owes, Pays
      <4>4. QED
        BY <3>1, <3>2, <4>2, <4>3, LikesBalance
    <3>6. /\ posts' \in Seq(PostType) /\ Len(posts') = Len(posts)
          /\ slipped' \in Seq([likesCount : Int, commentsCount : Int]) /\ Len(slipped') = Len(posts)
      BY <1>1, <3>1 DEF IInv, TypeOK
    <3>7. proc[h].pc \notin {"countComment", "uncountComment"} /\ r.pc \notin {"countComment", "uncountComment"}
      BY <1>1, <3>2
    <3>8. QED
      BY <1>1, <2>3, <2>4, <2>5, <3>1, <3>2, <3>4, <3>5, <3>6, <3>7, LikesStep
  <2>8. CASE ~proc[h].counted
    <3>1. TakesUp(h, Idle) /\ SlipLikes(p, 1)
      BY <1>3, <2>8 DEF InsertLike, Ends, TakesUp
    <3>2. /\ slipped' \in Seq([likesCount : Int, commentsCount : Int]) /\ Len(slipped') = Len(posts)
          /\ \A q \in PostIds :
               /\ slipped'[q].likesCount = slipped[q].likesCount + (IF q = p THEN 1 ELSE 0)
               /\ slipped'[q].commentsCount = slipped[q].commentsCount
      BY <1>1, <3>1, SlipLikesFacts DEF IInv
    <3>3. proc'[h] = Idle
      BY <3>1 DEF TakesUp, IInv, TypeOK
    <3>4. Sound(h)'
      BY <3>3, IdleFacts, IdleSound
    <3>5. ASSUME NEW q \in PostIds PROVE LikesAccounted(q)'
      <4> DEFINE n == IF q = p THEN 1 ELSE 0
      <4>1. posts[q].likesCount \in Int
        BY PostFacts DEF IInv, PostType
      <4>2. LikesMove(q, 0, n, n)
        BY <1>1, <2>6, <3>2, <4>1 DEF LikesMove
      <4>3. Pays(0, n, Idle, proc[h], q, "countLike", "uncountLike", n)
        BY <1>1, IdleFacts DEF Owes, Pays
      <4>4. QED
        BY <3>1, <4>2, <4>3, IdleFacts, LikesBalance
    <3>6. posts' \in Seq(PostType) /\ Len(posts') = Len(posts)
      BY <1>1 DEF IInv, TypeOK
    <3>7. proc[h].pc \notin {"countComment", "uncountComment"} /\ Idle.pc \notin {"countComment", "uncountComment"}
      BY <1>1, IdleFacts
    <3>8. QED
      BY <1>1, <2>3, <2>4, <2>5, <3>1, <3>2, <3>4, <3>5, <3>6, <3>7, IdleFacts, LikesStep
  <2>9. QED
    BY <2>7, <2>8
<1>4. QED
  BY <1>2, <1>3

LEMMA DeleteLikeStep ==
  ASSUME IInv, NEW h \in Handlers, DeleteLike(h)
  PROVE  IInv'
<1> DEFINE p == proc[h].on
           u == proc[h].user
           gone == IF proc[h].counted THEN WithId(likes, h) ELSE LikesOf(p, u)
           n == -Cardinality(gone)
<1>1. /\ proc[h] \in RequestType /\ proc[h].pc = "deleteLike" /\ p \in PostIds
      /\ UNCHANGED <<posts, comments, follows, nextId>> /\ PostIds' = PostIds
  BY DEF DeleteLike, At, IInv, TypeOK, Sound, OnAPost, PostIds
<1>2. Loses(likes, likes', gone, p)
  <2>1. CASE proc[h].counted
    BY <1>1, <2>1 DEF DeleteLike, WithId, On, Loses, IInv, Sound
  <2>2. CASE ~proc[h].counted
    BY <2>2 DEF DeleteLike, LikesOf, On, Loses
  <2>3. QED
    BY <2>1, <2>2
<1>3. /\ n \in Int
      /\ \A q \in PostIds :
           /\ Cardinality(On(likes, q)) \in Nat
           /\ Cardinality(On(likes', q)) = Cardinality(On(likes, q)) + (IF q = p THEN n ELSE 0)
  <2>1. IsFiniteSet(likes)
    BY DEF IInv, Numbered
  <2> HIDE DEF gone
  <2>2. ASSUME NEW q \in PostIds
        PROVE  /\ Cardinality(gone) \in Nat /\ Cardinality(On(likes, q)) \in Nat
               /\ Cardinality(On(likes', q))
                    = Cardinality(On(likes, q)) - (IF q = p THEN Cardinality(gone) ELSE 0)
    BY <1>2, <2>1, CountRemove
  <2>3. QED
    BY <1>1, <2>2
<1>4. /\ Numbered(likes', nextId') /\ nextId' \in Nat \ {0} /\ nextId' >= nextId
      /\ likes' \subseteq [id : Ids, user : Users, on : PostIds]
      /\ \A l \in likes' : l \in likes \/ l.id = nextId
  <2>1. nextId \in Nat \ {0} /\ nextId' = nextId /\ likes' \subseteq likes
    BY <1>1, <1>2 DEF IInv, TypeOK, Loses
  <2>2. Numbered(likes', nextId')
    BY <2>1, RowFacts, NumberedKept DEF IInv
  <2>3. QED
    BY <2>1, <2>2 DEF IInv, TypeOK
<1>5. posts' \in Seq(PostType) /\ Len(posts') = Len(posts)
  BY <1>1 DEF IInv, TypeOK
<1>6. \A q \in PostIds : posts[q].likesCount \in Int /\ slipped[q].likesCount \in Int
  BY PostFacts DEF IInv, PostType
<1>7. CASE proc[h].counted
  <2> DEFINE r == IF gone = {} THEN Idle ELSE [proc[h] EXCEPT !.pc = "uncountLike"]
  <2>1. TakesUp(h, r) /\ UNCHANGED slipped
    BY <1>7 DEF DeleteLike, AfterDelete, Ends, Becomes, TakesUp
  <2>2. /\ gone = {} => r = Idle /\ n = 0
        /\ gone # {} => r.pc = "uncountLike" /\ r.on = p /\ n = -1
    <3>1. CASE gone = {}
      BY <3>1, FS_EmptySet
    <3>2. CASE gone # {}
      <4>1. PICK l \in gone : TRUE
        BY <3>2
      <4>2. gone = {l}
        BY <1>7, <4>1 DEF WithId, IInv, Numbered
      <4>3. n = -1
        BY <4>2, FS_Singleton
      <4>4. r = [proc[h] EXCEPT !.pc = "uncountLike"]
        BY <3>2
      <4>5. QED
        BY <1>1, <3>2, <4>3, <4>4 DEF RequestType
    <3>3. QED
      BY <3>1, <3>2
  <2>3. r \in RequestType
    BY <1>1, IdleFacts DEF RequestType, PCs
  <2> HIDE DEF r, gone, n
  <2>4. proc'[h] = r
    BY <2>1 DEF TakesUp, IInv, TypeOK
  <2>5. Sound(h)'
    BY <1>1, <2>2, <2>4, IdleFacts DEF Sound, OnAPost
  <2>6. ASSUME NEW q \in PostIds PROVE LikesAccounted(q)'
    <3> DEFINE m == IF q = p THEN n ELSE 0
    <3>1. m \in Int /\ LikesMove(q, 0, 0, m)
      BY <1>1, <1>3, <1>6, <2>1 DEF LikesMove
    <3>2. Pays(0, 0, r, proc[h], q, "countLike", "uncountLike", m)
      BY <1>1, <2>2, IdleFacts DEF Owes, Pays
    <3>3. QED
      BY <2>1, <2>3, <3>1, <3>2, LikesBalance
  <2>7. slipped' \in Seq([likesCount : Int, commentsCount : Int]) /\ Len(slipped') = Len(posts)
    BY <2>1 DEF IInv, TypeOK
  <2>8. proc[h].pc \notin {"countComment", "uncountComment"} /\ r.pc \notin {"countComment", "uncountComment"}
    BY <1>1, <2>2, IdleFacts
  <2>9. QED
    BY <1>1, <1>4, <1>5, <2>1, <2>3, <2>5, <2>6, <2>7, <2>8, LikesStep
<1>8. CASE ~proc[h].counted
  <2>1. TakesUp(h, Idle) /\ SlipLikes(p, n)
    BY <1>8 DEF DeleteLike, Ends, TakesUp
  <2> HIDE DEF gone, n
  <2>3. /\ slipped' \in Seq([likesCount : Int, commentsCount : Int]) /\ Len(slipped') = Len(posts)
        /\ \A q \in PostIds :
             /\ slipped'[q].likesCount = slipped[q].likesCount + (IF q = p THEN n ELSE 0)
             /\ slipped'[q].commentsCount = slipped[q].commentsCount
    BY <1>1, <2>1, <1>3, SlipLikesFacts DEF IInv
  <2>4. proc'[h] = Idle
    BY <2>1 DEF TakesUp, IInv, TypeOK
  <2>5. Sound(h)'
    BY <2>4, IdleFacts, IdleSound
  <2>6. ASSUME NEW q \in PostIds PROVE LikesAccounted(q)'
    <3> DEFINE m == IF q = p THEN n ELSE 0
    <3>1. m \in Int /\ LikesMove(q, 0, m, m)
      <4>1. slipped'[q].likesCount = slipped[q].likesCount + m
        BY <2>3
      <4>2. Cardinality(On(likes', q)) = Cardinality(On(likes, q)) + m /\ m \in Int
        BY <1>3
      <4>3. posts'[q].likesCount = posts[q].likesCount + 0
        BY <1>1, <1>6
      <4>4. QED
        BY <4>1, <4>2, <4>3 DEF LikesMove
    <3>2. Pays(0, m, Idle, proc[h], q, "countLike", "uncountLike", m)
      BY <1>1, <1>3, IdleFacts DEF Owes, Pays
    <3>3. QED
      BY <2>1, <3>1, <3>2, IdleFacts, LikesBalance
  <2>7. proc[h].pc \notin {"countComment", "uncountComment"} /\ Idle.pc \notin {"countComment", "uncountComment"}
    BY <1>1, IdleFacts
  <2>8. QED
    BY <1>1, <1>4, <1>5, <2>1, <2>3, <2>5, <2>6, <2>7, IdleFacts, LikesStep
<1>9. QED
  BY <1>7, <1>8

(* The counter of a post's likes takes up what its request owed it, in the *)
(* table or, when the request dies, in what was slipped.                   *)
SettlesLikes(h, n) ==
  /\ proc[h].pc = (IF n = 1 THEN "countLike" ELSE "uncountLike")
  /\ UNCHANGED <<likes, comments, follows, nextId>>
  /\ \/ posts' = [posts EXCEPT ![proc[h].on].likesCount = @ + n] /\ UNCHANGED slipped
     \/ SlipLikes(proc[h].on, n) /\ UNCHANGED posts

LEMMA LikesSettled ==
  ASSUME IInv, NEW h \in Handlers, TakesUp(h, Idle), NEW n \in {1, -1}, SettlesLikes(h, n)
  PROVE  IInv'
<1> DEFINE p == proc[h].on
<1>1. p \in PostIds /\ n \in Int
  BY DEF SettlesLikes, IInv, Sound, OnAPost
<1>2. \A q \in PostIds : posts[q].likesCount \in Int /\ slipped[q].likesCount \in Int
  BY PostFacts DEF IInv, PostType
<1>3. PICK a \in {0, n}, b \in {0, n} :
        /\ a + b = n
        /\ posts' \in Seq(PostType) /\ Len(posts') = Len(posts) /\ PostIds' = PostIds
        /\ slipped' \in Seq([likesCount : Int, commentsCount : Int]) /\ Len(slipped') = Len(posts)
        /\ \A q \in PostIds :
             /\ posts'[q].likesCount = posts[q].likesCount + (IF q = p THEN a ELSE 0)
             /\ slipped'[q].likesCount = slipped[q].likesCount + (IF q = p THEN b ELSE 0)
             /\ posts'[q].commentsCount = posts[q].commentsCount
             /\ slipped'[q].commentsCount = slipped[q].commentsCount
  <2>1. CASE posts' = [posts EXCEPT ![p].likesCount = @ + n] /\ UNCHANGED slipped
    <3>1. /\ posts' \in Seq(PostType) /\ Len(posts') = Len(posts) /\ PostIds' = PostIds
          /\ \A q \in PostIds :
               /\ posts'[q].likesCount = posts[q].likesCount + (IF q = p THEN n ELSE 0)
               /\ posts'[q].commentsCount = posts[q].commentsCount
      BY <1>1, <2>1, CountLikesFacts DEF IInv
    <3>2. slipped' \in Seq([likesCount : Int, commentsCount : Int]) /\ Len(slipped') = Len(posts)
      BY <2>1 DEF IInv, TypeOK
    <3>3. n + 0 = n /\ \A q \in PostIds : slipped'[q].likesCount = slipped[q].likesCount + (IF q = p THEN 0 ELSE 0)
      BY <1>2, <2>1
    <3>4. QED
      BY <2>1, <3>1, <3>2, <3>3
  <2>2. CASE SlipLikes(p, n) /\ UNCHANGED posts
    <3>1. /\ slipped' \in Seq([likesCount : Int, commentsCount : Int]) /\ Len(slipped') = Len(posts)
          /\ \A q \in PostIds :
               /\ slipped'[q].likesCount = slipped[q].likesCount + (IF q = p THEN n ELSE 0)
               /\ slipped'[q].commentsCount = slipped[q].commentsCount
      BY <1>1, <2>2, SlipLikesFacts DEF IInv
    <3>2. posts' \in Seq(PostType) /\ Len(posts') = Len(posts) /\ PostIds' = PostIds
      BY <2>2 DEF IInv, TypeOK, PostIds
    <3>3. 0 + n = n /\ \A q \in PostIds : posts'[q].likesCount = posts[q].likesCount + (IF q = p THEN 0 ELSE 0)
      BY <1>2, <2>2
    <3>4. QED
      BY <2>2, <3>1, <3>2, <3>3
  <2>3. QED
    BY <2>1, <2>2 DEF SettlesLikes
<1>4. ASSUME NEW q \in PostIds PROVE LikesAccounted(q)'
  <2> DEFINE x == IF q = p THEN a ELSE 0
             y == IF q = p THEN b ELSE 0
  <2>1. Cardinality(On(likes, q)) \in Nat /\ likes' = likes
    BY FS_Subset, FS_CardinalityType DEF SettlesLikes, IInv, Numbered, On
  <2>2. x \in Int /\ y \in Int /\ LikesMove(q, x, y, 0)
    BY <1>3, <2>1 DEF LikesMove
  <2>3. Pays(x, y, Idle, proc[h], q, "countLike", "uncountLike", 0)
    BY <1>3, IdleFacts DEF SettlesLikes, Owes, Pays
  <2>4. QED
    BY <2>2, <2>3, IdleFacts, LikesBalance
<1>5. proc'[h] = Idle
  BY DEF TakesUp, IInv, TypeOK
<1>6. Sound(h)'
  BY <1>5, IdleFacts, IdleSound
<1>7. proc[h].pc \notin {"countComment", "uncountComment"} /\ Idle.pc \notin {"countComment", "uncountComment"}
  BY IdleFacts DEF SettlesLikes
<1>8. /\ nextId' \in Nat \ {0} /\ nextId' >= nextId /\ Numbered(likes', nextId')
      /\ likes' \subseteq [id : Ids, user : Users, on : PostIds]
  BY DEF SettlesLikes, IInv, TypeOK
<1>9. UNCHANGED <<comments, follows>> /\ \A l \in likes' : l \in likes \/ l.id = nextId
  BY DEF SettlesLikes
<1>10. QED
  BY <1>3, <1>4, <1>6, <1>7, <1>8, <1>9, IdleFacts, LikesStep

LEMMA CountLikeStep ==
  ASSUME IInv, NEW h \in Handlers, CountLike(h) \/ UncountLike(h)
  PROVE  IInv'
<1>1. TakesUp(h, Idle) /\ (SettlesLikes(h, 1) \/ SettlesLikes(h, -1))
  BY DEF CountLike, UncountLike, AddLikes, At, Ends, TakesUp, SettlesLikes
<1>2. QED
  BY <1>1, LikesSettled

(* The same for its comments.                                              *)
SettlesComments(h, n) ==
  /\ proc[h].pc = (IF n = 1 THEN "countComment" ELSE "uncountComment")
  /\ UNCHANGED <<likes, comments, follows, nextId>>
  /\ \/ posts' = [posts EXCEPT ![proc[h].on].commentsCount = @ + n] /\ UNCHANGED slipped
     \/ SlipComments(proc[h].on, n) /\ UNCHANGED posts

LEMMA CommentsSettled ==
  ASSUME IInv, NEW h \in Handlers, TakesUp(h, Idle), NEW n \in {1, -1}, SettlesComments(h, n)
  PROVE  IInv'
<1> DEFINE p == proc[h].on
<1>1. p \in PostIds /\ n \in Int
  BY DEF SettlesComments, IInv, Sound, OnAPost
<1>2. \A q \in PostIds : posts[q].commentsCount \in Int /\ slipped[q].commentsCount \in Int
  BY PostFacts DEF IInv, PostType
<1>3. PICK a \in {0, n}, b \in {0, n} :
        /\ a + b = n
        /\ posts' \in Seq(PostType) /\ Len(posts') = Len(posts) /\ PostIds' = PostIds
        /\ slipped' \in Seq([commentsCount : Int, likesCount : Int]) /\ Len(slipped') = Len(posts)
        /\ \A q \in PostIds :
             /\ posts'[q].commentsCount = posts[q].commentsCount + (IF q = p THEN a ELSE 0)
             /\ slipped'[q].commentsCount = slipped[q].commentsCount + (IF q = p THEN b ELSE 0)
             /\ posts'[q].likesCount = posts[q].likesCount
             /\ slipped'[q].likesCount = slipped[q].likesCount
  <2>1. CASE posts' = [posts EXCEPT ![p].commentsCount = @ + n] /\ UNCHANGED slipped
    <3>1. /\ posts' \in Seq(PostType) /\ Len(posts') = Len(posts) /\ PostIds' = PostIds
          /\ \A q \in PostIds :
               /\ posts'[q].commentsCount = posts[q].commentsCount + (IF q = p THEN n ELSE 0)
               /\ posts'[q].likesCount = posts[q].likesCount
      BY <1>1, <2>1, CountCommentsFacts DEF IInv
    <3>2. slipped' \in Seq([commentsCount : Int, likesCount : Int]) /\ Len(slipped') = Len(posts)
      BY <2>1 DEF IInv, TypeOK
    <3>3. n + 0 = n /\ \A q \in PostIds : slipped'[q].commentsCount = slipped[q].commentsCount + (IF q = p THEN 0 ELSE 0)
      BY <1>2, <2>1
    <3>4. QED
      BY <2>1, <3>1, <3>2, <3>3
  <2>2. CASE SlipComments(p, n) /\ UNCHANGED posts
    <3>1. /\ slipped' \in Seq([commentsCount : Int, likesCount : Int]) /\ Len(slipped') = Len(posts)
          /\ \A q \in PostIds :
               /\ slipped'[q].commentsCount = slipped[q].commentsCount + (IF q = p THEN n ELSE 0)
               /\ slipped'[q].likesCount = slipped[q].likesCount
      BY <1>1, <2>2, SlipCommentsFacts DEF IInv
    <3>2. posts' \in Seq(PostType) /\ Len(posts') = Len(posts) /\ PostIds' = PostIds
      BY <2>2 DEF IInv, TypeOK, PostIds
    <3>3. 0 + n = n /\ \A q \in PostIds : posts'[q].commentsCount = posts[q].commentsCount + (IF q = p THEN 0 ELSE 0)
      BY <1>2, <2>2
    <3>4. QED
      BY <2>2, <3>1, <3>2, <3>3
  <2>3. QED
    BY <2>1, <2>2 DEF SettlesComments
<1>4. ASSUME NEW q \in PostIds PROVE CommentsAccounted(q)'
  <2> DEFINE x == IF q = p THEN a ELSE 0
             y == IF q = p THEN b ELSE 0
  <2>1. Cardinality(On(comments, q)) \in Nat /\ comments' = comments
    BY FS_Subset, FS_CardinalityType DEF SettlesComments, IInv, Numbered, On
  <2>2. x \in Int /\ y \in Int /\ CommentsMove(q, x, y, 0)
    BY <1>3, <2>1 DEF CommentsMove
  <2>3. Pays(x, y, Idle, proc[h], q, "countComment", "uncountComment", 0)
    BY <1>3, IdleFacts DEF SettlesComments, Owes, Pays
  <2>4. QED
    BY <2>2, <2>3, IdleFacts, CommentsBalance
<1>5. proc'[h] = Idle
  BY DEF TakesUp, IInv, TypeOK
<1>6. Sound(h)'
  BY <1>5, IdleFacts, IdleSound
<1>7. proc[h].pc \notin {"countLike", "uncountLike"} /\ Idle.pc \notin {"countLike", "uncountLike"}
  BY IdleFacts DEF SettlesComments
<1>8. /\ nextId' \in Nat \ {0} /\ nextId' >= nextId /\ Numbered(comments', nextId')
      /\ comments' \subseteq [id : Ids, user : Users, on : PostIds]
  BY DEF SettlesComments, IInv, TypeOK
<1>9. UNCHANGED <<likes, follows>> /\ \A c \in comments' : c \in comments \/ c.id = nextId
  BY DEF SettlesComments
<1>10. QED
  BY <1>3, <1>4, <1>6, <1>7, <1>8, <1>9, IdleFacts, CommentsStep

LEMMA CountCommentStep ==
  ASSUME IInv, NEW h \in Handlers, CountComment(h) \/ UncountComment(h)
  PROVE  IInv'
<1>1. TakesUp(h, Idle) /\ (SettlesComments(h, 1) \/ SettlesComments(h, -1))
  BY DEF CountComment, UncountComment, AddComments, At, Ends, TakesUp, SettlesComments
<1>2. QED
  BY <1>1, CommentsSettled

LEMMA FailStep ==
  ASSUME IInv, NEW h \in Handlers, Fail(h)
  PROVE  IInv'
<1>1. TakesUp(h, Idle) /\ UNCHANGED <<posts, likes, comments, follows, nextId>>
  BY DEF Fail, Ends, TakesUp
<1>2. CASE proc[h].pc \in Counting
  <2>1. \/ SettlesLikes(h, 1) \/ SettlesLikes(h, -1)
        \/ SettlesComments(h, 1) \/ SettlesComments(h, -1)
    BY <1>1, <1>2 DEF Counting, Fail, At, SettlesLikes, SettlesComments
  <2>2. QED
    BY <1>1, <2>1, LikesSettled, CommentsSettled
<1>3. CASE proc[h].pc \notin Counting
  <2>1. UNCHANGED slipped
    BY <1>3 DEF Counting, Fail, At
  <2>2. proc'[h] = Idle
    BY <1>1 DEF TakesUp, IInv, TypeOK
  <2>3. Sound(h)' /\ Idle.pc \notin Counting
    BY <2>2, IdleFacts, IdleSound DEF Counting
  <2>4. nextId' \in Nat /\ nextId' >= nextId /\ follows' \subseteq [id : Ids, user : Users, on : Tenants]
    BY <1>1 DEF IInv, TypeOK
  <2>5. QED
    BY <1>1, <1>3, <2>1, <2>3, <2>4, IdleFacts, QuietStep
<1>4. QED
  BY <1>2, <1>3

LEMMA InsertCommentStep ==
  ASSUME IInv, NEW h \in Handlers, NEW u \in Users, NEW p \in PostIds, InsertComment(h, u, p)
  PROVE  IInv'
<1> DEFINE r == Request("countComment", u, p, None, FALSE)
           c == [id |-> nextId, user |-> u, on |-> p]
<1>1. /\ proc[h].pc = "idle" /\ TakesUp(h, r) /\ NewId /\ UNCHANGED <<posts, likes, follows, slipped>>
      /\ PostIds' = PostIds /\ comments' = comments \union {c}
  BY IdleFacts DEF InsertComment, Starts, IsIdle, TakesUp, PostIds
<1>2. r \in RequestType /\ r.pc = "countComment" /\ r.on = p
  <2>1. p \in Nat /\ "countComment" \in PCs
    BY PostFacts DEF IInv, PCs
  <2>2. QED
    BY <2>1, RequestFacts DEF Request
<1>3. /\ nextId \in Nat /\ nextId \in Ids /\ nextId' = nextId + 1 /\ nextId' \in Nat \ {0} /\ nextId' >= nextId
      /\ Numbered(comments, nextId) /\ IsFiniteSet(comments)
  BY <1>1, NewIdFacts, RowFacts DEF IInv, Numbered
<1>4. c \in [id : Ids, user : Users, on : PostIds] /\ c.id = nextId /\ c.on = p
  BY <1>3
<1> HIDE DEF r, c
<1>5. c \notin comments /\ Numbered(comments', nextId')
  BY <1>1, <1>3, <1>4, RowFacts, NumberedAdd DEF IInv
<1>6. /\ comments' \subseteq [id : Ids, user : Users, on : PostIds]
      /\ \A d \in comments' : d \in comments \/ d.id = nextId
  BY <1>1, <1>4 DEF IInv, TypeOK
<1>7. \A q \in PostIds :
        Cardinality(On(comments', q)) = Cardinality(On(comments, q)) + (IF q = p THEN 1 ELSE 0)
  BY <1>1, <1>3, <1>4, <1>5, CountAdd
<1>8. proc'[h] = r
  BY <1>1 DEF TakesUp, IInv, TypeOK
<1>9. Sound(h)'
  BY <1>1, <1>2, <1>8 DEF Sound
<1>10. ASSUME NEW q \in PostIds PROVE CommentsAccounted(q)'
  <2> DEFINE n == IF q = p THEN 1 ELSE 0
  <2>1. posts[q].commentsCount \in Int /\ slipped[q].commentsCount \in Int
    BY PostFacts DEF IInv, PostType
  <2>2. CommentsMove(q, 0, 0, n)
    BY <1>1, <1>7, <2>1 DEF CommentsMove
  <2>3. Pays(0, 0, r, proc[h], q, "countComment", "uncountComment", n)
    BY <1>1, <1>2 DEF Owes, Pays
  <2>4. QED
    BY <1>1, <1>2, <2>2, <2>3, CommentsBalance
<1>11. /\ posts' \in Seq(PostType) /\ Len(posts') = Len(posts)
       /\ slipped' \in Seq([likesCount : Int, commentsCount : Int]) /\ Len(slipped') = Len(posts)
  BY <1>1 DEF IInv, TypeOK
<1>12. proc[h].pc \notin {"countLike", "uncountLike"} /\ r.pc \notin {"countLike", "uncountLike"}
  BY <1>1, <1>2
<1>13. QED
  BY <1>1, <1>2, <1>3, <1>5, <1>6, <1>9, <1>10, <1>11, <1>12, CommentsStep

LEMMA DeleteCommentStep ==
  ASSUME IInv, NEW h \in Handlers, DeleteComment(h)
  PROVE  IInv'
<1> DEFINE p == proc[h].on
           gone == WithId(comments, h)
           r == IF gone = {} THEN Idle ELSE [proc[h] EXCEPT !.pc = "uncountComment"]
           n == -Cardinality(gone)
<1>1. /\ proc[h] \in RequestType /\ proc[h].pc = "deleteComment" /\ p \in PostIds
      /\ UNCHANGED <<posts, likes, follows, nextId, slipped>> /\ PostIds' = PostIds /\ TakesUp(h, r)
  BY DEF DeleteComment, AfterDelete, Ends, Becomes, TakesUp, At, IInv, TypeOK, Sound, OnAPost, PostIds
<1>2. Loses(comments, comments', gone, p)
  BY <1>1 DEF DeleteComment, WithId, On, Loses, IInv, Sound
<1>3. /\ gone = {} => r = Idle /\ n = 0
      /\ gone # {} => r.pc = "uncountComment" /\ r.on = p /\ n = -1
  <2>1. CASE gone = {}
    BY <2>1, FS_EmptySet
  <2>2. CASE gone # {}
    <3>1. PICK c \in gone : TRUE
      BY <2>2
    <3>2. gone = {c}
      BY <3>1 DEF WithId, IInv, Numbered
    <3>3. n = -1
      BY <3>2, FS_Singleton
    <3>4. r = [proc[h] EXCEPT !.pc = "uncountComment"]
      BY <2>2
    <3>5. QED
      BY <1>1, <2>2, <3>3, <3>4 DEF RequestType
  <2>3. QED
    BY <2>1, <2>2
<1>4. r \in RequestType
  BY <1>1, IdleFacts DEF RequestType, PCs
<1> HIDE DEF gone, r
<1>5. /\ n \in Int
      /\ \A q \in PostIds :
           /\ Cardinality(On(comments, q)) \in Nat
           /\ Cardinality(On(comments', q)) = Cardinality(On(comments, q)) + (IF q = p THEN n ELSE 0)
  <2>1. IsFiniteSet(comments)
    BY DEF IInv, Numbered
  <2>2. ASSUME NEW q \in PostIds
        PROVE  /\ Cardinality(gone) \in Nat /\ Cardinality(On(comments, q)) \in Nat
               /\ Cardinality(On(comments', q))
                    = Cardinality(On(comments, q)) - (IF q = p THEN Cardinality(gone) ELSE 0)
    BY <1>2, <2>1, CountRemove
  <2>3. Cardinality(gone) \in Nat
    BY <1>1, <2>2
  <2>4. QED
    BY <2>2, <2>3
<1> HIDE DEF n
<1>6. /\ Numbered(comments', nextId') /\ nextId' \in Nat \ {0} /\ nextId' >= nextId
      /\ comments' \subseteq [id : Ids, user : Users, on : PostIds]
      /\ \A c \in comments' : c \in comments \/ c.id = nextId
  <2>1. nextId \in Nat \ {0} /\ nextId' = nextId /\ comments' \subseteq comments
    BY <1>1, <1>2 DEF IInv, TypeOK, Loses
  <2>2. Numbered(comments', nextId')
    BY <2>1, RowFacts, NumberedKept DEF IInv
  <2>3. QED
    BY <2>1, <2>2 DEF IInv, TypeOK
<1>7. proc'[h] = r
  BY <1>1 DEF TakesUp, IInv, TypeOK
<1>8. Sound(h)'
  BY <1>1, <1>3, <1>7, IdleFacts DEF Sound, OnAPost
<1>9. ASSUME NEW q \in PostIds PROVE CommentsAccounted(q)'
  <2> DEFINE m == IF q = p THEN n ELSE 0
  <2>1. posts[q].commentsCount \in Int /\ slipped[q].commentsCount \in Int
    BY PostFacts DEF IInv, PostType
  <2>2. m \in Int /\ CommentsMove(q, 0, 0, m)
    BY <1>1, <1>5, <2>1 DEF CommentsMove
  <2>3. Pays(0, 0, r, proc[h], q, "countComment", "uncountComment", m)
    BY <1>1, <1>3, IdleFacts DEF Owes, Pays
  <2>4. QED
    BY <1>1, <1>4, <2>2, <2>3, CommentsBalance
<1>10. /\ posts' \in Seq(PostType) /\ Len(posts') = Len(posts)
       /\ slipped' \in Seq([likesCount : Int, commentsCount : Int]) /\ Len(slipped') = Len(posts)
  BY <1>1 DEF IInv, TypeOK
<1>11. proc[h].pc \notin {"countLike", "uncountLike"} /\ r.pc \notin {"countLike", "uncountLike"}
  BY <1>1, <1>3, IdleFacts
<1>12. QED
  BY <1>1, <1>4, <1>6, <1>8, <1>9, <1>10, <1>11, CommentsStep

(* A post that comes has no rows and no request yet; one that is deleted   *)
(* keeps its row and its counters.                                         *)
LEMMA CreatePostStep ==
  ASSUME IInv, NEW t \in Tenants, CreatePost(t)
  PROVE  IInv'
<1> DEFINE post == [tenant |-> t, isDeleted |-> FALSE, likesCount |-> 0, commentsCount |-> 0]
           slip == [likesCount |-> 0, commentsCount |-> 0]
<1>0. PICK p : p = Len(posts) + 1
  OBVIOUS
<1>1. /\ posts' = Append(posts, post) /\ slipped' = Append(slipped, slip)
      /\ UNCHANGED <<likes, comments, follows, proc, nextId>>
  BY DEF CreatePost
<1>2. post \in PostType /\ slip \in [likesCount : Int, commentsCount : Int]
  BY DEF PostType
<1>3. /\ posts \in Seq(PostType) /\ slipped \in Seq([likesCount : Int, commentsCount : Int])
      /\ Len(slipped) = Len(posts) /\ Len(posts) \in Nat /\ PostIds = 1 .. Len(posts)
  BY PostFacts DEF IInv, TypeOK
<1>4. /\ posts' \in Seq(PostType) /\ Len(posts') = p /\ posts'[p] = post
      /\ \A q \in 1 .. Len(posts) : posts'[q] = posts[q]
  BY <1>0, <1>1, <1>2, <1>3, AppendProperties
<1>5. /\ slipped' \in Seq([likesCount : Int, commentsCount : Int]) /\ Len(slipped') = p /\ slipped'[p] = slip
      /\ \A q \in 1 .. Len(posts) : slipped'[q] = slipped[q]
  BY <1>0, <1>1, <1>2, <1>3, AppendProperties
<1>6. PostIds' = PostIds \union {p} /\ p \notin PostIds
  <2>1. PostIds' = 1 .. p
    BY <1>4, LenProperties DEF PostIds
  <2>2. QED
    BY <1>0, <1>3, <2>1
<1>7. TypeOK'
  BY <1>1, <1>4, <1>5, <1>6 DEF IInv, TypeOK
<1>8. Numbered(likes', nextId') /\ Numbered(comments', nextId')
  BY <1>1 DEF IInv
<1>9. \A h \in Handlers : Sound(h)'
  BY <1>1, <1>6 DEF IInv, Sound
<1>10. ASSUME NEW q \in PostIds PROVE LikesAccounted(q)' /\ CommentsAccounted(q)'
  <2>1. posts'[q] = posts[q] /\ slipped'[q] = slipped[q]
    BY <1>3, <1>4, <1>5
  <2>2. LikesAccounted(q) /\ CommentsAccounted(q)
    BY DEF IInv
  <2>3. QED
    BY <1>1, <2>1, <2>2 DEF LikesAccounted, CommentsAccounted, Pending, At
<1>11. LikesAccounted(p)' /\ CommentsAccounted(p)'
  <2>1. On(likes', p) = {} /\ On(comments', p) = {}
    BY <1>1, <1>6 DEF On, IInv, TypeOK
  <2>2. \A pc \in Counting : AtOn(proc', p, pc) = {}
    BY <1>1, <1>6 DEF IInv, Sound, OnAPost, Counting, AtOn
  <2>3. \A up, down \in Counting : Pending(p, up, down)' = Cardinality(AtOn(proc', p, up)) - Cardinality(AtOn(proc', p, down))
    BY <1>1 DEF Pending, AtOn, At
  <2>4. Pending(p, "countLike", "uncountLike")' = 0 /\ Pending(p, "countComment", "uncountComment")' = 0
    BY <2>2, <2>3, FS_EmptySet DEF Counting
  <2>5. QED
    BY <1>4, <1>5, <2>1, <2>4, FS_EmptySet DEF LikesAccounted, CommentsAccounted
<1>12. \A q \in PostIds' : LikesAccounted(q)' /\ CommentsAccounted(q)'
  BY <1>6, <1>10, <1>11
<1>13. QED
  BY <1>7, <1>8, <1>9, <1>12 DEF IInv

LEMMA DeletePostStep ==
  ASSUME IInv, NEW p \in PostIds, DeletePost(p)
  PROVE  IInv'
<1> DEFINE post == [posts[p] EXCEPT !.isDeleted = TRUE]
<1>1. posts' = [posts EXCEPT ![p] = post] /\ UNCHANGED <<likes, comments, follows, proc, nextId, slipped>>
  BY DEF DeletePost
<1>2. /\ post \in PostType
      /\ post.likesCount = posts[p].likesCount /\ post.commentsCount = posts[p].commentsCount
  BY PostFacts DEF IInv, PostType
<1> HIDE DEF post
<1>3. posts \in Seq(PostType) /\ p \in 1 .. Len(posts)
  BY PostFacts DEF IInv, TypeOK
<1>4. posts' \in Seq(PostType) /\ Len(posts') = Len(posts)
  BY <1>1, <1>2, <1>3, ExceptSeq
<1>5. PostIds' = PostIds
  BY <1>1 DEF PostIds
<1>6. TypeOK'
  BY <1>1, <1>4, <1>5 DEF IInv, TypeOK
<1>7. \A h \in Handlers : Sound(h)'
  BY <1>1, <1>5 DEF IInv, Sound
<1>8. ASSUME NEW q \in PostIds PROVE LikesAccounted(q)' /\ CommentsAccounted(q)'
  <2>1. posts'[q].likesCount = posts[q].likesCount /\ posts'[q].commentsCount = posts[q].commentsCount
    BY <1>1, <1>2 DEF PostIds
  <2>2. LikesAccounted(q) /\ CommentsAccounted(q)
    BY DEF IInv
  <2>3. QED
    BY <1>1, <2>1, <2>2 DEF LikesAccounted, CommentsAccounted, Pending, At
<1>9. QED
  BY <1>1, <1>5, <1>6, <1>7, <1>8 DEF IInv

LEMMA StepIInv ==
  ASSUME IInv, [Next]_vars
  PROVE  IInv'
<1>1. CASE UNCHANGED vars
  <2>1. PostIds' = PostIds /\ TypeOK'
    BY <1>1 DEF vars, IInv, TypeOK, PostIds
  <2>2. Numbered(likes', nextId') /\ Numbered(comments', nextId')
    BY <1>1 DEF vars, IInv
  <2>3. \A h \in Handlers : Sound(h)'
    BY <1>1, <2>1 DEF vars, IInv, Sound
  <2>4. ASSUME NEW q \in PostIds PROVE LikesAccounted(q)' /\ CommentsAccounted(q)'
    BY <1>1 DEF vars, IInv, LikesAccounted, CommentsAccounted, Pending, At
  <2>5. QED
    BY <2>1, <2>2, <2>3, <2>4 DEF IInv
<1>2. ASSUME NEW t \in Tenants, CreatePost(t) PROVE IInv'
  BY <1>2, CreatePostStep
<1>3. ASSUME NEW p \in PostIds, DeletePost(p) PROVE IInv'
  BY <1>3, DeletePostStep
<1>4. ASSUME NEW h \in Handlers, Arrives(h) PROVE IInv'
  <2>1. PICK u \in Users :
          \/ \E p \in PostIds : ToggleLike(h, u, p) \/ Like(h, u, p) \/ Unlike(h, u, p) \/ InsertComment(h, u, p)
          \/ \E c \in comments : ReadComment(h, u, c)
          \/ \E t \in Tenants : Follow(h, u, t) \/ Unfollow(h, u, t)
    BY <1>4 DEF Arrives
  <2>2. QED
    BY <2>1, StartLike, InsertCommentStep, StartDeleteComment, StartFollow
<1>5. ASSUME NEW h \in Handlers, Serves(h) PROVE IInv'
  BY <1>5, InsertLikeStep, DeleteLikeStep, CountLikeStep, DeleteCommentStep, CountCommentStep, FollowStep
     DEF Serves
<1>6. ASSUME NEW h \in Handlers, Fail(h) PROVE IInv'
  BY <1>6, FailStep
<1>7. QED
  BY <1>1, <1>2, <1>3, <1>4, <1>5, <1>6 DEF Next

(***************************************************************************)
(* The theorems.                                                           *)
(***************************************************************************)

(* The inductive invariant holds of every state the code can reach.        *)
THEOREM Invariance == Spec => []IInv
<1>1. IInv /\ [Next]_vars => IInv'
  BY StepIInv
<1>2. QED
  BY InitIInv, <1>1, PTL DEF Spec

(* Every variable keeps its type, and every like and comment is of a post  *)
(* that exists: the rows the four services write, whatever their order.    *)
THEOREM TypeCorrect == Spec => []TypeOK
<1>1. IInv => TypeOK
  BY DEF IInv
<1>2. QED
  BY <1>1, Invariance, PTL

(* A post's likesCount and commentsCount, which the code writes apart from *)
(* the rows they count, are off by exactly what requests in flight still   *)
(* owe them and what LikeService and the requests that died slipped: a     *)
(* like or a comment is never counted or uncounted twice.                  *)
THEOREM CountersRight == Spec => []CountersAccounted
<1>1. IInv => CountersAccounted
  BY DEF IInv, CountersAccounted, LikesAccounted, CommentsAccounted, On
<1>2. QED
  BY <1>1, Invariance, PTL

(* toggleLike and unfollow delete the row they read, by its id: a like or  *)
(* a follow that a user makes after that read is not taken by it.          *)
THEOREM DeletesWhatItRead == Spec => RemovesWhatItRead
<1> DEFINE FollowRead(f) == \E h \in Handlers : At(h, "deleteFollow") /\ proc[h].row = f.id
           LikeRead(l) ==
             \E h \in Handlers : /\ At(h, "deleteLike") /\ proc[h].on = l.on /\ proc[h].user = l.user
                                /\ proc[h].counted => proc[h].row = l.id
<1>1. ASSUME IInv, Next PROVE /\ \A f \in follows \ follows' : FollowRead(f)
                             /\ \A l \in likes \ likes' : LikeRead(l)
  <2>1. ASSUME NEW h \in Handlers, Serves(h)
        PROVE  /\ \A f \in follows \ follows' : FollowRead(f)
               /\ \A l \in likes \ likes' : LikeRead(l)
    <3>1. CASE DeleteLike(h)
      <4>1. follows' = follows
        BY <3>1 DEF DeleteLike
      <4>2. ASSUME NEW l \in likes \ likes' PROVE LikeRead(l)
        <5>1. At(h, "deleteLike")
          BY <3>1 DEF DeleteLike
        <5>2. CASE proc[h].counted
          <6>1. proc[h].row = l.id
            BY <3>1, <4>2, <5>2 DEF DeleteLike, WithId
          <6>2. proc[h].on = l.on /\ proc[h].user = l.user
            BY <1>1, <5>1, <5>2, <6>1 DEF IInv, Sound, At
          <6>3. QED
            BY <5>1, <6>1, <6>2
        <5>3. CASE ~proc[h].counted
          <6>1. proc[h].on = l.on /\ proc[h].user = l.user
            BY <3>1, <4>2, <5>3 DEF DeleteLike, LikesOf
          <6>2. QED
            BY <5>1, <5>3, <6>1
        <5>4. QED
          BY <5>2, <5>3
      <4>3. QED
        BY <4>1, <4>2
    <3>2. CASE DeleteFollow(h)
      BY <3>2 DEF DeleteFollow, WithId
    <3>3. CASE InsertLike(h) \/ InsertFollow(h)
      BY <3>3 DEF InsertLike, InsertFollow
    <3>4. CASE \/ CountLike(h) \/ UncountLike(h) \/ DeleteComment(h) \/ CountComment(h) \/ UncountComment(h)
      BY <3>4 DEF CountLike, UncountLike, AddLikes, DeleteComment, CountComment, UncountComment, AddComments
    <3>5. QED
      BY <2>1, <3>1, <3>2, <3>3, <3>4 DEF Serves
  <2>2. ASSUME NEW h \in Handlers, Arrives(h) PROVE follows' = follows /\ likes' = likes
    BY <2>2 DEF Arrives, ToggleLike, Like, Unlike, InsertComment, ReadComment, Follow, Unfollow
  <2>3. ASSUME NEW h \in Handlers, Fail(h) PROVE follows' = follows /\ likes' = likes
    BY <2>3 DEF Fail
  <2>4. \A t \in Tenants : CreatePost(t) => follows' = follows /\ likes' = likes
    BY DEF CreatePost
  <2>5. \A p \in PostIds : DeletePost(p) => follows' = follows /\ likes' = likes
    BY DEF DeletePost
  <2>6. QED
    BY <1>1, <2>1, <2>2, <2>3, <2>4, <2>5 DEF Next
<1>2. IInv /\ [Next]_vars =>
        [/\ \A f \in follows \ follows' : FollowRead(f)
         /\ \A l \in likes \ likes' : LikeRead(l)]_vars
  BY <1>1
<1>3. QED
  BY <1>2, Invariance, PTL DEF Spec, RemovesWhatItRead

=============================================================================
