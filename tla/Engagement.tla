------------------------------ MODULE Engagement ------------------------------
(***************************************************************************)
(* What users do to the posts of a shop: PostService (create, toggleLike   *)
(* and delete), LikeService, CommentService and FollowService.             *)
(*                                                                         *)
(* No request of these services runs in a transaction: each statement      *)
(* commits by itself, and an action below is one statement with the checks *)
(* that follow it.  A request starts with the rows it reads; a request     *)
(* whose checks refuse it changes nothing and has no action.  A statement  *)
(* may fail and the process may crash between any two (Fail).  Emitting an *)
(* event comes after the last write of a request and changes no row.       *)
(***************************************************************************)
EXTENDS Integers, FiniteSets, Sequences

CONSTANTS
  Users, Tenants, Handlers,
  None,       \* no row, no user
  MaxPosts,   \* bound: posts ever published
  MaxRows     \* bound: rows ever inserted

ASSUME NoneAssumption == None \notin Users \union Tenants \union Nat
ASSUME HandlersAssumption == IsFiniteSet(Handlers)
ASSUME BoundsAssumption == MaxPosts \in Nat /\ MaxRows \in Nat

VARIABLES
  posts,     \* table Post
  likes,     \* table Like
  comments,  \* table Comment
  follows,   \* table Follow
  proc,      \* what each request being served will do next
  nextId,    \* the id of the next row
  slipped    \* history: per post, rows changed and never counted

vars == <<posts, likes, comments, follows, proc, nextId, slipped>>

PostIds == DOMAIN posts

(* A request in flight: its next statement, the post or tenant it is on,   *)
(* its user, the id of the row it read, and whether toggleLike serves it.  *)
Request(pc, user, on, row, counted) ==
  [pc |-> pc, user |-> user, on |-> on, row |-> row, counted |-> counted]
Idle == Request("idle", None, None, None, FALSE)

IsIdle(h) == proc[h] = Idle
At(h, pc) == proc[h].pc = pc
Starts(h, request) == IsIdle(h) /\ proc' = [proc EXCEPT ![h] = request]
Becomes(h, pc) == proc' = [proc EXCEPT ![h].pc = pc]
Ends(h) == proc' = [proc EXCEPT ![h] = Idle]

(* The unique keys (postId, userId) and (followerId, tenantId).            *)
LikesOf(p, u) == {l \in likes : l.on = p /\ l.user = u}
FollowsOf(u, t) == {f \in follows : f.user = u /\ f.on = t}
IdIn(rows) == (CHOOSE r \in rows : TRUE).id
Row_Swapped(h) == [id |-> nextId, user |-> proc[h].on, on |-> proc[h].user]
Row(h) == [id |-> nextId, user |-> proc[h].user, on |-> proc[h].on]
NewId == nextId <= MaxRows /\ nextId' = nextId + 1

(* A delete by id; one that finds no row throws, and ends its request.     *)
WithId(rows, h) == {r \in rows : r.id = proc[h].row}
AfterDelete_Many(h, gone, pc) == Becomes(h, pc)
AfterDelete(h, gone, pc) == IF gone = {} THEN Ends(h) ELSE Becomes(h, pc)

(* Rows that a step adds and never counts (negative: removes).             *)
SlipLikes(p, n) == slipped' = [slipped EXCEPT ![p].likesCount = @ + n]
SlipComments(p, n) == slipped' = [slipped EXCEPT ![p].commentsCount = @ + n]

Init ==
  /\ posts = <<>>
  /\ likes = {} /\ comments = {} /\ follows = {}
  /\ proc = [h \in Handlers |-> Idle]
  /\ nextId = 1
  /\ slipped = <<>>

(***************************************************************************)
(* Posts.                                                                  *)
(***************************************************************************)
CreatePost(t) ==
  /\ Len(posts) < MaxPosts
  /\ posts' = Append(posts, [tenant |-> t, isDeleted |-> FALSE,
                             likesCount |-> 0, commentsCount |-> 0])
  /\ slipped' = Append(slipped, [likesCount |-> 0, commentsCount |-> 0])
  /\ UNCHANGED <<likes, comments, follows, proc, nextId>>

(* The row stays: a deleted post can still be liked and commented.         *)
DeletePost(p) ==
  /\ posts' = [posts EXCEPT ![p].isDeleted = TRUE]
  /\ UNCHANGED <<likes, comments, follows, proc, nextId, slipped>>

(***************************************************************************)
(* Likes: POST posts/:id/like toggles and counts; POST and DELETE          *)
(* likes/posts/:postId write the row and never the counter.                *)
(***************************************************************************)
ToggleLike(h, u, p) ==
  /\ Starts(h, IF LikesOf(p, u) = {} THEN Request("insertLike", u, p, None, TRUE)
               ELSE Request("deleteLike", u, p, IdIn(LikesOf(p, u)), TRUE))
  /\ UNCHANGED <<posts, likes, comments, follows, nextId, slipped>>

Like(h, u, p) ==
  /\ LikesOf(p, u) = {}
  /\ Starts(h, Request("insertLike", u, p, None, FALSE))
  /\ UNCHANGED <<posts, likes, comments, follows, nextId, slipped>>

Unlike(h, u, p) ==
  /\ LikesOf(p, u) # {}
  /\ Starts(h, Request("deleteLike", u, p, None, FALSE))
  /\ UNCHANGED <<posts, likes, comments, follows, nextId, slipped>>

(* An insert that meets the unique key fails, and the request with it.     *)
InsertLike(h) ==
  LET r == proc[h] IN
  /\ At(h, "insertLike")
  /\ IF LikesOf(r.on, r.user) = {}
     THEN /\ NewId
          /\ likes' = likes \union {Row(h)}
          /\ IF r.counted THEN Becomes(h, "countLike") /\ UNCHANGED slipped
             ELSE Ends(h) /\ SlipLikes(r.on, 1)
     ELSE Ends(h) /\ UNCHANGED <<likes, nextId, slipped>>
  /\ UNCHANGED <<posts, comments, follows>>

(* toggleLike deletes the row it read; unlike whatever row has the key.    *)
DeleteLike(h) ==
  LET r == proc[h]
      gone == IF r.counted THEN WithId(likes, h) ELSE LikesOf(r.on, r.user)
  IN  /\ At(h, "deleteLike")
      /\ likes' = likes \ gone
      /\ IF r.counted THEN AfterDelete(h, gone, "uncountLike") /\ UNCHANGED slipped
         ELSE Ends(h) /\ SlipLikes(r.on, -Cardinality(gone))
      /\ UNCHANGED <<posts, comments, follows, nextId>>

AddLikes(h, pc, n) ==
  /\ At(h, pc)
  /\ posts' = [posts EXCEPT ![proc[h].on].likesCount = @ + n]
  /\ Ends(h)
  /\ UNCHANGED <<likes, comments, follows, nextId, slipped>>

CountLike(h) == AddLikes(h, "countLike", 1)
UncountLike(h) == AddLikes(h, "uncountLike", -1)

(***************************************************************************)
(* Comments.                                                               *)
(***************************************************************************)
InsertComment(h, u, p) ==
  /\ Starts(h, Request("countComment", u, p, None, FALSE))
  /\ NewId
  /\ comments' = comments \union {[id |-> nextId, user |-> u, on |-> p]}
  /\ UNCHANGED <<posts, likes, follows, slipped>>

(* delete reads the comment and refuses a stranger before it writes.       *)
ReadComment(h, u, c) ==
  /\ c.user = u
  /\ Starts(h, Request("deleteComment", u, c.on, c.id, FALSE))
  /\ UNCHANGED <<posts, likes, comments, follows, nextId, slipped>>

DeleteComment(h) ==
  /\ At(h, "deleteComment")
  /\ comments' = comments \ WithId(comments, h)
  /\ AfterDelete(h, WithId(comments, h), "uncountComment")
  /\ UNCHANGED <<posts, likes, follows, nextId, slipped>>

AddComments(h, pc, n) ==
  /\ At(h, pc)
  /\ posts' = [posts EXCEPT ![proc[h].on].commentsCount = @ + n]
  /\ Ends(h)
  /\ UNCHANGED <<likes, comments, follows, nextId, slipped>>

CountComment(h) == AddComments(h, "countComment", 1)
UncountComment(h) == AddComments(h, "uncountComment", -1)

(***************************************************************************)
(* Follows.                                                                *)
(***************************************************************************)
Follow(h, u, t) ==
  /\ FollowsOf(u, t) = {}
  /\ Starts(h, Request("insertFollow", u, t, None, FALSE))
  /\ UNCHANGED <<posts, likes, comments, follows, nextId, slipped>>

InsertFollow(h) ==
  /\ At(h, "insertFollow")
  /\ IF FollowsOf(proc[h].user, proc[h].on) = {}
     THEN NewId /\ follows' = follows \union {Row(h)}
     ELSE UNCHANGED <<follows, nextId>>
  /\ Ends(h)
  /\ UNCHANGED <<posts, likes, comments, slipped>>

Unfollow(h, u, t) ==
  /\ FollowsOf(u, t) # {}
  /\ Starts(h, Request("deleteFollow", u, t, IdIn(FollowsOf(u, t)), FALSE))
  /\ UNCHANGED <<posts, likes, comments, follows, nextId, slipped>>

DeleteFollow_ByKey(h) ==
  /\ At(h, "deleteFollow")
  /\ follows' = follows \ FollowsOf(proc[h].user, proc[h].on)
  /\ Ends(h)
  /\ UNCHANGED <<posts, likes, comments, nextId, slipped>>

DeleteFollow(h) ==
  /\ At(h, "deleteFollow")
  /\ follows' = follows \ WithId(follows, h)
  /\ Ends(h)
  /\ UNCHANGED <<posts, likes, comments, nextId, slipped>>

(***************************************************************************)
(* A request dies before its next statement.                               *)
(***************************************************************************)
Fail(h) ==
  LET p == proc[h].on IN
  /\ ~IsIdle(h)
  /\ Ends(h)
  /\ CASE At(h, "countLike") -> SlipLikes(p, 1)
       [] At(h, "uncountLike") -> SlipLikes(p, -1)
       [] At(h, "countComment") -> SlipComments(p, 1)
       [] At(h, "uncountComment") -> SlipComments(p, -1)
       [] OTHER -> UNCHANGED slipped
  /\ UNCHANGED <<posts, likes, comments, follows, nextId>>

(***************************************************************************)
(* The specification.                                                      *)
(***************************************************************************)
Arrives(h) ==
  \E u \in Users :
    \/ \E p \in PostIds : ToggleLike(h, u, p) \/ Like(h, u, p) \/ Unlike(h, u, p) \/ InsertComment(h, u, p)
    \/ \E c \in comments : ReadComment(h, u, c)
    \/ \E t \in Tenants : Follow(h, u, t) \/ Unfollow(h, u, t)

Serves(h) ==
  \/ InsertLike(h) \/ DeleteLike(h) \/ CountLike(h) \/ UncountLike(h)
  \/ DeleteComment(h) \/ CountComment(h) \/ UncountComment(h)
  \/ InsertFollow(h) \/ DeleteFollow(h)

Next ==
  \/ \E t \in Tenants : CreatePost(t)
  \/ \E p \in PostIds : DeletePost(p)
  \/ \E h \in Handlers : Arrives(h) \/ Serves(h) \/ Fail(h)

Spec == Init /\ [][Next]_vars

(***************************************************************************)
(* Properties.                                                             *)
(***************************************************************************)
Ids == 1 .. MaxRows
PostType ==
  [tenant : Tenants, isDeleted : BOOLEAN, likesCount : Int, commentsCount : Int]
PCs ==
  {"idle", "insertLike", "deleteLike", "countLike", "uncountLike", "deleteComment",
   "countComment", "uncountComment", "insertFollow", "deleteFollow"}
RequestType ==
  [pc : PCs, user : Users \union {None}, on : Nat \union Tenants \union {None},
   row : Ids \union {None}, counted : BOOLEAN]

(* Every variable keeps its type, and every row is of a post or tenant     *)
(* that exists.                                                            *)
TypeOK ==
  /\ posts \in Seq(PostType)
  /\ slipped \in Seq([likesCount : Int, commentsCount : Int]) /\ Len(slipped) = Len(posts)
  /\ likes \subseteq [id : Ids, user : Users, on : PostIds]
  /\ comments \subseteq [id : Ids, user : Users, on : PostIds]
  /\ follows \subseteq [id : Ids, user : Users, on : Tenants]
  /\ proc \in [Handlers -> RequestType]
  /\ nextId \in Nat \ {0}

(* What the requests in flight will still add to a counter of a post.      *)
Pending(p, up, down) ==
  Cardinality({h \in Handlers : At(h, up) /\ proc[h].on = p})
    - Cardinality({h \in Handlers : At(h, down) /\ proc[h].on = p})

(* A post's counters are written apart from the rows they count, by        *)
(* requests that overlap, beside others that never write them.  likesCount *)
(* is off by exactly the likes of LikeService and the requests that died   *)
(* halfway: two toggles at once, or a toggle of a like that is gone, never *)
(* count twice.  commentsCount likewise: two deletes of one comment        *)
(* subtract it once.                                                       *)
CountersAccounted ==
  \A p \in PostIds :
    /\ posts[p].likesCount + Pending(p, "countLike", "uncountLike") + slipped[p].likesCount
         = Cardinality({l \in likes : l.on = p})
    /\ posts[p].commentsCount + Pending(p, "countComment", "uncountComment") + slipped[p].commentsCount
         = Cardinality({c \in comments : c.on = p})

(* A follow or a like that a user made after a request read the old row is *)
(* not removed by that request, but for unlike's, which deletes by key.    *)
RemovesWhatItRead ==
  [][/\ \A f \in follows \ follows' : \E h \in Handlers : At(h, "deleteFollow") /\ proc[h].row = f.id
     /\ \A l \in likes \ likes' :
          \E h \in Handlers : /\ At(h, "deleteLike") /\ proc[h].on = l.on /\ proc[h].user = l.user
                             /\ proc[h].counted => proc[h].row = l.id]_vars
=============================================================================
