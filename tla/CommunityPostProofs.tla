------------------------ MODULE CommunityPostProofs ------------------------
(* Proofs about CommunityPost, for every number of calls, users, comments    *)
(* and faults.                                                               *)
EXTENDS CommunityPost, FiniteSetTheorems, TLAPS

\* At most one deletion is past its first statement, and the comments it has
\* seen are still there.
DeletionsOK ==
    \A p \in Requests : Deleting(p) =>
        /\ tx[p].lost <= comments
        /\ \A q \in Requests : Deleting(q) => p = q

CountersInv ==
    /\ TypeOK
    /\ DeletionsOK
    /\ CommentCountMatches

\* Every call is made by a user of its own.
OneCallPerUser == \A p, q \in Requests : UserOf[p] = UserOf[q] => p = q

\* While the post exists, what a call has read of its user's like stays true,
\* and a like that is being withdrawn is locked by the call withdrawing it.
LikesOK ==
    alive => \A p \in Requests :
        /\ tx[p].pc \in {"like_write", "like_commit"} =>
               (tx[p].liked <=> UserOf[p] \in likes)
        /\ tx[p].pc = "like_commit" /\ tx[p].liked => lock[UserOf[p]] = p

LikesInv ==
    /\ LikesOK
    /\ LikeCountMatches

-----------------------------------------------------------------------------

\* The initial states satisfy both invariants.
LEMMA InitInv == Init => CountersInv /\ LikesInv
<1> SUFFICES ASSUME Init PROVE CountersInv /\ LikesInv
  OBVIOUS
<1> USE CommunityAssumption DEF Init
<1>1. TypeOK
  BY DEF TypeOK, Idle, TxStates, Steps
<1>2. DeletionsOK
  BY DEF DeletionsOK, Deleting, Idle
<1>3. LikesOK
  BY DEF LikesOK, Idle
<1>4. LikeCountMatches
  BY FS_EmptySet DEF LikeCountMatches
<1> QED
  BY <1>1, <1>2, <1>3, <1>4 DEF CountersInv, CommentCountMatches, LikesInv

-----------------------------------------------------------------------------
(* Types and the comment counter. *)

\* A step keeps the counters' invariant.
LEMMA CountersStep == CountersInv /\ [Next]_vars => CountersInv'
<1> SUFFICES ASSUME CountersInv, [Next]_vars PROVE CountersInv'
  OBVIOUS
<1> USE CommunityAssumption
<1>a. TypeOK /\ DeletionsOK /\ CommentCountMatches
  BY DEF CountersInv
<1>1. CASE UNCHANGED vars
  <2> USE <1>1, <1>a DEF vars, rows
  <2>1. TypeOK'
    BY DEF TypeOK
  <2>2. DeletionsOK'
    BY DEF DeletionsOK, Deleting
  <2> QED
    BY <2>1, <2>2 DEF CountersInv, CommentCountMatches
<1>2. ASSUME NEW p \in Requests, NEW step \in Steps \ {"delete_likes", "delete_commit"},
             GetPost(p, step)
      PROVE  CountersInv'
  <2> USE <1>2, <1>a DEF GetPost, Goto, rows
  <2>1. TypeOK'
    BY DEF TypeOK, TxStates, Idle, Steps
  <2>2. DeletionsOK'
    BY DEF TypeOK, DeletionsOK, Deleting, Idle
  <2> QED
    BY <2>1, <2>2 DEF CountersInv, CommentCountMatches
<1>3. ASSUME NEW p \in Requests, Rollback(p) PROVE CountersInv'
  <2> USE <1>3, <1>a DEF Rollback, Goto, rows, Unlocked
  <2>1. TypeOK'
    BY DEF TypeOK, TxStates, Idle, Steps
  <2>2. DeletionsOK'
    BY DEF TypeOK, DeletionsOK, Deleting, Idle
  <2> QED
    BY <2>1, <2>2 DEF CountersInv, CommentCountMatches
<1>4. ASSUME NEW p \in Requests, LikeLook(p) PROVE CountersInv'
  <2> USE <1>4, <1>a DEF LikeLook, Goto, rows
  <2>0. [tx[p] EXCEPT !.pc = "like_write", !.liked = UserOf[p] \in likes] \in TxStates
    <3>1. tx[p] \in TxStates /\ (UserOf[p] \in likes) \in BOOLEAN
      BY DEF TypeOK
    <3> QED
      BY <3>1 DEF TxStates, Steps
  <2>1. TypeOK'
    BY <2>0 DEF TypeOK
  <2>2. DeletionsOK'
    BY DEF TypeOK, DeletionsOK, Deleting
  <2> QED
    BY <2>1, <2>2 DEF CountersInv, CommentCountMatches
<1>5. ASSUME NEW p \in Requests, LikeWrite(p) PROVE CountersInv'
  <2> USE <1>5, <1>a
  <2>1. /\ UNCHANGED <<rows, faults>>
        /\ lock' = lock \/ lock' = [lock EXCEPT ![UserOf[p]] = p]
        /\ \/ tx' = [tx EXCEPT ![p] = Idle]
           \/ tx' = [tx EXCEPT ![p] = [tx[p] EXCEPT !.pc = "like_commit"]]
    BY Zenon DEF LikeWrite, Goto
  <2> DEFINE next == [tx[p] EXCEPT !.pc = "like_commit"]
  <2>2. tx[p] \in TxStates /\ Idle \in TxStates
    BY DEF TypeOK, TxStates, Steps, Idle
  <2>3. next \in TxStates /\ next.pc = "like_commit" /\ Idle.pc = "idle"
    BY <2>2 DEF TxStates, Steps, Idle
  <2>4. PICK state \in {Idle, next} : tx' = [tx EXCEPT ![p] = state]
    BY <2>1
  <2>5. state \in TxStates /\ state.pc \notin {"delete_likes", "delete_commit"}
    BY <2>2, <2>3
  <2> HIDE DEF next
  <2>6. TypeOK'
    BY <2>1, <2>4, <2>5 DEF TypeOK, rows
  <2>7. DeletionsOK'
    BY <2>1, <2>4, <2>5 DEF TypeOK, DeletionsOK, Deleting, rows
  <2> QED
    BY <2>1, <2>6, <2>7 DEF CountersInv, CommentCountMatches, rows
<1>6. ASSUME NEW p \in Requests, LikeCommit(p) PROVE CountersInv'
  <2> USE <1>6, <1>a DEF LikeCommit, Goto, Unlocked
  <2>1. TypeOK'
    BY DEF TypeOK, TxStates, Steps, Idle
  <2>2. DeletionsOK'
    BY DEF TypeOK, DeletionsOK, Deleting, Idle
  <2> QED
    BY <2>1, <2>2 DEF CountersInv, CommentCountMatches
<1>7. ASSUME NEW p \in Requests, CommentCommit(p) PROVE CountersInv'
  <2> USE <1>7, <1>a DEF CommentCommit, Goto
  <2>1. TypeOK'
    BY DEF TypeOK, TxStates, Steps, Idle
  <2>2. DeletionsOK'
    BY DEF TypeOK, TxStates, DeletionsOK, Deleting, Idle
  <2> QED
    BY <2>1, <2>2 DEF CountersInv, CommentCountMatches, TypeOK
<1>8. ASSUME NEW p \in Requests, DeleteComments(p) PROVE CountersInv'
  <2> USE <1>8, <1>a DEF DeleteComments, Goto, rows
  <2>1. TypeOK'
    <3>1. tx[p] \in TxStates /\ comments \in Nat
      BY DEF TypeOK
    <3>2. [tx[p] EXCEPT !.pc = "delete_likes", !.lost = comments] \in TxStates
      BY ONLY <3>1 DEF TxStates, Steps
    <3> QED
      BY <3>2 DEF TypeOK
  <2>2. DeletionsOK'
    BY DEF TypeOK, DeletionsOK, Deleting
  <2> QED
    BY <2>1, <2>2 DEF CountersInv, CommentCountMatches
<1>9. ASSUME NEW p \in Requests, DeleteLikes(p) PROVE CountersInv'
  <2> USE <1>9, <1>a DEF DeleteLikes, Goto, rows
  <2>1. TypeOK'
    <3>1. tx[p] \in TxStates /\ likes \in SUBSET Users
      BY DEF TypeOK
    <3>2. [tx[p] EXCEPT !.pc = "delete_commit", !.doomed = likes] \in TxStates
      BY ONLY <3>1 DEF TxStates, Steps
    <3> QED
      BY <3>2 DEF TypeOK
  <2>2. DeletionsOK'
    BY DEF TypeOK, DeletionsOK, Deleting
  <2> QED
    BY <2>1, <2>2 DEF CountersInv, CommentCountMatches
<1>10. ASSUME NEW p \in Requests, DeleteCommit(p) PROVE CountersInv'
  <2> USE <1>10, <1>a DEF DeleteCommit, Goto, Unlocked
  <2>1. tx[p].lost <= comments /\ \A q \in Requests : Deleting(q) => p = q
    BY DEF DeletionsOK, Deleting
  <2>2. TypeOK'
    <3>1. comments - tx[p].lost \in Nat
      BY <2>1 DEF TypeOK, TxStates
    <3>2. tx' \in [Requests -> TxStates] /\ lock' \in [Users -> Requests \cup {None}]
      BY DEF TypeOK, TxStates, Steps, Idle
    <3>3. CASE alive
      BY <3>1, <3>2, <3>3 DEF TypeOK
    <3>4. CASE ~alive
      BY <3>2, <3>4 DEF TypeOK
    <3> QED
      BY <3>3, <3>4
  <2>3. DeletionsOK'
    BY <2>1 DEF TypeOK, DeletionsOK, Deleting, Idle
  <2> QED
    BY <2>2, <2>3 DEF CountersInv, CommentCountMatches
<1> QED
  BY <1>1, <1>2, <1>3, <1>4, <1>5, <1>6, <1>7, <1>8, <1>9, <1>10
  DEF Next, LikeBegin, CommentBegin, DeleteBegin, Steps

\* The counters' invariant holds in every reachable state.
LEMMA CountersCorrect == Spec => []CountersInv
BY InitInv, CountersStep, PTL DEF Spec

\* Every reachable state is well typed.
THEOREM CommunityTypeCorrect == Spec => []TypeOK
<1>1. CountersInv => TypeOK
  BY DEF CountersInv
<1> QED
  BY <1>1, CountersCorrect, PTL

\* However many calls comment on a post, delete it or fail in between, the
\* counter of a post that exists agrees with its comments.
THEOREM CommentCounterIsExact == Spec => []CommentCountMatches
<1>1. CountersInv => CommentCountMatches
  BY DEF CountersInv
<1> QED
  BY <1>1, CountersCorrect, PTL

-----------------------------------------------------------------------------
(* The like counter. *)

\* A step keeps the likes' invariant if no two calls share a user.
LEMMA LikesStep ==
  ASSUME OneCallPerUser
  PROVE  CountersInv /\ LikesInv /\ [Next]_vars => LikesInv'
<1> SUFFICES ASSUME CountersInv, LikesInv, [Next]_vars PROVE LikesInv'
  OBVIOUS
<1> USE CommunityAssumption
<1>a. TypeOK /\ LikesOK /\ LikeCountMatches
  BY DEF CountersInv, LikesInv
<1>1. CASE UNCHANGED vars
  BY <1>1, <1>a DEF vars, rows, LikesInv, LikesOK, LikeCountMatches
<1>2. ASSUME NEW p \in Requests,
             NEW step \in Steps \ {"like_write", "like_commit"}, GetPost(p, step)
      PROVE  LikesInv'
  <2> USE <1>2, <1>a DEF GetPost, Goto, rows
  <2>1. LikesOK'
    BY DEF TypeOK, LikesOK, Idle, Steps
  <2> QED
    BY <2>1 DEF LikesInv, LikeCountMatches
<1>3. ASSUME NEW p \in Requests, Rollback(p) PROVE LikesInv'
  <2> USE <1>3, <1>a DEF Rollback, Goto, rows, Unlocked
  <2>1. LikesOK'
    BY DEF TypeOK, LikesOK, Idle
  <2> QED
    BY <2>1 DEF LikesInv, LikeCountMatches
<1>4. ASSUME NEW p \in Requests, LikeLook(p) PROVE LikesInv'
  <2> USE <1>4, <1>a DEF LikeLook, Goto, rows
  <2>1. LikesOK'
    BY DEF TypeOK, TxStates, LikesOK
  <2> QED
    BY <2>1 DEF LikesInv, LikeCountMatches
<1>5. ASSUME NEW p \in Requests, LikeWrite(p) PROVE LikesInv'
  <2> USE <1>5, <1>a DEF LikeWrite, Goto, rows
  <2>1. ASSUME alive, NEW q \in Requests
        PROVE  /\ tx'[q].pc \in {"like_write", "like_commit"} =>
                      (tx'[q].liked <=> UserOf[q] \in likes)
               /\ tx'[q].pc = "like_commit" /\ tx'[q].liked => lock'[UserOf[q]] = q
    <3>1. CASE q = p
      BY <2>1, <3>1 DEF TypeOK, TxStates, LikesOK, Idle
    <3>2. CASE q # p
      BY <2>1, <3>2 DEF TypeOK, LikesOK, Idle, OneCallPerUser
    <3> QED
      BY <3>1, <3>2
  <2>2. LikesOK'
    BY <2>1 DEF LikesOK
  <2> QED
    BY <2>2 DEF LikesInv, LikeCountMatches
<1>6. ASSUME NEW p \in Requests, LikeCommit(p) PROVE LikesInv'
  <2> USE <1>6, <1>a DEF LikeCommit, Goto, Unlocked
  <2> DEFINE u == UserOf[p]
  <2>1. ASSUME alive, NEW q \in Requests
        PROVE  /\ tx'[q].pc \in {"like_write", "like_commit"} =>
                      (tx'[q].liked <=> UserOf[q] \in likes')
               /\ tx'[q].pc = "like_commit" /\ tx'[q].liked => lock'[UserOf[q]] = q
    <3>1. CASE q = p
      BY <2>1, <3>1 DEF TypeOK, Idle
    <3>2. CASE q # p
      BY <2>1, <3>2 DEF TypeOK, LikesOK, OneCallPerUser
    <3> QED
      BY <3>1, <3>2
  <2>2. LikesOK'
    BY <2>1 DEF LikesOK
  <2>3. IsFiniteSet(likes)
    BY FS_Subset DEF TypeOK
  <2>4. ASSUME alive PROVE likeCount' = Cardinality(likes')
    <3>1. (tx[p].liked <=> u \in likes) /\ (tx[p].liked => lock[u] = p)
      BY <2>4 DEF LikesOK
    <3>2. CASE tx[p].liked
      <4>1. likes' = likes \ {u} /\ likeCount' = likeCount - 1
        BY <2>4, <3>1, <3>2
      <4>2. Cardinality(likes \ {u}) = Cardinality(likes) - 1
        <5>1. u \in likes
          BY <3>1, <3>2
        <5> HIDE DEF u
        <5> QED
          BY ONLY <2>3, <5>1, FS_RemoveElement
      <4> QED
        BY <2>4, <4>1, <4>2 DEF LikeCountMatches
    <3>3. CASE ~tx[p].liked
      <4>1. likes' = likes \cup {u} /\ likeCount' = likeCount + 1
        BY <2>4, <3>1, <3>3
      <4>2. Cardinality(likes \cup {u}) = Cardinality(likes) + 1
        BY <2>3, <3>1, <3>3, FS_AddElement
      <4> QED
        BY <2>4, <4>1, <4>2 DEF LikeCountMatches
    <3> QED
      BY <3>2, <3>3
  <2> QED
    BY <2>2, <2>4 DEF LikesInv, LikeCountMatches
<1>7. ASSUME NEW p \in Requests, CommentCommit(p) PROVE LikesInv'
  <2> USE <1>7, <1>a DEF CommentCommit, Goto
  <2>1. LikesOK'
    BY DEF TypeOK, LikesOK, Idle
  <2> QED
    BY <2>1 DEF LikesInv, LikeCountMatches
<1>8. ASSUME NEW p \in Requests, DeleteComments(p) PROVE LikesInv'
  <2> USE <1>8, <1>a DEF DeleteComments, Goto, rows
  <2>1. LikesOK'
    BY DEF TypeOK, LikesOK
  <2> QED
    BY <2>1 DEF LikesInv, LikeCountMatches
<1>9. ASSUME NEW p \in Requests, DeleteLikes(p) PROVE LikesInv'
  <2> USE <1>9, <1>a DEF DeleteLikes, Goto, rows
  <2>1. LikesOK'
    BY DEF TypeOK, LikesOK
  <2> QED
    BY <2>1 DEF LikesInv, LikeCountMatches
<1>10. ASSUME NEW p \in Requests, DeleteCommit(p) PROVE LikesInv'
  BY <1>10, <1>a DEF DeleteCommit, LikesInv, LikesOK, LikeCountMatches
<1> QED
  BY <1>1, <1>2, <1>3, <1>4, <1>5, <1>6, <1>7, <1>8, <1>9, <1>10
  DEF Next, LikeBegin, CommentBegin, DeleteBegin, Steps

\* If no two calls are made by the same user at the same time, the like
\* counter of a post that exists agrees with its likes.
THEOREM LikeCounterIsExact ==
  ASSUME OneCallPerUser
  PROVE  Spec => []LikeCountMatches
<1>1. CountersInv /\ LikesInv /\ [Next]_vars => LikesInv'
  BY LikesStep
<1>2. LikesInv => LikeCountMatches
  BY DEF LikesInv
<1> QED
  BY <1>1, <1>2, InitInv, CountersCorrect, PTL DEF Spec

=============================================================================
