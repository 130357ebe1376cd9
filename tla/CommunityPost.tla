--------------------------- MODULE CommunityPost ---------------------------
(***************************************************************************)
(* One post of the community service (app/community/internal/biz/          *)
(* community.go), its likes, its comments and the two counters kept in its *)
(* row, under concurrent calls.                                            *)
(*                                                                         *)
(* Transactions run at PostgreSQL's default level, read committed: they    *)
(* are cut between their statements.  The update of the post row is the    *)
(* last write of each of them; it is one step with the commit.             *)
(***************************************************************************)
EXTENDS Integers, FiniteSets

CONSTANTS Requests,    \* concurrent gRPC calls on this post
          Users,
          UserOf,      \* who makes a call
          MaxComments, \* bound: comments written
          MaxFaults,   \* bound: failed database operations and crashes
          None

ASSUME CommunityAssumption ==
    /\ UserOf \in [Requests -> Users]
    /\ IsFiniteSet(Users)
    /\ MaxComments \in Nat /\ MaxFaults \in Nat
    /\ None \notin Requests

VARIABLES alive,        \* the post is not (soft-)deleted
          likeCount,    \* its like_count
          commentCount, \* its comment_count
          likes,        \* users with a row in community_post_likes
          comments,     \* rows in community_comments that are not deleted
          written,      \* comments ever written
          lock,         \* the transaction that has written a user's like row
          tx,           \* local state of every call
          faults

rows == <<alive, likeCount, commentCount, likes, comments, written>>
vars == <<rows, lock, tx, faults>>

Steps    == {"idle", "like_look", "like_write", "like_commit", "comment",
             "delete_comments", "delete_likes", "delete_commit"}
TxStates == [pc : Steps, likes : Int, comments : Nat, liked : BOOLEAN,
             doomed : SUBSET Users, lost : Nat]

TypeOK ==
    /\ alive \in BOOLEAN
    /\ likeCount \in Int /\ commentCount \in Nat
    /\ likes \subseteq Users
    /\ comments \in Nat
    /\ written \in 0..MaxComments
    /\ lock \in [Users -> Requests \cup {None}]
    /\ tx \in [Requests -> TxStates]
    /\ faults \in 0..MaxFaults

Idle == [pc |-> "idle", likes |-> 0, comments |-> 0, liked |-> FALSE,
         doomed |-> {}, lost |-> 0]

Init ==
    /\ alive = TRUE
    /\ likeCount = 0 /\ commentCount = 0
    /\ likes = {} /\ comments = 0 /\ written = 0
    /\ lock = [u \in Users |-> None]
    /\ tx = [p \in Requests |-> Idle]
    /\ faults = 0

Goto(p, state) == tx' = [tx EXCEPT ![p] = state]
Unlocked(p)    == [u \in Users |-> IF lock[u] = p THEN None ELSE lock[u]]

\* Every call reads the post first, outside its transaction, and refuses a
\* deleted one.
GetPost(p, step) ==
    /\ tx[p].pc = "idle"
    /\ alive
    /\ Goto(p, [Idle EXCEPT !.pc = step, !.likes = likeCount, !.comments = commentCount])
    /\ UNCHANGED <<rows, lock, faults>>

\* An error of the database or a crash: the transaction is rolled back.
Rollback(p) ==
    /\ tx[p].pc # "idle"
    /\ faults < MaxFaults /\ faults' = faults + 1
    /\ lock' = Unlocked(p)
    /\ Goto(p, Idle)
    /\ UNCHANGED rows

-----------------------------------------------------------------------------
(* ToggleLike. *)

LikeBegin(p) == GetPost(p, "like_look")

LikeLook(p) ==
    /\ tx[p].pc = "like_look"
    /\ Goto(p, [tx[p] EXCEPT !.pc = "like_write", !.liked = UserOf[p] \in likes])
    /\ UNCHANGED <<rows, lock, faults>>

\* Deletes the like, whether or not there still is one; or inserts it, unless
\* the unique index refuses it.  Both wait for a transaction that has the row.
LikeWrite(p) ==
    LET u == UserOf[p] IN
    /\ tx[p].pc = "like_write"
    /\ lock[u] = None
    /\ IF ~tx[p].liked /\ u \in likes
       THEN Goto(p, Idle) /\ UNCHANGED lock
       ELSE /\ Goto(p, [tx[p] EXCEPT !.pc = "like_commit"])
            /\ lock' = IF tx[p].liked /\ u \notin likes THEN lock
                       ELSE [lock EXCEPT ![u] = p]
    /\ UNCHANGED <<rows, faults>>

\* Faulty variant: the counter is computed from the post read before.
LikeCommitStale(p) ==
    /\ tx[p].pc = "like_commit"
    /\ likes' = IF tx[p].liked THEN likes \ {UserOf[p]} ELSE likes \cup {UserOf[p]}
    /\ likeCount' = IF alive THEN (IF tx[p].liked THEN tx[p].likes - 1 ELSE tx[p].likes + 1)
                    ELSE likeCount
    /\ lock' = Unlocked(p)
    /\ Goto(p, Idle)
    /\ UNCHANGED <<alive, commentCount, comments, written, faults>>

\* IncrementLikeCount, which finds no row if the post has been deleted.
LikeCommit(p) ==
    /\ tx[p].pc = "like_commit"
    /\ likes' = IF ~tx[p].liked THEN likes \cup {UserOf[p]}
                ELSE IF lock[UserOf[p]] = p THEN likes \ {UserOf[p]}
                ELSE likes
    /\ likeCount' = IF ~alive THEN likeCount
                    ELSE IF tx[p].liked THEN likeCount - 1 ELSE likeCount + 1
    /\ lock' = Unlocked(p)
    /\ Goto(p, Idle)
    /\ UNCHANGED <<alive, commentCount, comments, written, faults>>

-----------------------------------------------------------------------------
(* CreateComment: nothing in it can wait for another call but the counter.   *)

CommentBegin(p) == written < MaxComments /\ GetPost(p, "comment")

\* Faulty variant: the counter is computed from the post read before.
CommentCommitStale(p) ==
    /\ tx[p].pc = "comment"
    /\ written < MaxComments
    /\ comments' = comments + 1 /\ written' = written + 1
    /\ commentCount' = IF alive THEN tx[p].comments + 1 ELSE commentCount
    /\ Goto(p, Idle)
    /\ UNCHANGED <<alive, likeCount, likes, lock, faults>>

\* Faulty variant: the insert is tried again after it has succeeded.
CommentCommitRetried(p) ==
    /\ tx[p].pc = "comment"
    /\ written < MaxComments
    /\ comments' = comments + 2 /\ written' = written + 2
    /\ commentCount' = IF alive THEN commentCount + 1 ELSE commentCount
    /\ Goto(p, Idle)
    /\ UNCHANGED <<alive, likeCount, likes, lock, faults>>

CommentCommit(p) ==
    /\ tx[p].pc = "comment"
    /\ written < MaxComments
    /\ comments' = comments + 1 /\ written' = written + 1
    /\ commentCount' = IF alive THEN commentCount + 1 ELSE commentCount
    /\ Goto(p, Idle)
    /\ UNCHANGED <<alive, likeCount, likes, lock, faults>>

-----------------------------------------------------------------------------
(* DeletePost: the comments it sees, then the likes it sees, then the post.  *)

DeleteBegin(p) == GetPost(p, "delete_comments")

\* A second deletion waits for the rows the first one has deleted.
Deleting(p) == tx[p].pc \in {"delete_likes", "delete_commit"}

DeleteComments(p) ==
    /\ tx[p].pc = "delete_comments"
    /\ \A q \in Requests : ~Deleting(q)
    /\ Goto(p, [tx[p] EXCEPT !.pc = "delete_likes", !.lost = comments])
    /\ UNCHANGED <<rows, lock, faults>>

DeleteLikes(p) ==
    /\ tx[p].pc = "delete_likes"
    /\ \A u \in likes : lock[u] = None
    /\ lock' = [u \in Users |-> IF u \in likes THEN p ELSE lock[u]]
    /\ Goto(p, [tx[p] EXCEPT !.pc = "delete_commit", !.doomed = likes])
    /\ UNCHANGED <<rows, faults>>

\* If somebody else has deleted the post, everything is rolled back.
DeleteCommit(p) ==
    /\ tx[p].pc = "delete_commit"
    /\ IF alive
       THEN /\ alive' = FALSE
            /\ likes' = likes \ tx[p].doomed
            /\ comments' = comments - tx[p].lost
       ELSE UNCHANGED <<alive, likes, comments>>
    /\ lock' = Unlocked(p)
    /\ Goto(p, Idle)
    /\ UNCHANGED <<likeCount, commentCount, written, faults>>

-----------------------------------------------------------------------------

Next ==
    \E p \in Requests :
       \/ LikeBegin(p) \/ LikeLook(p) \/ LikeWrite(p) \/ LikeCommit(p)
       \/ CommentBegin(p) \/ CommentCommit(p)
       \/ DeleteBegin(p) \/ DeleteComments(p) \/ DeleteLikes(p) \/ DeleteCommit(p)
       \/ Rollback(p)

Spec == Init /\ [][Next]_vars

-----------------------------------------------------------------------------
(* Properties. *)

\* community.go:305: the like counter of a post agrees with its likes whatever
\* calls run at the same time.
LikeCountMatches == alive => likeCount = Cardinality(likes)

\* community.go:215: a comment and the counter are written in one transaction,
\* so the counter agrees with the comments that are listed.
CommentCountMatches == alive => commentCount = comments

=============================================================================
