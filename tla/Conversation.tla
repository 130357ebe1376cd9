---------------------------- MODULE Conversation ----------------------------
(***************************************************************************)
(* What the two sides of a voice interview are promised: they take turns.  *)
(* A prompt is spoken and enters the transcript; the user answers it; the  *)
(* answer is counted; the next prompt is asked, the farewell when no       *)
(* question is left.  Nothing is promised of a session that has ended or   *)
(* was disturbed.                                                          *)
(***************************************************************************)
EXTENDS Naturals, Sequences

CONSTANTS Questions, Replies

VARIABLES asked,       \* the prompts
          transcript,  \* how often the reply to each is stored
          given,       \* answers the user has given,
          counted,     \* the interview service has counted,
          followed,    \* the session has followed up
          over

vars == <<asked, transcript, given, counted, followed, over>>

Init ==
    /\ \E i \in 0..Questions :
        /\ given = i /\ counted = i /\ followed = i
        /\ asked = IF i < Questions THEN <<"question">> ELSE <<>>
    /\ transcript = [r \in Replies |-> 0]
    /\ over = FALSE

\* The user's turn: all that was asked has been said and stored once.
AllSaid == \A r \in 1..Len(asked) : transcript[r] = 1

\* The last prompt is spoken; the ones before it are stored.
Store(r) ==
    /\ ~over
    /\ r = Len(asked) /\ transcript[r] = 0
    /\ \A k \in 1..r - 1 : transcript[k] = 1
    /\ transcript' = [transcript EXCEPT ![r] = 1]
    /\ UNCHANGED <<asked, given, counted, followed, over>>

Hear ==
    /\ ~over /\ AllSaid
    /\ given = counted /\ counted = followed
    /\ given' = given + 1
    /\ UNCHANGED <<asked, transcript, counted, followed, over>>

Count ==
    /\ ~over /\ AllSaid
    /\ given = counted + 1 /\ counted = followed
    /\ counted' = counted + 1
    /\ UNCHANGED <<asked, transcript, given, followed, over>>

Ask ==
    /\ ~over /\ AllSaid
    /\ given = counted /\ counted = followed + 1
    /\ followed' = followed + 1
    /\ asked' = Append(asked, IF followed' >= Questions THEN "farewell" ELSE "question")
    /\ UNCHANGED <<transcript, given, counted, over>>

\* From here on anything may happen.
End == over'

Next == (\E r \in Replies : Store(r)) \/ Hear \/ Count \/ Ask \/ End

Spec == Init /\ [][Next]_vars

=============================================================================
