-------------------------- MODULE MCCommunityPost --------------------------
(* Model checking of CommunityPost.                                          *)
EXTENDS CommunityPost, TLC

CONSTANTS u1, u2, u3, p1, p2, p3

\* Every call has its own user.
OwnUser    == [p \in Requests |-> IF p = p1 THEN u1 ELSE IF p = p2 THEN u2 ELSE u3]
=============================================================================
