------------------------ MODULE MCInterviewLifecycle ------------------------
(* Model checking of InterviewLifecycle.                                     *)
EXTENDS InterviewLifecycle, TLC

OkOnly      == {PublishOk}
OkOrRefused == {PublishOk, PublishRefused}
AnyOutcome  == {PublishOk, PublishRefused, ConfirmLost, WrongConfirm}

Symmetry == Permutations(Requests) \cup Permutations(Workers)
=============================================================================
