-------------------------- MODULE InterviewPromise --------------------------
(***************************************************************************)
(* What a user is promised of one mock interview: questions are answered   *)
(* one after the other while it is ongoing; once finished it is never      *)
(* ongoing again and its answers stay as they are; a report is written     *)
(* while it is finished and not yet completed, and completes it.           *)
(***************************************************************************)
EXTENDS Naturals

CONSTANTS Scores, None

VARIABLES status, answered, report

vars == <<status, answered, report>>

Init == status = "ongoing" /\ answered = 0 /\ report = None

Answer ==
    /\ status = "ongoing"
    /\ answered' = answered + 1
    /\ UNCHANGED <<status, report>>

\* From ongoing at first, later as a retry.  A retry the user asked for while
\* the report had failed may take effect after the queue's own retry completed
\* it; the report is then generated once more.
Finish ==
    /\ status' = "report_generating"
    /\ UNCHANGED <<answered, report>>

Fail ==
    /\ status \in {"report_generating", "report_failed"}
    /\ status' = "report_failed"
    /\ UNCHANGED <<answered, report>>

Complete ==
    /\ status \in {"report_generating", "report_failed"}
    /\ status' = "completed"
    /\ report' \in Scores
    /\ UNCHANGED answered

Next == Answer \/ Finish \/ Fail \/ Complete

Spec == Init /\ [][Next]_vars

=============================================================================
