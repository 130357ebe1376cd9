-------------------------- MODULE MCLearningArchive --------------------------
(* Model checking of LearningArchive.                                        *)
EXTENDS LearningArchive

CONSTANTS t1, t2

\* A report with nothing to announce, one with a topic of each kind, and one
\* that repeats a weak point.
Reports ==
    {[weak |-> <<>>, strength |-> <<t1>>, coding |-> {}],
     [weak |-> <<t1>>, strength |-> <<t1>>, coding |-> {t2}],
     [weak |-> <<t2, t2>>, strength |-> <<>>, coding |-> {}]}
=============================================================================
