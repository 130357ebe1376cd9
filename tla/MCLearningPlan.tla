--------------------------- MODULE MCLearningPlan ---------------------------
(* Model checking of LearningPlan.                                           *)
EXTENDS LearningPlan, TLC

Symmetry == Permutations(Requests) \cup Permutations(Workers)
=============================================================================
