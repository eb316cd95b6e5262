----------------------------- MODULE MCJobLease -----------------------------
(* Instances of JobLease for TLC.                                          *)
EXTENDS JobLease, TLC

CONSTANTS i1, i2, x1, s1, s2

\* Both imports write onto one draft.
SharedDraft == [j \in Imports |-> "draft"]

SlotSymmetry == Permutations(Slots)
=============================================================================
