--------------------------- MODULE MCStagedSave ---------------------------
(* Instances of StagedSave for TLC.                                        *)
EXTENDS StagedSave, TLC

CONSTANTS child, top, pin

\* child is created under top, every other target under nothing.
MCParent == [t \in Targets |-> IF t = child THEN top ELSE NoTarget]

Symm == Permutations(Drafts)
=============================================================================
