--------------------------- MODULE MCDraftPublish ---------------------------
(* Instances of DraftPublish for TLC.                                      *)
EXTENDS DraftPublish, TLC

\* Requests, slots and edits are interchangeable: no constant or property singles one out.
Symm == Permutations(Requests) \cup Permutations(Slots) \cup Permutations(Edits)
=============================================================================
