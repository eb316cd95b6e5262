---------------------------- MODULE MCProjection ----------------------------
(* Instances of Projection for TLC.                                        *)
EXTENDS Projection, TLC

\* Passes and entities are interchangeable: no constant or property singles one out.
Symm == Permutations(Passes) \cup Permutations(Entities)
=============================================================================
