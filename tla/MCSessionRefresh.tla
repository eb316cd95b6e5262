-------------------------- MODULE MCSessionRefresh --------------------------
(* Instances of SessionRefresh for TLC.                                    *)
EXTENDS SessionRefresh, TLC

Symm == Permutations(Tabs)
=============================================================================
