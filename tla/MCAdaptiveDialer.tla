---------------------------- MODULE MCAdaptiveDialer ----------------------------
(* Two sessions that dial the same destination, four calls between them.    *)
EXTENDS AdaptiveDialer, TLC

Symmetry == Permutations(Sessions)
=================================================================================
