------------------------------ MODULE MCReplayCache ------------------------------
(* Two nonces, so that admitting one prunes the other; three connections,   *)
(* so that a nonce is presented again after its entry expired.             *)
EXTENDS ReplayCache, TLC

Symmetry == Permutations(Conns)
=================================================================================
