----------------------------- MODULE MCDatagramRelay -----------------------------
(* Three public destinations share room for two, a fourth is private;       *)
(* three sockets let a destination be dropped and dialled again.            *)
EXTENDS DatagramRelay, TLC
=================================================================================
