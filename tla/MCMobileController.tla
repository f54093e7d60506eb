--------------------------- MODULE MCMobileController ---------------------------
(* Two callers that call again and again, two owners, two runtimes: a stop   *)
(* of one owner races a start, a failure and a stop of the other.            *)
EXTENDS MobileController, TLC
=================================================================================
