-------------------------- MODULE MCDirectConnection --------------------------
(* Three attempts, one of them dialled at once, so that two losers are      *)
(* possible; two replies, so that one may come before the first write, and  *)
(* two writes, so that only the first arms the deadline.                    *)
EXTENDS DirectConnection, TLC
===============================================================================
