---------------------------- MODULE MCVpnService ----------------------------
(* The instance for TLC: two service instances, two starts, three commands. *)
EXTENDS VpnService
=============================================================================
