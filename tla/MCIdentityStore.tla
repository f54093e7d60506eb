---------------------------- MODULE MCIdentityStore ----------------------------
(* Two installations that claim one name and a third with its own, so that  *)
(* the server saves its store again after it has pinned the first name.     *)
EXTENDS DataPlane

MCClients == {"laptop", "phone", "tablet"}
MCName == [c \in MCClients |-> IF c = "tablet" THEN "bob" ELSE "alice"]

(* Only the handshakes matter here: no frames, and a server that would not  *)
(* take any without a handshake.                                            *)
HandshakesOnly == requireAuth /\ \A m \in net : m.kind \in {"hello", "response"}
===============================================================================
