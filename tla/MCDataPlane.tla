----------------------------- MODULE MCDataPlane -----------------------------
(* The instance for TLC: two installations that claim the same name.         *)
EXTENDS DataPlane

MCClients == {"laptop", "phone"}
MCName == [c \in MCClients |-> "alice"]
=============================================================================
