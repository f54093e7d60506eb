----------------------------- MODULE ProxiedStream -----------------------------
(***************************************************************************)
(* What an application may rely on when it asks the local SOCKS server for *)
(* a connection, whatever the tunnel below it does: two pipes, up and      *)
(* down, that hand over what was written, in order and once, as far as     *)
(* they get; they are joined once, and only for a client, a server and a   *)
(* destination that are all right; a success is told after that, and a     *)
(* refusal instead of it.                                                  *)
(***************************************************************************)
EXTENDS Naturals, Sequences

VARIABLES permitted,         \* client, server and destination are accepted
          connected,         \* the pipes are joined
          told,              \* what the application knows: "nothing", "ok" or "refused"
          sentUp, sentDown,  \* chunks written by the application and by the destination
          gotUp, gotDown     \* what the destination and the application have read

vars == <<permitted, connected, told, sentUp, sentDown, gotUp, gotDown>>

Chunk(i) == <<"data", i>>

Init ==
    /\ permitted \in BOOLEAN
    /\ connected = FALSE /\ told = "nothing"
    /\ sentUp = 0 /\ sentDown = 0
    /\ gotUp = <<>> /\ gotDown = <<>>

Connect ==
    /\ permitted /\ ~connected /\ told = "nothing"
    /\ connected' = TRUE
    /\ UNCHANGED <<permitted, told, sentUp, sentDown, gotUp, gotDown>>

TellSuccess ==
    /\ connected /\ told = "nothing"
    /\ told' = "ok"
    /\ UNCHANGED <<permitted, connected, sentUp, sentDown, gotUp, gotDown>>

TellRefusal ==
    /\ ~connected /\ told = "nothing"
    /\ told' = "refused"
    /\ UNCHANGED <<permitted, connected, sentUp, sentDown, gotUp, gotDown>>

\* The application may write before it knows.
WriteUp ==
    /\ sentUp' = sentUp + 1
    /\ UNCHANGED <<permitted, connected, told, sentDown, gotUp, gotDown>>

\* The tunnel server looks at where it was connected to only afterwards, so
\* that any destination may write.
WriteDown ==
    /\ sentDown' = sentDown + 1
    /\ UNCHANGED <<permitted, connected, told, sentUp, gotUp, gotDown>>

ReadUp ==
    /\ connected
    /\ Len(gotUp) < sentUp
    /\ gotUp' = Append(gotUp, Chunk(Len(gotUp) + 1))
    /\ UNCHANGED <<permitted, connected, told, sentUp, sentDown, gotDown>>

ReadDown ==
    /\ told = "ok"
    /\ Len(gotDown) < sentDown
    /\ gotDown' = Append(gotDown, Chunk(Len(gotDown) + 1))
    /\ UNCHANGED <<permitted, connected, told, sentUp, sentDown, gotUp>>

Next == Connect \/ TellSuccess \/ TellRefusal \/ WriteUp \/ WriteDown \/ ReadUp \/ ReadDown

Spec == Init /\ [][Next]_vars
=================================================================================
