---------------------------- MODULE RuntimeOwnership ----------------------------
(***************************************************************************)
(* What mobile.StartOwned and mobile.StopOwned promise their callers:      *)
(* there is one SOCKS runtime at a time; it belongs to the lifecycle owner *)
(* that started it; it passes from one owner to another only through the   *)
(* free state; and a runtime that was told to stop never goes back to      *)
(* being held.                                                             *)
(***************************************************************************)
EXTENDS Naturals

CONSTANTS Owners,   \* lifecycle owners ("vpn", "sidecar", "legacy")
          Nobody    \* the owner while no runtime exists

VARIABLES holder,   \* the owner of the current runtime
          phase,    \* "free", "held", or "stopping"
          runs      \* runtimes started so far

vars == <<holder, phase, runs>>

Init == holder = Nobody /\ phase = "free" /\ runs = 0

Acquire(o) ==
    /\ phase = "free"
    /\ holder' = o
    /\ phase' = "held"
    /\ runs' = runs + 1

RequestStop ==
    /\ phase = "held"
    /\ phase' = "stopping"
    /\ UNCHANGED <<holder, runs>>

\* The runtime is gone: it was stopped, or it failed by itself.
Release ==
    /\ phase # "free"
    /\ phase' = "free"
    /\ holder' = Nobody
    /\ UNCHANGED runs

Next == (\E o \in Owners : Acquire(o)) \/ RequestStop \/ Release

Spec == Init /\ [][Next]_vars
=================================================================================
