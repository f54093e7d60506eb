---------------------------- MODULE VpnServiceProofs ----------------------------
(***************************************************************************)
(* The VPN service for any number of instances, workers and commands: its  *)
(* types, and that clean sessions leave nothing behind.  CleanSessions is  *)
(* not inductive: it speaks of the moment when every thread is at rest.    *)
(* The invariant says, for each thing that the service holds (the flags,   *)
(* tun2socks, the runtime, a descriptor), who is going to release it: a    *)
(* worker that will still call shutdown, or a shutdown that has not come   *)
(* to that step yet.  It needs that a startup is alone and that flags once *)
(* lowered stay down, which is what an overlapping start or stop destroys. *)
(***************************************************************************)
EXTENDS VpnService, TLAPS

\* The main thread never runs startTunnel, a worker never a toggle; whoever
\* works for an instance knows which.
Places ==
    /\ pc[Main] \in {"idle", "toggle"} \cup ShutdownSteps
    /\ \A w \in Workers : pc[w] # "toggle"
    /\ \A t \in Threads : pc[t] \notin {"idle", "toggle"} => of[t] \in Instances
    /\ \A w \in Workers : pc[w] = "publish" => fd[w] # "none"

\* Inside shutdown, past its early return.
Stopping(t) == pc[t] \in ShutdownSteps \ {"enter"}

\* A worker that will call shutdown for its instance, unless it finds that
\* somebody else has: stopping is down until then.
Minding(w) ==
    /\ StartingUp(w) \/ pc[w] \in {"loop", "finally", "decide", "enter"}
    /\ ~stopping[of[w]]

OneWorker == \A v, w \in Workers : Running(v) /\ Running(w) => v = w

\* A startup has the service for itself, and keeps the descriptor that it got.
StartsAlone ==
    \A w \in Workers : StartingUp(w) =>
        /\ \A t \in Threads : ~Stopping(t)
        /\ ~stopping[of[w]]
        /\ pc[w] \notin {"stopSidecar", "awaitSidecar", "establish"} => fd[w] = "open"
        /\ pc[w] \notin {"stopSidecar", "awaitSidecar", "establish", "publish"} => tun[of[w]] = w

\* Once a shutdown has lowered the flags they stay down until it returns, and
\* until the worker of that instance has seen it.
FlagsStayDown ==
    /\ \A t \in Threads : Stopping(t) /\ pc[t] # "flags" => ~active /\ ~starting
    /\ \A w \in Workers : Running(w) /\ stopping[of[w]] => ~active /\ ~starting

\* Somebody is going to release what is released at the given steps.
InHand(steps) ==
    \/ \E w \in Workers : Minding(w)
    \/ \E t \in Threads : pc[t] \in steps

HeldIsInHand ==
    /\ active \/ starting => InHand({"flags"})
    /\ tproxy => InHand({"flags", "stopTProxy"})
    /\ holder = "vpn" /\ phase = "held" => InHand({"flags", "stopTProxy", "stopRuntime"})

\* An open descriptor is where its worker published it, or about to be.
DescriptorInHand ==
    \A w \in Workers : fd[w] = "open" =>
        /\ of[w] \in Instances
        /\ pc[w] = "publish" \/ tun[of[w]] = w
        /\ \/ Minding(w)
           \/ \E t \in Threads : pc[t] \in ShutdownSteps \ {"enter", "leave"} /\ of[t] = of[w]

ActiveIsWatched == active => \E w \in Workers : Running(w) /\ fd[w] = "open"

CleanInv ==
    clean => /\ OneWorker /\ StartsAlone /\ FlagsStayDown
             /\ HeldIsInHand /\ DescriptorInHand /\ ActiveIsWatched

IInv == TypeOK /\ Places /\ CleanInv
-----------------------------------------------------------------------------
(* Types *)

RuntimeTypes ==
    /\ holder \in {"vpn", "sidecar", Nobody}
    /\ phase \in {"free", "held", "stopping"} /\ (phase = "free" <=> holder = Nobody)
    /\ runs \in Nat

ServiceTypes ==
    /\ active \in BOOLEAN /\ starting \in BOOLEAN /\ tproxy \in BOOLEAN /\ leaving \in BOOLEAN
    /\ clean \in BOOLEAN
    /\ service \in Instances \cup {None} /\ created \in 0 .. MaxInstances
    /\ stopping \in [Instances -> BOOLEAN]
    /\ lock \in [Instances -> Threads \cup {NoThread}]
    /\ intent \in {"none", "start", "stop"} /\ last \in {"none", "start", "stop"}
    /\ commands \in 0 .. MaxCommands

Steps == {"idle", "toggle", "loop", "finally", "decide", "done"} \cup Startup \cup ShutdownSteps

ThreadTypes ==
    /\ pc \in [Threads -> Steps]
    /\ of \in [Threads -> Instances \cup {None}]
    /\ self \in [Threads -> BOOLEAN]
    /\ pc[Main] \in {"idle", "toggle"} \cup ShutdownSteps
    /\ \A w \in Workers : pc[w] # "toggle"
    /\ \A t \in Threads : pc[t] \notin {"idle", "toggle"} => of[t] \in Instances

DescriptorTypes ==
    /\ tun \in [Instances -> Workers \cup {None}]
    /\ fd \in [Workers -> {"none", "open", "closed"}]
    /\ \A i \in Instances : tun[i] # None => fd[tun[i]] # "none"
    /\ \A w \in Workers : pc[w] = "publish" => fd[w] # "none"

Types == RuntimeTypes /\ ServiceTypes /\ ThreadTypes /\ DescriptorTypes

LEMMA TypesAreTypeOK == Types <=> TypeOK /\ Places
  BY DEF Types, RuntimeTypes, ServiceTypes, ThreadTypes, DescriptorTypes, TypeOK, Places, Steps

LEMMA TypesInitially == Init => Types
  <1> SUFFICES ASSUME Init PROVE Types
    OBVIOUS
  <1> USE VpnAssumption DEF Init, Threads, Workers, Main, Instances, None, NoThread, Nobody
  <1>1. RuntimeTypes
    BY DEF RuntimeTypes
  <1>2. ServiceTypes
    <2>1. /\ stopping \in [Instances -> BOOLEAN] /\ lock \in [Instances -> Threads \cup {NoThread}]
      OBVIOUS
    <2>2. 0 \in 0 .. MaxInstances /\ 0 \in 0 .. MaxCommands
      OBVIOUS
    <2> QED
      BY <2>1, <2>2 DEF ServiceTypes
  <1>3. ThreadTypes
    BY DEF ThreadTypes, Steps, ShutdownSteps
  <1>4. DescriptorTypes
    BY DEF DescriptorTypes
  <1> QED
    BY <1>1, <1>2, <1>3, <1>4 DEF Types

LEMMA RuntimeTypesPreserved == Types /\ [Next]_vars => RuntimeTypes'
  <1> SUFFICES ASSUME Types, [Next]_vars PROVE RuntimeTypes'
    OBVIOUS
  <1> USE DEF Types, RuntimeTypes, runtime, instance, thread, user, untouched, Nobody
  <1>1. CASE UNCHANGED vars
    BY <1>1 DEF vars
  <1>2. CASE RuntimeEnds
    BY <1>2 DEF RuntimeEnds, Runtime!Release
  <1>3. CASE TProxyDies
    BY <1>3 DEF TProxyDies
  <1>4. CASE RequestStop
    BY <1>4 DEF RequestStop, MainIdle, Command
  <1>5. CASE TapMain
    BY <1>5 DEF TapMain, MainIdle, Command, StopOwned, Runtime!RequestStop
  <1>6. CASE TapSmart
    BY <1>6 DEF TapSmart, MainIdle, Command, StopOwned, Runtime!RequestStop
  <1>7. CASE ToggleReturns
    BY <1>7 DEF ToggleReturns, StopOwnedReturns
  <1>8. CASE OnStart
    BY <1>8 DEF OnStart, Deliver, Target, MainIdle, StartIgnored, Running
  <1>9. CASE OnStop
    BY <1>9 DEF OnStop, Deliver, Target, MainIdle, Shutdown
  <1>10. CASE OnRevoke
    BY <1>10 DEF OnRevoke, MainIdle, Shutdown
  <1>11. CASE OnDestroy
    BY <1>11 DEF OnDestroy, MainIdle, Shutdown
  <1>12. ASSUME NEW t \in Threads, ShutdownStep(t) PROVE RuntimeTypes'
    <2>1. CASE Enter(t)
      BY <2>1 DEF Enter, Returned, NothingToStop
    <2>2. CASE LowerFlags(t)
      BY <2>2 DEF LowerFlags
    <2>3. CASE StopTProxy(t)
      BY <2>3 DEF StopTProxy
    <2>4. CASE StopRuntime(t)
      BY <2>4 DEF StopRuntime, StopOwned, Runtime!RequestStop
    <2>5. CASE AwaitRuntime(t)
      BY <2>5 DEF AwaitRuntime, StopOwnedReturns
    <2>6. CASE CloseTun(t)
      BY <2>6 DEF CloseTun
    <2>7. CASE Leave(t)
      BY <2>7 DEF Leave, Returned
    <2> QED
      BY <1>12, <2>1, <2>2, <2>3, <2>4, <2>5, <2>6, <2>7 DEF ShutdownStep
  <1>13. ASSUME NEW w \in Workers, WorkerStep(w) PROVE RuntimeTypes'
    <2>1. CASE StopSidecar(w)
      BY <2>1 DEF StopSidecar, StopOwned, StopOwnedReturns, Runtime!RequestStop
    <2>2. CASE Establish(w)
      BY <2>2 DEF Establish
    <2>3. CASE Publish(w)
      BY <2>3 DEF Publish
    <2>4. CASE Prepare(w)
      BY <2>4 DEF Prepare
    <2>5. CASE StartRuntime(w)
      BY <2>5 DEF StartRuntime, Runtime!Acquire
    <2>6. CASE Check(w, "check", "startTProxy")
      BY <2>6 DEF Check
    <2>7. CASE StartTProxy(w)
      BY <2>7 DEF StartTProxy
    <2>8. CASE Poll(w)
      BY <2>8 DEF Poll
    <2>9. CASE Check(w, "recheck", "unmark")
      BY <2>9 DEF Check
    <2>10. CASE Connect(w)
      BY <2>10 DEF Connect
    <2>11. CASE LoopEnds(w)
      BY <2>11 DEF LoopEnds
    <2>12. CASE Finally(w)
      BY <2>12 DEF Finally
    <2>13. CASE Decide(w)
      BY <2>13 DEF Decide, Shutdown
    <2> QED
      BY <1>13, <2>1, <2>2, <2>3, <2>4, <2>5, <2>6, <2>7, <2>8, <2>9, <2>10, <2>11, <2>12, <2>13 DEF WorkerStep
  <1> QED
    BY <1>1, <1>2, <1>3, <1>4, <1>5, <1>6, <1>7, <1>8, <1>9, <1>10, <1>11, <1>12, <1>13 DEF Next

LEMMA ServiceTypesPreserved == Types /\ [Next]_vars => ServiceTypes'
  <1> SUFFICES ASSUME Types, [Next]_vars PROVE ServiceTypes'
    OBVIOUS
  <1> USE VpnAssumption DEF Types, ServiceTypes, runtime, instance, thread, user, untouched, Instances
  <1>1. CASE UNCHANGED vars
    BY <1>1 DEF vars
  <1>2. CASE RuntimeEnds
    BY <1>2 DEF RuntimeEnds, Runtime!Release
  <1>3. CASE TProxyDies
    BY <1>3 DEF TProxyDies
  <1>4. CASE RequestStop
    BY <1>4 DEF RequestStop, MainIdle, Command
  <1>5. CASE TapMain
    BY <1>5 DEF TapMain, MainIdle, Command, StopOwned, Runtime!RequestStop
  <1>6. CASE TapSmart
    BY <1>6 DEF TapSmart, MainIdle, Command, StopOwned, Runtime!RequestStop
  <1>7. CASE ToggleReturns
    BY <1>7 DEF ToggleReturns, StopOwnedReturns
  <1>8. CASE OnStart
    <2>1. /\ service' \in Instances /\ created' \in 0 .. MaxInstances /\ leaving' = FALSE
          /\ intent' = "none" /\ last' = "start" /\ UNCHANGED <<commands, lock, tproxy>>
      BY <1>8 DEF OnStart, Deliver, Target
    <2>2. /\ active' \in BOOLEAN /\ starting' \in BOOLEAN /\ clean' \in BOOLEAN
          /\ stopping' \in [Instances -> BOOLEAN]
      <3>1. CASE StartIgnored
        BY <1>8, <3>1 DEF OnStart
      <3>2. CASE ~StartIgnored
        <4>1. /\ active' = FALSE /\ starting' = TRUE
              /\ stopping' = [stopping EXCEPT ![Target] = FALSE]
              /\ clean' = (clean /\ \A v \in Workers : ~Running(v))
          BY <1>8, <3>2 DEF OnStart
        <4> QED
          BY <4>1, Zenon
      <3> QED
        BY <3>1, <3>2
    <2> QED
      BY <2>1, <2>2
  <1>9. CASE OnStop
    BY <1>9 DEF OnStop, Deliver, Target, MainIdle, Shutdown
  <1>10. CASE OnRevoke
    BY <1>10 DEF OnRevoke, MainIdle, Shutdown
  <1>11. CASE OnDestroy
    BY <1>11 DEF OnDestroy, MainIdle, Shutdown
  <1>12. ASSUME NEW t \in Threads, ShutdownStep(t) PROVE ServiceTypes'
    <2>1. CASE Enter(t)
      BY <2>1 DEF Enter, Returned, NothingToStop
    <2>2. CASE LowerFlags(t)
      BY <2>2 DEF LowerFlags
    <2>3. CASE StopTProxy(t)
      BY <2>3 DEF StopTProxy
    <2>4. CASE StopRuntime(t)
      BY <2>4 DEF StopRuntime, StopOwned, Runtime!RequestStop
    <2>5. CASE AwaitRuntime(t)
      BY <2>5 DEF AwaitRuntime, StopOwnedReturns
    <2>6. CASE CloseTun(t)
      BY <2>6 DEF CloseTun
    <2>7. CASE Leave(t)
      BY <2>7 DEF Leave, Returned
    <2> QED
      BY <1>12, <2>1, <2>2, <2>3, <2>4, <2>5, <2>6, <2>7 DEF ShutdownStep
  <1>13. ASSUME NEW w \in Workers, WorkerStep(w) PROVE ServiceTypes'
    <2>1. CASE StopSidecar(w)
      BY <2>1 DEF StopSidecar, StopOwned, StopOwnedReturns, Runtime!RequestStop
    <2>2. CASE Establish(w)
      BY <2>2 DEF Establish
    <2>3. CASE Publish(w)
      BY <2>3 DEF Publish
    <2>4. CASE Prepare(w)
      BY <2>4 DEF Prepare
    <2>5. CASE StartRuntime(w)
      BY <2>5 DEF StartRuntime, Runtime!Acquire
    <2>6. CASE Check(w, "check", "startTProxy")
      BY <2>6 DEF Check
    <2>7. CASE StartTProxy(w)
      BY <2>7 DEF StartTProxy
    <2>8. CASE Poll(w)
      BY <2>8 DEF Poll
    <2>9. CASE Check(w, "recheck", "unmark")
      BY <2>9 DEF Check
    <2>10. CASE Connect(w)
      BY <2>10 DEF Connect
    <2>11. CASE LoopEnds(w)
      BY <2>11 DEF LoopEnds
    <2>12. CASE Finally(w)
      BY <2>12 DEF Finally
    <2>13. CASE Decide(w)
      BY <2>13 DEF Decide, Shutdown
    <2> QED
      BY <1>13, <2>1, <2>2, <2>3, <2>4, <2>5, <2>6, <2>7, <2>8, <2>9, <2>10, <2>11, <2>12, <2>13 DEF WorkerStep
  <1> QED
    BY <1>1, <1>2, <1>3, <1>4, <1>5, <1>6, <1>7, <1>8, <1>9, <1>10, <1>11, <1>12, <1>13 DEF Next

LEMMA MainIsApart ==
    /\ Main \in Threads /\ Main \notin Workers /\ Workers \subseteq Threads
    /\ \A t \in Threads : t = Main \/ t \in Workers
  BY VpnAssumption DEF Main, Threads, Workers

\* A step of one thread that keeps its instance.
LEMMA ThreadMoves ==
    ASSUME ThreadTypes, NEW t \in Threads, NEW l \in Steps,
           Goto(t, l), UNCHANGED <<of, self>>,
           t = Main => l \in {"idle", "toggle"} \cup ShutdownSteps,
           t # Main => l # "toggle",
           l \notin {"idle", "toggle"} => of[t] \in Instances
    PROVE  ThreadTypes'
  BY MainIsApart DEF ThreadTypes, Goto

LEMMA ThreadTypesPreserved == Types /\ [Next]_vars => ThreadTypes'
  <1> SUFFICES ASSUME Types, [Next]_vars PROVE ThreadTypes'
    OBVIOUS
  <1> USE VpnAssumption DEF Types, ServiceTypes, ThreadTypes, runtime, instance, thread, user, untouched, Goto, Steps, Startup, ShutdownSteps, Threads, Main, Workers, Instances, None
  <1>1. CASE UNCHANGED vars
    BY <1>1 DEF vars
  <1>2. CASE RuntimeEnds
    BY <1>2 DEF RuntimeEnds, Runtime!Release
  <1>3. CASE TProxyDies
    BY <1>3 DEF TProxyDies
  <1>4. CASE RequestStop
    BY <1>4 DEF RequestStop, MainIdle, Command
  <1>5. CASE TapMain
    <2>1. /\ pc[Main] = "idle" /\ UNCHANGED <<of, self>>
          /\ Goto(Main, "idle") \/ Goto(Main, "toggle") \/ UNCHANGED pc
      BY <1>5 DEF TapMain, MainIdle, Command, StopOwned
    <2> QED
      BY <2>1, ThreadMoves, MainIsApart DEF Types
  <1>6. CASE TapSmart
    <2>1. /\ pc[Main] = "idle" /\ UNCHANGED <<of, self>>
          /\ Goto(Main, "idle") \/ Goto(Main, "toggle") \/ UNCHANGED pc
      BY <1>6 DEF TapSmart, MainIdle, Command, StopOwned
    <2> QED
      BY <2>1, ThreadMoves, MainIsApart DEF Types
  <1>7. CASE ToggleReturns
    BY <1>7 DEF ToggleReturns, StopOwnedReturns
  <1>8. CASE OnStart
    <2>1. CASE StartIgnored
      BY <1>8, <2>1 DEF OnStart, Deliver
    <2>2. CASE ~StartIgnored
      <3>1. PICK w \in Workers : /\ pc' = [pc EXCEPT ![w] = "stopSidecar"]
                                 /\ of' = [of EXCEPT ![w] = Target]
        BY <1>8, <2>2 DEF OnStart
      <3>2. Target \in Instances /\ UNCHANGED self
        BY <1>8, <2>2 DEF OnStart, Deliver
      <3> QED
        BY <3>1, <3>2, MainIsApart
    <2> QED
      BY <2>1, <2>2
  <1>9. CASE OnStop
    BY <1>9 DEF OnStop, Deliver, Target, MainIdle, Shutdown
  <1>10. CASE OnRevoke
    BY <1>10 DEF OnRevoke, MainIdle, Shutdown
  <1>11. CASE OnDestroy
    BY <1>11 DEF OnDestroy, MainIdle, Shutdown
  <1>12. ASSUME NEW t \in Threads, ShutdownStep(t) PROVE ThreadTypes'
    <2>1. CASE Enter(t)
      <3>1. /\ UNCHANGED <<of, self>> /\ of[t] \in Instances
            /\ Goto(t, "flags") \/ Goto(t, Returned(t))
        BY <2>1 DEF Enter
      <3> QED
        BY <3>1, ThreadMoves DEF Types, Returned
    <2>2. CASE LowerFlags(t)
      BY <2>2 DEF LowerFlags
    <2>3. CASE StopTProxy(t)
      BY <2>3 DEF StopTProxy
    <2>4. CASE StopRuntime(t)
      <3>1. /\ UNCHANGED <<of, self>> /\ of[t] \in Instances
            /\ Goto(t, "awaitRuntime") \/ Goto(t, "closeTun")
        BY <2>4 DEF StopRuntime, StopOwned
      <3> QED
        BY <3>1, ThreadMoves DEF Types
    <2>5. CASE AwaitRuntime(t)
      BY <2>5 DEF AwaitRuntime, StopOwnedReturns
    <2>6. CASE CloseTun(t)
      BY <2>6 DEF CloseTun
    <2>7. CASE Leave(t)
      BY <2>7 DEF Leave, Returned
    <2> QED
      BY <1>12, <2>1, <2>2, <2>3, <2>4, <2>5, <2>6, <2>7 DEF ShutdownStep
  <1>13. ASSUME NEW w \in Workers, WorkerStep(w) PROVE ThreadTypes'
    <2>1. CASE StopSidecar(w)
      BY <2>1 DEF StopSidecar, StopOwned, StopOwnedReturns, Runtime!RequestStop
    <2>2. CASE Establish(w)
      BY <2>2 DEF Establish
    <2>3. CASE Publish(w)
      BY <2>3 DEF Publish
    <2>4. CASE Prepare(w)
      BY <2>4 DEF Prepare
    <2>5. CASE StartRuntime(w)
      BY <2>5 DEF StartRuntime, Runtime!Acquire
    <2>6. CASE Check(w, "check", "startTProxy")
      BY <2>6 DEF Check
    <2>7. CASE StartTProxy(w)
      BY <2>7 DEF StartTProxy
    <2>8. CASE Poll(w)
      BY <2>8 DEF Poll
    <2>9. CASE Check(w, "recheck", "unmark")
      BY <2>9 DEF Check
    <2>10. CASE Connect(w)
      BY <2>10 DEF Connect
    <2>11. CASE LoopEnds(w)
      BY <2>11 DEF LoopEnds
    <2>12. CASE Finally(w)
      BY <2>12 DEF Finally
    <2>13. CASE Decide(w)
      <3>1. of[w] \in Instances
        BY <2>13 DEF Decide
      <3>2. CASE stopping[of[w]]
        BY <2>13, <3>2 DEF Decide
      <3>3. CASE ~stopping[of[w]]
        <4>1. /\ pc' = [pc EXCEPT ![w] = "enter"]
              /\ of' = [of EXCEPT ![w] = of[w]]
              /\ self' = [self EXCEPT ![w] = TRUE]
          BY <2>13, <3>3 DEF Decide, Shutdown
        <4>2. pc' \in [Threads -> Steps] /\ self' \in [Threads -> BOOLEAN]
          BY <4>1
        <4>3. of' = of /\ w # Main
          BY <4>1, MainIsApart
        <4> QED
          BY <3>1, <4>1, <4>2, <4>3
      <3> QED
        BY <3>2, <3>3
    <2> QED
      BY <1>13, <2>1, <2>2, <2>3, <2>4, <2>5, <2>6, <2>7, <2>8, <2>9, <2>10, <2>11, <2>12, <2>13 DEF WorkerStep
  <1> QED
    BY <1>1, <1>2, <1>3, <1>4, <1>5, <1>6, <1>7, <1>8, <1>9, <1>10, <1>11, <1>12, <1>13 DEF Next

LEMMA DescriptorTypesPreserved == Types /\ [Next]_vars => DescriptorTypes'
  <1> SUFFICES ASSUME Types, [Next]_vars PROVE DescriptorTypes'
    OBVIOUS
  <1> USE VpnAssumption DEF Types, ThreadTypes, DescriptorTypes, runtime, instance, thread, user, untouched, Goto, Threads, Main, Workers, Instances, None
  <1>1. CASE UNCHANGED vars
    BY <1>1 DEF vars
  <1>2. CASE RuntimeEnds
    BY <1>2 DEF RuntimeEnds, Runtime!Release
  <1>3. CASE TProxyDies
    BY <1>3 DEF TProxyDies
  <1>4. CASE RequestStop
    BY <1>4 DEF RequestStop, MainIdle, Command
  <1>5. CASE TapMain
    BY <1>5 DEF TapMain, MainIdle, Command, StopOwned, Runtime!RequestStop
  <1>6. CASE TapSmart
    BY <1>6 DEF TapSmart, MainIdle, Command, StopOwned, Runtime!RequestStop
  <1>7. CASE ToggleReturns
    BY <1>7 DEF ToggleReturns, StopOwnedReturns
  <1>8. CASE OnStart
    BY <1>8 DEF OnStart, Deliver, Target, MainIdle, StartIgnored, Running
  <1>9. CASE OnStop
    BY <1>9 DEF OnStop, Deliver, Target, MainIdle, Shutdown
  <1>10. CASE OnRevoke
    BY <1>10 DEF OnRevoke, MainIdle, Shutdown
  <1>11. CASE OnDestroy
    BY <1>11 DEF OnDestroy, MainIdle, Shutdown
  <1>12. ASSUME NEW t \in Threads, ShutdownStep(t) PROVE DescriptorTypes'
    <2>1. CASE Enter(t)
      BY <2>1 DEF Enter, Returned, NothingToStop
    <2>2. CASE LowerFlags(t)
      BY <2>2 DEF LowerFlags
    <2>3. CASE StopTProxy(t)
      BY <2>3 DEF StopTProxy
    <2>4. CASE StopRuntime(t)
      BY <2>4 DEF StopRuntime, StopOwned, Runtime!RequestStop
    <2>5. CASE AwaitRuntime(t)
      BY <2>5 DEF AwaitRuntime, StopOwnedReturns
    <2>6. CASE CloseTun(t)
      BY <2>6 DEF CloseTun
    <2>7. CASE Leave(t)
      BY <2>7 DEF Leave, Returned
    <2> QED
      BY <1>12, <2>1, <2>2, <2>3, <2>4, <2>5, <2>6, <2>7 DEF ShutdownStep
  <1>13. ASSUME NEW w \in Workers, WorkerStep(w) PROVE DescriptorTypes'
    <2>1. CASE StopSidecar(w)
      BY <2>1 DEF StopSidecar, StopOwned, StopOwnedReturns, Runtime!RequestStop
    <2>2. CASE Establish(w)
      <3>1. CASE fd' = [fd EXCEPT ![w] = "open"] /\ Goto(w, "publish")
        BY <2>2, <3>1 DEF Establish
      <3>2. CASE UNCHANGED fd /\ Goto(w, "finally")
        BY <2>2, <3>2 DEF Establish
      <3> QED
        BY <2>2, <3>1, <3>2 DEF Establish
    <2>3. CASE Publish(w)
      BY <2>3 DEF Publish
    <2>4. CASE Prepare(w)
      BY <2>4 DEF Prepare
    <2>5. CASE StartRuntime(w)
      BY <2>5 DEF StartRuntime, Runtime!Acquire
    <2>6. CASE Check(w, "check", "startTProxy")
      BY <2>6 DEF Check
    <2>7. CASE StartTProxy(w)
      BY <2>7 DEF StartTProxy
    <2>8. CASE Poll(w)
      BY <2>8 DEF Poll
    <2>9. CASE Check(w, "recheck", "unmark")
      BY <2>9 DEF Check
    <2>10. CASE Connect(w)
      BY <2>10 DEF Connect
    <2>11. CASE LoopEnds(w)
      BY <2>11 DEF LoopEnds
    <2>12. CASE Finally(w)
      BY <2>12 DEF Finally
    <2>13. CASE Decide(w)
      BY <2>13 DEF Decide, Shutdown
    <2> QED
      BY <1>13, <2>1, <2>2, <2>3, <2>4, <2>5, <2>6, <2>7, <2>8, <2>9, <2>10, <2>11, <2>12, <2>13 DEF WorkerStep
  <1> QED
    BY <1>1, <1>2, <1>3, <1>4, <1>5, <1>6, <1>7, <1>8, <1>9, <1>10, <1>11, <1>12, <1>13 DEF Next


-----------------------------------------------------------------------------
(* Clean sessions *)

LEMMA CleanGoesDown == ASSUME [Next]_vars, clean' PROVE clean
  <1> USE DEF user, untouched
  <1>1. CASE UNCHANGED vars
    BY <1>1 DEF vars
  <1>2. ASSUME NEW t \in Threads, ShutdownStep(t) PROVE clean
    BY <1>2 DEF ShutdownStep, Enter, LowerFlags, StopTProxy, StopRuntime, AwaitRuntime, CloseTun, Leave
  <1>3. ASSUME NEW w \in Workers, WorkerStep(w) PROVE clean
    BY <1>3 DEF WorkerStep, StopSidecar, Establish, Publish, Prepare, StartRuntime, Check,
                StartTProxy, Poll, Connect, LoopEnds, Finally, Decide
  <1>4. CASE RequestStop \/ TapMain \/ TapSmart \/ ToggleReturns
    BY <1>4 DEF RequestStop, TapMain, TapSmart, ToggleReturns
  <1>5. CASE OnStart \/ OnStop \/ OnRevoke \/ OnDestroy \/ RuntimeEnds \/ TProxyDies
    BY <1>5 DEF OnStart, OnStop, OnRevoke, OnDestroy, RuntimeEnds, TProxyDies
  <1> QED
    BY <1>1, <1>2, <1>3, <1>4, <1>5 DEF Next

\* A start that counts as clean finds every thread at rest.
LEMMA CleanStart ==
    ASSUME Types, OnStart, clean', ~StartIgnored
    PROVE  /\ \A t \in Threads : pc[t] \in {"idle", "done"}
           /\ Target \in Instances
           /\ \E w \in Workers : /\ pc' = [pc EXCEPT ![w] = "stopSidecar"]
                                 /\ of' = [of EXCEPT ![w] = Target]
           /\ stopping' = [stopping EXCEPT ![Target] = FALSE]
           /\ starting' = TRUE /\ active' = FALSE
           /\ UNCHANGED <<runtime, tproxy, tun, fd>>
  <1>1. \A v \in Workers : ~Running(v)
    BY DEF OnStart
  <1>2. pc[Main] = "idle" /\ Target \in Instances
    BY DEF OnStart, Deliver, MainIdle
  <1> QED
    BY <1>1, <1>2, MainIsApart DEF OnStart, Running

\* It leaves one thread, its worker, on an instance that is not stopping.
LEMMA CleanStarted ==
    ASSUME Types, OnStart, clean', ~StartIgnored
    PROVE  \E w \in Workers :
             /\ pc'[w] = "stopSidecar"
             /\ \A t \in Threads \ {w} : pc'[t] \in {"idle", "done"}
             /\ stopping'[of'[w]] = FALSE
  <1>1. PICK w \in Workers : /\ pc' = [pc EXCEPT ![w] = "stopSidecar"]
                             /\ of' = [of EXCEPT ![w] = Target]
    BY CleanStart
  <1>2. pc'[w] = "stopSidecar" /\ \A t \in Threads \ {w} : pc'[t] = pc[t]
    BY <1>1 DEF Types, ThreadTypes, Threads
  <1>3. of'[w] = Target /\ stopping'[Target] = FALSE
    BY <1>1, CleanStart DEF Types, ThreadTypes, ServiceTypes, Threads
  <1> QED
    BY <1>2, <1>3, CleanStart

\* A start that is ignored, and a clean shutdown that has something to stop.
LEMMA IgnoredStart ==
    ASSUME OnStart, StartIgnored
    PROVE  UNCHANGED <<runtime, active, starting, tproxy, stopping, tun, thread, fd>>
  BY DEF OnStart, user, instance

LEMMA CleanEnter ==
    ASSUME NEW t \in Threads, Enter(t), clean', ~NothingToStop(of[t])
    PROVE  \A w \in Workers \ {t} : ~StartingUp(w)
  BY DEF Enter

LEMMA OneWorkerPreserved ==
    ASSUME Types, CleanInv, [Next]_vars, clean'
    PROVE  OneWorker'
  <1>c. clean
    BY CleanGoesDown
  <1> USE <1>c, MainIsApart DEF Types, ThreadTypes, CleanInv, runtime, instance, thread, user, untouched, Goto, Startup, ShutdownSteps, Running, OneWorker
  <1>1. CASE UNCHANGED vars
    BY <1>1 DEF vars
  <1>2. CASE RuntimeEnds
    BY <1>2 DEF RuntimeEnds, Runtime!Release
  <1>3. CASE TProxyDies
    BY <1>3 DEF TProxyDies
  <1>4. CASE RequestStop
    BY <1>4 DEF RequestStop, MainIdle, Command
  <1>5. CASE TapMain
    BY <1>5 DEF TapMain, MainIdle, Command, StopOwned, Runtime!RequestStop
  <1>6. CASE TapSmart
    BY <1>6 DEF TapSmart, MainIdle, Command, StopOwned, Runtime!RequestStop
  <1>7. CASE ToggleReturns
    BY <1>7 DEF ToggleReturns, StopOwnedReturns
  <1>8. CASE OnStart
    <2>1. CASE StartIgnored
      BY <1>8, <2>1, IgnoredStart
    <2>2. CASE ~StartIgnored
      BY <1>8, <2>2, CleanStarted
    <2> QED
      BY <2>1, <2>2
  <1>9. CASE OnStop
    BY <1>9 DEF OnStop, Deliver, MainIdle, Shutdown
  <1>10. CASE OnRevoke
    BY <1>10 DEF OnRevoke, MainIdle, Shutdown
  <1>11. CASE OnDestroy
    BY <1>11 DEF OnDestroy, MainIdle, Shutdown
  <1>12. ASSUME NEW t \in Threads, ShutdownStep(t) PROVE OneWorker'
    <2>1. CASE Enter(t)
      BY <2>1 DEF Enter, Returned, NothingToStop
    <2>2. CASE LowerFlags(t)
      BY <2>2 DEF LowerFlags
    <2>3. CASE StopTProxy(t)
      BY <2>3 DEF StopTProxy
    <2>4. CASE StopRuntime(t)
      BY <2>4 DEF StopRuntime, StopOwned, Runtime!RequestStop
    <2>5. CASE AwaitRuntime(t)
      BY <2>5 DEF AwaitRuntime, StopOwnedReturns
    <2>6. CASE CloseTun(t)
      BY <2>6 DEF CloseTun
    <2>7. CASE Leave(t)
      BY <2>7 DEF Leave, Returned
    <2> QED
      BY <1>12, <2>1, <2>2, <2>3, <2>4, <2>5, <2>6, <2>7 DEF ShutdownStep
  <1>13. ASSUME NEW w \in Workers, WorkerStep(w) PROVE OneWorker'
    <2>1. CASE StopSidecar(w)
      BY <2>1 DEF StopSidecar, StopOwned, StopOwnedReturns, Runtime!RequestStop
    <2>2. CASE Establish(w)
      BY <2>2 DEF Establish
    <2>3. CASE Publish(w)
      BY <2>3 DEF Publish
    <2>4. CASE Prepare(w)
      BY <2>4 DEF Prepare
    <2>5. CASE StartRuntime(w)
      BY <2>5 DEF StartRuntime, Runtime!Acquire
    <2>6. CASE Check(w, "check", "startTProxy")
      BY <2>6 DEF Check
    <2>7. CASE StartTProxy(w)
      BY <2>7 DEF StartTProxy
    <2>8. CASE Poll(w)
      BY <2>8 DEF Poll
    <2>9. CASE Check(w, "recheck", "unmark")
      BY <2>9 DEF Check
    <2>10. CASE Connect(w)
      BY <2>10 DEF Connect
    <2>11. CASE LoopEnds(w)
      BY <2>11 DEF LoopEnds
    <2>12. CASE Finally(w)
      BY <2>12 DEF Finally
    <2>13. CASE Decide(w)
      BY <2>13 DEF Decide, Shutdown
    <2> QED
      BY <1>13, <2>1, <2>2, <2>3, <2>4, <2>5, <2>6, <2>7, <2>8, <2>9, <2>10, <2>11, <2>12, <2>13 DEF WorkerStep
  <1> QED
    BY <1>1, <1>2, <1>3, <1>4, <1>5, <1>6, <1>7, <1>8, <1>9, <1>10, <1>11, <1>12, <1>13 DEF Next

LEMMA StartsAlonePreserved ==
    ASSUME Types, CleanInv, [Next]_vars, clean'
    PROVE  StartsAlone'
  <1>c. clean
    BY CleanGoesDown
  <1> USE <1>c, MainIsApart DEF Types, ThreadTypes, ServiceTypes, DescriptorTypes, CleanInv, runtime, instance, thread, user, untouched, Goto, Startup, ShutdownSteps, StartingUp, Running, OneWorker, StartsAlone, Stopping
  <1>1. CASE UNCHANGED vars
    BY <1>1 DEF vars
  <1>2. CASE RuntimeEnds
    BY <1>2 DEF RuntimeEnds, Runtime!Release
  <1>3. CASE TProxyDies
    BY <1>3 DEF TProxyDies
  <1>4. CASE RequestStop
    BY <1>4 DEF RequestStop, MainIdle, Command
  <1>5. CASE TapMain
    BY <1>5 DEF TapMain, MainIdle, Command, StopOwned, Runtime!RequestStop
  <1>6. CASE TapSmart
    BY <1>6 DEF TapSmart, MainIdle, Command, StopOwned, Runtime!RequestStop
  <1>7. CASE ToggleReturns
    BY <1>7 DEF ToggleReturns, StopOwnedReturns
  <1>8. CASE OnStart
    <2>1. CASE StartIgnored
      BY <1>8, <2>1, IgnoredStart
    <2>2. CASE ~StartIgnored
      <3>1. PICK w \in Workers : /\ pc'[w] = "stopSidecar"
                                 /\ \A t \in Threads \ {w} : pc'[t] \in {"idle", "done"}
                                 /\ stopping'[of'[w]] = FALSE
        BY <1>8, <2>2, CleanStarted
      <3> QED
        BY <3>1 DEF Threads
    <2> QED
      BY <2>1, <2>2
  <1>9. CASE OnStop
    BY <1>9 DEF OnStop, Deliver, MainIdle, Shutdown
  <1>10. CASE OnRevoke
    BY <1>10 DEF OnRevoke, MainIdle, Shutdown
  <1>11. CASE OnDestroy
    BY <1>11 DEF OnDestroy, MainIdle, Shutdown
  <1>12. ASSUME NEW t \in Threads, ShutdownStep(t) PROVE StartsAlone'
    <2>1. CASE Enter(t)
      <3>1. CASE NothingToStop(of[t])
        BY <2>1, <3>1 DEF Enter, Returned, NothingToStop
      <3>2. CASE ~NothingToStop(of[t])
        <4>1. /\ pc[t] = "enter" /\ pc' = [pc EXCEPT ![t] = "flags"]
              /\ UNCHANGED <<of, stopping, tun, fd>>
          BY <2>1, <3>2 DEF Enter
        <4> QED
          BY <2>1, <3>2, <4>1, CleanEnter
      <3> QED
        BY <3>1, <3>2
    <2>2. CASE LowerFlags(t)
      BY <2>2 DEF LowerFlags
    <2>3. CASE StopTProxy(t)
      BY <2>3 DEF StopTProxy
    <2>4. CASE StopRuntime(t)
      BY <2>4 DEF StopRuntime, StopOwned, Runtime!RequestStop
    <2>5. CASE AwaitRuntime(t)
      BY <2>5 DEF AwaitRuntime, StopOwnedReturns
    <2>6. CASE CloseTun(t)
      BY <2>6 DEF CloseTun
    <2>7. CASE Leave(t)
      BY <2>7 DEF Leave, Returned
    <2> QED
      BY <1>12, <2>1, <2>2, <2>3, <2>4, <2>5, <2>6, <2>7 DEF ShutdownStep
  <1>13. ASSUME NEW w \in Workers, WorkerStep(w) PROVE StartsAlone'
    <2>1. CASE StopSidecar(w)
      BY <2>1 DEF StopSidecar, StopOwned, StopOwnedReturns, Runtime!RequestStop
    <2>2. CASE Establish(w)
      BY <2>2 DEF Establish
    <2>3. CASE Publish(w)
      BY <2>3 DEF Publish
    <2>4. CASE Prepare(w)
      BY <2>4 DEF Prepare
    <2>5. CASE StartRuntime(w)
      BY <2>5 DEF StartRuntime, Runtime!Acquire
    <2>6. CASE Check(w, "check", "startTProxy")
      BY <2>6 DEF Check
    <2>7. CASE StartTProxy(w)
      BY <2>7 DEF StartTProxy
    <2>8. CASE Poll(w)
      BY <2>8 DEF Poll
    <2>9. CASE Check(w, "recheck", "unmark")
      BY <2>9 DEF Check
    <2>10. CASE Connect(w)
      BY <2>10 DEF Connect
    <2>11. CASE LoopEnds(w)
      BY <2>11 DEF LoopEnds
    <2>12. CASE Finally(w)
      BY <2>12 DEF Finally
    <2>13. CASE Decide(w)
      BY <2>13 DEF Decide, Shutdown
    <2> QED
      BY <1>13, <2>1, <2>2, <2>3, <2>4, <2>5, <2>6, <2>7, <2>8, <2>9, <2>10, <2>11, <2>12, <2>13 DEF WorkerStep
  <1> QED
    BY <1>1, <1>2, <1>3, <1>4, <1>5, <1>6, <1>7, <1>8, <1>9, <1>10, <1>11, <1>12, <1>13 DEF Next

LEMMA FlagsPreserved ==
    ASSUME Types, CleanInv, [Next]_vars, clean'
    PROVE  FlagsStayDown'
  <1>c. clean
    BY CleanGoesDown
  <1> USE <1>c, MainIsApart DEF Types, ThreadTypes, ServiceTypes, DescriptorTypes, CleanInv, runtime, instance, thread, user, untouched, Goto, Startup, ShutdownSteps, StartingUp, Running, OneWorker, StartsAlone, Stopping, FlagsStayDown
  <1>1. CASE UNCHANGED vars
    BY <1>1 DEF vars
  <1>2. CASE RuntimeEnds
    BY <1>2 DEF RuntimeEnds, Runtime!Release
  <1>3. CASE TProxyDies
    BY <1>3 DEF TProxyDies
  <1>4. CASE RequestStop
    BY <1>4 DEF RequestStop, MainIdle, Command
  <1>5. CASE TapMain
    BY <1>5 DEF TapMain, MainIdle, Command, StopOwned, Runtime!RequestStop
  <1>6. CASE TapSmart
    BY <1>6 DEF TapSmart, MainIdle, Command, StopOwned, Runtime!RequestStop
  <1>7. CASE ToggleReturns
    BY <1>7 DEF ToggleReturns, StopOwnedReturns
  <1>8. CASE OnStart
    <2>1. CASE StartIgnored
      BY <1>8, <2>1, IgnoredStart
    <2>2. CASE ~StartIgnored
      <3>1. PICK w \in Workers : /\ pc'[w] = "stopSidecar"
                                 /\ \A t \in Threads \ {w} : pc'[t] \in {"idle", "done"}
                                 /\ stopping'[of'[w]] = FALSE
        BY <1>8, <2>2, CleanStarted
      <3> QED
        BY <3>1 DEF Threads
    <2> QED
      BY <2>1, <2>2
  <1>9. CASE OnStop
    BY <1>9 DEF OnStop, Deliver, MainIdle, Shutdown
  <1>10. CASE OnRevoke
    BY <1>10 DEF OnRevoke, MainIdle, Shutdown
  <1>11. CASE OnDestroy
    BY <1>11 DEF OnDestroy, MainIdle, Shutdown
  <1>12. ASSUME NEW t \in Threads, ShutdownStep(t) PROVE FlagsStayDown'
    <2>1. CASE Enter(t)
      <3>1. CASE NothingToStop(of[t])
        BY <2>1, <3>1 DEF Enter, Returned, NothingToStop
      <3>2. CASE ~NothingToStop(of[t])
        BY <2>1, <3>2 DEF Enter
      <3> QED
        BY <3>1, <3>2
    <2>2. CASE LowerFlags(t)
      BY <2>2 DEF LowerFlags
    <2>3. CASE StopTProxy(t)
      BY <2>3 DEF StopTProxy
    <2>4. CASE StopRuntime(t)
      BY <2>4 DEF StopRuntime, StopOwned, Runtime!RequestStop
    <2>5. CASE AwaitRuntime(t)
      BY <2>5 DEF AwaitRuntime, StopOwnedReturns
    <2>6. CASE CloseTun(t)
      BY <2>6 DEF CloseTun
    <2>7. CASE Leave(t)
      BY <2>7 DEF Leave, Returned
    <2> QED
      BY <1>12, <2>1, <2>2, <2>3, <2>4, <2>5, <2>6, <2>7 DEF ShutdownStep
  <1>13. ASSUME NEW w \in Workers, WorkerStep(w) PROVE FlagsStayDown'
    <2>1. CASE StopSidecar(w)
      BY <2>1 DEF StopSidecar, StopOwned, StopOwnedReturns, Runtime!RequestStop
    <2>2. CASE Establish(w)
      BY <2>2 DEF Establish
    <2>3. CASE Publish(w)
      BY <2>3 DEF Publish
    <2>4. CASE Prepare(w)
      BY <2>4 DEF Prepare
    <2>5. CASE StartRuntime(w)
      BY <2>5 DEF StartRuntime, Runtime!Acquire
    <2>6. CASE Check(w, "check", "startTProxy")
      BY <2>6 DEF Check
    <2>7. CASE StartTProxy(w)
      BY <2>7 DEF StartTProxy
    <2>8. CASE Poll(w)
      BY <2>8 DEF Poll
    <2>9. CASE Check(w, "recheck", "unmark")
      BY <2>9 DEF Check
    <2>10. CASE Connect(w)
      BY <2>10 DEF Connect
    <2>11. CASE LoopEnds(w)
      BY <2>11 DEF LoopEnds
    <2>12. CASE Finally(w)
      BY <2>12 DEF Finally
    <2>13. CASE Decide(w)
      BY <2>13 DEF Decide, Shutdown
    <2> QED
      BY <1>13, <2>1, <2>2, <2>3, <2>4, <2>5, <2>6, <2>7, <2>8, <2>9, <2>10, <2>11, <2>12, <2>13 DEF WorkerStep
  <1> QED
    BY <1>1, <1>2, <1>3, <1>4, <1>5, <1>6, <1>7, <1>8, <1>9, <1>10, <1>11, <1>12, <1>13 DEF Next

LEMMA HeldPreserved ==
    ASSUME Types, CleanInv, [Next]_vars, clean'
    PROVE  HeldIsInHand'
  <1>c. clean
    BY CleanGoesDown
  <1> USE <1>c, MainIsApart DEF Types, ThreadTypes, ServiceTypes, DescriptorTypes, CleanInv, runtime, instance, thread, user, untouched, Goto, Startup, ShutdownSteps, StartingUp, Running, OneWorker, StartsAlone, Stopping, HeldIsInHand, InHand, Minding
  <1>1. CASE UNCHANGED vars
    BY <1>1 DEF vars
  <1>2. CASE RuntimeEnds
    BY <1>2 DEF RuntimeEnds, Runtime!Release
  <1>3. CASE TProxyDies
    BY <1>3 DEF TProxyDies
  <1>4. CASE RequestStop
    BY <1>4 DEF RequestStop, MainIdle, Command
  <1>5. CASE TapMain
    BY <1>5 DEF TapMain, MainIdle, Command, StopOwned, Runtime!RequestStop
  <1>6. CASE TapSmart
    BY <1>6 DEF TapSmart, MainIdle, Command, StopOwned, Runtime!RequestStop
  <1>7. CASE ToggleReturns
    BY <1>7 DEF ToggleReturns, StopOwnedReturns
  <1>8. CASE OnStart
    <2>1. CASE StartIgnored
      BY <1>8, <2>1, IgnoredStart
    <2>2. CASE ~StartIgnored
      <3>1. PICK w \in Workers : /\ pc'[w] = "stopSidecar"
                                 /\ \A t \in Threads \ {w} : pc'[t] \in {"idle", "done"}
                                 /\ stopping'[of'[w]] = FALSE
        BY <1>8, <2>2, CleanStarted
      <3>2. Minding(w)'
        BY <3>1
      <3> QED
        BY <3>2
    <2> QED
      BY <2>1, <2>2
  <1>9. CASE OnStop
    BY <1>9 DEF OnStop, Deliver, MainIdle, Shutdown
  <1>10. CASE OnRevoke
    BY <1>10 DEF OnRevoke, MainIdle, Shutdown
  <1>11. CASE OnDestroy
    BY <1>11 DEF OnDestroy, MainIdle, Shutdown
  <1>12. ASSUME NEW t \in Threads, ShutdownStep(t) PROVE HeldIsInHand'
    <2>1. CASE Enter(t)
      <3>1. CASE NothingToStop(of[t])
        <4>1. /\ ~active' /\ ~starting' /\ UNCHANGED <<tproxy, holder, phase, of, stopping>>
              /\ holder # "vpn"
          BY <2>1, <3>1 DEF Enter, NothingToStop
        <4>2. ASSUME NEW v \in Workers, Minding(v) PROVE Minding(v)'
          BY <2>1, <3>1, <4>1, <4>2 DEF Enter, NothingToStop, Threads
        <4>3. \A u \in Threads : pc[u] # "enter" => pc'[u] = pc[u]
          BY <2>1, <3>1 DEF Enter
        <4> QED
          BY <4>1, <4>2, <4>3
      <3>2. CASE ~NothingToStop(of[t])
        <4>1. pc'[t] = "flags"
          BY <2>1, <3>2 DEF Enter
        <4> QED
          BY <4>1
      <3> QED
        BY <3>1, <3>2
    <2>2. CASE LowerFlags(t)
      BY <2>2 DEF LowerFlags
    <2>3. CASE StopTProxy(t)
      BY <2>3 DEF StopTProxy
    <2>4. CASE StopRuntime(t)
      BY <2>4 DEF StopRuntime, StopOwned, Runtime!RequestStop
    <2>5. CASE AwaitRuntime(t)
      BY <2>5 DEF AwaitRuntime, StopOwnedReturns
    <2>6. CASE CloseTun(t)
      BY <2>6 DEF CloseTun
    <2>7. CASE Leave(t)
      BY <2>7 DEF Leave, Returned
    <2> QED
      BY <1>12, <2>1, <2>2, <2>3, <2>4, <2>5, <2>6, <2>7 DEF ShutdownStep
  <1>13. ASSUME NEW w \in Workers, WorkerStep(w) PROVE HeldIsInHand'
    <2>1. CASE StopSidecar(w)
      BY <2>1 DEF StopSidecar, StopOwned, StopOwnedReturns, Runtime!RequestStop
    <2>2. CASE Establish(w)
      BY <2>2 DEF Establish
    <2>3. CASE Publish(w)
      BY <2>3 DEF Publish
    <2>4. CASE Prepare(w)
      BY <2>4 DEF Prepare
    <2>5. CASE StartRuntime(w)
      BY <2>5 DEF StartRuntime, Runtime!Acquire
    <2>6. CASE Check(w, "check", "startTProxy")
      BY <2>6 DEF Check
    <2>7. CASE StartTProxy(w)
      BY <2>7 DEF StartTProxy
    <2>8. CASE Poll(w)
      BY <2>8 DEF Poll
    <2>9. CASE Check(w, "recheck", "unmark")
      BY <2>9 DEF Check
    <2>10. CASE Connect(w)
      BY <2>10 DEF Connect
    <2>11. CASE LoopEnds(w)
      BY <2>11 DEF LoopEnds
    <2>12. CASE Finally(w)
      BY <2>12 DEF Finally
    <2>13. CASE Decide(w)
      BY <2>13 DEF Decide, Shutdown
    <2> QED
      BY <1>13, <2>1, <2>2, <2>3, <2>4, <2>5, <2>6, <2>7, <2>8, <2>9, <2>10, <2>11, <2>12, <2>13 DEF WorkerStep
  <1> QED
    BY <1>1, <1>2, <1>3, <1>4, <1>5, <1>6, <1>7, <1>8, <1>9, <1>10, <1>11, <1>12, <1>13 DEF Next

LEMMA DescriptorPreserved ==
    ASSUME Types, CleanInv, [Next]_vars, clean'
    PROVE  DescriptorInHand'
  <1>c. clean
    BY CleanGoesDown
  <1> USE <1>c, MainIsApart DEF Types, ThreadTypes, ServiceTypes, DescriptorTypes, CleanInv, runtime, instance, thread, user, untouched, Goto, Startup, ShutdownSteps, StartingUp, Running, OneWorker, StartsAlone, Stopping, DescriptorInHand, Minding
  <1>1. CASE UNCHANGED vars
    BY <1>1 DEF vars
  <1>2. CASE RuntimeEnds
    BY <1>2 DEF RuntimeEnds, Runtime!Release
  <1>3. CASE TProxyDies
    BY <1>3 DEF TProxyDies
  <1>4. CASE RequestStop
    BY <1>4 DEF RequestStop, MainIdle, Command
  <1>5. CASE TapMain
    BY <1>5 DEF TapMain, MainIdle, Command, StopOwned, Runtime!RequestStop
  <1>6. CASE TapSmart
    BY <1>6 DEF TapSmart, MainIdle, Command, StopOwned, Runtime!RequestStop
  <1>7. CASE ToggleReturns
    BY <1>7 DEF ToggleReturns, StopOwnedReturns
  <1>8. CASE OnStart
    <2>1. CASE StartIgnored
      BY <1>8, <2>1, IgnoredStart
    <2>2. CASE ~StartIgnored
      <3>1. \A v \in Workers : ~Minding(v)
        BY <1>8, <2>2, CleanStart
      <3>2. \A v \in Workers : fd[v] # "open"
        BY <1>8, <2>2, <3>1, CleanStart
      <3> QED
        <4>1. UNCHANGED fd
          BY <1>8, <2>2, CleanStart
        <4> QED
          BY <3>2, <4>1
    <2> QED
      BY <2>1, <2>2
  <1>9. CASE OnStop
    BY <1>9 DEF OnStop, Deliver, MainIdle, Shutdown
  <1>10. CASE OnRevoke
    BY <1>10 DEF OnRevoke, MainIdle, Shutdown
  <1>11. CASE OnDestroy
    BY <1>11 DEF OnDestroy, MainIdle, Shutdown
  <1>12. ASSUME NEW t \in Threads, ShutdownStep(t) PROVE DescriptorInHand'
    <2>1. CASE Enter(t)
      <3>1. CASE NothingToStop(of[t])
        BY <2>1, <3>1 DEF Enter, Returned, NothingToStop
      <3>2. CASE ~NothingToStop(of[t])
        <4>1. /\ pc[t] = "enter" /\ pc' = [pc EXCEPT ![t] = "flags"]
              /\ UNCHANGED <<of, stopping, tun, fd>>
          BY <2>1, <3>2 DEF Enter
        <4> QED
          BY <2>1, <3>2, <4>1, CleanEnter
      <3> QED
        BY <3>1, <3>2
    <2>2. CASE LowerFlags(t)
      BY <2>2 DEF LowerFlags
    <2>3. CASE StopTProxy(t)
      BY <2>3 DEF StopTProxy
    <2>4. CASE StopRuntime(t)
      BY <2>4 DEF StopRuntime, StopOwned, Runtime!RequestStop
    <2>5. CASE AwaitRuntime(t)
      BY <2>5 DEF AwaitRuntime, StopOwnedReturns
    <2>6. CASE CloseTun(t)
      BY <2>6 DEF CloseTun
    <2>7. CASE Leave(t)
      BY <2>7 DEF Leave, Returned
    <2> QED
      BY <1>12, <2>1, <2>2, <2>3, <2>4, <2>5, <2>6, <2>7 DEF ShutdownStep
  <1>13. ASSUME NEW w \in Workers, WorkerStep(w) PROVE DescriptorInHand'
    <2>1. CASE StopSidecar(w)
      BY <2>1 DEF StopSidecar, StopOwned, StopOwnedReturns, Runtime!RequestStop
    <2>2. CASE Establish(w)
      BY <2>2 DEF Establish
    <2>3. CASE Publish(w)
      BY <2>3 DEF Publish
    <2>4. CASE Prepare(w)
      BY <2>4 DEF Prepare
    <2>5. CASE StartRuntime(w)
      BY <2>5 DEF StartRuntime, Runtime!Acquire
    <2>6. CASE Check(w, "check", "startTProxy")
      BY <2>6 DEF Check
    <2>7. CASE StartTProxy(w)
      BY <2>7 DEF StartTProxy
    <2>8. CASE Poll(w)
      BY <2>8 DEF Poll
    <2>9. CASE Check(w, "recheck", "unmark")
      BY <2>9 DEF Check
    <2>10. CASE Connect(w)
      BY <2>10 DEF Connect
    <2>11. CASE LoopEnds(w)
      BY <2>11 DEF LoopEnds
    <2>12. CASE Finally(w)
      BY <2>12 DEF Finally
    <2>13. CASE Decide(w)
      BY <2>13 DEF Decide, Shutdown
    <2> QED
      BY <1>13, <2>1, <2>2, <2>3, <2>4, <2>5, <2>6, <2>7, <2>8, <2>9, <2>10, <2>11, <2>12, <2>13 DEF WorkerStep
  <1> QED
    BY <1>1, <1>2, <1>3, <1>4, <1>5, <1>6, <1>7, <1>8, <1>9, <1>10, <1>11, <1>12, <1>13 DEF Next

LEMMA WatchedPreserved ==
    ASSUME Types, CleanInv, [Next]_vars, clean'
    PROVE  ActiveIsWatched'
  <1>c. clean
    BY CleanGoesDown
  <1> USE <1>c, MainIsApart DEF Types, ThreadTypes, ServiceTypes, DescriptorTypes, CleanInv, runtime, instance, thread, user, untouched, Goto, Startup, ShutdownSteps, StartingUp, Running, OneWorker, StartsAlone, Stopping, FlagsStayDown, ActiveIsWatched
  <1>1. CASE UNCHANGED vars
    BY <1>1 DEF vars
  <1>2. CASE RuntimeEnds
    BY <1>2 DEF RuntimeEnds, Runtime!Release
  <1>3. CASE TProxyDies
    BY <1>3 DEF TProxyDies
  <1>4. CASE RequestStop
    BY <1>4 DEF RequestStop, MainIdle, Command
  <1>5. CASE TapMain
    BY <1>5 DEF TapMain, MainIdle, Command, StopOwned, Runtime!RequestStop
  <1>6. CASE TapSmart
    BY <1>6 DEF TapSmart, MainIdle, Command, StopOwned, Runtime!RequestStop
  <1>7. CASE ToggleReturns
    BY <1>7 DEF ToggleReturns, StopOwnedReturns
  <1>8. CASE OnStart
    BY <1>8 DEF OnStart, Deliver, MainIdle, StartIgnored
  <1>9. CASE OnStop
    BY <1>9 DEF OnStop, Deliver, MainIdle, Shutdown
  <1>10. CASE OnRevoke
    BY <1>10 DEF OnRevoke, MainIdle, Shutdown
  <1>11. CASE OnDestroy
    BY <1>11 DEF OnDestroy, MainIdle, Shutdown
  <1>12. ASSUME NEW t \in Threads, ShutdownStep(t) PROVE ActiveIsWatched'
    <2>1. CASE Enter(t)
      BY <2>1 DEF Enter, Returned, NothingToStop
    <2>2. CASE LowerFlags(t)
      BY <2>2 DEF LowerFlags
    <2>3. CASE StopTProxy(t)
      BY <2>3 DEF StopTProxy
    <2>4. CASE StopRuntime(t)
      BY <2>4 DEF StopRuntime, StopOwned, Runtime!RequestStop
    <2>5. CASE AwaitRuntime(t)
      BY <2>5 DEF AwaitRuntime, StopOwnedReturns
    <2>6. CASE CloseTun(t)
      BY <2>6 DEF CloseTun
    <2>7. CASE Leave(t)
      BY <2>7 DEF Leave, Returned
    <2> QED
      BY <1>12, <2>1, <2>2, <2>3, <2>4, <2>5, <2>6, <2>7 DEF ShutdownStep
  <1>13. ASSUME NEW w \in Workers, WorkerStep(w) PROVE ActiveIsWatched'
    <2>1. CASE StopSidecar(w)
      BY <2>1 DEF StopSidecar, StopOwned, StopOwnedReturns, Runtime!RequestStop
    <2>2. CASE Establish(w)
      BY <2>2 DEF Establish
    <2>3. CASE Publish(w)
      BY <2>3 DEF Publish
    <2>4. CASE Prepare(w)
      BY <2>4 DEF Prepare
    <2>5. CASE StartRuntime(w)
      BY <2>5 DEF StartRuntime, Runtime!Acquire
    <2>6. CASE Check(w, "check", "startTProxy")
      BY <2>6 DEF Check
    <2>7. CASE StartTProxy(w)
      BY <2>7 DEF StartTProxy
    <2>8. CASE Poll(w)
      BY <2>8 DEF Poll
    <2>9. CASE Check(w, "recheck", "unmark")
      BY <2>9 DEF Check
    <2>10. CASE Connect(w)
      <3>1. CASE pc[w] = "unmark"
        BY <2>10, <3>1 DEF Connect
      <3>2. CASE pc[w] = "activate"
        <4>1. fd[w] = "open" /\ pc' = [pc EXCEPT ![w] = "loop"] /\ UNCHANGED fd
          BY <2>10, <3>2 DEF Connect
        <4> QED
          BY <4>1
      <3> QED
        BY <2>10, <3>1, <3>2 DEF Connect
    <2>11. CASE LoopEnds(w)
      BY <2>11 DEF LoopEnds
    <2>12. CASE Finally(w)
      BY <2>12 DEF Finally
    <2>13. CASE Decide(w)
      BY <2>13 DEF Decide, Shutdown
    <2> QED
      BY <1>13, <2>1, <2>2, <2>3, <2>4, <2>5, <2>6, <2>7, <2>8, <2>9, <2>10, <2>11, <2>12, <2>13 DEF WorkerStep
  <1> QED
    BY <1>1, <1>2, <1>3, <1>4, <1>5, <1>6, <1>7, <1>8, <1>9, <1>10, <1>11, <1>12, <1>13 DEF Next

-----------------------------------------------------------------------------
(* The invariant, and what it says of a session *)

LEMMA Initially == Init => IInv
  <1> SUFFICES ASSUME Init PROVE IInv
    OBVIOUS
  <1>1. TypeOK /\ Places
    BY TypesInitially, TypesAreTypeOK
  <1>2. /\ ~active /\ ~starting /\ ~tproxy /\ holder # "vpn"
        /\ \A t \in Threads : pc[t] = "idle"
        /\ \A w \in Workers : fd[w] = "none"
    BY DEF Init, Nobody
  <1>3. \A w \in Workers : pc[w] = "idle"
    BY <1>2, MainIsApart
  <1>4. OneWorker /\ StartsAlone /\ FlagsStayDown
    BY <1>2, <1>3 DEF OneWorker, StartsAlone, FlagsStayDown, Running, StartingUp, Startup, Stopping, ShutdownSteps
  <1>5. HeldIsInHand /\ DescriptorInHand /\ ActiveIsWatched
    BY <1>2 DEF HeldIsInHand, DescriptorInHand, ActiveIsWatched
  <1> QED
    BY <1>1, <1>4, <1>5 DEF IInv, CleanInv

LEMMA Inductive == IInv /\ [Next]_vars => IInv'
  <1> SUFFICES ASSUME IInv, [Next]_vars PROVE IInv'
    OBVIOUS
  <1>1. Types /\ CleanInv
    BY TypesAreTypeOK DEF IInv
  <1>2. Types'
    BY <1>1, RuntimeTypesPreserved, ServiceTypesPreserved, ThreadTypesPreserved,
       DescriptorTypesPreserved DEF Types
  <1>3. CleanInv'
    BY <1>1, OneWorkerPreserved, StartsAlonePreserved, FlagsPreserved, HeldPreserved,
       DescriptorPreserved, WatchedPreserved DEF CleanInv
  <1>4. (TypeOK /\ Places)'
    BY <1>2, TypesAreTypeOK, PTL
  <1> QED
    BY <1>3, <1>4 DEF IInv

LEMMA Invariance == Spec => []IInv
  BY Initially, Inductive, PTL DEF Spec

\* With every thread at rest nobody has anything in hand, so nothing is held.
LEMMA InvIsClean == IInv => CleanSessions
  <1> SUFFICES ASSUME IInv, clean PROVE (Quiet => Down) /\ ActiveIsWatched
    BY DEF CleanSessions, ActiveIsWatched
  <1>1. HeldIsInHand /\ DescriptorInHand /\ ActiveIsWatched
    BY DEF IInv, CleanInv
  <1>2. ASSUME Quiet PROVE Down
    <2>1. \A t \in Threads : pc[t] \in {"idle", "done"}
      BY <1>2 DEF Quiet, Running
    <2>2. \A w \in Workers : ~Minding(w)
      BY <2>1, MainIsApart DEF Minding, StartingUp, Startup
    <2>3. ~active /\ ~starting /\ ~tproxy /\ ~(holder = "vpn" /\ phase = "held")
      BY <1>1, <2>1, <2>2 DEF HeldIsInHand, InHand
    <2>4. \A w \in Workers : fd[w] # "open"
      BY <1>1, <2>1, <2>2 DEF DescriptorInHand, ShutdownSteps
    <2>5. holder = "vpn" => phase = "stopping"
      BY <2>3 DEF IInv, TypeOK, Nobody
    <2> QED
      BY <2>3, <2>4, <2>5 DEF Down
  <1> QED
    BY <1>1, <1>2

\* The variables of the service keep their types, and a descriptor published
\* in tun is one that establish() returned, never its null (startTunnel).
THEOREM ServiceTypeCorrect == Spec => []TypeOK
  BY Invariance, PTL DEF IInv

\* However many instances, workers and commands there are: as long as no start
\* or stop overlaps a startup, a service with no thread left has released the
\* flags, tun2socks, the runtime and every descriptor, and a service that
\* claims to be connected is watched by a worker with an open descriptor
\* (ChameleonVpnService, startTunnel and shutdown).
THEOREM SessionsAreClean == Spec => []CleanSessions
  BY Invariance, InvIsClean, PTL

=============================================================================
