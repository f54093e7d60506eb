----------------------------- MODULE VpnService -----------------------------
(***************************************************************************)
(* The Android VPN service (ChameleonVpnService.java) and the buttons that *)
(* drive it (SmartToggleActivity, MainActivity, the notification), over the*)
(* SOCKS runtime of mobile/mobile.go.  The runtime is the specification    *)
(* RuntimeOwnership, which MobileController is shown to implement; the     *)
(* service holder, phase and runs are its variables.                       *)
(*                                                                         *)
(* Threads: the main thread delivers intents and framework callbacks one   *)
(* at a time; every accepted start has a worker running startTunnel.  Both *)
(* may be inside shutdown.  Static fields (active, starting) and native    *)
(* tun2socks (tproxy) outlive a service instance; stopping, tun and lock   *)
(* belong to one.                                                          *)
(***************************************************************************)
EXTENDS Naturals

CONSTANTS
    MaxInstances,  \* bound: service instances created
    MaxWorkers,    \* bound: starts accepted
    MaxCommands    \* bound: taps, notification stops and revocations

ASSUME VpnAssumption == {MaxInstances, MaxWorkers, MaxCommands} \subseteq Nat \ {0}

Main == 0
Workers == 1 .. MaxWorkers
Threads == {Main} \cup Workers
Instances == 1 .. MaxInstances
None == 0
NoThread == MaxWorkers + 1
Nobody == "nobody"

VARIABLES
    holder, phase, runs,  \* the SOCKS runtime (RuntimeOwnership)
    active, starting,     \* the static flags the user interface reads
    tproxy,               \* TProxyIsRunning
    service,              \* the live instance of the service, or None
    created,              \* instances created so far
    leaving,              \* stopSelf was asked of the live instance
    stopping, tun, lock,  \* per instance: flag, descriptor (its worker), monitor
    pc, of, self,         \* per thread: position, instance, shutdown's argument
    fd,                   \* per worker: the descriptor establish() returned
    intent,               \* the service intent not delivered yet
    commands,             \* commands given so far
    last,                 \* the last command delivered: "start" | "stop"
    clean                 \* no start or stop has overlapped a startup so far

runtime == <<holder, phase, runs>>
instance == <<service, created, leaving>>
thread == <<pc, of, self>>
user == <<intent, commands, last>>
vars == <<runtime, active, starting, tproxy, instance, stopping, tun, lock,
          thread, fd, user, clean>>

Runtime == INSTANCE RuntimeOwnership WITH Owners <- {"vpn", "sidecar"}

Startup == {"stopSidecar", "awaitSidecar", "establish", "publish", "prepare",
            "startRuntime", "check", "startTProxy", "poll", "recheck",
            "unmark", "activate"}
ShutdownSteps == {"enter", "flags", "stopTProxy", "stopRuntime",
                  "awaitRuntime", "closeTun", "leave"}

TypeOK ==
    /\ holder \in {"vpn", "sidecar", Nobody}
    /\ phase \in {"free", "held", "stopping"} /\ (phase = "free" <=> holder = Nobody)
    /\ runs \in Nat
    /\ {active, starting, tproxy, leaving, clean} \subseteq BOOLEAN
    /\ service \in Instances \cup {None} /\ created \in 0 .. MaxInstances
    /\ stopping \in [Instances -> BOOLEAN]
    /\ tun \in [Instances -> Workers \cup {None}]
    /\ \A i \in Instances : tun[i] # None => fd[tun[i]] # "none"
    /\ lock \in [Instances -> Threads \cup {NoThread}]
    /\ pc \in [Threads -> {"idle", "toggle", "loop", "finally", "decide", "done"}
                            \cup Startup \cup ShutdownSteps]
    /\ of \in [Threads -> Instances \cup {None}]
    /\ self \in [Threads -> BOOLEAN]
    /\ fd \in [Workers -> {"none", "open", "closed"}]
    /\ intent \in {"none", "start", "stop"} /\ last \in {"none", "start", "stop"}
    /\ commands \in 0 .. MaxCommands

\* A sidecar runtime left by an older application may hold the port.
Init ==
    /\ \/ holder = Nobody /\ phase = "free" /\ runs = 0
       \/ holder = "sidecar" /\ phase = "held" /\ runs = 1
    /\ active = FALSE /\ starting = FALSE /\ tproxy = FALSE
    /\ service = None /\ created = 0 /\ leaving = FALSE
    /\ stopping = [i \in Instances |-> FALSE]
    /\ tun = [i \in Instances |-> None]
    /\ lock = [i \in Instances |-> NoThread]
    /\ pc = [t \in Threads |-> "idle"]
    /\ of = [t \in Threads |-> None]
    /\ self = [t \in Threads |-> FALSE]
    /\ fd = [w \in Workers |-> "none"]
    /\ intent = "none" /\ commands = 0 /\ last = "none"
    /\ clean = TRUE

Goto(t, l) == pc' = [pc EXCEPT ![t] = l]
Running(t) == pc[t] \notin {"idle", "done"}
StartingUp(w) == pc[w] \in Startup

-----------------------------------------------------------------------------
(* mobile.StartOwned and mobile.StopOwned as their callers see them *)

\* StopOwned cancels the runtime of its owner and waits, at most 2 s, for it
\* to finish; without a runtime of that owner it returns at once.
StopOwned(t, owner, waiting, done) ==
    IF holder # owner
    THEN Goto(t, done) /\ UNCHANGED runtime
    ELSE /\ Goto(t, waiting)
         /\ Runtime!RequestStop \/ (phase = "stopping" /\ UNCHANGED runtime)

\* The wait ends: the runtime has finished, or the 2 s are over.
StopOwnedReturns(t, waiting, done) ==
    /\ pc[t] = waiting
    /\ Goto(t, done)
    /\ UNCHANGED runtime

\* The runtime ends: it was cancelled, or its listener failed.
RuntimeEnds ==
    /\ Runtime!Release
    /\ UNCHANGED <<active, starting, tproxy, instance, stopping, tun, lock,
                   thread, fd, user, clean>>

-----------------------------------------------------------------------------
(* The user interface: toggles and the notification, on the main thread *)

MainIdle == pc[Main] = "idle"

Command(i) ==
    /\ commands < MaxCommands /\ intent = "none"
    /\ commands' = commands + 1
    /\ intent' = i

\* A tap while the VPN is up or starting, and the button of the notification.
RequestStop ==
    /\ MainIdle /\ (active \/ starting \/ service # None)
    /\ Command("stop")
    /\ UNCHANGED <<runtime, active, starting, tproxy, instance, stopping, tun,
                   lock, thread, fd, last, clean>>

\* toggleConnection: a sidecar is stopped, otherwise the VPN is started.
TapMain ==
    /\ MainIdle /\ ~active /\ ~starting
    /\ \/ /\ holder = "sidecar"
          /\ StopOwned(Main, "sidecar", "toggle", "idle")
          /\ UNCHANGED <<intent, commands>>
       \/ holder # "sidecar" /\ Command("start") /\ UNCHANGED <<pc, runtime>>
    /\ UNCHANGED <<active, starting, tproxy, instance, stopping, tun, lock, of,
                   self, fd, last, clean>>

\* SmartToggleActivity.startSmart: the sidecar is stopped, then the VPN starts.
TapSmart ==
    /\ MainIdle /\ ~active /\ ~starting
    /\ Command("start")
    /\ StopOwned(Main, "sidecar", "toggle", "idle")
    /\ UNCHANGED <<active, starting, tproxy, instance, stopping, tun, lock, of,
                   self, fd, last, clean>>

ToggleReturns ==
    /\ StopOwnedReturns(Main, "toggle", "idle")
    /\ UNCHANGED <<active, starting, tproxy, instance, stopping, tun, lock, of,
                   self, fd, user, clean>>

-----------------------------------------------------------------------------
(* onStartCommand, onRevoke and onDestroy *)

\* The instance an intent is delivered to: the live one, or a new one.
Target == IF service # None THEN service ELSE created + 1

Deliver(i) ==
    /\ MainIdle /\ intent = i /\ Target \in Instances
    /\ service' = Target
    /\ created' = IF service = None THEN created + 1 ELSE created
    /\ intent' = "none"
    /\ UNCHANGED commands

\* Thread t begins shutdown(s) of instance i.
Shutdown(t, i, s) ==
    /\ Goto(t, "enter")
    /\ of' = [of EXCEPT ![t] = i]
    /\ self' = [self EXCEPT ![t] = s]

StartIgnored == active \/ starting \/ tproxy

\* ACTION_START.  A start that is not ignored resets stopping, whoever may
\* still be acting on it, and starts a worker.
OnStart ==
    /\ Deliver("start")
    /\ leaving' = FALSE
    /\ last' = "start"
    /\ IF StartIgnored
       THEN UNCHANGED <<active, starting, stopping, thread, clean>>
       ELSE \E w \in Workers :
              /\ pc[w] = "idle" /\ \A v \in Workers : v < w => pc[v] # "idle"
              /\ pc' = [pc EXCEPT ![w] = "stopSidecar"]
              /\ of' = [of EXCEPT ![w] = Target]
              /\ stopping' = [stopping EXCEPT ![Target] = FALSE]
              /\ starting' = TRUE /\ active' = FALSE
              /\ clean' = (clean /\ \A v \in Workers : ~Running(v))
              /\ UNCHANGED self
    /\ UNCHANGED <<runtime, tproxy, tun, lock, fd>>

\* ACTION_STOP.
OnStop ==
    /\ Deliver("stop")
    /\ last' = "stop"
    /\ Shutdown(Main, Target, TRUE)
    /\ UNCHANGED <<runtime, active, starting, tproxy, leaving, stopping, tun,
                   lock, fd, clean>>

\* Another VPN takes the slot of this one.
OnRevoke ==
    /\ MainIdle /\ commands < MaxCommands
    /\ service # None /\ tun[service] # None
    /\ commands' = commands + 1 /\ last' = "stop"
    /\ Shutdown(Main, service, TRUE)
    /\ UNCHANGED <<runtime, active, starting, tproxy, instance, stopping, tun,
                   lock, fd, intent, clean>>

\* The framework destroys a stopped service; while it holds an interface the
\* system stays bound to it.
OnDestroy ==
    /\ MainIdle /\ service # None /\ leaving
    /\ \A w \in Workers : of[w] = service => fd[w] # "open"
    /\ Shutdown(Main, service, FALSE)
    /\ service' = None /\ leaving' = FALSE
    /\ UNCHANGED <<runtime, active, starting, tproxy, created, stopping, tun,
                   lock, fd, user, clean>>

-----------------------------------------------------------------------------
(* shutdown, on whichever thread calls it *)

\* After shutdown the main thread takes the next message and a worker ends.
Returned(t) == IF t = Main THEN "idle" ELSE "done"

\* Mutant: an instance whose flags are down is taken for one that has nothing
\* left to release.
NothingToStopByFlags(i) == ~active /\ ~starting

NothingToStop(i) ==
    stopping[i] /\ ~active /\ ~starting /\ tun[i] = None /\ holder # "vpn"

\* synchronized (lock), and the early return of a shutdown done before.
Enter(t) ==
    /\ pc[t] = "enter" /\ lock[of[t]] = NoThread
    /\ IF NothingToStop(of[t])
       THEN /\ Goto(t, Returned(t))
            /\ leaving' = (leaving \/ (self[t] /\ of[t] = service))
            /\ UNCHANGED <<lock, clean>>
       ELSE /\ Goto(t, "flags")
            /\ lock' = [lock EXCEPT ![of[t]] = t]
            /\ clean' = (clean /\ \A w \in Workers \ {t} : ~StartingUp(w))
            /\ UNCHANGED leaving
    /\ UNCHANGED <<runtime, active, starting, tproxy, service, created,
                   stopping, tun, of, self, fd, user>>

LowerFlags(t) ==
    /\ pc[t] = "flags"
    /\ stopping' = [stopping EXCEPT ![of[t]] = TRUE]
    /\ starting' = FALSE /\ active' = FALSE
    /\ Goto(t, "stopTProxy")
    /\ UNCHANGED <<runtime, tproxy, instance, tun, lock, of, self, fd, user, clean>>

StopTProxy(t) ==
    /\ pc[t] = "stopTProxy"
    /\ tproxy' = FALSE
    /\ Goto(t, "stopRuntime")
    /\ UNCHANGED <<runtime, active, starting, instance, stopping, tun, lock, of,
                   self, fd, user, clean>>

StopRuntime(t) ==
    /\ pc[t] = "stopRuntime"
    /\ StopOwned(t, "vpn", "awaitRuntime", "closeTun")
    /\ UNCHANGED <<active, starting, tproxy, instance, stopping, tun, lock, of,
                   self, fd, user, clean>>

\* Mutant: StopOwned waits for the runtime without a limit.
AwaitRuntimeForever(t) ==
    /\ holder # "vpn" /\ StopOwnedReturns(t, "awaitRuntime", "closeTun")
    /\ UNCHANGED <<active, starting, tproxy, instance, stopping, tun, lock, of,
                   self, fd, user, clean>>

AwaitRuntime(t) ==
    /\ StopOwnedReturns(t, "awaitRuntime", "closeTun")
    /\ UNCHANGED <<active, starting, tproxy, instance, stopping, tun, lock, of,
                   self, fd, user, clean>>

\* The descriptor of this instance is closed and the monitor is left.
CloseTun(t) ==
    LET i == of[t] IN
    /\ pc[t] = "closeTun"
    /\ fd' = [w \in Workers |-> IF w = tun[i] THEN "closed" ELSE fd[w]]
    /\ tun' = [tun EXCEPT ![i] = None]
    /\ lock' = [lock EXCEPT ![i] = NoThread]
    /\ Goto(t, "leave")
    /\ UNCHANGED <<runtime, active, starting, tproxy, instance, stopping, of,
                   self, user, clean>>

\* stopForeground, and stopSelf unless onDestroy called.
Leave(t) ==
    /\ pc[t] = "leave"
    /\ leaving' = (leaving \/ (self[t] /\ of[t] = service))
    /\ Goto(t, Returned(t))
    /\ UNCHANGED <<runtime, active, starting, tproxy, service, created,
                   stopping, tun, lock, of, self, fd, user, clean>>

ShutdownStep(t) ==
    \/ Enter(t) \/ LowerFlags(t) \/ StopTProxy(t) \/ StopRuntime(t)
    \/ AwaitRuntime(t) \/ CloseTun(t) \/ Leave(t)

-----------------------------------------------------------------------------
(* startTunnel, on its worker *)

untouched == <<active, starting, instance, stopping, lock, of, self, user, clean>>

\* stopService(ChameleonService) and StopOwned("sidecar").
StopSidecar(w) ==
    /\ \/ pc[w] = "stopSidecar" /\ StopOwned(w, "sidecar", "awaitSidecar", "establish")
       \/ StopOwnedReturns(w, "awaitSidecar", "establish")
    /\ UNCHANGED <<untouched, tproxy, tun, fd>>

\* Mutant: the null that establish() returns goes on as a descriptor.
EstablishUnchecked(w) ==
    /\ pc[w] = "establish"
    /\ \E f \in {"open", "none"} : fd' = [fd EXCEPT ![w] = f]
    /\ Goto(w, "publish")
    /\ UNCHANGED <<untouched, runtime, tproxy, tun>>

\* Builder.establish returns a descriptor, or null.
Establish(w) ==
    /\ pc[w] = "establish"
    /\ \/ fd' = [fd EXCEPT ![w] = "open"] /\ Goto(w, "publish")
       \/ UNCHANGED fd /\ Goto(w, "finally")
    /\ UNCHANGED <<untouched, runtime, tproxy, tun>>

\* synchronized (lock) { tun = established; }
Publish(w) ==
    /\ pc[w] = "publish" /\ lock[of[w]] = NoThread
    /\ tun' = [tun EXCEPT ![of[w]] = w]
    /\ Goto(w, "prepare")
    /\ UNCHANGED <<untouched, runtime, tproxy, fd>>

\* prepareVPNConfig succeeds, fails and mode smart goes on, or ends the start.
Prepare(w) ==
    /\ pc[w] = "prepare"
    /\ \E l \in {"startRuntime", "finally"} : Goto(w, l)
    /\ UNCHANGED <<untouched, runtime, tproxy, tun, fd>>

\* StartOwned("vpn"): a free port is taken or cannot be bound; a runtime of
\* the same owner, even one that was told to stop, counts as success.
StartRuntime(w) ==
    /\ pc[w] = "startRuntime"
    /\ \/ Runtime!Acquire("vpn") /\ Goto(w, "check")
       \/ holder = "vpn" /\ Goto(w, "check") /\ UNCHANGED runtime
       \/ holder # "vpn" /\ Goto(w, "finally") /\ UNCHANGED runtime
    /\ UNCHANGED <<untouched, tproxy, tun, fd>>

\* owner() is "vpn" and listenerReady() answers; the listener of a runtime that
\* is stopping may still accept.
Check(w, here, next) ==
    /\ pc[w] = here
    /\ \/ holder = "vpn" /\ Goto(w, next)
       \/ Goto(w, "finally")
    /\ UNCHANGED <<untouched, runtime, tproxy, tun, fd>>

\* writeTunConfig and TProxyStartService; either may fail, and getFd throws when
\* the descriptor was closed meanwhile.
StartTProxy(w) ==
    /\ pc[w] = "startTProxy"
    /\ \/ fd[w] = "open" /\ tproxy' = TRUE /\ Goto(w, "poll")
       \/ UNCHANGED tproxy /\ Goto(w, "finally")
    /\ UNCHANGED <<untouched, runtime, tun, fd>>

\* TProxyIsRunning within a second, or the start has failed.
Poll(w) ==
    /\ pc[w] = "poll"
    /\ Goto(w, IF tproxy THEN "recheck" ELSE "finally")
    /\ UNCHANGED <<untouched, runtime, tproxy, tun, fd>>

\* starting = false; active = true; nothing looks at stopping here.
Connect(w) ==
    /\ \/ /\ pc[w] = "unmark" /\ starting' = FALSE
          /\ Goto(w, "activate") /\ UNCHANGED active
       \/ /\ pc[w] = "activate" /\ active' = TRUE
          /\ Goto(w, "loop") /\ UNCHANGED starting
    /\ UNCHANGED <<runtime, tproxy, instance, stopping, tun, lock, of, self, fd,
                   user, clean>>

\* The loop that sleeps while the VPN is up, seen when it ends.
LoopEnds(w) ==
    /\ pc[w] = "loop"
    /\ stopping[of[w]] \/ ~tproxy
    /\ Goto(w, "finally")
    /\ UNCHANGED <<untouched, runtime, tproxy, tun, fd>>

\* finally { starting = false; if (!stopping) shutdown(true); }
Finally(w) ==
    /\ pc[w] = "finally"
    /\ starting' = FALSE
    /\ Goto(w, "decide")
    /\ UNCHANGED <<runtime, active, tproxy, instance, stopping, tun, lock, of,
                   self, fd, user, clean>>

Decide(w) ==
    /\ pc[w] = "decide"
    /\ IF stopping[of[w]]
       THEN Goto(w, "done") /\ UNCHANGED <<of, self>>
       ELSE Shutdown(w, of[w], TRUE)
    /\ UNCHANGED <<runtime, active, starting, tproxy, instance, stopping, tun,
                   lock, fd, user, clean>>

WorkerStep(w) ==
    \/ StopSidecar(w) \/ Establish(w) \/ Publish(w) \/ Prepare(w)
    \/ StartRuntime(w) \/ Check(w, "check", "startTProxy")
    \/ StartTProxy(w) \/ Poll(w) \/ Check(w, "recheck", "unmark")
    \/ Connect(w) \/ LoopEnds(w) \/ Finally(w) \/ Decide(w)

\* tun2socks ends by itself.
TProxyDies ==
    /\ tproxy /\ tproxy' = FALSE
    /\ UNCHANGED <<runtime, active, starting, instance, stopping, tun, lock,
                   thread, fd, user, clean>>

-----------------------------------------------------------------------------

Next ==
    \/ RuntimeEnds \/ TProxyDies
    \/ RequestStop \/ TapMain \/ TapSmart \/ ToggleReturns
    \/ OnStart \/ OnStop \/ OnRevoke \/ OnDestroy
    \/ \E t \in Threads : ShutdownStep(t)
    \/ \E w \in Workers : WorkerStep(w)

Spec == Init /\ [][Next]_vars

\* Every thread that can run runs.  That a cancelled runtime finishes is not
\* assumed: StopOwned gives up after 2 s.
Fairness ==
    /\ \A t \in Threads : WF_vars(ShutdownStep(t))
    /\ \A w \in Workers : WF_vars(WorkerStep(w))
    /\ WF_vars(ToggleReturns)

FairSpec == Spec /\ Fairness

-----------------------------------------------------------------------------
(* Properties *)

Quiet == (\A t \in Threads : ~Running(t)) /\ intent = "none"

Down ==
    /\ ~active /\ ~starting /\ ~tproxy
    /\ \A w \in Workers : fd[w] # "open"
    /\ holder = "vpn" => phase = "stopping"

\* As long as no stop or start has overlapped a startup, a service with no
\* thread left has released everything: the flags are down, tun2socks and the
\* runtime are stopped and no tun descriptor is open; and while it claims to be
\* connected a worker watches over an open descriptor (ChameleonVpnService,
\* startTunnel and shutdown).
CleanSessions ==
    clean =>
        /\ Quiet => Down
        /\ active => \E w \in Workers : Running(w) /\ fd[w] = "open"

\* A shutdown ends, on the main thread too: threads that wait for the monitor
\* and for the runtime do not wait for each other (synchronized, StopOwned).
ShutdownsReturn ==
    \A t \in Threads : pc[t] \in ShutdownSteps ~> pc[t] \notin ShutdownSteps

\* "tile/widget can stop the VPN" (android/releases/1.0.0-alpha.3.md:16,18):
\* when the last thing the service was told is to stop, and every thread has
\* finished, nothing of the VPN is left.
StopTakesEffect == last = "stop" /\ Quiet => Down

=============================================================================
