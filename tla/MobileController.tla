---------------------------- MODULE MobileController ----------------------------
(***************************************************************************)
(* The lifecycle controller of mobile/mobile.go: one process-wide record,  *)
(* guarded by a mutex, that StartOwned and StopOwned calls from several    *)
(* Android components (callers) share with the goroutines of the runtimes  *)
(* they start.  Every critical section of the code is one action, every    *)
(* stretch of code outside the mutex that touches shared state is another. *)
(*                                                                         *)
(* A runtime is named by its generation.  A generation stands for the      *)
(* whole bundle StartOwned creates: the context (ctx), the listener (sock) *)
(* the goroutine that closes it, the serving goroutine (srv) and its done  *)
(* channel.                                                                *)
(***************************************************************************)
EXTENDS Naturals

CONSTANTS Callers,  \* threads that call StartOwned / StopOwned
          Owners,   \* owner names after trimming
          Legacy,   \* the owner that Start() and a blank name stand for
          Blank,    \* the blank owner name; also "no owner"
          MaxGen    \* bound: runtimes started in one behaviour

ASSUME MobileAssumption ==
    /\ Legacy \in Owners
    /\ Blank \notin Owners
    /\ MaxGen \in Nat

NoRuntime == 0
Gens == 1..MaxGen

Stages == {"none", "client-runtime-init", "listener-bind", "listener-ready",
           "runtime-serving", "listener-stopped", "stopped"}
Errors == {"none", "init", "bind", "listener-stopped", "stop-timed-out"}

VARIABLES
    cancel,      \* controller.cancel: the generation it cancels, or nil
    done,        \* controller.done: the generation it waits for, or nil
    owner,       \* controller.owner
    listen,      \* controller.listen # ""
    lastError,   \* controller.lastError
    stage,       \* controller.stage
    generation,  \* controller.generation
    ctx,         \* ctx[g]: the context of runtime g is cancelled
    sock,        \* sock[g]: "none", "open" or "closed"
    srv,         \* srv[g]: where the serving goroutine of g is
    startedBy,   \* startedBy[g]: the owner StartOwned published g under (history)
    pc,          \* pc[c]: where caller c is
    arg,         \* arg[c]: the owner name c passed
    target       \* target[c]: the runtime a stop call captured under the lock

ctl == <<cancel, done, owner, listen, lastError, stage, generation>>
runtimes == <<ctx, sock, srv, startedBy>>
calls == <<pc, arg, target>>
vars == <<ctl, runtimes, calls>>

StopPoints == {"cancel", "wait", "timeout"}

\* Types; a stop call that went past its nil check holds a runtime.
TypeOK ==
    /\ cancel \in Gens \cup {NoRuntime}
    /\ done \in Gens \cup {NoRuntime}
    /\ owner \in Owners \cup {Blank}
    /\ listen \in BOOLEAN
    /\ lastError \in Errors
    /\ stage \in Stages
    /\ generation \in 0..MaxGen
    /\ ctx \in [Gens -> BOOLEAN]
    /\ sock \in [Gens -> {"none", "open", "closed"}]
    /\ srv \in [Gens -> {"none", "spawned", "serving", "returned", "cleaned", "done"}]
    /\ startedBy \in [Gens -> Owners \cup {Blank}]
    /\ pc \in [Callers -> {"idle", "start", "init_error", "bind_error",
                           "cancel", "wait", "timeout"}]
    /\ arg \in [Callers -> Owners \cup {Blank}]
    /\ target \in [Callers -> Gens \cup {NoRuntime}]
    /\ \A c \in Callers : pc[c] \in StopPoints => target[c] \in Gens

Init ==
    /\ cancel = NoRuntime /\ done = NoRuntime
    /\ owner = Blank /\ listen = FALSE
    /\ lastError = "none" /\ stage = "none" /\ generation = 0
    /\ ctx = [g \in Gens |-> FALSE]
    /\ sock = [g \in Gens |-> "none"]
    /\ srv = [g \in Gens |-> "none"]
    /\ startedBy = [g \in Gens |-> Blank]
    /\ pc = [c \in Callers |-> "idle"]
    /\ arg = [c \in Callers |-> Blank]
    /\ target = [c \in Callers |-> NoRuntime]

-----------------------------------------------------------------------------
\* A call ends and its local variables go out of scope.
Return(c) ==
    /\ pc' = [pc EXCEPT ![c] = "idle"]
    /\ arg' = [arg EXCEPT ![c] = Blank]
    /\ target' = [target EXCEPT ![c] = NoRuntime]

(* StartOwned *)

\* A blank owner starts a runtime as "legacy".
StartOwner(o) == IF o = Blank THEN Legacy ELSE o

\* The configuration parses; clientapp.New succeeds, or fails and the call
\* goes on to record the error.
StartOwned(c, o) ==
    /\ pc[c] = "idle"
    /\ pc' \in {[pc EXCEPT ![c] = p] : p \in {"start", "init_error"}}
    /\ arg' = [arg EXCEPT ![c] = StartOwner(o)]
    /\ UNCHANGED <<ctl, runtimes, target>>

\* setControllerError, which takes the lock again after the failing step
\* released it (or never held it).
SetControllerError(c) ==
    /\ \/ pc[c] = "init_error" /\ stage' = "client-runtime-init" /\ lastError' = "init"
       \/ pc[c] = "bind_error" /\ stage' = "listener-bind" /\ lastError' = "bind"
    /\ Return(c)
    /\ UNCHANGED <<cancel, done, owner, listen, generation, runtimes>>

\* Mutants: a runtime that is being stopped does not count; the owner itself
\* may start again.
BusyUnlessStopping(o) == cancel # NoRuntime /\ ~ctx[cancel]
BusyForOthers(o) == cancel # NoRuntime /\ owner # o

\* controller.cancel != nil
Busy(o) == cancel # NoRuntime

\* A runtime exists: "" for its owner, "runtime already owned by ..." for
\* anybody else.
StartWhileRunning(c) ==
    /\ pc[c] = "start"
    /\ Busy(arg[c])
    /\ Return(c)
    /\ UNCHANGED <<ctl, runtimes>>

\* net.Listen fails: the port is taken, by a listener of this process that is
\* still open or by somebody else.
StartBindFails(c) ==
    /\ pc[c] = "start"
    /\ ~Busy(arg[c])
    /\ pc' = [pc EXCEPT ![c] = "bind_error"]
    /\ UNCHANGED <<ctl, runtimes, arg, target>>

PortFree == \A g \in Gens : sock[g] # "open"

\* The rest of the critical section: bind, publish the new runtime, spawn its
\* two goroutines.
StartListening(c) ==
    /\ pc[c] = "start"
    /\ ~Busy(arg[c])
    /\ PortFree
    /\ generation < MaxGen
    /\ LET g == generation + 1 IN
       /\ generation' = g
       /\ cancel' = g
       /\ done' = g
       /\ owner' = arg[c]
       /\ listen' = TRUE
       /\ lastError' = "none"
       /\ stage' = "listener-ready"
       /\ sock' = [sock EXCEPT ![g] = "open"]
       /\ srv' = [srv EXCEPT ![g] = "spawned"]
       /\ startedBy' = [startedBy EXCEPT ![g] = arg[c]]
    /\ Return(c)
    /\ UNCHANGED ctx

-----------------------------------------------------------------------------
(* The goroutines of a runtime *)

\* Mutant: nobody closes the listener.
CloseListenerMissing(g) == FALSE /\ UNCHANGED vars

\* <-ctx.Done(); listener.Close()
CloseListener(g) ==
    /\ sock[g] = "open"
    /\ ctx[g]
    /\ sock' = [sock EXCEPT ![g] = "closed"]
    /\ UNCHANGED <<ctl, ctx, srv, startedBy, calls>>

\* First critical section of the serving goroutine, then app.Serve.
ServeBegin(g) ==
    /\ srv[g] = "spawned"
    /\ srv' = [srv EXCEPT ![g] = "serving"]
    /\ stage' = IF generation = g THEN "runtime-serving" ELSE stage
    /\ UNCHANGED <<cancel, done, owner, listen, lastError, generation,
                   ctx, sock, startedBy, calls>>

\* app.Serve returns (always with an error) because the listener was closed.
ServeClosed(g) ==
    /\ srv[g] = "serving"
    /\ sock[g] = "closed"
    /\ srv' = [srv EXCEPT ![g] = "returned"]
    /\ UNCHANGED <<ctl, ctx, sock, startedBy, calls>>

\* app.Serve returns because an engine store could not be loaded or because
\* Accept failed on an open listener.
ServeFails(g) ==
    /\ srv[g] = "serving"
    /\ sock[g] = "open"
    /\ srv' = [srv EXCEPT ![g] = "returned"]
    /\ UNCHANGED <<ctl, ctx, sock, startedBy, calls>>

\* The fields the last critical section resets.
ForgetRuntime ==
    /\ cancel' = NoRuntime
    /\ done' = NoRuntime
    /\ owner' = Blank
    /\ listen' = FALSE

\* Last critical section of the serving goroutine.
ServeCleanup(g) ==
    /\ srv[g] = "returned"
    /\ srv' = [srv EXCEPT ![g] = "cleaned"]
    /\ IF generation = g
       THEN /\ stage' = IF ctx[g] THEN "stopped" ELSE "listener-stopped"
            /\ lastError' = IF ctx[g] THEN lastError ELSE "listener-stopped"
            /\ ForgetRuntime
            /\ UNCHANGED generation
       ELSE UNCHANGED ctl
    /\ UNCHANGED <<ctx, sock, startedBy, calls>>

\* close(done)
ServeDone(g) ==
    /\ srv[g] = "cleaned"
    /\ srv' = [srv EXCEPT ![g] = "done"]
    /\ UNCHANGED <<ctl, ctx, sock, startedBy, calls>>

-----------------------------------------------------------------------------
(* stopOwned *)

\* Mutant: no nil check.
StoppableNil(o) == o = Blank \/ owner = o

\* A stop with a name applies to that owner's runtime, a blank one to any.
Stoppable(o) == cancel # NoRuntime /\ (o = Blank \/ owner = o)

\* First critical section: capture cancel and done.  Without a runtime, or
\* with another owner's, the call returns and changes nothing.
StopOwned(c, o) ==
    /\ pc[c] = "idle"
    /\ Stoppable(o)
    /\ target' = [target EXCEPT ![c] = cancel]
    /\ arg' = [arg EXCEPT ![c] = o]
    /\ pc' = [pc EXCEPT ![c] = "cancel"]
    /\ UNCHANGED <<ctl, runtimes>>

\* Mutant: cancel whatever runtime is current by now.
StopCancelCurrent(c) ==
    /\ pc[c] = "cancel"
    /\ ctx' = [g \in Gens |-> ctx[g] \/ g = cancel]
    /\ pc' = [pc EXCEPT ![c] = "wait"]
    /\ UNCHANGED <<ctl, sock, srv, startedBy, arg, target>>

\* cancel(), outside the lock.
StopCancel(c) ==
    /\ pc[c] = "cancel"
    /\ ctx' = [ctx EXCEPT ![target[c]] = TRUE]
    /\ pc' = [pc EXCEPT ![c] = "wait"]
    /\ UNCHANGED <<ctl, sock, srv, startedBy, arg, target>>

\* Mutant: done is closed before the cleanup.
DoneClosedEarly(g) == srv[g] \in {"returned", "cleaned", "done"}

\* done is closed.
DoneClosed(g) == srv[g] = "done"

StopReturns(c) ==
    /\ pc[c] = "wait"
    /\ DoneClosed(target[c])
    /\ Return(c)
    /\ UNCHANGED <<ctl, runtimes>>

\* Two seconds passed (the select may also pick this case when done is closed).
StopTimesOut(c) ==
    /\ pc[c] = "wait"
    /\ pc' = [pc EXCEPT ![c] = "timeout"]
    /\ UNCHANGED <<ctl, runtimes, arg, target>>

StopRecordTimeout(c) ==
    /\ pc[c] = "timeout"
    /\ lastError' = IF cancel # NoRuntime THEN "stop-timed-out" ELSE lastError
    /\ Return(c)
    /\ UNCHANGED <<cancel, done, owner, listen, stage, generation, runtimes>>

-----------------------------------------------------------------------------
StartSteps(c) ==
    \/ SetControllerError(c)
    \/ StartWhileRunning(c)
    \/ StartBindFails(c)
    \/ StartListening(c)

StopSteps(c) ==
    \/ StopCancel(c)
    \/ StopReturns(c)
    \/ StopTimesOut(c)
    \/ StopRecordTimeout(c)

Caller(c) ==
    \/ \E o \in Owners \cup {Blank} : StartOwned(c, o) \/ StopOwned(c, o)
    \/ StartSteps(c)
    \/ StopSteps(c)

ServeStep(g) ==
    \/ ServeBegin(g)
    \/ ServeClosed(g)
    \/ ServeFails(g)
    \/ ServeCleanup(g)
    \/ ServeDone(g)

Next ==
    \/ \E c \in Callers : Caller(c)
    \/ \E g \in Gens : CloseListener(g) \/ ServeStep(g)

Spec == Init /\ [][Next]_vars

\* Goroutines are scheduled and timers fire; nobody has to make a call.
\* Nothing makes app.Serve fail, so ServeFails carries no fairness.
Fairness ==
    /\ \A c \in Callers : WF_vars(StopSteps(c)) /\ WF_vars(StartSteps(c))
    /\ \A g \in Gens :
         /\ WF_vars(CloseListener(g))
         /\ WF_vars(ServeBegin(g) \/ ServeClosed(g) \/ ServeCleanup(g) \/ ServeDone(g))

FairSpec == Spec /\ Fairness

-----------------------------------------------------------------------------
(* Properties *)

Unfinished(g) == srv[g] \in {"spawned", "serving", "returned"}

\* The generation check of the serving goroutine (mobile.go:319, 326) is
\* never what saves the controller: a goroutine that has not yet run its
\* cleanup is always the current generation's, and the controller describes
\* exactly that runtime.
RuntimeIsCurrent ==
    \A g \in Gens : Unfinished(g) =>
        /\ generation = g
        /\ cancel = g
        /\ done = g
        /\ owner = startedBy[g]
        /\ listen

\* Conversely a controller that reports a runtime has one whose cleanup is
\* still to come, so it cannot stay "running" after its goroutine is gone.
RunningHasRuntime == cancel # NoRuntime => Unfinished(cancel)

\* The record of the controller and the runtime there is are one and the same,
\* whatever starts, stops and cleanups interleave (mobile.go:326).
RecordIsRuntime == RuntimeIsCurrent /\ RunningHasRuntime

\* A stop call that captured a runtime under the lock can only ever cancel
\* the runtime of the owner it named, however late its cancel() runs and
\* whoever has taken over since ("A stale Android sidecar callback can
\* therefore no longer stop a newer VPN runtime", mobile.go:266).
StopTargetsOwner ==
    \A c \in Callers : pc[c] \in StopPoints =>
        arg[c] \in {Blank, startedBy[target[c]]}

\* The same as a step property: a context is cancelled only by a stop call
\* that names its owner, or none.
OnlyOwnerCancels ==
    [][\A g \in Gens : ctx'[g] /\ ~ctx[g] =>
          \E c \in Callers : /\ pc[c] = "cancel"
                             /\ target[c] = g
                             /\ arg[c] \in {Blank, startedBy[g]}]_vars

\* When a stop call comes back without timing out, Running() no longer
\* reports the runtime it was called for (mobile_test.go checks it for one
\* thread).
StoppedIsGone ==
    [][\A c \in Callers : pc[c] = "wait" /\ pc'[c] = "idle" => cancel # target[c]]_vars

\* A runtime that was told to stop gives up its port and finishes, whatever
\* the order of its two goroutines.
CancelledFinishes ==
    \A g \in Gens : ctx[g] ~> (sock[g] = "closed" /\ srv[g] = "done")

\* Every stop call returns.
StopCallsReturn ==
    \A c \in Callers : pc[c] \in StopPoints ~> pc[c] = "idle"

\* Stopping ends, for the runtime and for the caller (mobile.go:312-315 and
\* 372-384).
StopsComplete == CancelledFinishes /\ StopCallsReturn

\* The controller implements the ownership protocol its callers rely on.
Phase == IF cancel = NoRuntime THEN "free"
         ELSE IF ctx[cancel] THEN "stopping" ELSE "held"

Ownership == INSTANCE RuntimeOwnership
                 WITH Nobody <- Blank, holder <- owner, phase <- Phase,
                      runs <- generation

OwnershipSpec == Ownership!Spec

\* The controller reports stage "listener-stopped" and the error "listener
\* stopped: ..." (mobile.go:328-329): the listener of a runtime that is
\* reported as stopped gets closed.
ReportedStoppedIsClosed ==
    \A g \in Gens :
        (stage = "listener-stopped" /\ generation = g) ~> sock[g] = "closed"
=================================================================================
