------------------------- MODULE MobileControllerProofs -------------------------
(***************************************************************************)
(* MobileController proved for every set of callers and owners and every   *)
(* number of runtimes: the invariants the runs check, the two step         *)
(* properties, and the refinement of RuntimeOwnership.                     *)
(***************************************************************************)
EXTENDS MobileController, TLAPS

\* Generations above the counter are untouched, those below have been
\* started; a stop call holds a generation that was started.
GenerationsInOrder ==
    /\ \A g \in Gens : g > generation => srv[g] = "none" /\ ~ctx[g]
    /\ \A g \in Gens : g <= generation => srv[g] # "none"
    /\ \A c \in Callers : pc[c] \in StopPoints => target[c] <= generation

\* A start call carries a name; StartOwned has replaced a blank one.
StartsAreNamed == \A c \in Callers : pc[c] = "start" => arg[c] \in Owners

IInv ==
    /\ TypeOK
    /\ StartsAreNamed
    /\ RuntimeIsCurrent
    /\ RunningHasRuntime
    /\ StopTargetsOwner
    /\ GenerationsInOrder

LEMMA InitEstablishes == Init => IInv
  <1> SUFFICES ASSUME Init PROVE IInv
    OBVIOUS
  <1> USE MobileAssumption DEF Init, Gens, NoRuntime, StopPoints
  <1>1. TypeOK
    <2>1. /\ cancel \in Gens \cup {NoRuntime} /\ done \in Gens \cup {NoRuntime}
          /\ owner \in Owners \cup {Blank} /\ generation \in 0..MaxGen
          /\ lastError \in Errors /\ stage \in Stages
      BY DEF Stages, Errors
    <2>2. /\ listen \in BOOLEAN
          /\ ctx \in [Gens -> BOOLEAN]
      BY DEF Gens
    <2> QED
      BY <2>1, <2>2 DEF TypeOK
  <1>2. RuntimeIsCurrent /\ RunningHasRuntime
    BY DEF RuntimeIsCurrent, RunningHasRuntime, Unfinished
  <1>3. StopTargetsOwner /\ StartsAreNamed
    BY DEF StopTargetsOwner, StartsAreNamed
  <1>4. GenerationsInOrder
    BY DEF GenerationsInOrder
  <1> QED
    BY <1>1, <1>2, <1>3, <1>4 DEF IInv

LEMMA TypePreserved == TypeOK /\ [Next]_vars => TypeOK'
  <1> SUFFICES ASSUME TypeOK, [Next]_vars PROVE TypeOK'
    OBVIOUS
  <1> USE MobileAssumption DEF TypeOK, ctl, runtimes, calls, Gens, NoRuntime,
                               StopPoints, Stages, Errors
  <1>1. CASE UNCHANGED vars
    BY <1>1 DEF vars
  <1>2. ASSUME NEW c \in Callers, NEW o \in Owners \cup {Blank}, StartOwned(c, o)
        PROVE TypeOK'
    BY <1>2, SMTT(30) DEF StartOwned, StartOwner
  <1>3. ASSUME NEW c \in Callers, NEW o \in Owners \cup {Blank}, StopOwned(c, o)
        PROVE TypeOK'
    BY <1>3 DEF StopOwned, Stoppable
  <1>4. ASSUME NEW c \in Callers, SetControllerError(c) PROVE TypeOK'
    BY <1>4 DEF SetControllerError, Return
  <1>5. ASSUME NEW c \in Callers, StartWhileRunning(c) PROVE TypeOK'
    BY <1>5 DEF StartWhileRunning, Return
  <1>6. ASSUME NEW c \in Callers, StartBindFails(c) PROVE TypeOK'
    BY <1>6 DEF StartBindFails
  <1>7. ASSUME NEW c \in Callers, StartListening(c) PROVE TypeOK'
    BY <1>7 DEF StartListening, Return
  <1>8. ASSUME NEW c \in Callers, StopCancel(c) PROVE TypeOK'
    BY <1>8 DEF StopCancel
  <1>9. ASSUME NEW c \in Callers, StopReturns(c) PROVE TypeOK'
    BY <1>9 DEF StopReturns, Return
  <1>10. ASSUME NEW c \in Callers, StopTimesOut(c) PROVE TypeOK'
    BY <1>10 DEF StopTimesOut
  <1>11. ASSUME NEW c \in Callers, StopRecordTimeout(c) PROVE TypeOK'
    BY <1>11 DEF StopRecordTimeout, Return
  <1>12. ASSUME NEW g \in Gens, CloseListener(g) PROVE TypeOK'
    BY <1>12 DEF CloseListener
  <1>13. ASSUME NEW g \in Gens, ServeBegin(g) PROVE TypeOK'
    BY <1>13 DEF ServeBegin
  <1>14. ASSUME NEW g \in Gens, ServeClosed(g) \/ ServeFails(g) \/ ServeDone(g)
         PROVE TypeOK'
    BY <1>14 DEF ServeClosed, ServeFails, ServeDone
  <1>15. ASSUME NEW g \in Gens, ServeCleanup(g) PROVE TypeOK'
    BY <1>15 DEF ServeCleanup, ForgetRuntime
  <1> QED
    BY <1>1, <1>2, <1>3, <1>4, <1>5, <1>6, <1>7, <1>8, <1>9, <1>10, <1>11, <1>12,
       <1>13, <1>14, <1>15
    DEF Next, Caller, StartSteps, StopSteps, ServeStep

LEMMA StepPreserves == IInv /\ [Next]_vars => IInv'
  <1> SUFFICES ASSUME IInv, [Next]_vars PROVE IInv'
    OBVIOUS
  <1>t. TypeOK'
    BY TypePreserved DEF IInv
  <1> USE MobileAssumption, <1>t
      DEF IInv, TypeOK, RuntimeIsCurrent, RunningHasRuntime, StopTargetsOwner,
          GenerationsInOrder, StartsAreNamed, Unfinished, ctl, runtimes, calls,
          Gens, NoRuntime, StopPoints
  <1>1. CASE UNCHANGED vars
    BY <1>1 DEF vars
  <1>2. ASSUME NEW c \in Callers, NEW o \in Owners \cup {Blank}, StartOwned(c, o)
        PROVE IInv'
    BY <1>2, SMTT(30) DEF StartOwned, StartOwner
  <1>3. ASSUME NEW c \in Callers, NEW o \in Owners \cup {Blank}, StopOwned(c, o)
        PROVE IInv'
    BY <1>3 DEF StopOwned, Stoppable
  <1>4. ASSUME NEW c \in Callers, SetControllerError(c) PROVE IInv'
    BY <1>4 DEF SetControllerError, Return
  <1>5. ASSUME NEW c \in Callers, StartWhileRunning(c) PROVE IInv'
    BY <1>5 DEF StartWhileRunning, Return
  <1>6. ASSUME NEW c \in Callers, StartBindFails(c) PROVE IInv'
    BY <1>6 DEF StartBindFails
  <1>7. ASSUME NEW c \in Callers, StartListening(c) PROVE IInv'
    <2>1. \A g \in Gens : ~Unfinished(g)
      BY <1>7 DEF StartListening, Busy
    <2> QED
      BY <1>7, <2>1 DEF StartListening, Return, Busy
  <1>8. ASSUME NEW c \in Callers, StopCancel(c) PROVE IInv'
    BY <1>8 DEF StopCancel
  <1>9. ASSUME NEW c \in Callers, StopReturns(c) PROVE IInv'
    BY <1>9 DEF StopReturns, Return
  <1>10. ASSUME NEW c \in Callers, StopTimesOut(c) PROVE IInv'
    BY <1>10 DEF StopTimesOut
  <1>11. ASSUME NEW c \in Callers, StopRecordTimeout(c) PROVE IInv'
    BY <1>11 DEF StopRecordTimeout, Return
  <1>12. ASSUME NEW g \in Gens, CloseListener(g) PROVE IInv'
    BY <1>12 DEF CloseListener
  <1>13. ASSUME NEW g \in Gens, ServeBegin(g) PROVE IInv'
    BY <1>13 DEF ServeBegin
  <1>14. ASSUME NEW g \in Gens, ServeClosed(g) \/ ServeFails(g) \/ ServeDone(g)
         PROVE IInv'
    <2>1. CASE ServeClosed(g)
      BY <2>1 DEF ServeClosed
    <2>2. CASE ServeFails(g)
      BY <2>2 DEF ServeFails
    <2>3. CASE ServeDone(g)
      BY <2>3 DEF ServeDone
    <2> QED
      BY <1>14, <2>1, <2>2, <2>3
  <1>15. ASSUME NEW g \in Gens, ServeCleanup(g) PROVE IInv'
    BY <1>15 DEF ServeCleanup, ForgetRuntime
  <1> QED
    BY <1>1, <1>2, <1>3, <1>4, <1>5, <1>6, <1>7, <1>8, <1>9, <1>10, <1>11, <1>12,
       <1>13, <1>14, <1>15
    DEF Next, Caller, StartSteps, StopSteps, ServeStep

LEMMA Invariance == Spec => []IInv
  BY InitEstablishes, StepPreserves, PTL DEF Spec

-----------------------------------------------------------------------------
\* Type correctness of the controller, its runtimes and its callers.
THEOREM TypeCorrect == Spec => []TypeOK
  <1>1. IInv => TypeOK
    BY DEF IInv
  <1> QED
    BY Invariance, <1>1, PTL

\* At most one runtime is unfinished, and the controller's fields describe
\* exactly it: StartOwned never publishes over a runtime whose goroutine
\* still has its cleanup to run.
THEOREM OneRuntime == Spec => []RecordIsRuntime
  <1>1. IInv => RecordIsRuntime
    BY DEF IInv, RecordIsRuntime
  <1> QED
    BY Invariance, <1>1, PTL

\* A stop call in progress holds a runtime of the owner it names.
THEOREM StopsNameTheOwner == Spec => []StopTargetsOwner
  <1>1. IInv => StopTargetsOwner
    BY DEF IInv
  <1> QED
    BY Invariance, <1>1, PTL
-----------------------------------------------------------------------------
\* Only a stop call that names the owner of a runtime, or no owner, cancels
\* its context (mobile.go:265-266), however late its cancel() runs.
THEOREM OwnerCancels == Spec => OnlyOwnerCancels
  <1> DEFINE Step == \A g \in Gens : ctx'[g] /\ ~ctx[g] =>
                        \E c \in Callers : /\ pc[c] = "cancel"
                                           /\ target[c] = g
                                           /\ arg[c] \in {Blank, startedBy[g]}
  <1>1. IInv /\ [Next]_vars => [Step]_vars
    <2> SUFFICES ASSUME IInv, Next PROVE Step
      BY DEF vars
    <2>1. ASSUME NEW c \in Callers, StopCancel(c) PROVE Step
      BY <2>1 DEF StopCancel, IInv, TypeOK, StopTargetsOwner, StopPoints
    <2>2. ASSUME ctx' = ctx PROVE Step
      BY <2>2
    <2> QED
      BY <2>1, <2>2
      DEF Next, Caller, StartSteps, StopSteps, ServeStep, StartOwned, StopOwned,
          SetControllerError, StartWhileRunning, StartBindFails, StartListening,
          StopReturns, StopTimesOut, StopRecordTimeout, CloseListener, ServeBegin,
          ServeClosed, ServeFails, ServeDone, ServeCleanup, runtimes
  <1> QED
    BY Invariance, <1>1, PTL DEF Spec, OnlyOwnerCancels

\* A stop call that returns without timing out leaves the controller without
\* the runtime it was called for.
THEOREM StopIsEffective == Spec => StoppedIsGone
  <1> DEFINE Step == \A c \in Callers :
                        pc[c] = "wait" /\ pc'[c] = "idle" => cancel # target[c]
  <1>1. IInv /\ [Next]_vars => [Step]_vars
    <2> SUFFICES ASSUME IInv, Next, NEW c \in Callers,
                        pc[c] = "wait", pc'[c] = "idle"
                 PROVE  cancel # target[c]
      BY DEF vars
    <2>1. pc \in [Callers -> {"idle", "start", "init_error", "bind_error",
                             "cancel", "wait", "timeout"}]
      BY DEF IInv, TypeOK
    <2>2. ASSUME NEW d \in Callers, Caller(d) PROVE StopReturns(c)
      <3>1. CASE \E o \in Owners \cup {Blank} : StartOwned(d, o) \/ StopOwned(d, o)
        BY <2>1, <3>1 DEF StartOwned, StopOwned
      <3>2. CASE StartSteps(d)
        BY <2>1, <3>2 DEF StartSteps, SetControllerError, StartWhileRunning, StartBindFails,
                          StartListening, Return
      <3>3. CASE StopSteps(d)
        BY <2>1, <3>3 DEF StopSteps, StopCancel, StopReturns, StopTimesOut,
                          StopRecordTimeout, Return
      <3> QED
        BY <2>2, <3>1, <3>2, <3>3 DEF Caller
    <2>3. ASSUME NEW g \in Gens, CloseListener(g) \/ ServeStep(g) PROVE FALSE
      BY <2>3 DEF ServeStep, CloseListener, ServeBegin, ServeClosed, ServeFails,
                  ServeCleanup, ServeDone, calls
    <2>4. StopReturns(c)
      BY <2>2, <2>3 DEF Next
    <2> QED
      BY <2>4 DEF StopReturns, DoneClosed, IInv, TypeOK, RunningHasRuntime, Unfinished,
                  StopPoints, Gens, NoRuntime
  <1> QED
    BY Invariance, <1>1, PTL DEF Spec, StoppedIsGone

\* The controller implements RuntimeOwnership: starts are acquisitions of a
\* free runtime, cancel() is a request to stop, and the cleanup of the serving
\* goroutine is the release; every other step changes none of the three.
THEOREM ImplementsOwnership == Spec => OwnershipSpec
  <1>1. Init => Ownership!Init
    BY DEF Init, Ownership!Init, Phase
  <1>2. IInv /\ [Next]_vars => [Ownership!Next]_(Ownership!vars)
    <2> SUFFICES ASSUME IInv, [Next]_vars
                 PROVE  Ownership!Next \/ UNCHANGED <<owner, Phase, generation>>
      BY DEF Ownership!vars
    <2> USE MobileAssumption DEF Phase, Gens, NoRuntime
    <2>1. ASSUME NEW c \in Callers, StartListening(c) PROVE Ownership!Next
      <3>1. Phase = "free" /\ Phase' = "held"
        BY <2>1 DEF StartListening, Busy, IInv, TypeOK, GenerationsInOrder
      <3>2. owner' = arg[c] /\ generation' = generation + 1
        BY <2>1 DEF StartListening
      <3> QED
        BY <2>1, <3>1, <3>2 DEF StartListening, Ownership!Next, Ownership!Acquire, IInv,
                                StartsAreNamed
    <2>2. ASSUME NEW c \in Callers, StopCancel(c)
          PROVE  Ownership!Next \/ UNCHANGED <<owner, Phase, generation>>
      BY <2>2 DEF StopCancel, ctl, Ownership!Next, Ownership!RequestStop, IInv, TypeOK,
                  StopPoints
    <2>3. ASSUME NEW g \in Gens, ServeCleanup(g) PROVE Ownership!Next
      BY <2>3 DEF ServeCleanup, ForgetRuntime, Ownership!Next, Ownership!Release,
                  IInv, TypeOK, RuntimeIsCurrent, Unfinished
    <2>4. ASSUME UNCHANGED <<cancel, owner, generation, ctx>>
          PROVE  UNCHANGED <<owner, Phase, generation>>
      BY <2>4
    <2> QED
      BY <2>1, <2>2, <2>3, <2>4
      DEF Next, Caller, StartSteps, StopSteps, ServeStep, StartOwned, StopOwned,
          SetControllerError, StartWhileRunning, StartBindFails, StopReturns,
          StopTimesOut, StopRecordTimeout, CloseListener, ServeBegin, ServeClosed,
          ServeFails, ServeDone, ctl, runtimes, vars
  <1> QED
    BY <1>1, <1>2, Invariance, PTL DEF Spec, OwnershipSpec, Ownership!Spec
=================================================================================
