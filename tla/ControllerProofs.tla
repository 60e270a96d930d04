--------------------------- MODULE ControllerProofs ---------------------------
(***************************************************************************)
(* Machine-checked proofs about RuntimeGate and Controller, for any finite *)
(* set of callbacks and any bounds.                                        *)
(*                                                                         *)
(* GateInv strengthens DrainedIsQuiet to an inductive invariant of the     *)
(* gate: the counter must be exact for "inFlight = 0" to mean that nobody  *)
(* is inside, and the gate must stay closed while the stop waits and after *)
(* it drained.  Every controller step is a step of the gate or leaves the  *)
(* gate alone, so the gate's invariant carries over; CtlInv adds where the *)
(* controller may be while the gate is open, drained or empty.             *)
(***************************************************************************)
EXTENDS Controller, FiniteSetTheorems, TLAPS

ClosedForStop == stopper # "idle" => ~enabled

GateInv ==
  /\ GateTypeOK
  /\ InFlightExact
  /\ ClosedForStop
  /\ DrainedIsQuiet

-----------------------------------------------------------------------------
\* The state before any callback satisfies the invariant.
LEMMA GateInitInv == GateInit => GateInv
<1> SUFFICES ASSUME GateInit PROVE GateInv
  OBVIOUS
<1>1. Cardinality({}) = 0
  BY FS_EmptySet
<1>2. InFlightExact
  BY <1>1 DEF GateInit, InFlightExact
<1>3. GateTypeOK /\ ClosedForStop /\ DrainedIsQuiet
  BY DEF GateInit, GateTypeOK, StopperStates, ClosedForStop, DrainedIsQuiet
<1> QED
  BY <1>2, <1>3 DEF GateInv

\* Entering and leaving move the counter and the set of callbacks together.
LEMMA EnterKeepsGateInv ==
  ASSUME GateInv, NEW c \in Callbacks, Enter(c)
  PROVE  GateInv'
<1>1. IsFiniteSet(entered)
  BY CallbacksFinite, FS_Subset DEF GateInv, GateTypeOK
<1>2. Cardinality(entered \cup {c}) = Cardinality(entered) + 1
  BY <1>1, FS_AddElement DEF Enter
<1> QED
  BY <1>2 DEF GateInv, GateTypeOK, InFlightExact, ClosedForStop, DrainedIsQuiet, Enter

LEMMA LeaveKeepsGateInv ==
  ASSUME GateInv, NEW c \in Callbacks, Leave(c)
  PROVE  GateInv'
<1>1. IsFiniteSet(entered)
  BY CallbacksFinite, FS_Subset DEF GateInv, GateTypeOK
<1>2. IsFiniteSet(entered \ {c}) /\ Cardinality(entered \ {c}) = Cardinality(entered) - 1
  BY <1>1, FS_RemoveElement DEF Leave
<1>3. Cardinality(entered \ {c}) \in Nat
  BY <1>2, FS_CardinalityType
<1> QED
  BY <1>2, <1>3
  DEF GateInv, GateTypeOK, InFlightExact, ClosedForStop, DrainedIsQuiet, Leave

\* A count of zero means an empty gate: what stopFor may conclude.
LEMMA ZeroMeansEmpty ==
  ASSUME GateInv, Drained
  PROVE  entered = {}
<1>1. IsFiniteSet(entered)
  BY CallbacksFinite, FS_Subset DEF GateInv, GateTypeOK
<1> QED
  BY <1>1, FS_EmptySet DEF GateInv, InFlightExact, Drained

LEMMA StopKeepsGateInv ==
  ASSUME GateInv, Start \/ StopFor \/ StopForWakes \/ StopForTimesOut
  PROVE  GateInv'
<1>1. CASE Start
  BY <1>1 DEF GateInv, GateTypeOK, StopperStates, InFlightExact, ClosedForStop,
              DrainedIsQuiet, Start
<1>2. CASE StopFor
  BY <1>2, ZeroMeansEmpty
  DEF GateInv, GateTypeOK, StopperStates, InFlightExact, ClosedForStop,
      DrainedIsQuiet, StopFor
<1>3. CASE StopForWakes
  BY <1>3, ZeroMeansEmpty
  DEF GateInv, GateTypeOK, StopperStates, InFlightExact, ClosedForStop,
      DrainedIsQuiet, StopForWakes
<1>4. CASE StopForTimesOut
  BY <1>4 DEF GateInv, GateTypeOK, StopperStates, InFlightExact, ClosedForStop,
              DrainedIsQuiet, StopForTimesOut
<1> QED
  BY <1>1, <1>2, <1>3, <1>4

\* Every step of the gate, and every step that leaves its variables alone,
\* preserves the invariant.
LEMMA GateStepInv ==
  ASSUME GateInv, [GateNext]_gateVars
  PROVE  GateInv'
<1>1. CASE \E c \in Callbacks : Enter(c) \/ Leave(c)
  BY <1>1, EnterKeepsGateInv, LeaveKeepsGateInv
<1>2. CASE Start \/ StopFor \/ StopForWakes \/ StopForTimesOut
  BY <1>2, StopKeepsGateInv
<1>3. CASE UNCHANGED gateVars
  BY <1>3 DEF gateVars, GateInv, GateTypeOK, InFlightExact, ClosedForStop, DrainedIsQuiet
<1> QED
  BY <1>1, <1>2, <1>3 DEF GateNext

\* A gate whose stopFor returned true stays empty until start() reopens it
\* (runtime_gate.h:7), however many callbacks there are.
THEOREM GateDrains == GateSpec => [](DrainedIsQuiet /\ InFlightExact)
<1>1. GateInit => GateInv
  BY GateInitInv
<1>2. GateInv /\ [GateNext]_gateVars => GateInv'
  BY GateStepInv
<1>3. GateInv => DrainedIsQuiet /\ InFlightExact
  BY DEF GateInv
<1> QED
  BY <1>1, <1>2, <1>3, PTL DEF GateSpec

-----------------------------------------------------------------------------
\* No session: the gate is closed, nobody is inside, nothing is acquired.
Vacant == ~enabled /\ entered = {} /\ live = {}

CtlTypes ==
  /\ active \in BOOLEAN
  /\ clean \in BOOLEAN
  /\ ret \in {"begin", "keys", "wait", "exited"}

CtlInv ==
  /\ CtlTypes
  /\ pc = "drain" => stopper # "idle"
  /\ pc = "cleanup" => stopper = "drained"
  /\ pc \in Startup => ~active
  /\ pc \in {"install", "open"} => Vacant
  /\ clean /\ ~active /\ pc \notin Startup \cup Stopping => Vacant

IInv == GateInv /\ CtlInv

-----------------------------------------------------------------------------
\* Each step of the system drives the gate by one of its own actions, or not
\* at all.
LEMMA StepsRefineGate ==
  ASSUME [Next]_vars
  PROVE  [GateNext]_gateVars
<1>1. CASE OpenGate
  BY <1>1 DEF OpenGate, GateNext
<1>2. CASE RequestStop
  BY <1>2 DEF RequestStop, GateNext
<1>3. CASE Wakes \/ TimesOut
  BY <1>3 DEF Wakes, TimesOut, GateNext
<1>4. CASE \E c \in Callbacks : Callback(c)
  BY <1>4 DEF Callback, GateNext
<1>5. CASE \E c \in Callbacks : UseSession(c)
  BY <1>5 DEF UseSession
<1>6. CASE RetryStop \/ NoRetry \/ BeginStart \/ NoStart \/ DelCancels \/ Install
  BY <1>6 DEF RetryStop, NoRetry, BeginStart, NoStart, DelCancels, Install
<1>7. CASE InstallHook \/ InstallBServer \/ Capture \/ DrainReturns \/ Cleanup
  BY <1>7 DEF InstallHook, InstallBServer, Capture, DrainReturns, Cleanup
<1>8. CASE PollKey \/ Wait \/ WaitFails \/ SetResume
  BY <1>8 DEF PollKey, Wait, WaitFails, SetResume
<1>9. CASE \E b \in BOOLEAN : RenderLeavesGate(b)
  BY <1>9 DEF RenderLeavesGate
<1>10. CASE UNCHANGED vars
  BY <1>10 DEF vars
<1> QED
  BY <1>1, <1>2, <1>3, <1>4, <1>5, <1>6, <1>7, <1>8, <1>9, <1>10
  DEF Next, ControllerNext

-----------------------------------------------------------------------------
LEMMA CtlInitInv == Init => CtlInv
  BY DEF Init, GateInit, CtlInv, CtlTypes, Vacant, Startup, Stopping

\* The steps between two stops that touch neither the gate nor the session.
LEMMA IdleStepsKeepCtlInv ==
  ASSUME IInv, RetryStop \/ NoRetry \/ BeginStart \/ NoStart
  PROVE  CtlInv'
<1> USE DEF IInv, CtlInv, CtlTypes, Vacant, Startup, Stopping, loopVars, envVars,
            sessionVars, gateVars, boundVars
<1>1. CASE RetryStop
  BY <1>1 DEF RetryStop, CallStop
<1>2. CASE NoRetry
  BY <1>2 DEF NoRetry
<1>3. CASE BeginStart
  BY <1>3 DEF BeginStart, MayStart
<1>4. CASE NoStart
  BY <1>4 DEF NoStart
<1> QED
  BY <1>1, <1>2, <1>3, <1>4

\* startSession: the session is vacant until the gate opens.
LEMMA StartupKeepsCtlInv ==
  ASSUME IInv, DelCancels \/ Install \/ OpenGate \/ InstallHook \/ InstallBServer \/ Capture
  PROVE  CtlInv'
<1> USE DEF IInv, CtlInv, CtlTypes, Vacant, Startup, Stopping, loopVars, envVars,
            sessionVars, gateVars, boundVars, CallStop
<1>1. CASE DelCancels
  BY <1>1 DEF DelCancels
<1>2. CASE Install
  BY <1>2 DEF Install
<1>3. CASE OpenGate
  BY <1>3 DEF OpenGate, Start
<1>4. CASE InstallHook
  BY <1>4 DEF InstallHook
<1>5. CASE InstallBServer
  BY <1>5 DEF InstallBServer
<1>6. CASE Capture
  <2>1. CASE CallStop("keys") /\ UNCHANGED <<live, active>>
    BY <1>6, <2>1 DEF Capture
  <2>2. CASE UNCHANGED <<pc, ret, live, active>>
    BY <1>6, <2>2 DEF Capture
  <2>3. CASE active' = TRUE /\ pc' = "keys" /\ UNCHANGED ret
    <3>1. /\ clean' = clean
          /\ UNCHANGED stopper
      BY <1>6 DEF Capture
    <3> QED
      BY <2>3, <3>1
  <2> QED
    BY <1>6, <2>1, <2>2, <2>3 DEF Capture
<1> QED
  BY <1>1, <1>2, <1>3, <1>4, <1>5, <1>6

\* stopSession: cleanup is reached only after a drain, and reports success
\* only with nothing left.
LEMMA StopKeepsCtlInv ==
  ASSUME IInv, RequestStop \/ Wakes \/ TimesOut \/ DrainReturns \/ Cleanup
  PROVE  CtlInv'
<1> USE DEF IInv, CtlInv, CtlTypes, Vacant, Startup, Stopping, loopVars, envVars,
            sessionVars, gateVars, boundVars
<1>1. CASE RequestStop
  BY <1>1 DEF RequestStop, StopFor
<1>2. CASE Wakes
  BY <1>2 DEF Wakes, StopForWakes
<1>3. CASE TimesOut
  BY <1>3 DEF TimesOut, StopForTimesOut
<1>4. CASE DrainReturns
  BY <1>4 DEF DrainReturns, StopReturns
<1>5. CASE Cleanup
  <2>1. ~enabled /\ entered = {}
    BY <1>5 DEF Cleanup, GateInv, ClosedForStop, DrainedIsQuiet
  <2>2. PICK ok \in BOOLEAN : (ok => live' = {}) /\ StopReturns(ok)
    BY <1>5 DEF Cleanup
  <2>3. ~enabled' /\ entered' = {} /\ ret' = ret
    BY <1>5, <2>1 DEF Cleanup
  <2>4. /\ pc' = ret
        /\ active' = FALSE
        /\ clean' \in BOOLEAN
        /\ clean' => live' = {}
    BY <2>2 DEF StopReturns
  <2> QED
    BY <2>3, <2>4
<1> QED
  BY <1>1, <1>2, <1>3, <1>4, <1>5

\* The keyboard, the launcher and the end of the loop.
LEMMA LoopEndKeepsCtlInv ==
  ASSUME IInv, PollKey \/ Wait \/ WaitFails \/ SetResume
  PROVE  CtlInv'
<1> USE DEF IInv, CtlInv, CtlTypes, Vacant, Startup, Stopping, loopVars, envVars,
            sessionVars, gateVars, boundVars, CallStop
<1>1. CASE PollKey
  BY <1>1 DEF PollKey
<1>2. CASE Wait
  BY <1>2 DEF Wait
<1>3. CASE WaitFails
  BY <1>3 DEF WaitFails
<1>4. CASE SetResume
  BY <1>4 DEF SetResume
<1> QED
  BY <1>1, <1>2, <1>3, <1>4

\* The other threads: a closed gate admits nobody, and only somebody inside
\* can bring a resource back.
LEMMA OtherThreadsKeepCtlInv ==
  ASSUME IInv,
         \/ \E c \in Callbacks : Callback(c) \/ UseSession(c)
         \/ \E b \in BOOLEAN : RenderLeavesGate(b)
  PROVE  CtlInv'
<1> USE DEF IInv, CtlInv, CtlTypes, Vacant, Startup, Stopping, loopVars, envVars,
            sessionVars, gateVars, boundVars
<1>1. ASSUME NEW c \in Callbacks, Enter(c), Callback(c) PROVE CtlInv'
  BY <1>1 DEF Callback, Enter
<1>2. ASSUME NEW c \in Callbacks, Leave(c), Callback(c) PROVE CtlInv'
  BY <1>2 DEF Callback, Leave
<1>3. ASSUME NEW c \in Callbacks, UseSession(c) PROVE CtlInv'
  BY <1>3 DEF UseSession
<1>4. ASSUME NEW b \in BOOLEAN, RenderLeavesGate(b) PROVE CtlInv'
  BY <1>4 DEF RenderLeavesGate
<1> QED
  BY <1>1, <1>2, <1>3, <1>4 DEF Callback

LEMMA CtlStepInv ==
  ASSUME IInv, [Next]_vars
  PROVE  CtlInv'
<1>1. CASE UNCHANGED vars
  BY <1>1 DEF vars, gateVars, loopVars, envVars, sessionVars, boundVars,
              IInv, CtlInv, CtlTypes, Vacant
<1> QED
  BY <1>1, IdleStepsKeepCtlInv, StartupKeepsCtlInv, StopKeepsCtlInv,
     LoopEndKeepsCtlInv, OtherThreadsKeepCtlInv
  DEF Next, ControllerNext

LEMMA InvariantHolds == Spec => []IInv
<1>1. Init => IInv
  BY CtlInitInv, GateInitInv DEF IInv, Init
<1>2. IInv /\ [Next]_vars => IInv'
  BY CtlStepInv, StepsRefineGate, GateStepInv DEF IInv
<1> QED
  BY <1>1, <1>2, PTL DEF Spec

-----------------------------------------------------------------------------
\* The controller drives the gate only by the gate's own operations.
THEOREM ControllerImplementsGate == Spec => GateSpec
<1>1. Init => GateInit
  BY DEF Init
<1>2. [Next]_vars => [GateNext]_gateVars
  BY StepsRefineGate
<1> QED
  BY <1>1, <1>2, PTL DEF Spec, GateSpec

\* The session is torn down only with no callback inside.
THEOREM CleanupIsQuiet == Spec => []QuietCleanup
<1>1. IInv => QuietCleanup
  BY DEF IInv, CtlInv, GateInv, DrainedIsQuiet, QuietCleanup
<1> QED
  BY <1>1, InvariantHolds, PTL

\* A stop that reported success left nothing of the session behind.
THEOREM CleanIsReleased == Spec => []CleanMeansReleased
<1>1. IInv => CleanMeansReleased
  BY DEF IInv, CtlInv, Vacant, CleanMeansReleased
<1> QED
  BY <1>1, InvariantHolds, PTL
=============================================================================
