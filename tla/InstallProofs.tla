------------------------------ MODULE InstallProofs ------------------------------
(***************************************************************************)
(* Proofs about Install, for any number of B's channels and any bounds.    *)
(* The three safety properties follow from one inductive invariant: what   *)
(* each step of a start has put in place, what each step of a stop that    *)
(* failed nowhere yet has taken away, and that nothing can come back while *)
(* the runtime gate is closed.                                             *)
(***************************************************************************)
EXTENDS Install, TLAPS

\* The gate is closed from the drain of a stop until the next start opens it.
Closed == pc \in (Stopping \ {"request"}) \cup {"suspended", "bridge", "relay"} => ~accepting

\* A start in the order of startSession.
FromHook == {"hook", "bindings", "bind", "announce", "capture", "block", "active"}
FromBindings == FromHook \ {"hook"}
FromBind == FromBindings \ {"bindings"}
FromAnnounce == FromBind \ {"bind"}

Placed ==
  /\ pc = "relay" => "bridge" \in resident
  /\ pc \in FromHook => "bridge" \in resident /\ "relay" \in resident /\ accepting
  /\ pc \in FromBindings => hooked /\ (connection # {} => "patched" \in connection \/ Unpatchable)
  /\ pc \in FromBind => "bindings" \in resident
  /\ pc \in FromAnnounce => /\ "listener" \in refs /\ "eventLoop" \in refs
                            /\ "listener" \in running /\ "loop" \in running
                            /\ "closing" \notin running

\* A stop in the order of stopSession.
FromPinger == {"pinger", "loop", "tasks", "release", "unhook", "detach", "suspended"}
FromLoop == FromPinger \ {"pinger"}
FromTasks == FromLoop \ {"loop"}
FromRelease == FromTasks \ {"tasks"}
FromUnhook == FromRelease \ {"release"}

Removed ==
  /\ pc = "suspended" => sound
  /\ sound =>
       /\ pc \in FromPinger => children = {}
       /\ pc \in FromLoop => "pinger" \notin running
       /\ pc \in FromTasks => "loop" \notin running
       /\ pc \in FromRelease => gateTasks = 0
       /\ pc \in FromUnhook => refs = {}
       /\ pc \in {"detach", "suspended"} =>
            ~hooked /\ ("patched" \in connection => "missed" \in connection)
       /\ pc = "suspended" => ~attached

\* What is said of the class is said of one that is loaded, or being loaded.
ClassIsThere == connection # {} => "reading" \in connection \/ "loaded" \in connection

\* A start finds no event loop until it has made its own, and no gate task.
UntilBind == {"suspended", "bridge", "relay", "hook", "bindings", "bind"}
UntilActive == UntilBind \cup {"announce", "capture", "block"}
NothingYet ==
  /\ pc \in UntilBind => "loop" \notin running
  /\ pc \in UntilActive => gateTasks = 0

\* A loop that is closing still runs.
ClosingRuns == "closing" \in running => "loop" \in running

\* The bindings are completed after the classes that use them.
ClassesFirst == "bindings" \in resident => ServerClasses \subseteq resident

IInv == /\ pc \in Positions /\ Sets /\ Counts
        /\ Closed /\ Placed
        /\ Removed
        /\ ClassesFirst /\ ClassIsThere /\ ClosingRuns /\ NothingYet /\ NothingOrphaned

-----------------------------------------------------------------------------
LEMMA InitIInv == Init => IInv
<1> SUFFICES ASSUME Init PROVE IInv
  OBVIOUS
<1> USE DEF Init
<1>1. pc \in Positions /\ Sets /\ Counts
  BY BoundIsNat DEF Positions, Sets, Counts, Starting
<1>2. Closed /\ Placed
  BY DEF Closed, Placed, FromHook, FromBindings, FromBind, FromAnnounce
<1>3. Removed
  BY DEF Removed, FromPinger, FromLoop, FromTasks, FromRelease, FromUnhook
<1>4. ClassesFirst /\ ClassIsThere /\ ClosingRuns /\ NothingYet /\ NothingOrphaned
  BY DEF ClassesFirst, ClassIsThere, ClosingRuns, NothingYet, UntilBind, UntilActive, NothingOrphaned
<1> QED
  BY <1>1, <1>2, <1>3, <1>4 DEF IInv

\* What a load or a retransformation says of the class.
Marks == {"reading", "loaded", "linked", "patched", "skipped", "missed"}

LEMMA ClassMarks ==
  ASSUME connection \subseteq Marks, NEW enabled, NEW capable, NEW ok,
         \/ RetransformIfLoaded(enabled, capable, ok) \/ LoadsConnection
         \/ UNCHANGED connection
  PROVE  connection' \subseteq Marks
<1>1. \A on : \A mark \in ClassFileLoadHook(on) : mark \subseteq Marks
  BY DEF ClassFileLoadHook, Marks
<1>2. CASE Retransform(enabled)
  BY <1>1, <1>2 DEF Retransform, Marks
<1>3. CASE LoadsConnection
  BY <1>1, <1>3 DEF LoadsConnection, Defined, Marks
<1> QED
  BY <1>2, <1>3 DEF RetransformIfLoaded

\* A retransformation leaves the class where it is.
LEMMA RetransformedIsThere ==
  ASSUME ClassIsThere, NEW enabled, NEW capable, NEW ok,
         RetransformIfLoaded(enabled, capable, ok) \/ UNCHANGED connection
  PROVE  ClassIsThere'
<1>1. CASE Retransform(enabled)
  <2>1. PICK mark \in ClassFileLoadHook(enabled) :
          connection' = IF "loaded" \in connection THEN (connection \cap {"loaded", "linked"}) \cup mark
                        ELSE IF "reading" \in connection THEN connection \cup {"missed"}
                        ELSE connection
    BY <1>1 DEF Retransform
  <2> QED
    BY <2>1 DEF ClassIsThere
<1>2. CASE UNCHANGED connection
  BY <1>2 DEF ClassIsThere
<1> QED
  BY <1>1, <1>2 DEF RetransformIfLoaded

\* One that succeeds without the event restores the class, or misses it.
LEMMA RetransformedIsRestored ==
  ASSUME ClassIsThere, NEW capable, RetransformIfLoaded(FALSE, capable, TRUE)
  PROVE  ("patched" \in connection => "missed" \in connection)'
<1>1. ClassFileLoadHook(FALSE) = {{}}
  BY DEF ClassFileLoadHook
<1>2. connection' = IF "loaded" \in connection THEN connection \cap {"loaded", "linked"}
                    ELSE IF "reading" \in connection THEN connection \cup {"missed"}
                    ELSE connection
  BY <1>1 DEF RetransformIfLoaded, Retransform
<1> QED
  BY <1>2 DEF ClassIsThere

\* Each step of a start: what it puts in place is what Placed says of the next.
LEMMA StartKeepsIInv == IInv /\ Start => IInv'
<1> SUFFICES ASSUME IInv, Start PROVE IInv'
  OBVIOUS
<1> USE DEF IInv, Positions, Sets, Counts, Closed, Placed, Removed, ClassesFirst, ServerClasses, ClassIsThere, ClosingRuns,
        NothingYet, NothingOrphaned, Starting, Stopping, Resident, References, Running,
        FromHook, FromBindings, FromBind, FromAnnounce, FromPinger, FromLoop, FromTasks,
        FromRelease, FromUnhook, UntilBind, UntilActive,
        Goto, GiveUp, OnlyStart, SessionParts, RenderGate, Machine, Hook, Failing, Working, Unpatchable
<1>1. CASE InstallHookBridge
  <2> USE <1>1, BoundIsNat DEF InstallHookBridge
  <2>1. pc' \in Positions /\ Sets'
    OBVIOUS
  <2>2. Counts'
    OBVIOUS
  <2>3. Closed' /\ Placed'
    OBVIOUS
  <2>4. Removed'
    OBVIOUS
  <2>5. ClassesFirst' /\ ClassIsThere' /\ ClosingRuns' /\ NothingYet' /\ NothingOrphaned'
    OBVIOUS
  <2> QED
    BY <2>1, <2>2, <2>3, <2>4, <2>5
<1>2. CASE InstallRelayHandler
  <2> USE <1>2, BoundIsNat DEF InstallRelayHandler
  <2>1. pc' \in Positions /\ Sets'
    OBVIOUS
  <2>2. Counts'
    OBVIOUS
  <2>3. Closed' /\ Placed'
    OBVIOUS
  <2>4. Removed'
    OBVIOUS
  <2>5. ClassesFirst' /\ ClassIsThere' /\ ClosingRuns' /\ NothingYet' /\ NothingOrphaned'
    OBVIOUS
  <2> QED
    BY <2>1, <2>2, <2>3, <2>4, <2>5
<1>3. CASE InstallConnectionHook
  <2>6. ClassIsThere'
    <3> HIDE DEF ClassIsThere
    <3> QED
      BY <1>3, RetransformedIsThere DEF InstallConnectionHook
  <2>10. connection' \subseteq Marks
    <3>1. connection \subseteq Marks
      BY DEF Marks
    <3> QED
      BY <1>3, <3>1, ClassMarks DEF InstallConnectionHook
  <2> USE <1>3, BoundIsNat DEF InstallConnectionHook, RetransformIfLoaded, Retransform, ClassFileLoadHook
  <2>11. pc' \in Positions
    OBVIOUS
  <2>12. resident' \subseteq Resident /\ UNCHANGED <<refs, children, open, running, gate>>
    OBVIOUS
  <2>1. pc' \in Positions /\ Sets'
    <3>1. Sets'
      BY <2>10, <2>12 DEF Marks
    <3> QED
      BY <2>11, <3>1
  <2>2. Counts'
    OBVIOUS
  <2>3. Closed' /\ Placed'
    OBVIOUS
  <2>4. Removed'
    OBVIOUS
  <2>5. ClassesFirst'
    OBVIOUS
  <2>7. ClosingRuns'
    OBVIOUS
  <2>8. NothingYet'
    OBVIOUS
  <2>9. NothingOrphaned'
    OBVIOUS
  <2> QED
    BY <2>1, <2>2, <2>3, <2>4, <2>5, <2>6, <2>7, <2>8, <2>9
<1>4. CASE CacheBindings
  <2>8. connection' \subseteq Marks
    <3>1. connection \subseteq Marks
      BY DEF Marks
    <3> QED
      BY <1>4, <3>1, ClassMarks DEF CacheBindings, CacheJavaRefs
  <2> USE <1>4, BoundIsNat DEF CacheBindings, DefineFails, RequiredBindings,
         PlayerBindings, CacheJavaRefs, LoadsConnection, Defined, ClassFileLoadHook, ResetsGate
  <2>6. pc' \in Positions
    OBVIOUS
  <2>7. Sets'
    <3>1. connection' \subseteq {"reading", "loaded", "linked", "patched", "skipped", "missed"}
      BY <2>8 DEF Marks
    <3>2. resident' \subseteq Resident
      OBVIOUS
    <3>3. gate' \subseteq {"cancelled", "connected"} /\ UNCHANGED <<refs, children, open, running>>
      OBVIOUS
    <3> QED
      BY <3>1, <3>2, <3>3
  <2>1. pc' \in Positions /\ Sets'
    BY <2>6, <2>7
  <2>2. Counts'
    OBVIOUS
  <2>3. Closed' /\ Placed'
    OBVIOUS
  <2>4. Removed'
    OBVIOUS
  <2>5. ClassesFirst' /\ ClassIsThere' /\ ClosingRuns' /\ NothingYet' /\ NothingOrphaned'
    OBVIOUS
  <2> QED
    BY <2>1, <2>2, <2>3, <2>4, <2>5
<1>5. CASE BindServer
  <2> USE <1>5, BoundIsNat DEF BindServer
  <2>1. pc' \in Positions /\ Sets'
    OBVIOUS
  <2>2. Counts'
    OBVIOUS
  <2>3. Closed' /\ Placed'
    OBVIOUS
  <2>4. Removed'
    OBVIOUS
  <2>5. ClassesFirst' /\ ClassIsThere' /\ ClosingRuns' /\ NothingYet' /\ NothingOrphaned'
    OBVIOUS
  <2> QED
    BY <2>1, <2>2, <2>3, <2>4, <2>5
<1>6. CASE StartLanAnnouncement
  BY <1>6, BoundIsNat DEF StartLanAnnouncement
<1>7. CASE Capture
  <2> USE <1>7, BoundIsNat DEF Capture, RefreshMidSessionRefs
  <2>1. pc' \in Positions /\ Sets'
    OBVIOUS
  <2>2. Counts'
    OBVIOUS
  <2>3. Closed' /\ Placed'
    OBVIOUS
  <2>4. Removed'
    OBVIOUS
  <2>5. ClassesFirst' /\ ClassIsThere' /\ ClosingRuns' /\ NothingYet' /\ NothingOrphaned'
    OBVIOUS
  <2> QED
    BY <2>1, <2>2, <2>3, <2>4, <2>5
<1>8. CASE BlockAMainThread
  <2> USE <1>8, BoundIsNat DEF BlockAMainThread, DefineMainGateClass
  <2>1. pc' \in Positions /\ Sets'
    OBVIOUS
  <2>2. Counts'
    OBVIOUS
  <2>3. Closed' /\ Placed'
    OBVIOUS
  <2>4. Removed'
    OBVIOUS
  <2>5. ClassesFirst' /\ ClassIsThere' /\ ClosingRuns' /\ NothingYet' /\ NothingOrphaned'
    OBVIOUS
  <2> QED
    BY <2>1, <2>2, <2>3, <2>4, <2>5
<1> HIDE DEF IInv
<1> QED
  BY <1>1, <1>2, <1>3, <1>4, <1>5, <1>6, <1>7, <1>8 DEF Start

\* Each step of a stop: it takes away its part or gives up soundness.
LEMMA StopKeepsIInv == IInv /\ (Suspend \/ Stop \/ Resume) => IInv'
<1> SUFFICES ASSUME IInv, Suspend \/ Stop \/ Resume PROVE IInv'
  OBVIOUS
<1> USE DEF IInv, Positions, Sets, Counts, Closed, Placed, Removed, ClassesFirst, ServerClasses, ClassIsThere, ClosingRuns,
        NothingYet, NothingOrphaned, Starting, Stopping, Resident, References, Running,
        FromHook, FromBindings, FromBind, FromAnnounce, FromPinger, FromLoop, FromTasks,
        FromRelease, FromUnhook, UntilBind, UntilActive,
        Goto, GiveUp, OnlyStart, SessionParts, RenderGate, Machine, Hook, Failing, Working, Unpatchable
<1>1. CASE Suspend
  BY <1>1, BoundIsNat DEF Suspend
<1>2. CASE RequestStop
  BY <1>2, BoundIsNat DEF RequestStop
<1>3. ASSUME NEW ok \in BOOLEAN, CloseListener(ok) PROVE IInv'
  <2> USE <1>3, BoundIsNat DEF CloseListener, Step, Counted, Closes, LoopGone
  <2>1. pc' \in Positions /\ Sets'
    OBVIOUS
  <2>2. Counts'
    OBVIOUS
  <2>3. Closed' /\ Placed'
    OBVIOUS
  <2>4. Removed'
    OBVIOUS
  <2>5. ClassesFirst' /\ ClassIsThere' /\ ClosingRuns' /\ NothingYet' /\ NothingOrphaned'
    OBVIOUS
  <2> QED
    BY <2>1, <2>2, <2>3, <2>4, <2>5
<1>4. ASSUME NEW ok \in BOOLEAN, CloseChildren(ok) PROVE IInv'
  <2> USE <1>4, BoundIsNat DEF CloseChildren, Step, Counted, LoopGone
  <2>1. pc' \in Positions /\ Sets'
    OBVIOUS
  <2>2. Counts'
    OBVIOUS
  <2>3. Closed' /\ Placed'
    OBVIOUS
  <2>6. ok => children' = {}
    <3>1. PICK closed \in SUBSET children :
            /\ ok = (closed = children)
            /\ children' = children \ closed
      OBVIOUS
    <3>2. ASSUME ok PROVE closed = children
      BY <3>1, <3>2
    <3>3. ASSUME ok PROVE children' = {}
      BY <3>1, <3>2, <3>3
    <3> QED
      BY <3>3
  <2>4. Removed'
    BY <2>6
  <2>5. ClassesFirst' /\ ClassIsThere' /\ ClosingRuns' /\ NothingYet' /\ NothingOrphaned'
    OBVIOUS
  <2> QED
    BY <2>1, <2>2, <2>3, <2>4, <2>5
<1>5. ASSUME NEW ok \in BOOLEAN, StopPinger(ok) PROVE IInv'
  <2> USE <1>5, BoundIsNat DEF StopPinger, Step, Counted
  <2>1. pc' \in Positions /\ Sets'
    OBVIOUS
  <2>2. Counts'
    OBVIOUS
  <2>3. Closed' /\ Placed'
    OBVIOUS
  <2>4. Removed'
    OBVIOUS
  <2>5. ClassesFirst' /\ ClassIsThere' /\ ClosingRuns' /\ NothingYet' /\ NothingOrphaned'
    OBVIOUS
  <2> QED
    BY <2>1, <2>2, <2>3, <2>4, <2>5
<1>6. ASSUME NEW ok \in BOOLEAN, ShutdownLoop(ok) PROVE IInv'
  <2> USE <1>6, BoundIsNat DEF ShutdownLoop, Step, Counted, LoopOff
  <2>1. pc' \in Positions /\ Sets'
    OBVIOUS
  <2>2. Counts'
    OBVIOUS
  <2>3. Closed' /\ Placed'
    OBVIOUS
  <2>4. Removed'
    OBVIOUS
  <2>5. ClassesFirst' /\ ClassIsThere' /\ ClosingRuns' /\ NothingYet' /\ NothingOrphaned'
    OBVIOUS
  <2> QED
    BY <2>1, <2>2, <2>3, <2>4, <2>5
<1>7. ASSUME NEW ok \in BOOLEAN, AwaitTasks(ok) PROVE IInv'
  <2> USE <1>7, BoundIsNat DEF AwaitTasks, Step, Counted
  <2>1. pc' \in Positions /\ Sets'
    OBVIOUS
  <2>2. Counts'
    OBVIOUS
  <2>3. Closed' /\ Placed'
    OBVIOUS
  <2>4. Removed'
    OBVIOUS
  <2>5. ClassesFirst' /\ ClassIsThere' /\ ClosingRuns' /\ NothingYet' /\ NothingOrphaned'
    OBVIOUS
  <2> QED
    BY <2>1, <2>2, <2>3, <2>4, <2>5
<1>8. CASE Release
  BY <1>8, BoundIsNat DEF Release, ReleasesIfSound
<1>9. CASE Unhook
  <2>7. /\ pc = "unhook" /\ pc' = "detach"
        /\ UNCHANGED <<resident, refs, children, gate, gateTasks, attached, running, open>>
    BY <1>9 DEF Unhook
  <2>8. sound' => sound /\ ~hooked' /\ ("patched" \in connection => "missed" \in connection)'
    <3> HIDE DEF ClassIsThere
    <3> SUFFICES ASSUME sound'
                 PROVE  sound /\ ~hooked' /\ ("patched" \in connection => "missed" \in connection)'
      OBVIOUS
    <3>1. sound /\ hooked' = FALSE /\ RetransformIfLoaded(FALSE, "capable" \in resident, TRUE)
      BY <1>9 DEF Unhook
    <3> QED
      BY <3>1, RetransformedIsRestored
  <2>6. ClassIsThere'
    <3> HIDE DEF ClassIsThere
    <3> QED
      BY <1>9, RetransformedIsThere DEF Unhook
  <2> USE <1>9, BoundIsNat DEF Unhook, RetransformIfLoaded, Retransform, ClassFileLoadHook
  <2>1. pc' \in Positions /\ Sets'
    OBVIOUS
  <2>2. Counts'
    OBVIOUS
  <2>3. Closed' /\ Placed'
    OBVIOUS
  <2>4. Removed'
    <3> HIDE DEF Unhook, RetransformIfLoaded, Retransform, ClassFileLoadHook
    <3> QED
      BY <2>7, <2>8
  <2>5. ClassesFirst' /\ ClassIsThere' /\ ClosingRuns' /\ NothingYet' /\ NothingOrphaned'
    BY <2>6
  <2> QED
    BY <2>1, <2>2, <2>3, <2>4, <2>5
<1>10. CASE Detach
  BY <1>10, BoundIsNat DEF Detach, Reports
<1>11. CASE Retry
  BY <1>11, BoundIsNat DEF Retry
<1>12. CASE Resume
  BY <1>12, BoundIsNat DEF Resume
<1> HIDE DEF IInv
<1> QED
  BY <1>1, <1>2, <1>3, <1>4, <1>5, <1>6, <1>7, <1>8, <1>9, <1>10, <1>11, <1>12 DEF Stop, StopBServer

\* The steps of the virtual machine, which belong to no thread of the proxy.
MachineNext ==
  \/ ReadConnection \/ DefineConnection \/ LinkConnection \/ AConnects \/ RunTask \/ LoopEnds
  \/ \E c \in Children : Accept(c) \/ ChildCloses(c)
  \/ \E connected \in BOOLEAN : BConnects(connected)

\* No callback comes back while the gate is closed.
LEMMA MachineKeepsIInv == IInv /\ MachineNext => IInv'
<1> SUFFICES ASSUME IInv, MachineNext PROVE IInv'
  OBVIOUS
<1> USE DEF IInv, Positions, Sets, Counts, Closed, Placed, Removed, ClassesFirst, ServerClasses, ClassIsThere, ClosingRuns,
        NothingYet, NothingOrphaned, Starting, Stopping, Resident, References, Running,
        FromHook, FromBindings, FromBind, FromAnnounce, FromPinger, FromLoop, FromTasks,
        FromRelease, FromUnhook, UntilBind, UntilActive,
        Goto, GiveUp, OnlyStart, SessionParts, RenderGate, Machine, Hook, Failing, Working, Unpatchable
<1>1. CASE ReadConnection
  BY <1>1, BoundIsNat DEF ReadConnection, Reads, ClassFileLoadHook
<1>9. CASE DefineConnection
  BY <1>9, BoundIsNat DEF DefineConnection, Defined
<1>2. CASE LinkConnection
  BY <1>2, BoundIsNat DEF LinkConnection
<1>3. CASE AConnects
  BY <1>3, BoundIsNat DEF AConnects
<1>4. CASE RunTask
  BY <1>4, BoundIsNat DEF RunTask
<1>5. CASE LoopEnds
  BY <1>5, BoundIsNat DEF LoopEnds, LoopOff
<1>6. ASSUME NEW c \in Children, Accept(c) PROVE IInv'
  BY <1>6, BoundIsNat DEF Accept
<1>7. ASSUME NEW c \in Children, ChildCloses(c) PROVE IInv'
  BY <1>7, BoundIsNat DEF ChildCloses
<1>8. ASSUME NEW connected \in BOOLEAN, BConnects(connected) PROVE IInv'
  BY <1>8, BoundIsNat DEF BConnects
<1> HIDE DEF IInv
<1> QED
  BY <1>1, <1>2, <1>3, <1>4, <1>5, <1>6, <1>7, <1>8, <1>9 DEF MachineNext

-----------------------------------------------------------------------------
LEMMA NextKeepsIInv == IInv /\ [Next]_vars => IInv'
<1>1. ASSUME IInv, UNCHANGED vars PROVE IInv'
  BY <1>1 DEF IInv, Positions, Sets, Counts, Closed, Placed, Removed, ClassesFirst, ServerClasses, ClassIsThere,
     ClosingRuns, NothingYet, NothingOrphaned, Unpatchable, vars, RenderGate, Machine, Hook
<1>2. Next => Start \/ (Suspend \/ Stop \/ Resume) \/ MachineNext
  BY DEF Next, MachineNext
<1> QED
  BY <1>1, <1>2, StartKeepsIInv, StopKeepsIInv, MachineKeepsIInv

THEOREM IInvHolds == Spec => []IInv
  BY InitIInv, NextKeepsIInv, PTL DEF Spec

\* What runs can always be stopped: no failure of a start or of a stop, however
\* many there are, leaves a loop or the announcement without its reference.
THEOREM AlwaysStoppable == Spec => []NothingOrphaned
<1>1. IInv => NothingOrphaned
  BY DEF IInv
<1> QED
  BY <1>1, IInvHolds, PTL

\* A stop that reports success has taken everything away; a Connection that is still
\* patched was being loaded when the stop looked for it.
THEOREM SuspensionIsComplete == Spec => []SuspendedIsGone
<1>1. IInv => SuspendedIsGone
  <2> SUFFICES ASSUME IInv, pc = "suspended"
               PROVE  /\ running = {} /\ open = {} /\ refs = {} /\ children = {}
                      /\ "patched" \in connection => "missed" \in connection
                      /\ ~hooked /\ ~attached /\ ~accepting
    BY DEF SuspendedIsGone
  <2>1. sound /\ refs = {} /\ children = {}
        /\ ("patched" \in connection => "missed" \in connection)
        /\ ~hooked /\ ~attached /\ ~accepting
    BY DEF IInv, Removed, Closed, Stopping, FromPinger, FromLoop, FromTasks,
       FromRelease, FromUnhook
  <2>2. gateTasks = 0 /\ "loop" \notin running
    BY DEF IInv, NothingYet, UntilBind, UntilActive
  <2>3. running = {} /\ open = {}
    BY <2>1, <2>2 DEF IInv, Sets, Running, NothingOrphaned, ClosingRuns
  <2> QED
    BY <2>1, <2>3
<1> QED
  BY <1>1, IInvHolds, PTL

\* A session that reports itself active has every part in place, and a Connection
\* that is not patched is one the callback gave up on or the enumeration missed.
THEOREM ActivationIsComplete == Spec => []ActiveIsWired
<1>1. IInv => ActiveIsWired
  BY DEF IInv, Placed, ClassesFirst, ActiveIsWired, FromHook, FromBindings, FromBind, FromAnnounce
<1> QED
  BY <1>1, IInvHolds, PTL
=============================================================================
