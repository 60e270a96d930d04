-------------------------------- MODULE Install --------------------------------
(***************************************************************************)
(* What startSession installs in A's virtual machine and what stopSession  *)
(* removes again, part by part: the bridge and relay classes, the hook on  *)
(* Connection, the Java bindings, the netty server on port 25565, its LAN  *)
(* announcement, the task that blocks A's render thread, and the relay in  *)
(* A's pipeline.  Controller takes both as one step each; here every part  *)
(* of them can fail, and netty, the announcement thread and the render     *)
(* thread go on by themselves in between.                                  *)
(*                                                                         *)
(* Some parts live as long as the resident DLL (bindings.h:7-8), the rest  *)
(* as long as a session; each of the latter is the controller's reference  *)
(* and the thing in the virtual machine it refers to.                      *)
(***************************************************************************)
EXTENDS Naturals

CONSTANTS
  Children,      \* channels B's clients may open to the listener
  MaxFailures,   \* bound: calls into the virtual machine that fail
  MaxStarts      \* bound: sessions started

ASSUME BoundIsNat == MaxFailures \in Nat

VARIABLES
  pc,          \* where the controller thread is
  sound,       \* ok of StopBServer, then stopped of stopSession
  resident,    \* parts that outlive a session
  refs,        \* the references ServerState owns: listener, eventLoop, lanPinger, target
  children,    \* ServerState::children
  gate,        \* flags of the render-thread gate: cancelled, connected
  gateTasks,   \* ServerState::gateTasks
  accepting,   \* the runtime gate admits callbacks
  hooked,      \* the ClassFileLoadHook event is enabled
  connection,  \* the class Connection: reading or loaded, linked, patched; and what
               \* kept the hook from patching or restoring it: skipped, missed
  attached,    \* A's pipeline holds a relay handler
  running,     \* what runs in the virtual machine
  open,        \* the channels to B's clients that are open
  failures, starts

RenderGate == <<gate, gateTasks>>
Hook == <<accepting, hooked, connection>>
Machine == <<running, open>>
vars == <<pc, sound, resident, refs, children, RenderGate, Hook, attached, Machine, failures, starts>>

Starting == {"bridge", "relay", "hook", "bindings", "bind", "announce", "capture", "block"}
Stopping == {"request", "listener", "children", "pinger", "loop", "tasks",
             "release", "unhook", "detach", "retry"}
References == {"listener", "eventLoop", "lanPinger", "target"}
Resident == {"bridge", "relay", "capable", "init", "handler", "bindings", "getInstance", "mainGate"}
\* A loop that is closing still runs.
Running == {"loop", "closing", "listener", "pinger", "task"}

Positions == {"suspended", "active"} \cup Starting \cup Stopping

Sets ==
  /\ resident \subseteq Resident
  /\ refs \subseteq References
  /\ children \subseteq Children /\ open \subseteq Children
  /\ gate \subseteq {"cancelled", "connected"}
  /\ connection \subseteq {"reading", "loaded", "linked", "patched", "skipped", "missed"}
  /\ running \subseteq Running

Counts == gateTasks \in 0..1 /\ failures \in 0..MaxFailures /\ starts \in Nat

TypeOK ==
  /\ pc \in Positions /\ Sets /\ Counts
  /\ {sound, accepting, hooked, attached} \subseteq BOOLEAN

Init ==
  /\ pc = "bridge" /\ sound = TRUE
  /\ resident = {} /\ refs = {} /\ children = {}
  /\ gate = {} /\ gateTasks = 0
  /\ accepting = FALSE /\ hooked = FALSE /\ attached = FALSE
  /\ connection \in {{}, {"loaded", "linked"}}
  /\ running = {} /\ open = {}
  /\ failures = 0 /\ starts = 1

-----------------------------------------------------------------------------
Goto(step) == pc' = step

\* A call into the virtual machine throws or returns an error, a wait of the
\* stop times out, or DEL cancels a start.
Failing == failures < MaxFailures /\ failures' = failures + 1
Working == UNCHANGED failures

\* A start that gives up goes straight to stopSession.
GiveUp == Goto("request")

OnlyStart == UNCHANGED <<sound, starts>>
SessionParts == <<refs, children, RenderGate, attached, Machine>>

-----------------------------------------------------------------------------
\* InstallHookBridge: up to 240 attempts, DEL cancels between two of them.
\* g_hook is written only when class, natives and both method ids are there.
InstallHookBridge ==
  /\ pc = "bridge"
  /\ \/ /\ Goto("relay") /\ Working
        /\ resident' = resident \cup {"bridge"}
     \/ GiveUp /\ Failing /\ UNCHANGED resident
     \/ "bridge" \notin resident /\ Failing /\ UNCHANGED <<pc, resident>>
  /\ OnlyStart
  /\ UNCHANGED <<SessionParts, Hook>>

\* InstallRelayHandler, then the runtime gate opens.  The class is kept, and
\* counts as installed from then on, even if the netty method ids are missing.
InstallRelayHandler ==
  /\ pc = "relay"
  /\ \/ /\ Goto("hook") /\ Working
        /\ accepting' = TRUE
        /\ resident' = resident \cup {"relay"}
     \/ /\ "relay" \notin resident
        /\ GiveUp /\ Failing
        /\ \E kept \in SUBSET {"relay"} : resident' = resident \cup kept
        /\ UNCHANGED accepting
  /\ OnlyStart
  /\ UNCHANGED <<SessionParts, hooked, connection>>

\* ClassFileLoadHookCallback, and what it makes of the class file: it does nothing
\* unless the event is enabled, the runtime gate open and the bridge there.  It may
\* give up on the file (no channelActive, no memory, an exception) and tells nobody.
ClassFileLoadHook(enabled) ==
  IF enabled /\ accepting /\ "bridge" \in resident THEN {{"patched"}, {"skipped"}} ELSE {{}}

\* The loaded classes are enumerated after the event was switched: a Connection
\* that is still being read is not among them.
Retransform(enabled) ==
  \E mark \in ClassFileLoadHook(enabled) :
    connection' = IF "loaded" \in connection THEN (connection \cap {"loaded", "linked"}) \cup mark
                  ELSE IF "reading" \in connection THEN connection \cup {"missed"}
                  ELSE connection

\* mutant: a failed retransformation is not reported.
RetransformsSilently(enabled, capable, ok) ==
  /\ ok
  /\ \/ Retransform(enabled) /\ Working
     \/ Failing /\ UNCHANGED connection

\* RetransformIfLoaded: JVMTI refuses Connection unless the environment has the
\* capability; a failure on another class is reported after Connection's edit.  It
\* answers NONE whatever the callback did with the class file.
RetransformIfLoaded(enabled, capable, ok) ==
  \/ ok /\ ("loaded" \in connection => capable) /\ Retransform(enabled) /\ Working
  \/ ~ok /\ "loaded" \in connection /\ ~capable /\ UNCHANGED <<connection, failures>>
  \/ ~ok /\ Failing /\ ((capable /\ Retransform(enabled)) \/ UNCHANGED connection)

\* InstallConnectionHook: capabilities, callback and event, then Connection.
InstallConnectionHook ==
  /\ pc = "hook"
  /\ \/ /\ GiveUp /\ Failing
        /\ \E added \in SUBSET {"capable"} : resident' = resident \cup added
        /\ UNCHANGED <<hooked, connection>>
     \/ /\ resident' = resident \cup {"capable"}
        /\ hooked' = TRUE
        /\ \E ok \in BOOLEAN : /\ RetransformIfLoaded(TRUE, TRUE, ok)
                               /\ IF ok THEN Goto("bindings") ELSE GiveUp
  /\ OnlyStart
  /\ UNCHANGED <<SessionParts, accepting>>

\* A class load: the file is read, past the hook, and the class defined later.
Reads == \E mark \in ClassFileLoadHook(hooked) : connection' = {"reading"} \cup mark

Defined(class) == (class \ {"reading"}) \cup {"loaded"}

\* A lookup loads Connection, or waits for the thread that is loading it.
LoadsConnection ==
  \/ connection # {} /\ connection' = Defined(connection)
  \/ /\ connection = {}
     /\ \E mark \in ClassFileLoadHook(hooked) : connection' = Defined(mark)

\* mutant: the second session finds the gate cancelled by the first one's stop.
KeepsGateCancelled == gate' = gate \ {"connected"}

ResetsGate == gate' = {}

\* defineInitClass, then defineHandlerClass: the two handlers of B's channels,
\* each defined once.  The first is kept if the second fails.
ServerClasses == {"init", "handler"}
DefineFails ==
  /\ "handler" \notin resident
  /\ Failing
  /\ \E made \in SUBSET {"init"} : resident' = resident \cup made

\* cacheProtocolBindings and cacheChannelBindings: the required ids of Connection
\* are looked up by descriptor, which finds nothing in a class that is not linked.
RequiredBindings(ok) ==
  \/ ok /\ "linked" \in connection /\ Working
  \/ ~ok /\ "linked" \notin connection /\ Working
  \/ ~ok /\ Failing

\* cachePlayerBindings: Minecraft.getInstance is looked up the same way and is
\* not required, although every capture needs it.
PlayerBindings == SUBSET {"getInstance"}

\* cacheJavaRefs, once the two classes are there.
CacheJavaRefs(ok) ==
  /\ LoadsConnection
  /\ RequiredBindings(ok)
  /\ \E found \in PlayerBindings :
       resident' = (resident \ {"getInstance"}) \cup found \cup ServerClasses
                     \cup (IF ok THEN {"bindings"} ELSE {})

\* InstallBServer up to bindServer: bindings once complete are kept as they are.
CacheBindings ==
  /\ pc = "bindings"
  /\ \/ GiveUp /\ Failing /\ UNCHANGED <<RenderGate, resident, connection>>
     \/ /\ ResetsGate /\ UNCHANGED gateTasks
        /\ \/ /\ "bindings" \in resident
              /\ Goto("bind") /\ Working /\ UNCHANGED <<resident, connection>>
           \/ /\ "bindings" \notin resident
              /\ \/ GiveUp /\ DefineFails /\ UNCHANGED connection
                 \/ \E ok \in BOOLEAN : /\ CacheJavaRefs(ok)
                                        /\ IF ok THEN Goto("bind") ELSE GiveUp
  /\ OnlyStart
  /\ UNCHANGED <<refs, children, attached, Machine, accepting, hooked>>

\* bindServer: the event loop is kept from the moment it exists, the listener
\* from the moment its future names it; binding may still fail after both.
BindServer ==
  /\ pc = "bind"
  /\ \/ GiveUp /\ Failing /\ UNCHANGED <<refs, running>>
     \/ \E bound, held \in SUBSET {"listener"} :
          /\ GiveUp /\ Failing
          /\ refs' = refs \cup {"eventLoop"} \cup held
          /\ running' = running \cup {"loop"} \cup bound
     \/ /\ Goto("announce") /\ Working
        /\ refs' = refs \cup {"eventLoop", "listener"}
        /\ running' = running \cup {"loop", "listener"}
  /\ OnlyStart
  /\ UNCHANGED <<resident, children, RenderGate, attached, open, Hook>>

\* startLanAnnouncement: the session goes on without it.
StartLanAnnouncement ==
  /\ pc = "announce"
  /\ Goto("capture") /\ Working
  /\ \/ UNCHANGED <<refs, running>>
     \/ refs' = refs \cup {"lanPinger"} /\ running' = running \cup {"pinger"}
  /\ OnlyStart
  /\ UNCHANGED <<resident, children, RenderGate, attached, open, Hook>>

\* refreshMidSessionRefs: looked up at every attempt, whatever is cached; but
\* getInstance is only tested for.
RefreshMidSessionRefs(ok) ==
  \/ ok /\ "getInstance" \in resident /\ Working
  \/ ~ok /\ "getInstance" \notin resident /\ Working
  \/ ~ok /\ Failing

\* BServer_TryCaptureLiveConnection, up to ten times; DEL cancels in between.
Capture ==
  /\ pc = "capture"
  /\ \/ RefreshMidSessionRefs(FALSE) /\ GiveUp /\ UNCHANGED <<refs, attached>>
     \/ Failing /\ UNCHANGED <<pc, refs, attached>>
     \/ /\ RefreshMidSessionRefs(TRUE)
        /\ \/ Goto("block") /\ UNCHANGED <<refs, attached>>
           \/ /\ Goto("active")
              /\ refs' = refs \cup {"target"}
              /\ attached' = TRUE
  /\ OnlyStart
  /\ UNCHANGED <<resident, children, RenderGate, Machine, Hook>>

\* defineMainGateClass: the task's class is kept with its constructor.
DefineMainGateClass(ok) ==
  \/ ok /\ resident' = resident \cup {"mainGate"}
  \/ ~ok /\ "mainGate" \notin resident /\ UNCHANGED resident

\* BServer_BlockAMainThreadUntilBConnected: an A that is not connected yet waits
\* on its render thread, unless B is there.  Only the controller cancels the gate,
\* and not while it starts.
BlockAMainThread ==
  /\ pc = "block"
  /\ \/ /\ "connected" \in gate
        /\ Goto("active") /\ Working
        /\ UNCHANGED <<resident, gateTasks, running>>
     \/ /\ "connected" \notin gate
        /\ GiveUp /\ Failing
        /\ \E ok \in BOOLEAN : DefineMainGateClass(ok)
        /\ UNCHANGED <<gateTasks, running>>
     \/ /\ gate = {}
        /\ Goto("active") /\ Working
        /\ DefineMainGateClass(TRUE)
        /\ gateTasks' = gateTasks + 1
        /\ running' = running \cup {"task"}
  /\ OnlyStart
  /\ UNCHANGED <<refs, children, gate, attached, open, Hook>>

Start ==
  \/ InstallHookBridge \/ InstallRelayHandler \/ InstallConnectionHook
  \/ CacheBindings \/ BindServer \/ StartLanAnnouncement \/ Capture \/ BlockAMainThread

-----------------------------------------------------------------------------
\* DEL while the session is active.
Suspend ==
  /\ pc = "active"
  /\ Goto("request")
  /\ UNCHANGED <<sound, resident, SessionParts, Hook, failures, starts>>

\* mutant: the render thread is left in the gate.
KeepsGateClosed ==
  /\ pc = "request"
  /\ accepting' = FALSE
  /\ \/ Goto("listener") /\ Working
     \/ Goto("retry") /\ Failing
  /\ sound' = TRUE
  /\ UNCHANGED <<resident, SessionParts, hooked, connection, starts>>

\* BServer_RequestStop, then stopFor: callbacks that do not leave within the
\* second make this a failed stop, with everything still in place.
RequestStop ==
  /\ pc = "request"
  /\ gate' = {"cancelled"} /\ UNCHANGED gateTasks
  /\ accepting' = FALSE
  /\ \/ Goto("listener") /\ Working
     \/ Goto("retry") /\ Failing
  /\ sound' = TRUE
  /\ UNCHANGED <<resident, refs, children, attached, Machine, hooked, connection, starts>>

\* One step of StopBServer: what follows is tried whatever this one returns.
Step(here, next, ok) ==
  /\ pc = here
  /\ Goto(next)
  /\ sound' = (sound /\ ok)
  /\ UNCHANGED <<resident, RenderGate, attached, Hook, starts>>

Counted(ok) == IF ok THEN Working ELSE Failing

\* An event loop that has ended rejects every close, and its future has failed.
LoopGone == "loop" \notin running

\* Whether the close of a channel whose reference is still held succeeds.
Closes(ok) == IF LoopGone THEN ~ok /\ Working ELSE Counted(ok)

CloseListener(ok) ==
  /\ Step("listener", "children", ok)
  /\ \/ "listener" \notin refs /\ ok /\ Working /\ UNCHANGED running
     \/ /\ "listener" \in refs /\ Closes(ok)
        /\ \/ running' = running \ {"listener"}
           \/ ~ok /\ UNCHANGED running
  /\ UNCHANGED <<refs, children, open>>

\* The weak references of the children that closed, or were collected, are deleted,
\* the others kept.
CloseChildren(ok) ==
  /\ Step("children", "pinger", ok)
  /\ Counted(ok \/ LoopGone)
  /\ \E closed \in SUBSET children :
       /\ ok = (closed = children)
       /\ children' = children \ closed
       /\ open' = open \ closed
  /\ UNCHANGED <<refs, running>>

StopPinger(ok) ==
  /\ Step("pinger", "loop", ok) /\ Counted(ok)
  /\ ~ok => "lanPinger" \in refs
  /\ running' = IF ok /\ "lanPinger" \in refs THEN running \ {"pinger"} ELSE running
  /\ UNCHANGED <<refs, children, open>>

\* netty closes the channels of a loop it shuts down; it may go on doing so
\* after the five seconds the controller waits.
LoopOff == /\ running' = running \ {"loop", "closing", "listener"}
           /\ open' = {}

ShutdownLoop(ok) ==
  /\ Step("loop", "tasks", ok) /\ Counted(ok)
  /\ ~ok => "eventLoop" \in refs
  /\ IF ok /\ "eventLoop" \in refs
     THEN LoopOff
     ELSE /\ \/ UNCHANGED running
             \/ ~ok /\ "loop" \in running /\ running' = running \cup {"closing"}
          /\ UNCHANGED open
  /\ UNCHANGED <<refs, children>>

AwaitTasks(ok) ==
  /\ Step("tasks", "release", ok) /\ Counted(ok)
  /\ ok = (gateTasks = 0)
  /\ UNCHANGED <<refs, children, Machine>>

\* mutant: the references go although something they stand for still runs.
Releases == refs' = {}

\* Nothing is released while anything is left to stop.
ReleasesIfSound == refs' = IF sound THEN {} ELSE refs

Release ==
  /\ pc = "release"
  /\ Goto("unhook") /\ Working
  /\ ReleasesIfSound
  /\ UNCHANGED <<sound, resident, children, RenderGate, attached, Machine, Hook, starts>>

\* UninstallConnectionHook: without the event, retransformation restores Connection.
Unhook ==
  /\ pc = "unhook"
  /\ Goto("detach")
  /\ \/ Failing /\ sound' = FALSE /\ UNCHANGED <<hooked, connection>>
     \/ /\ hooked' = FALSE
        /\ \E ok \in BOOLEAN : /\ RetransformIfLoaded(FALSE, "capable" \in resident, ok)
                               /\ sound' = (sound /\ ok)
  /\ UNCHANGED <<resident, SessionParts, accepting, starts>>

\* mutant: the stop reports what StopBServer and the hook returned, not the relay.
ReportsWithoutRelay(detached) == IF sound THEN "suspended" ELSE "retry"

Reports(detached) == IF sound /\ detached THEN "suspended" ELSE "retry"

\* RelayHandler_DetachAll, and what stopSession returns.
Detach ==
  /\ pc = "detach"
  /\ \/ attached' = FALSE /\ Working
     \/ attached /\ UNCHANGED attached /\ Failing
  /\ Goto(Reports(~attached'))
  /\ UNCHANGED <<sound, resident, refs, children, RenderGate, Machine, Hook, starts>>

\* The controller retries a failed stop after a second, a resume event starts again.
Retry ==
  /\ pc = "retry"
  /\ Goto("request")
  /\ UNCHANGED <<sound, resident, SessionParts, Hook, failures, starts>>

Resume ==
  /\ pc = "suspended"
  /\ starts < MaxStarts
  /\ starts' = starts + 1
  /\ Goto("bridge")
  /\ UNCHANGED <<sound, resident, SessionParts, Hook, failures>>

StopBServer(ok) ==
  \/ CloseListener(ok) \/ CloseChildren(ok) \/ StopPinger(ok)
  \/ ShutdownLoop(ok) \/ AwaitTasks(ok)

Stop == \/ RequestStop \/ Release \/ Unhook \/ Detach \/ Retry
        \/ \E ok \in BOOLEAN : StopBServer(ok)

-----------------------------------------------------------------------------
\* The virtual machine: Minecraft loads and links Connection, A connects.
ReadConnection ==
  /\ connection = {}
  /\ Reads
  /\ UNCHANGED <<pc, sound, resident, SessionParts, accepting, hooked, failures, starts>>

DefineConnection ==
  /\ "reading" \in connection
  /\ connection' = Defined(connection)
  /\ UNCHANGED <<pc, sound, resident, SessionParts, accepting, hooked, failures, starts>>

LinkConnection ==
  /\ "loaded" \in connection /\ "linked" \notin connection
  /\ connection' = connection \cup {"linked"}
  /\ UNCHANGED <<pc, sound, resident, SessionParts, accepting, hooked, failures, starts>>

\* onChannelActive, called by the edited class.
AConnects ==
  /\ {"loaded", "patched"} \subseteq connection /\ accepting
  /\ refs' = refs \cup {"target"}
  /\ attached' \in {TRUE, attached}
  /\ UNCHANGED <<pc, sound, resident, children, RenderGate, Machine, Hook, failures, starts>>

\* A client of B opens a channel: initChannel records it while callbacks are admitted.
Accept(c) ==
  /\ "listener" \in running /\ "closing" \notin running /\ c \notin open
  /\ open' = open \cup {c}
  /\ children' = IF accepting THEN children \cup {c} ELSE children
  /\ UNCHANGED <<pc, sound, resident, refs, RenderGate, attached, running, Hook, failures, starts>>

\* The client goes; the weak reference stays until the stop.
ChildCloses(c) ==
  /\ c \in open
  /\ open' = open \ {c}
  /\ UNCHANGED <<pc, sound, resident, refs, children, RenderGate, attached, running, Hook, failures, starts>>

\* A client that entered Play, or gave it up, tells the gate.
BConnects(connected) ==
  /\ accepting /\ children # {}
  /\ connected => open \cap children # {}
  /\ gate' = IF connected THEN gate \cup {"connected"} ELSE gate \ {"connected"}
  /\ UNCHANGED <<pc, sound, resident, refs, children, gateTasks, attached, Machine, Hook, failures, starts>>

\* Native_MainThreadGate_run on A's render thread: it returns when B is there
\* or the gate is cancelled.
RunTask ==
  /\ "task" \in running
  /\ gate # {}
  /\ running' = running \ {"task"}
  /\ gateTasks' = gateTasks - 1
  /\ UNCHANGED <<pc, sound, resident, refs, children, gate, attached, open, Hook, failures, starts>>

LoopEnds ==
  /\ "closing" \in running
  /\ LoopOff
  /\ UNCHANGED <<pc, sound, resident, refs, children, RenderGate, attached, Hook, failures, starts>>

Next ==
  \/ Start \/ Suspend \/ Stop \/ Resume
  \/ ReadConnection \/ DefineConnection \/ LinkConnection \/ AConnects \/ RunTask \/ LoopEnds
  \/ \E c \in Children : Accept(c) \/ ChildCloses(c)
  \/ \E connected \in BOOLEAN : BConnects(connected)

Spec == Init /\ [][Next]_vars

\* The controller thread and A's render thread run; a failing call fails a
\* bounded number of times, so what the controller tries again succeeds in the end.
FairSpec == Spec /\ WF_vars(Start) /\ WF_vars(Stop) /\ WF_vars(RunTask)

-----------------------------------------------------------------------------
\* What still runs in the virtual machine can still be stopped: the controller
\* holds the reference the next attempt needs.  Releasing it after a stop that
\* was only half done would leave a port bound that no retry can free
\* (lifecycle.cpp:213-216).
NothingOrphaned ==
  /\ "loop" \in running => "eventLoop" \in refs
  /\ "listener" \in running \/ open # {} => "loop" \in running
  /\ "pinger" \in running => "lanPinger" \in refs
  /\ "task" \in running => gateTasks = 1

\* A stop that reported success gave A's virtual machine back: nothing of the
\* session runs or is referenced, no pipeline of A holds a relay, and Connection is
\* as Minecraft loaded it, unless it was being loaded at the one moment at which the
\* stop looked for it (architecture.md: no "suspended" before the cleanup is
\* complete; lifecycle.cpp:210-234, connection_hook.cpp:150-158).
SuspendedIsGone ==
  pc = "suspended" =>
    /\ running = {} /\ open = {} /\ refs = {} /\ children = {}
    /\ "patched" \in connection => "missed" \in connection
    /\ ~hooked /\ ~attached /\ ~accepting

\* An active session is wired whatever failed before it started: B's clients find
\* the port, the handlers of their channels and the bindings these require, and a
\* Connection of A, loaded early or late, runs the hook that attaches the relay.  The
\* two ways in which a session is active over a Connection that does not are named:
\* the callback gave up on the class file (connection_hook.cpp:55-58, 63-66, 72-76),
\* or the file was read before the event was enabled and the class defined after the
\* loaded classes were enumerated (connection_hook.cpp:98, 111).
Unpatchable == "skipped" \in connection \/ "missed" \in connection
ActiveIsWired ==
  pc = "active" =>
    /\ {"bridge", "relay", "bindings"} \cup ServerClasses \subseteq resident
    /\ accepting /\ hooked
    /\ "loaded" \in connection => "patched" \in connection \/ Unpatchable
    /\ {"listener", "eventLoop"} \subseteq refs
    /\ {"loop", "listener"} \subseteq running

\* A stop is retried until it succeeds (architecture.md:65, README.md:26), with two
\* exceptions.  After a first start that ended before InstallConnectionHook JVMTI
\* refuses to retransform Connection, and no retry asks for the capability
\* (connection_hook.cpp:150-158).  And an attempt that ended the event loop but failed
\* at something else leaves channels that no retry can close (lifecycle.cpp:145-171).
Stuck == "loaded" \in connection /\ "capable" \notin resident
Unclosable ==
  /\ pc = "retry" /\ "eventLoop" \in refs /\ LoopGone
  /\ "listener" \in refs \/ children # {}
StopSucceeds == pc = "retry" ~> (pc = "suspended" \/ Stuck \/ Unclosable)

\* Nothing a session leaves behind keeps the next one from starting, unless
\* Connection is not linked yet or the bindings were completed without
\* Minecraft.getInstance, which is not looked up again.
Unbound == \/ "linked" \notin connection
           \/ "bindings" \in resident /\ "getInstance" \notin resident
StartSucceeds ==
  (pc \in Starting /\ failures = MaxFailures) ~> (pc = "active" \/ Unbound)
=============================================================================
