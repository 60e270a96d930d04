---------------------------- MODULE RelayFilter ----------------------------
(***************************************************************************)
(* native/relay_handler.cpp and native/packet_policy.h: the handler in the *)
(* pipeline of A's connection that decides which packets reach A's server. *)
(*                                                                         *)
(* Packets that A's game writes pass it unless B is in control.  Packets   *)
(* of B are sent through A's connection, too: routeToA marks them and the  *)
(* handler lets a marked packet pass.  Handlers are added by the callback  *)
(* of A's new connections and by the controller, which finds a connection  *)
(* made earlier, and removed by a stop.                                    *)
(*                                                                         *)
(* The threads: A's game, the event loop of each of A's connections (its   *)
(* callback, the writes through the pipeline), B's event loop (routeToA)   *)
(* and the controller.  Mirroring, the other half of the handler, is in    *)
(* ProxySession.  A packet is an object and is sent once.                  *)
(***************************************************************************)
EXTENDS Integers, FiniteSets, SequencesExt

CONSTANTS
  Connections, NoConnection,
  APackets, BPackets,  \* what A's game and B send
  NoPacket,
  Kind,                \* the class of each packet
  MaxMarks             \* 256 in the code

Packets == APackets \cup BPackets

ASSUME NamesAreNone == NoConnection \notin Connections /\ NoPacket \notin Packets
ASSUME ABDisjoint == APackets \cap BPackets = {}
ASSUME KindsAreKnown == Kind \in [Packets -> {"game", "game owned by A", "other"}]
ASSUME MaxMarksIsNatural == MaxMarks \in Nat

VARIABLES
  phase,      \* of the session: the gate is open when it is running or stopping
  playing,    \* clientState = Play
  target,     \* ServerState::targetConnection
  connection, \* new, open or closed: A's connections
  hooking,    \* those whose channelActive callback has set the target
  capture,    \* the connection the controller has found, and its next step
  handlers,   \* the relay handlers in each pipeline
  pipelines,  \* g_pipelines
  marks,      \* g_bypassPending
  routing,    \* the packet routeToA has marked, and its connection
  outbound,   \* written to each connection and not yet through its pipeline
  passed,     \* handlers that the first of them has passed
  verdict,    \* what the handler that has it has decided
  unsent,     \* packets not sent yet
  markLog,    \* history: the marks made since the last stop
  since       \* history: A's packets sent to a handler since control last changed

gate == <<phase, playing, capture>>
ends == <<target, connection, hooking, handlers, pipelines>>
writes == <<outbound, passed, verdict>>
history == <<markLog, since>>
vars == <<gate, ends, writes, marks, routing, unsent, history>>

\* The gate admits callbacks until the stop closes it.
Admits == phase \in {"running", "stopping"}

\* BServer_IsBActive
BActive == phase = "running" /\ playing

\* packet_policy.  mutant: A's own packets are muted as well.
IsGame(p) == Kind[p] # "other"
AllowGameFromAOnly(p, active) == ~active \/ ~IsGame(p)
AllowFromA(p, active) == ~active \/ ~IsGame(p) \/ Kind[p] = "game owned by A"
AllowFromB(p) == Kind[p] = "game"

TypeOK ==
  /\ phase \in {"running", "stopping", "draining", "stopped"} /\ playing \in BOOLEAN
  /\ target \in Connections \cup {NoConnection}
  /\ connection \in [Connections -> {"new", "open", "closed"}]
  /\ hooking \subseteq Connections /\ pipelines \subseteq Connections
  /\ capture \in [at : {"idle", "attach", "target"}, of : Connections \cup {NoConnection}]
  /\ handlers \in [Connections -> Nat] /\ passed \in [Connections -> Nat]
  /\ marks \in Seq(BPackets)
  /\ routing \in [packet : BPackets \cup {NoPacket}, to : Connections \cup {NoConnection}]
  /\ outbound \in [Connections -> Seq(Packets)]
  /\ verdict \in [Connections -> {"none", "allow", "deny"}]
  /\ unsent \subseteq Packets
  /\ markLog \in Seq(BPackets) /\ since \subseteq APackets

NotRouting == [packet |-> NoPacket, to |-> NoConnection]
NotCapturing == [at |-> "idle", of |-> NoConnection]

Init ==
  /\ phase = "running" /\ playing = FALSE
  /\ target = NoConnection
  /\ connection \in [Connections -> {"new", "open"}]
  /\ hooking = {} /\ capture = NotCapturing
  /\ handlers = [c \in Connections |-> 0] /\ pipelines = {}
  /\ marks = <<>> /\ routing = NotRouting
  /\ outbound = [c \in Connections |-> <<>>]
  /\ passed = [c \in Connections |-> 0] /\ verdict = [c \in Connections |-> "none"]
  /\ unsent = Packets
  /\ markLog = <<>> /\ since = {}

-----------------------------------------------------------------------------
\* A closed connection that nobody holds may be collected at any time; its weak
\* reference leaves the list when somebody goes through it.
Collectable == {c \in Connections : connection[c] = "closed" /\ c \notin {target, capture.of}}

\* attachHandlerToPipeline, under g_pipelineMu.  Adding the handler may fail: at
\* packet_handler and at the head.  Making the weak reference is taken to
\* succeed.  mutants: only the latest is listed; the list is not searched first.
AddHandlerLatest(c) ==
  handlers' = [handlers EXCEPT ![c] = @ + 1] /\ pipelines' = {c}

AddHandler(c) ==
  /\ handlers' = [handlers EXCEPT ![c] = @ + 1]
  /\ \E gone \in SUBSET Collectable : pipelines' = (pipelines \ gone) \cup {c}

AttachUnsearched(c) == AddHandler(c)

Attach(c) ==
  IF c \in pipelines
  THEN UNCHANGED handlers /\ \E gone \in SUBSET Collectable : pipelines' = pipelines \ gone
  ELSE AddHandler(c)

AttachFails(c) ==
  UNCHANGED handlers /\ \E gone \in SUBSET Collectable : pipelines' = pipelines \ gone

\* A connects: Native_onChannelActive, if the gate admits it.
Connects(c) ==
  /\ connection[c] = "new"
  /\ connection' = [connection EXCEPT ![c] = "open"]
  /\ IF Admits THEN target' = c /\ hooking' = hooking \cup {c}
     ELSE UNCHANGED <<target, hooking>>
  /\ UNCHANGED <<gate, handlers, pipelines, writes, marks, routing, unsent, history>>

HookAttaches(c) ==
  /\ c \in hooking /\ hooking' = hooking \ {c}
  /\ Attach(c) \/ AttachFails(c)
  /\ UNCHANGED <<gate, target, connection, writes, marks, routing, unsent, history>>

\* The controller, once it is running: BServer_TryCaptureLiveConnection.
CaptureFinds(c) ==
  /\ phase = "running" /\ capture = NotCapturing
  /\ connection[c] = "open"
  /\ capture' = [at |-> "attach", of |-> c]
  /\ UNCHANGED <<phase, playing, ends, writes, marks, routing, unsent, history>>

CaptureAttaches ==
  /\ capture.at = "attach"
  /\ \/ Attach(capture.of) /\ capture' = [capture EXCEPT !.at = "target"]
     \/ AttachFails(capture.of) /\ capture' = NotCapturing
  /\ UNCHANGED <<phase, playing, target, connection, hooking, writes, marks, routing, unsent, history>>

CaptureTargets ==
  /\ capture.at = "target"
  /\ target' = capture.of /\ capture' = NotCapturing
  /\ UNCHANGED <<phase, playing, connection, hooking, handlers, pipelines, writes, marks, routing, unsent, history>>

\* A's connection closes.  Its event loop does one thing at a time.
Disconnects(c) ==
  /\ connection[c] = "open" /\ verdict[c] = "none" /\ c \notin hooking
  /\ connection' = [connection EXCEPT ![c] = "closed"]
  /\ outbound' = [outbound EXCEPT ![c] = <<>>]
  /\ passed' = [passed EXCEPT ![c] = 0]
  /\ UNCHANGED <<gate, target, hooking, handlers, pipelines, verdict, marks, routing, unsent, history>>

-----------------------------------------------------------------------------
\* A's game sends a packet.
ASends(p, c) ==
  /\ p \in unsent \cap APackets /\ connection[c] = "open"
  /\ unsent' = unsent \ {p}
  /\ outbound' = [outbound EXCEPT ![c] = Append(@, p)]
  /\ since' = IF handlers[c] > 0 THEN since \cup {p} ELSE since
  /\ UNCHANGED <<gate, ends, passed, verdict, marks, routing, markLog>>

\* RelayFilter_MarkBypass: the oldest mark gives way.  mutant: the new one does.
WithMarkIfRoom(p) == IF Len(marks) > MaxMarks THEN marks ELSE Append(marks, p)
WithMark(p) == Append(IF Len(marks) > MaxMarks THEN Tail(marks) ELSE marks, p)

\* B sends a packet: while it plays, a game packet that A does not own is marked
\* for the target, under the dispatch lock until it is sent.
BSends(p) ==
  /\ p \in unsent \cap BPackets /\ routing = NotRouting
  /\ phase = "running"
  /\ unsent' = unsent \ {p}
  /\ IF playing /\ AllowFromB(p) /\ target # NoConnection
     THEN /\ marks' = WithMark(p) /\ markLog' = Append(markLog, p)
          /\ routing' = [packet |-> p, to |-> target]
     ELSE UNCHANGED <<marks, markLog, routing>>
  /\ UNCHANGED <<gate, ends, writes, since>>

\* Connection.send: a connection that is not open keeps the packet for ever.
RouteSends ==
  /\ routing # NotRouting /\ routing' = NotRouting
  /\ outbound' = IF connection[routing.to] = "open"
                 THEN [outbound EXCEPT ![routing.to] = Append(@, routing.packet)]
                 ELSE outbound
  /\ UNCHANGED <<gate, ends, passed, verdict, marks, unsent, history>>

\* consumeBypassMark: the first mark of the packet.
Unmarked(p) == RemoveFirst(marks, p)

\* The event loop turns to the first packet.
Waiting(c) == outbound[c] # <<>> /\ verdict[c] = "none" /\ c \notin hooking

\* mutant: any mark lets any packet pass.
AnyMark(p) == marks # <<>>
Marked(p) == p \in ToSet(marks)

\* Native_RelayWrite: the decision, and the write that follows it.
RelayDecides(c) ==
  LET p == Head(outbound[c])
      bypass == Marked(p)
  IN /\ Waiting(c) /\ passed[c] < handlers[c] /\ Admits
     /\ marks' = IF bypass THEN Unmarked(p) ELSE marks
     /\ verdict' = [verdict EXCEPT ![c] =
                      IF bypass \/ AllowFromA(p, BActive) THEN "allow" ELSE "deny"]
     /\ UNCHANGED <<gate, ends, outbound, passed, routing, unsent, history>>

RelayWrites(c) ==
  /\ verdict[c] = "allow"
  /\ verdict' = [verdict EXCEPT ![c] = "none"]
  /\ passed' = [passed EXCEPT ![c] = @ + 1]
  /\ UNCHANGED <<gate, ends, outbound, marks, routing, unsent, history>>

\* A packet that is not allowed is reported as written.
RelayDrops(c) ==
  /\ verdict[c] = "deny"
  /\ verdict' = [verdict EXCEPT ![c] = "none"]
  /\ outbound' = [outbound EXCEPT ![c] = Tail(@)]
  /\ passed' = [passed EXCEPT ![c] = 0]
  /\ UNCHANGED <<gate, ends, marks, routing, unsent, history>>

\* A callback that the gate refuses passes everything on.
RelayRefused(c) ==
  /\ Waiting(c) /\ passed[c] < handlers[c] /\ ~Admits
  /\ passed' = [passed EXCEPT ![c] = @ + 1]
  /\ UNCHANGED <<gate, ends, outbound, verdict, marks, routing, unsent, history>>

Arrives(c) ==
  /\ Waiting(c) /\ passed[c] >= handlers[c]
  /\ outbound' = [outbound EXCEPT ![c] = Tail(@)]
  /\ passed' = [passed EXCEPT ![c] = 0]
  /\ UNCHANGED <<gate, ends, verdict, marks, routing, unsent, history>>

-----------------------------------------------------------------------------
\* B gets control and loses it.
TakesControl ==
  /\ phase = "running" /\ ~playing /\ playing' = TRUE /\ since' = {}
  /\ UNCHANGED <<phase, capture, ends, writes, marks, routing, unsent, markLog>>

LosesControl ==
  /\ playing /\ playing' = FALSE /\ since' = {}
  /\ UNCHANGED <<phase, capture, ends, writes, marks, routing, unsent, markLog>>

\* stopSession, from the controller: the request, then the gate.
RequestStop ==
  /\ phase = "running" /\ capture = NotCapturing
  /\ phase' = "stopping" /\ since' = {}
  /\ UNCHANGED <<playing, capture, ends, writes, marks, routing, unsent, markLog>>

CloseGate ==
  /\ phase = "stopping" /\ phase' = "draining"
  /\ UNCHANGED <<playing, capture, ends, writes, marks, routing, unsent, history>>

\* stopFor has returned true: no callback is inside.
Drained ==
  /\ phase = "draining" /\ hooking = {} /\ routing = NotRouting
  /\ \A c \in Connections : verdict[c] = "none"

\* RelayHandler_DetachAll, with StopBServer before it.  A removal may fail
\* before or after it has taken the handler out; remove(Class) takes out one.
\* mutant: what could not be detached is forgotten.
Removed(removed) ==
  handlers' = [c \in Connections |-> IF c \in removed /\ handlers[c] > 0 THEN handlers[c] - 1 ELSE handlers[c]]

ForgetsFailed(failed) == pipelines' = {}
KeepsFailed(failed) == pipelines' = failed

DetachAll ==
  /\ Drained
  /\ \E failed \in SUBSET pipelines : \E half \in SUBSET failed :
       /\ Removed((pipelines \ failed) \cup half)
       /\ KeepsFailed(failed)
  /\ phase' = IF pipelines' = {} THEN "stopped" ELSE "draining"
  /\ marks' = <<>> /\ markLog' = <<>>
  /\ playing' = FALSE /\ target' = NoConnection
  /\ UNCHANGED <<capture, connection, hooking, writes, routing, unsent, since>>

\* startSession, when what was written before the stop has left A's connections.
Starts ==
  /\ phase = "stopped" /\ phase' = "running"
  /\ \A c \in Connections : outbound[c] = <<>>
  /\ since' = {}
  /\ UNCHANGED <<playing, capture, ends, writes, marks, routing, unsent, markLog>>

-----------------------------------------------------------------------------
Controller ==
  \/ \E c \in Connections : CaptureFinds(c)
  \/ CaptureAttaches \/ CaptureTargets
  \/ RequestStop \/ CloseGate \/ DetachAll \/ Starts

EventLoop(c) ==
  \/ Connects(c) \/ HookAttaches(c) \/ Disconnects(c)
  \/ RelayDecides(c) \/ RelayWrites(c) \/ RelayDrops(c) \/ RelayRefused(c) \/ Arrives(c)

Next ==
  \/ Controller
  \/ \E c \in Connections : EventLoop(c) \/ \E p \in APackets : ASends(p, c)
  \/ \E p \in BPackets : BSends(p)
  \/ RouteSends \/ TakesControl \/ LosesControl

Spec == Init /\ [][Next]_vars

-----------------------------------------------------------------------------
\* A pipeline never has two handlers, though the callback and the controller may
\* attach at the same time: the second would filter what the first let pass
\* (relay_handler.cpp:249-260).
OneRelay == \A c \in Connections : handlers[c] <= 1

\* Every handler in a live pipeline is in the list that the stop goes through,
\* and a stop that reported success leaves neither handler nor mark, whichever
\* removals failed before (relay_handler.cpp:331-381).
RelayIsKnown == \A c \in Connections : handlers[c] > 0 /\ connection[c] = "open" => c \in pipelines
StoppedLeavesNothing ==
  phase = "stopped" =>
    marks = <<>> /\ \A c \in Connections : connection[c] = "open" => handlers[c] = 0

\* What the next step of an event loop does.
Dropping(p) == \E c \in Connections : verdict[c] = "deny" /\ Head(outbound[c]) = p
Arriving(p) == \E c \in Connections : Waiting(c) /\ passed[c] >= handlers[c] /\ Head(outbound[c]) = p

\* A packet of B is filtered only if more than MaxMarks others were marked after
\* it before its turn came (relay_handler.cpp:37-47, 211-223).
MarkedAfter(p) == {i \in DOMAIN markLog : \E k \in 1..(i - 1) : markLog[k] = p}
BPacketsPass == \A p \in BPackets : Dropping(p) => Cardinality(MarkedAfter(p)) > MaxMarks

\* As long as B is in control, what A's game sends through the handler does not
\* reach the server; as long as it is not, nothing of it is filtered.
ControlIsExclusive ==
  \A p \in since : IF BActive THEN Arriving(p) => Kind[p] # "game" ELSE ~Dropping(p)

\* The server gets its heartbeat and mod answers from A alone, and all of them
\* (packet_policy.h:5-6).
HeartbeatIsAs ==
  /\ \A p \in APackets : Dropping(p) => Kind[p] = "game"
  /\ \A p \in BPackets : Arriving(p) => Kind[p] = "game"
=============================================================================
