------------------------- MODULE RelayFilterProofs -------------------------
(***************************************************************************)
(* For any number of A's connections and packets: the handlers in the      *)
(* pipelines, and what the filter lets through.                            *)
(*                                                                         *)
(* The list g_pipelines need not hold every pipeline with a handler: those *)
(* of closed connections that were collected are gone.  It holds every one *)
(* that somebody can still attach to or write through (Reachable), which   *)
(* is what the search before attaching and the stop rely on (IInv).        *)
(*                                                                         *)
(* The filter's invariants come one after the other.  QueueInv: the types, *)
(* and where in a pipeline the packet under decision is.  OnceInv: a       *)
(* packet is in one place, and what a packet of A is denied for is its     *)
(* kind.  ControlInv: what A's game sent since B has control is still      *)
(* behind its handler.  MarkInv: a packet of B that is still to be decided *)
(* has its mark, or MaxMarks others displaced it.                          *)
(***************************************************************************)
EXTENDS RelayFilter, SequenceTheorems, FiniteSetTheorems, WellFoundedInduction, TLAPS

Reachable(c) == connection[c] = "open" \/ capture.of = c

Tidy(c) ==
  /\ handlers[c] \in {0, 1}
  /\ connection[c] = "new" => handlers[c] = 0 /\ capture.of # c
  /\ handlers[c] = 1 /\ Reachable(c) => c \in pipelines

IInv ==
  /\ connection \in [Connections -> {"new", "open", "closed"}]
  /\ handlers \in [Connections -> Nat]
  /\ capture \in [at : {"idle", "attach", "target"}, of : Connections \cup {NoConnection}]
  /\ capture.at # "idle" => capture.of \in Connections
  /\ \A c \in hooking : c \in Connections /\ connection[c] = "open"
  /\ \A c \in Connections : Tidy(c)
  /\ phase # "running" => capture = NotCapturing
  /\ phase = "stopped" => pipelines = {} /\ marks = <<>> /\ hooking = {}

\* No connection has a handler before its callback or the controller attaches one.
LEMMA InitIInv == Init => IInv
<1> SUFFICES ASSUME Init PROVE IInv
  OBVIOUS
<1> USE NamesAreNone DEF Init, NotCapturing
<1>1. ASSUME NEW c \in Connections PROVE Tidy(c)
  BY DEF Tidy, Reachable
<1>2. connection \in [Connections -> {"new", "open", "closed"}]
  OBVIOUS
<1> QED
  BY <1>1, <1>2 DEF IInv

\* Attaching to a pipeline that is in use, or failing to.
LEMMA AttachIsTidy ==
  ASSUME IInv, NEW c \in Connections, Reachable(c), connection[c] # "new",
         Attach(c) \/ AttachFails(c), UNCHANGED connection,
         capture' = capture \/ capture' = [capture EXCEPT !.at = "target"] \/ capture' = NotCapturing
  PROVE  handlers' \in [Connections -> Nat] /\ \A d \in Connections : Tidy(d)'
<1>1. /\ handlers \in [Connections -> Nat] /\ \A d \in Connections : Tidy(d)
      /\ connection \in [Connections -> {"new", "open", "closed"}]
  BY DEF IInv
<1>2. capture'.of \in {capture.of, NoConnection}
  BY DEF IInv, NotCapturing
<1>3. \A d \in Connections : Reachable(d)' => Reachable(d)
  BY <1>2, NamesAreNone DEF Reachable
<1>4. \A d \in Connections : Reachable(d) => d \notin Collectable
  BY DEF Reachable, Collectable
<1>5. CASE UNCHANGED handlers /\ \E gone \in SUBSET Collectable : pipelines' = pipelines \ gone
  BY <1>1, <1>2, <1>3, <1>4, <1>5, NamesAreNone DEF Tidy
<1>6. CASE c \notin pipelines /\ AddHandler(c)
  <2>1. PICK gone \in SUBSET Collectable :
          /\ handlers' = [handlers EXCEPT ![c] = @ + 1]
          /\ pipelines' = (pipelines \ gone) \cup {c}
    BY <1>6 DEF AddHandler
  <2>2. handlers[c] = 0
    BY <1>1, <1>6 DEF Tidy
  <2>3. Tidy(c)'
    BY <1>1, <2>1, <2>2 DEF Tidy
  <2>4. ASSUME NEW d \in Connections, d # c PROVE Tidy(d)'
    <3>1. handlers'[d] = handlers[d]
      BY <1>1, <2>1, <2>4
    <3> QED
      BY <1>1, <1>2, <1>3, <1>4, <2>1, <3>1, NamesAreNone DEF Tidy
  <2>5. handlers' \in [Connections -> Nat]
    BY <1>1, <2>1
  <2> QED
    BY <2>3, <2>4, <2>5
<1> QED
  BY <1>5, <1>6 DEF Attach, AttachFails

-----------------------------------------------------------------------------
\* A's connections: made, attached to by their callback, closed.
LEMMA ConnectsKeepsIInv ==
  ASSUME IInv, NEW c \in Connections, Connects(c)
  PROVE  IInv'
<1>1. /\ connection[c] = "new" /\ connection' = [connection EXCEPT ![c] = "open"]
      /\ UNCHANGED <<phase, capture, handlers, pipelines, marks>>
      /\ hooking' = hooking \/ (Admits /\ hooking' = hooking \cup {c})
  BY DEF Connects, gate
<1>2. /\ connection' \in [Connections -> {"new", "open", "closed"}]
      /\ connection'[c] = "open" /\ \A d \in Connections : d # c => connection'[d] = connection[d]
  BY <1>1 DEF IInv
<1>3. \A d \in hooking' : d \in Connections /\ connection'[d] = "open"
  BY <1>1, <1>2 DEF IInv
<1>4. ASSUME NEW d \in Connections PROVE Tidy(d)'
  <2>1. Tidy(d) /\ Tidy(c)
    BY DEF IInv
  <2> QED
    BY <1>1, <1>2, <2>1 DEF Tidy, Reachable
<1>5. phase' = "stopped" => hooking' = {}
  BY <1>1 DEF IInv, Admits
<1> QED
  BY <1>1, <1>2, <1>3, <1>4, <1>5 DEF IInv, NotCapturing

\* The callback attaches to the connection it is called for, which is open.
LEMMA HookAttachesKeepsIInv ==
  ASSUME IInv, NEW c \in Connections, HookAttaches(c)
  PROVE  IInv'
<1>1. /\ c \in hooking /\ hooking' = hooking \ {c}
      /\ Attach(c) \/ AttachFails(c)
      /\ UNCHANGED <<phase, capture, connection, marks>>
  BY DEF HookAttaches, gate
<1>2. Reachable(c) /\ connection[c] # "new"
  BY <1>1 DEF IInv, Reachable
<1>3. handlers' \in [Connections -> Nat] /\ \A d \in Connections : Tidy(d)'
  BY <1>1, <1>2, AttachIsTidy
<1>4. phase # "stopped"
  BY <1>1 DEF IInv
<1> QED
  BY <1>1, <1>3, <1>4 DEF IInv, NotCapturing

\* A closed connection may leave the list: nobody attaches to it any more.
LEMMA DisconnectsKeepsIInv ==
  ASSUME IInv, NEW c \in Connections, Disconnects(c)
  PROVE  IInv'
<1>1. /\ connection[c] = "open" /\ c \notin hooking
      /\ connection' = [connection EXCEPT ![c] = "closed"]
      /\ UNCHANGED <<phase, capture, hooking, handlers, pipelines, marks>>
  BY DEF Disconnects, gate
<1>2. /\ connection' \in [Connections -> {"new", "open", "closed"}]
      /\ connection'[c] = "closed" /\ \A d \in Connections : d # c => connection'[d] = connection[d]
  BY <1>1 DEF IInv
<1>3. ASSUME NEW d \in Connections PROVE Tidy(d)'
  <2>1. Tidy(d)
    BY DEF IInv
  <2> QED
    BY <1>1, <1>2, <2>1 DEF Tidy, Reachable
<1>4. \A d \in hooking' : d \in Connections /\ connection'[d] = "open"
  BY <1>1, <1>2 DEF IInv
<1> QED
  BY <1>1, <1>2, <1>3, <1>4 DEF IInv, NotCapturing

-----------------------------------------------------------------------------
\* The controller finds a connection, attaches, and sets the target.
LEMMA CaptureFindsKeepsIInv ==
  ASSUME IInv, NEW c \in Connections, CaptureFinds(c)
  PROVE  IInv'
<1>1. /\ phase = "running" /\ connection[c] = "open"
      /\ capture' = [at |-> "attach", of |-> c] /\ capture = NotCapturing
      /\ UNCHANGED <<phase, connection, hooking, handlers, pipelines, marks>>
  BY DEF CaptureFinds, ends
<1>2. ASSUME NEW d \in Connections PROVE Tidy(d)'
  <2>1. Tidy(d)
    BY DEF IInv
  <2> QED
    BY <1>1, <2>1 DEF Tidy, Reachable
<1> QED
  BY <1>1, <1>2 DEF IInv

\* The controller may attach after its connection has closed; it is held meanwhile.
LEMMA CaptureAttachesKeepsIInv == IInv /\ CaptureAttaches => IInv'
<1> SUFFICES ASSUME IInv, CaptureAttaches PROVE IInv'
  OBVIOUS
<1> DEFINE c == capture.of
<1>1. /\ capture.at = "attach"
      /\ (Attach(c) \/ AttachFails(c))
      /\ (capture' = [capture EXCEPT !.at = "target"] \/ capture' = NotCapturing)
      /\ UNCHANGED <<phase, connection, hooking, marks>>
  BY DEF CaptureAttaches
<1>2. /\ capture \in [at : {"idle", "attach", "target"}, of : Connections \cup {NoConnection}]
      /\ c \in Connections /\ c = capture.of
  BY <1>1 DEF IInv
<1>3. phase = "running"
  <2>1. capture # NotCapturing
    BY <1>1 DEF NotCapturing
  <2> QED
    BY <2>1 DEF IInv
<1>4. /\ capture' \in [at : {"idle", "attach", "target"}, of : Connections \cup {NoConnection}]
      /\ capture'.at # "idle" => capture'.of \in Connections
  BY <1>1, <1>2 DEF NotCapturing
<1> HIDE DEF c
<1>5. Reachable(c) /\ connection[c] # "new"
  <2>1. Reachable(c) /\ Tidy(c)
    BY <1>2 DEF IInv, Reachable
  <2> QED
    BY <1>2, <2>1 DEF Tidy
<1>6. handlers' \in [Connections -> Nat] /\ \A d \in Connections : Tidy(d)'
  BY <1>1, <1>2, <1>5, AttachIsTidy
<1> QED
  BY <1>1, <1>3, <1>4, <1>6 DEF IInv

\* The controller lets go of the connection.
LEMMA CaptureTargetsKeepsIInv == IInv /\ CaptureTargets => IInv'
<1> SUFFICES ASSUME IInv, CaptureTargets PROVE IInv'
  OBVIOUS
<1>1. /\ capture' = NotCapturing
      /\ UNCHANGED <<phase, connection, hooking, handlers, pipelines, marks>>
  BY DEF CaptureTargets
<1>2. ASSUME NEW d \in Connections PROVE Tidy(d)'
  <2>1. Tidy(d)
    BY DEF IInv
  <2> QED
    BY <1>1, <2>1, NamesAreNone DEF Tidy, Reachable, NotCapturing
<1> QED
  BY <1>1, <1>2 DEF IInv, NotCapturing

-----------------------------------------------------------------------------
\* The stop goes through the list: what it could not detach stays in it.
LEMMA DetachAllKeepsIInv == IInv /\ DetachAll => IInv'
<1> SUFFICES ASSUME IInv, DetachAll PROVE IInv'
  OBVIOUS
<1>1. /\ phase = "draining" /\ hooking = {} /\ marks' = <<>>
      /\ phase' = IF pipelines' = {} THEN "stopped" ELSE "draining"
      /\ UNCHANGED <<capture, connection, hooking>>
  BY DEF DetachAll, Drained
<1>2. PICK failed \in SUBSET pipelines, half \in SUBSET pipelines :
        /\ half \subseteq failed
        /\ Removed((pipelines \ failed) \cup half)
        /\ pipelines' = failed
  BY DEF DetachAll, KeepsFailed
<1>3. handlers \in [Connections -> Nat] /\ \A d \in Connections : Tidy(d)
  BY DEF IInv
<1>4. \A d \in Connections :
        handlers'[d] = IF d \in (pipelines \ failed) \cup half /\ handlers[d] > 0 THEN handlers[d] - 1
                       ELSE handlers[d]
  BY <1>2 DEF Removed
<1>5. \A d \in Connections : handlers'[d] \in {0, handlers[d]}
  BY <1>3, <1>4 DEF Tidy
<1>6. handlers' \in [Connections -> Nat]
  <2>1. handlers' = [d \in Connections |-> handlers'[d]]
    BY <1>2 DEF Removed
  <2> QED
    BY <1>3, <1>5, <2>1
<1>7. ASSUME NEW d \in Connections PROVE Tidy(d)'
  <2>1. Tidy(d) /\ handlers'[d] \in {0, handlers[d]}
    BY <1>3, <1>5
  <2>2. handlers'[d] = 1 /\ Reachable(d)' => d \in failed
    <3> SUFFICES ASSUME handlers'[d] = 1, Reachable(d)', d \notin failed PROVE FALSE
      OBVIOUS
    <3>1. handlers[d] = 1 /\ d \in pipelines
      BY <1>1, <2>1 DEF Tidy, Reachable
    <3>2. handlers'[d] = 0
      BY <1>4, <3>1
    <3> QED
      BY <3>2
  <2> QED
    BY <1>1, <1>2, <2>1, <2>2 DEF Tidy
<1> QED
  BY <1>1, <1>6, <1>7 DEF IInv

\* The other steps touch neither pipelines nor connections; marks are made and
\* taken only while the gate is open.
LEMMA OthersKeepIInv ==
  ASSUME IInv, UNCHANGED <<capture, connection, hooking, handlers, pipelines>>,
         \/ UNCHANGED <<phase, marks>>
         \/ phase' = phase /\ phase # "stopped"
         \/ phase' = "running" /\ UNCHANGED marks
         \/ phase' \in {"stopping", "draining"} /\ capture = NotCapturing /\ UNCHANGED marks
  PROVE  IInv'
<1>1. ASSUME NEW d \in Connections PROVE Tidy(d)'
  BY DEF IInv, Tidy, Reachable
<1> QED
  BY <1>1 DEF IInv, NotCapturing

\* Every step keeps the invariant, one case per actor.
LEMMA NextKeepsIInv == IInv /\ [Next]_vars => IInv'
<1> SUFFICES ASSUME IInv, [Next]_vars PROVE IInv'
  OBVIOUS
<1>1. CASE Controller
  <2>1. CASE RequestStop
    BY <2>1, OthersKeepIInv DEF RequestStop, ends
  <2>2. CASE CloseGate
    <3>1. capture = NotCapturing
      BY <2>2 DEF CloseGate, IInv
    <3> QED
      BY <2>2, <3>1, OthersKeepIInv DEF CloseGate, ends
  <2>3. CASE Starts
    BY <2>3, OthersKeepIInv DEF Starts, ends
  <2> QED
    BY <1>1, <2>1, <2>2, <2>3, CaptureFindsKeepsIInv, CaptureAttachesKeepsIInv,
       CaptureTargetsKeepsIInv, DetachAllKeepsIInv DEF Controller
<1>2. ASSUME NEW c \in Connections, EventLoop(c) PROVE IInv'
  <2>1. CASE RelayDecides(c)
    BY <2>1, OthersKeepIInv DEF RelayDecides, gate, ends, Admits
  <2>2. CASE RelayWrites(c) \/ RelayDrops(c) \/ RelayRefused(c) \/ Arrives(c)
    BY <2>2, OthersKeepIInv DEF RelayWrites, RelayDrops, RelayRefused, Arrives, gate, ends
  <2> QED
    BY <1>2, <2>1, <2>2, ConnectsKeepsIInv, HookAttachesKeepsIInv, DisconnectsKeepsIInv DEF EventLoop
<1>3. ASSUME NEW c \in Connections, NEW p \in APackets, ASends(p, c) PROVE IInv'
  BY <1>3, OthersKeepIInv DEF ASends, gate, ends
<1>4. ASSUME NEW p \in BPackets, BSends(p) PROVE IInv'
  BY <1>4, OthersKeepIInv DEF BSends, gate, ends
<1>5. CASE RouteSends \/ TakesControl \/ LosesControl
  BY <1>5, OthersKeepIInv DEF RouteSends, TakesControl, LosesControl, gate, ends
<1>6. CASE UNCHANGED vars
  BY <1>6, OthersKeepIInv DEF vars, gate, ends
<1> QED
  BY <1>1, <1>2, <1>3, <1>4, <1>5, <1>6 DEF Next

\* The handlers are tidy in every state (relay_handler.cpp:246-302, 331-381).
THEOREM SpecInvariant == Spec => []IInv
BY InitIInv, NextKeepsIInv, PTL DEF Spec

-----------------------------------------------------------------------------
\* No pipeline has two handlers, whoever attaches when (relay_handler.cpp:246-260).
THEOREM OneHandler == Spec => []OneRelay
<1>1. IInv => OneRelay
  BY DEF IInv, Tidy, OneRelay
<1> QED
  BY <1>1, SpecInvariant, PTL

\* The stop finds every handler of a live connection in its list
\* (relay_handler.cpp:292-296, 331-381).
THEOREM HandlersKnown == Spec => []RelayIsKnown
<1>1. IInv => RelayIsKnown
  BY DEF IInv, Tidy, Reachable, RelayIsKnown
<1> QED
  BY <1>1, SpecInvariant, PTL

\* After a stop that reported success there is no handler in a live pipeline and
\* no mark, whichever removals failed and were retried (relay_handler.cpp:331-381).
THEOREM StopDetaches == Spec => []StoppedLeavesNothing
<1>1. IInv => StoppedLeavesNothing
  BY DEF IInv, Tidy, Reachable, StoppedLeavesNothing
<1> QED
  BY <1>1, SpecInvariant, PTL

-----------------------------------------------------------------------------
\* What the packets on their way and their marks are.
PacketTypes ==
  /\ marks \in Seq(BPackets) /\ markLog \in Seq(BPackets)
  /\ routing \in {NotRouting} \cup [packet : BPackets, to : Connections]
  /\ outbound \in [Connections -> Seq(Packets)]
  /\ passed \in [Connections -> {0, 1}]
  /\ verdict \in [Connections -> {"none", "allow", "deny"}]
  /\ unsent \subseteq Packets /\ since \subseteq APackets
  /\ target \in Connections \cup {NoConnection}

\* Each event loop deals with its first packet, which meets one handler at most.
Turn(c) ==
  /\ outbound[c] = <<>> => passed[c] = 0 /\ verdict[c] = "none"
  /\ verdict[c] # "none" => passed[c] = 0

QueueInv == PacketTypes /\ \A c \in Connections : Turn(c)

LEMMA InitQueue == Init => QueueInv
<1> SUFFICES ASSUME Init PROVE QueueInv
  OBVIOUS
<1>1. PacketTypes
  BY DEF Init, PacketTypes, NotRouting, Packets
<1>2. \A c \in Connections : Turn(c)
  BY DEF Init, Turn
<1> QED
  BY <1>1, <1>2 DEF QueueInv

\* Nothing but an event loop, or a send, touches what is on its way.
LEMMA QuietStepKeepsQueue ==
  ASSUME QueueInv, UNCHANGED writes, unsent' \subseteq unsent, since' \in {since, {}},
         marks' \in {marks, <<>>}, markLog' \in {markLog, <<>>},
         UNCHANGED routing, target' \in Connections \cup {NoConnection}
  PROVE  QueueInv'
<1>1. UNCHANGED <<outbound, passed, verdict>>
  BY DEF writes
<1>2. PacketTypes'
  <2>1. <<>> \in Seq(BPackets) /\ PacketTypes
    BY EmptySeq DEF QueueInv
  <2>2. marks' \in Seq(BPackets) /\ markLog' \in Seq(BPackets)
    BY <2>1 DEF PacketTypes
  <2>3. since' \subseteq APackets /\ unsent' \subseteq Packets
    BY <2>1 DEF PacketTypes
  <2> QED
    BY <1>1, <2>1, <2>2, <2>3 DEF PacketTypes
<1>3. \A c \in Connections : Turn(c)'
  BY <1>1 DEF QueueInv, Turn
<1> QED
  BY <1>2, <1>3 DEF QueueInv

\* A packet is appended to one connection's queue.
LEMMA AppendKeepsQueue ==
  ASSUME QueueInv, NEW c \in Connections, NEW p \in Packets,
         outbound' = [outbound EXCEPT ![c] = Append(@, p)], UNCHANGED <<passed, verdict>>
  PROVE  /\ outbound' \in [Connections -> Seq(Packets)]
         /\ \A d \in Connections : Turn(d)'
         /\ outbound'[c] = Append(outbound[c], p) /\ outbound[c] \in Seq(Packets)
         /\ \A d \in Connections : d # c => outbound'[d] = outbound[d]
<1>1. outbound \in [Connections -> Seq(Packets)] /\ \A d \in Connections : Turn(d)
  BY DEF QueueInv, PacketTypes
<1>2. PICK s \in Seq(Packets) : s = outbound[c]
  BY <1>1
<1>3. Append(s, p) \in Seq(Packets) /\ Append(s, p) # <<>>
  BY AppendProperties
<1>4. outbound'[c] = Append(s, p) /\ \A d \in Connections : d # c => outbound'[d] = outbound[d]
  BY <1>1, <1>2
<1>5. outbound' \in [Connections -> Seq(Packets)]
  BY <1>1, <1>2, <1>3
<1>6. \A d \in Connections : Turn(d)'
  BY <1>1, <1>3, <1>4 DEF Turn
<1> QED
  BY <1>2, <1>4, <1>5, <1>6

\* An event loop is done with its first packet, or loses all with its connection.
LEMMA ShorterKeepsQueue ==
  ASSUME QueueInv, NEW c \in Connections,
         \/ outbound[c] # <<>> /\ outbound' = [outbound EXCEPT ![c] = Tail(@)]
         \/ outbound' = [outbound EXCEPT ![c] = <<>>],
         passed' = [passed EXCEPT ![c] = 0],
         verdict' = [verdict EXCEPT ![c] = "none"]
  PROVE  /\ outbound' \in [Connections -> Seq(Packets)]
         /\ passed' \in [Connections -> {0, 1}]
         /\ verdict' \in [Connections -> {"none", "allow", "deny"}]
         /\ \A d \in Connections : Turn(d)'
<1>1. /\ outbound \in [Connections -> Seq(Packets)] /\ \A d \in Connections : Turn(d)
      /\ passed \in [Connections -> {0, 1}]
      /\ verdict \in [Connections -> {"none", "allow", "deny"}]
  BY DEF QueueInv, PacketTypes
<1>2. PICK s \in Seq(Packets) : s = outbound[c]
  BY <1>1
<1>3. PICK t \in Seq(Packets) : outbound' = [outbound EXCEPT ![c] = t]
  <2>1. CASE s # <<>> /\ outbound' = [outbound EXCEPT ![c] = Tail(@)]
    <3>1. Tail(s) \in Seq(Packets)
      BY <2>1, HeadTailProperties
    <3> QED
      BY <1>2, <2>1, <3>1
  <2>2. CASE outbound' = [outbound EXCEPT ![c] = <<>>]
    BY <2>2, EmptySeq
  <2> QED
    BY <1>2, <2>1, <2>2
<1> QED
  BY <1>1, <1>3 DEF Turn

\* Where the packets on their way were before the step.
LEMMA AppendPlaces ==
  ASSUME QueueInv, NEW c \in Connections, NEW p \in Packets,
         outbound' = [outbound EXCEPT ![c] = Append(@, p)]
  PROVE  \A d \in Connections : \A i \in DOMAIN outbound'[d] :
           \/ i \in DOMAIN outbound[d] /\ outbound'[d][i] = outbound[d][i]
           \/ /\ d = c /\ outbound'[d][i] = p
              /\ i = Len(outbound[c]) + 1
<1>1. outbound \in [Connections -> Seq(Packets)]
  BY DEF QueueInv, PacketTypes
<1>2. PICK s \in Seq(Packets) : s = outbound[c]
  BY <1>1
<1>3. outbound'[c] = Append(s, p) /\ \A d \in Connections : d # c => outbound'[d] = outbound[d]
  BY <1>1, <1>2
<1>4. PICK t \in Seq(Packets) : t = Append(s, p)
  BY <1>2, AppendProperties
<1>5. \A i \in DOMAIN t : (i \in DOMAIN s /\ t[i] = s[i]) \/ (i = Len(s) + 1 /\ t[i] = p)
  BY <1>4, AppendProperties, LenProperties
<1> QED
  BY <1>2, <1>3, <1>4, <1>5

LEMMA ShorterPlaces ==
  ASSUME QueueInv, NEW c \in Connections,
         \/ outbound[c] # <<>> /\ outbound' = [outbound EXCEPT ![c] = Tail(@)]
         \/ outbound' = [outbound EXCEPT ![c] = <<>>]
  PROVE  \A d \in Connections : \A i \in DOMAIN outbound'[d] :
           IF d = c THEN i + 1 \in DOMAIN outbound[c] /\ outbound'[c][i] = outbound[c][i + 1] /\ i \in Nat \ {0}
                    ELSE i \in DOMAIN outbound[d] /\ outbound'[d][i] = outbound[d][i]
<1>1. outbound \in [Connections -> Seq(Packets)]
  BY DEF QueueInv, PacketTypes
<1>2. PICK s \in Seq(Packets) : s = outbound[c]
  BY <1>1
<1>3. PICK t \in Seq(Packets) :
        /\ outbound' = [outbound EXCEPT ![c] = t]
        /\ \A i \in DOMAIN t : i + 1 \in DOMAIN s /\ t[i] = s[i + 1] /\ i \in Nat \ {0}
  <2>1. CASE s # <<>> /\ outbound' = [outbound EXCEPT ![c] = Tail(@)]
    <3>1. PICK t \in Seq(Packets) : t = Tail(s)
      BY <2>1, HeadTailProperties
    <3>2. Len(t) = Len(s) - 1 /\ \A i \in 1 .. Len(t) : t[i] = s[i + 1]
      BY <2>1, <3>1, HeadTailProperties
    <3>3. /\ Len(t) \in Nat /\ DOMAIN t = 1 .. Len(t)
          /\ Len(s) \in Nat /\ DOMAIN s = 1 .. Len(s)
      BY LenProperties
    <3>4. \A i \in DOMAIN t : i + 1 \in DOMAIN s /\ t[i] = s[i + 1] /\ i \in Nat \ {0}
      BY <3>2, <3>3
    <3> QED
      BY <1>2, <2>1, <3>1, <3>4
  <2>2. CASE outbound' = [outbound EXCEPT ![c] = <<>>]
    <3>1. <<>> \in Seq(Packets) /\ DOMAIN <<>> = {}
      BY EmptySeq
    <3> QED
      BY <2>2, <3>1
  <2> QED
    BY <1>2, <2>1, <2>2
<1>4. outbound'[c] = t /\ \A d \in Connections : d # c => outbound'[d] = outbound[d]
  BY <1>1, <1>3
<1> QED
  BY <1>2, <1>3, <1>4

\* The steps that end a packet's way.
LEMMA Shortens ==
  ASSUME QueueInv, NEW c \in Connections, RelayDrops(c) \/ Arrives(c) \/ Disconnects(c)
  PROVE  /\ \/ outbound[c] # <<>> /\ outbound' = [outbound EXCEPT ![c] = Tail(@)]
            \/ outbound' = [outbound EXCEPT ![c] = <<>>]
         /\ passed' = [passed EXCEPT ![c] = 0]
         /\ verdict' = [verdict EXCEPT ![c] = "none"]
<1>1. PacketTypes /\ Turn(c)
  BY DEF QueueInv
<1>2. CASE RelayDrops(c)
  BY <1>1, <1>2 DEF RelayDrops, Turn
<1>3. CASE Arrives(c)
  BY <1>1, <1>3 DEF Arrives, Waiting, PacketTypes
<1>4. CASE Disconnects(c)
  BY <1>1, <1>4 DEF Disconnects, PacketTypes
<1> QED
  BY <1>2, <1>3, <1>4

\* What routeToA sends.
LEMMA Routed ==
  ASSUME QueueInv, RouteSends, outbound' # outbound
  PROVE  /\ routing.to \in Connections /\ routing.packet \in BPackets /\ routing.packet \in Packets
         /\ outbound' = [outbound EXCEPT ![routing.to] = Append(@, routing.packet)]
<1> QED
  BY DEF QueueInv, PacketTypes, RouteSends, Packets, NotRouting

-----------------------------------------------------------------------------
\* The marks: a list of which the oldest is first.
LEMMA LeastOfInterval ==
  ASSUME NEW n \in Nat, NEW I \in SUBSET (1 .. n), I # {}
  PROVE  \E m \in I : \A i \in I : m <= i
<1> DEFINE less == {ss \in Nat \X Nat : ss[1] < ss[2]}
<1>1. IsWellFoundedOn(less, Nat)
  BY NatLessThanWellFounded DEF OpToRel
<1>2. I \subseteq Nat
  OBVIOUS
<1>3. \E m \in I : \A i \in I : ~(<<i, m>> \in less)
  <2> HIDE DEF less
  <2> QED
    BY <1>1, <1>2, WFMin
<1>4. PICK m \in I : \A i \in I : ~(<<i, m>> \in less)
  BY <1>3
<1>5. \A i \in I : ~(i < m)
  BY <1>2, <1>4
<1> QED
  BY <1>2, <1>5

\* consumeBypassMark takes one mark out and keeps the order of the others.
LEMMA UnmarkedTakesOne ==
  ASSUME marks \in Seq(BPackets), NEW p \in ToSet(marks)
  PROVE  /\ Unmarked(p) \in Seq(BPackets)
         /\ Len(Unmarked(p)) = Len(marks) - 1
         /\ \E k \in DOMAIN marks :
              /\ marks[k] = p
              /\ \A i \in DOMAIN Unmarked(p) :
                   Unmarked(p)[i] = IF i < k THEN marks[i] ELSE marks[i + 1]
<1> DEFINE I == {i \in 1..Len(marks) : marks[i] = p}
<1>1. Len(marks) \in Nat /\ DOMAIN marks = 1..Len(marks) /\ marks \in [1..Len(marks) -> BPackets]
  BY LenProperties
<1>2. \E i \in 1..Len(marks) : marks[i] = p
  BY <1>1 DEF ToSet
<1>3. Unmarked(p) = RemoveAt(marks, Min(I))
  BY <1>2 DEF Unmarked, RemoveFirst, SelectInSeq
<1>4. Min(I) \in I
  <2>1. \E m \in I : \A i \in I : m <= i
    <3>1. I \in SUBSET (1..Len(marks)) /\ I # {}
      BY <1>2
    <3> HIDE DEF I
    <3> QED
      BY <1>1, <3>1, LeastOfInterval
  <2> HIDE DEF I
  <2> QED
    BY <2>1 DEF Min
<1>5. PICK n \in Nat : n = Len(marks)
  BY <1>1
<1>6. PICK k \in 1..n : k = Min(I) /\ marks[k] = p
  BY <1>4, <1>5
<1>7. PICK s \in Seq(BPackets) :
        /\ s = SubSeq(marks, 1, k - 1) /\ Len(s) = k - 1
        /\ \A i \in 1..(k - 1) : s[i] = marks[i]
  <2>1. k - 1 \in Int /\ 1 \in Int /\ \A i \in 1..(k - 1) : marks[i] \in BPackets
    BY <1>1, <1>5
  <2>2. /\ SubSeq(marks, 1, k - 1) \in Seq(BPackets)
        /\ Len(SubSeq(marks, 1, k - 1)) = IF 1 <= k - 1 THEN (k - 1) - 1 + 1 ELSE 0
        /\ \A i \in 1..((k - 1) - 1 + 1) : SubSeq(marks, 1, k - 1)[i] = marks[1 + i - 1]
    BY <2>1, SubSeqProperties
  <2>3. PICK s \in Seq(BPackets) : s = SubSeq(marks, 1, k - 1)
    BY <2>2
  <2>4. Len(s) = k - 1 /\ \A i \in 1..(k - 1) : s[i] = marks[i]
    BY <2>2, <2>3
  <2> QED
    BY <2>3, <2>4
<1>8. PICK t \in Seq(BPackets) :
        /\ t = SubSeq(marks, k + 1, n) /\ Len(t) = n - k
        /\ \A i \in 1..(n - k) : t[i] = marks[k + i]
  <2>1. k + 1 \in Int /\ n \in Int /\ \A i \in (k + 1)..n : marks[i] \in BPackets
    BY <1>1, <1>5
  <2>2. /\ SubSeq(marks, k + 1, n) \in Seq(BPackets)
        /\ Len(SubSeq(marks, k + 1, n)) = IF k + 1 <= n THEN n - (k + 1) + 1 ELSE 0
        /\ \A i \in 1..(n - (k + 1) + 1) : SubSeq(marks, k + 1, n)[i] = marks[(k + 1) + i - 1]
    BY <2>1, SubSeqProperties
  <2>3. PICK t \in Seq(BPackets) : t = SubSeq(marks, k + 1, n)
    BY <2>2
  <2>4. Len(t) = n - k /\ \A i \in 1..(n - k) : t[i] = marks[k + i]
    BY <2>2, <2>3
  <2> QED
    BY <2>3, <2>4
<1>9. Unmarked(p) = s \o t
  BY <1>3, <1>5, <1>6, <1>7, <1>8 DEF RemoveAt
<1>10. PICK u \in Seq(BPackets) :
         /\ u = s \o t /\ Len(u) = n - 1
         /\ \A i \in 1..(n - 1) : u[i] = IF i <= k - 1 THEN s[i] ELSE t[i - (k - 1)]
  <2>1. /\ s \o t \in Seq(BPackets) /\ Len(s \o t) = Len(s) + Len(t)
        /\ \A i \in 1..Len(s) + Len(t) : (s \o t)[i] = IF i <= Len(s) THEN s[i] ELSE t[i - Len(s)]
    BY ConcatProperties
  <2>2. PICK u \in Seq(BPackets) : u = s \o t
    BY <2>1
  <2>3. Len(s) + Len(t) = n - 1
    BY <1>7, <1>8
  <2>4. Len(u) = n - 1 /\ \A i \in 1..(n - 1) : u[i] = IF i <= k - 1 THEN s[i] ELSE t[i - (k - 1)]
    BY <1>7, <2>1, <2>2, <2>3
  <2> QED
    BY <2>2, <2>4
<1>11. \A i \in 1..(n - 1) : u[i] = IF i < k THEN marks[i] ELSE marks[i + 1]
  BY <1>7, <1>8, <1>10
<1>12. DOMAIN u = 1..(n - 1)
  BY <1>10, LenProperties
<1> QED
  BY <1>1, <1>5, <1>6, <1>9, <1>10, <1>11, <1>12

\* A packet whose mark was not the one taken keeps it.
LEMMA OtherMarksStay ==
  ASSUME marks \in Seq(BPackets), NEW p \in ToSet(marks), NEW q \in ToSet(marks), p # q
  PROVE  q \in ToSet(Unmarked(p))
<1>1. PICK u \in Seq(BPackets), n \in Nat :
        u = Unmarked(p) /\ n = Len(marks) /\ Len(u) = n - 1
  BY UnmarkedTakesOne, LenProperties
<1>2. PICK k \in DOMAIN marks :
        /\ marks[k] = p
        /\ \A i \in DOMAIN u : u[i] = IF i < k THEN marks[i] ELSE marks[i + 1]
  BY <1>1, UnmarkedTakesOne
<1>3. DOMAIN marks = 1..n /\ DOMAIN u = 1..(n - 1)
  BY <1>1, LenProperties
<1>4. PICK j \in 1..n : marks[j] = q
  BY <1>3 DEF ToSet
<1>5. j # k
  BY <1>2, <1>4
<1>6. CASE j < k
  <2>1. j \in 1..(n - 1) /\ u[j] = q
    BY <1>2, <1>3, <1>4, <1>6
  <2> QED
    BY <1>1, <1>3, <2>1 DEF ToSet
<1>7. CASE j > k
  <2>1. j - 1 \in 1..(n - 1) /\ ~(j - 1 < k) /\ (j - 1) + 1 = j
    BY <1>2, <1>3, <1>4, <1>7
  <2>2. u[j - 1] = q
    BY <1>2, <1>3, <1>4, <2>1
  <2> QED
    BY <1>1, <1>3, <2>1, <2>2 DEF ToSet
<1> QED
  BY <1>2, <1>3, <1>4, <1>5, <1>6, <1>7

\* RelayFilter_MarkBypass: at the end, and the oldest gives way when there are too many.
LEMMA WithMarkAppends ==
  ASSUME marks \in Seq(BPackets), NEW p \in BPackets
  PROVE  \E s \in Seq(BPackets) :
           /\ WithMark(p) = Append(s, p)
           /\ \/ s = marks /\ ~(Len(marks) > MaxMarks)
              \/ /\ Len(marks) > MaxMarks /\ Len(s) = Len(marks) - 1
                 /\ \A i \in 1..Len(s) : s[i] = marks[i + 1]
<1>1. CASE Len(marks) > MaxMarks
  <2>1. marks # <<>>
    BY <1>1, MaxMarksIsNatural, EmptySeq
  <2>2. Tail(marks) \in Seq(BPackets) /\ Len(Tail(marks)) = Len(marks) - 1
        /\ \A i \in 1..Len(Tail(marks)) : Tail(marks)[i] = marks[i + 1]
    BY <2>1, HeadTailProperties
  <2> QED
    BY <1>1, <2>2 DEF WithMark
<1>2. CASE ~(Len(marks) > MaxMarks)
  BY <1>2 DEF WithMark
<1> QED
  BY <1>1, <1>2

-----------------------------------------------------------------------------
LEMMA ASendsKeepsQueue ==
  ASSUME QueueInv, NEW p \in APackets, NEW c \in Connections, ASends(p, c)
  PROVE  QueueInv'
<1>1. /\ outbound' = [outbound EXCEPT ![c] = Append(@, p)] /\ UNCHANGED <<passed, verdict, marks, routing, markLog, target>>
      /\ unsent' \subseteq unsent /\ since' \subseteq since \cup {p}
  BY DEF ASends, ends
<1>2. outbound' \in [Connections -> Seq(Packets)] /\ \A d \in Connections : Turn(d)'
  BY <1>1, AppendKeepsQueue DEF Packets
<1>3. PacketTypes'
  BY <1>1, <1>2 DEF QueueInv, PacketTypes
<1> QED
  BY <1>2, <1>3 DEF QueueInv

LEMMA BSendsKeepsQueue ==
  ASSUME QueueInv, NEW p \in BPackets, BSends(p)
  PROVE  QueueInv'
<1>1. /\ UNCHANGED <<writes, since, target>> /\ unsent' \subseteq unsent
      /\ \/ /\ marks' = WithMark(p) /\ markLog' = Append(markLog, p) /\ target # NoConnection
            /\ routing' = [packet |-> p, to |-> target]
         \/ UNCHANGED <<marks, markLog, routing>>
  BY DEF BSends, ends
<1>2. WithMark(p) \in Seq(BPackets) /\ Append(markLog, p) \in Seq(BPackets)
  <2>1. marks \in Seq(BPackets) /\ markLog \in Seq(BPackets)
    BY DEF QueueInv, PacketTypes
  <2>2. PICK s \in Seq(BPackets) : WithMark(p) = Append(s, p)
    BY <2>1, WithMarkAppends
  <2> QED
    BY <2>1, <2>2, AppendProperties
<1>3. marks' \in Seq(BPackets) /\ markLog' \in Seq(BPackets)
  BY <1>1, <1>2 DEF QueueInv, PacketTypes
<1>4. routing' \in {NotRouting} \cup [packet : BPackets, to : Connections]
  BY <1>1 DEF QueueInv, PacketTypes
<1> QED
  BY <1>1, <1>3, <1>4 DEF QueueInv, PacketTypes, Turn, writes

LEMMA RouteSendsKeepsQueue == QueueInv /\ RouteSends => QueueInv'
<1> SUFFICES ASSUME QueueInv, RouteSends PROVE QueueInv'
  OBVIOUS
<1>1. /\ routing' = NotRouting /\ UNCHANGED <<passed, verdict, marks, markLog, since, unsent, target>>
      /\ \/ outbound' = [outbound EXCEPT ![routing.to] = Append(@, routing.packet)]
         \/ outbound' = outbound
  BY DEF RouteSends, ends, history
<1>2. PacketTypes
  BY DEF QueueInv
<1>3. outbound' \in [Connections -> Seq(Packets)] /\ \A d \in Connections : Turn(d)'
  <2>1. CASE outbound' = outbound
    BY <1>1, <2>1 DEF QueueInv, PacketTypes, Turn
  <2>2. CASE outbound' # outbound
    <3>1. routing.to \in Connections /\ routing.packet \in Packets
      BY <2>2, Routed
    <3> QED
      BY <1>1, <2>2, <3>1, AppendKeepsQueue
  <2> QED
    BY <2>1, <2>2
<1> QED
  BY <1>1, <1>2, <1>3 DEF QueueInv, PacketTypes

LEMMA EventLoopKeepsQueue ==
  ASSUME IInv, QueueInv, NEW c \in Connections, EventLoop(c)
  PROVE  QueueInv'
<1>1. PacketTypes /\ (\A d \in Connections : Turn(d)) /\ handlers[c] \in {0, 1}
  BY DEF QueueInv, IInv, Tidy
<1>2. CASE Connects(c)
  <2>1. target' \in Connections \cup {NoConnection}
    BY <1>1, <1>2 DEF Connects, PacketTypes
  <2> QED
    BY <1>2, <2>1, QuietStepKeepsQueue DEF Connects, history
<1>3. CASE HookAttaches(c)
  BY <1>1, <1>3, QuietStepKeepsQueue DEF HookAttaches, history, PacketTypes
<1>4. CASE RelayDecides(c)
  <2>1. /\ outbound[c] # <<>> /\ passed[c] < handlers[c]
        /\ marks' \in {marks, Unmarked(Head(outbound[c]))}
        /\ Head(outbound[c]) \in ToSet(marks) \/ marks' = marks
        /\ \E v \in {"allow", "deny"} : verdict' = [verdict EXCEPT ![c] = v]
        /\ UNCHANGED <<outbound, passed, routing, unsent, markLog, since, target>>
    BY <1>4 DEF RelayDecides, Waiting, Marked, ends, history
  <2>2. passed[c] = 0
    BY <1>1, <2>1 DEF PacketTypes
  <2>3. marks' \in Seq(BPackets)
    BY <1>1, <2>1, UnmarkedTakesOne DEF PacketTypes
  <2>4. verdict' \in [Connections -> {"none", "allow", "deny"}]
    BY <1>1, <2>1 DEF PacketTypes
  <2>5. \A d \in Connections : Turn(d)'
    BY <1>1, <2>1, <2>2 DEF Turn, PacketTypes
  <2> QED
    BY <1>1, <2>1, <2>3, <2>4, <2>5 DEF QueueInv, PacketTypes
<1>5. CASE RelayWrites(c) \/ RelayRefused(c)
  <2>1. /\ UNCHANGED <<outbound, routing, unsent, marks, markLog, since, target>>
        /\ passed' = [passed EXCEPT ![c] = @ + 1]
        /\ verdict' = [verdict EXCEPT ![c] = "none"] \/ verdict' = verdict
        /\ verdict[c] = "none" \/ verdict'[c] = "none"
        /\ outbound[c] # <<>> /\ passed[c] = 0
    BY <1>1, <1>5 DEF RelayWrites, RelayRefused, Waiting, ends, history, PacketTypes, Turn
  <2>2. passed' \in [Connections -> {0, 1}] /\ verdict' \in [Connections -> {"none", "allow", "deny"}]
    <3>1. /\ passed \in [Connections -> {0, 1}]
          /\ verdict \in [Connections -> {"none", "allow", "deny"}]
      BY <1>1 DEF PacketTypes
    <3>2. passed' = [passed EXCEPT ![c] = 1]
      BY <2>1, <3>1
    <3> QED
      BY <2>1, <3>1, <3>2
  <2>3. \A d \in Connections : Turn(d)'
    BY <1>1, <2>1, <2>2 DEF Turn, PacketTypes
  <2> QED
    BY <1>1, <2>1, <2>2, <2>3 DEF QueueInv, PacketTypes
<1>6. CASE RelayDrops(c) \/ Arrives(c) \/ Disconnects(c)
  <2>1. UNCHANGED <<routing, unsent, marks, markLog, since, target>>
    BY <1>6 DEF RelayDrops, Arrives, Disconnects, ends, history
  <2>2. /\ outbound' \in [Connections -> Seq(Packets)]
        /\ passed' \in [Connections -> {0, 1}]
        /\ verdict' \in [Connections -> {"none", "allow", "deny"}]
        /\ \A d \in Connections : Turn(d)'
    BY <1>6, Shortens, ShorterKeepsQueue
  <2> QED
    BY <1>1, <2>1, <2>2 DEF QueueInv, PacketTypes
<1> QED
  BY <1>2, <1>3, <1>4, <1>5, <1>6 DEF EventLoop

LEMMA OthersKeepQueue ==
  ASSUME IInv, QueueInv, Controller \/ TakesControl \/ LosesControl \/ UNCHANGED vars
  PROVE  QueueInv'
<1>1. PacketTypes
  BY DEF QueueInv
<1>2. /\ UNCHANGED <<writes, unsent, routing>>
      /\ since' \in {since, {}} /\ marks' \in {marks, <<>>} /\ markLog' \in {markLog, <<>>}
  BY DEF Controller, CaptureFinds, CaptureAttaches, CaptureTargets, RequestStop, CloseGate,
         DetachAll, Starts, TakesControl, LosesControl, vars, history
<1>3. target' \in {target, capture.of, NoConnection}
  BY DEF Controller, CaptureFinds, CaptureAttaches, CaptureTargets, RequestStop, CloseGate,
         DetachAll, Starts, TakesControl, LosesControl, vars, ends
<1>4. target' \in Connections \cup {NoConnection}
  BY <1>1, <1>3 DEF PacketTypes, IInv
<1> QED
  BY <1>2, <1>4, QuietStepKeepsQueue

\* The packets are typed, and only the first of a queue is being decided
\* (relay_handler.cpp:383-411).
THEOREM QueueInvHolds == Spec => [](IInv /\ QueueInv)
<1>1. Init => IInv /\ QueueInv
  BY InitIInv, InitQueue
<1>2. IInv /\ QueueInv /\ [Next]_vars => IInv' /\ QueueInv'
  BY NextKeepsIInv, ASendsKeepsQueue, BSendsKeepsQueue, RouteSendsKeepsQueue, EventLoopKeepsQueue,
     OthersKeepQueue DEF Next
<1> QED
  BY <1>1, <1>2, PTL DEF Spec

-----------------------------------------------------------------------------
\* A packet is on its way once, and B's are those that the policy lets through.
SentOnce ==
  /\ \A c \in Connections : \A i \in DOMAIN outbound[c] :
       outbound[c][i] \notin unsent /\ outbound[c][i] # routing.packet
  /\ \A c, d \in Connections : \A i \in DOMAIN outbound[c], j \in DOMAIN outbound[d] :
       outbound[c][i] = outbound[d][j] => c = d /\ i = j
  /\ routing.packet \notin unsent

OnlyGameOfB ==
  /\ \A c \in Connections : \A i \in DOMAIN outbound[c] :
       outbound[c][i] \in BPackets => Kind[outbound[c][i]] = "game"
  /\ routing.packet \in BPackets => Kind[routing.packet] = "game"

OnlyGameDenied ==
  \A c \in Connections :
    verdict[c] = "deny" /\ outbound[c][1] \in APackets => Kind[outbound[c][1]] = "game"

OnceInv == SentOnce /\ OnlyGameOfB /\ OnlyGameDenied

LEMMA InitOnce == Init => OnceInv
BY NamesAreNone DEF Init, OnceInv, SentOnce, OnlyGameOfB, OnlyGameDenied, NotRouting, Packets

LEMMA QuietStepKeepsOnce ==
  ASSUME OnceInv, UNCHANGED <<outbound, verdict, unsent, routing>>
  PROVE  OnceInv'
BY DEF OnceInv, SentOnce, OnlyGameOfB, OnlyGameDenied

\* The first packet of a queue.
LEMMA FirstIsHead ==
  ASSUME QueueInv, NEW c \in Connections, outbound[c] # <<>>
  PROVE  1 \in DOMAIN outbound[c] /\ outbound[c][1] = Head(outbound[c]) /\ outbound[c][1] \in Packets
<1>1. PICK s \in Seq(Packets) : s = outbound[c]
  BY DEF QueueInv, PacketTypes
<1>2. Len(s) \in Nat \ {0} /\ DOMAIN s = 1..Len(s) /\ Head(s) = s[1] /\ Head(s) \in Packets
  BY <1>1, EmptySeq, LenProperties, HeadTailProperties
<1> QED
  BY <1>1, <1>2

\* A packet that was nowhere before is appended.
LEMMA AppendKeepsOnce ==
  ASSUME QueueInv, OnceInv, NEW c \in Connections, NEW p \in Packets,
         outbound' = [outbound EXCEPT ![c] = Append(@, p)], UNCHANGED verdict,
         \A d \in Connections : \A i \in DOMAIN outbound[d] : outbound[d][i] # p,
         unsent' \subseteq unsent, p \notin unsent',
         routing' \in {routing, NotRouting}, routing'.packet # p,
         p \in BPackets => Kind[p] = "game"
  PROVE  OnceInv'
<1>1. \A d \in Connections : \A i \in DOMAIN outbound'[d] :
        \/ i \in DOMAIN outbound[d] /\ outbound'[d][i] = outbound[d][i]
        \/ d = c /\ outbound'[d][i] = p /\ i = Len(outbound[c]) + 1
  BY AppendPlaces
<1>2. \A d \in Connections : \A i \in DOMAIN outbound[d] : outbound[d][i] \in Packets
  BY DEF QueueInv, PacketTypes
<1>3. routing'.packet \in {routing.packet, NoPacket}
  BY DEF NotRouting
<1>4. SentOnce'
  <2>1. \A d \in Connections : \A i \in DOMAIN outbound'[d] :
          outbound'[d][i] \notin unsent' /\ outbound'[d][i] # routing'.packet
    BY <1>1, <1>2, <1>3, NamesAreNone DEF OnceInv, SentOnce
  <2>2. \A d, e \in Connections : \A i \in DOMAIN outbound'[d], j \in DOMAIN outbound'[e] :
          outbound'[d][i] = outbound'[e][j] => d = e /\ i = j
    BY <1>1 DEF OnceInv, SentOnce
  <2>3. routing'.packet \notin unsent'
    BY <1>3, NamesAreNone DEF OnceInv, SentOnce, QueueInv, PacketTypes
  <2> QED
    BY <2>1, <2>2, <2>3 DEF SentOnce
<1>5. OnlyGameOfB'
  BY <1>1, <1>3, NamesAreNone DEF OnceInv, OnlyGameOfB, Packets
<1>6. ASSUME NEW d \in Connections, verdict'[d] = "deny", outbound'[d][1] \in APackets
      PROVE  Kind[outbound'[d][1]] = "game"
  <2>1. outbound[d] # <<>>
    BY <1>6 DEF QueueInv, Turn
  <2>2. outbound'[d][1] = outbound[d][1]
    <3>1. PICK s \in Seq(Packets) : s = outbound[d] /\ s # <<>>
      BY <2>1 DEF QueueInv, PacketTypes
    <3>2. Append(s, p)[1] = s[1]
      <4>1. Len(s) \in Nat \ {0}
        BY <3>1, EmptySeq
      <4> QED
        BY <4>1, AppendProperties
    <3>3. outbound'[d] \in {outbound[d], Append(s, p)}
      BY <3>1 DEF QueueInv, PacketTypes
    <3> QED
      BY <3>1, <3>2, <3>3
  <2> QED
    BY <1>6, <2>2 DEF OnceInv, OnlyGameDenied
<1> QED
  BY <1>4, <1>5, <1>6 DEF OnceInv, OnlyGameDenied

LEMMA ShorterKeepsOnce ==
  ASSUME QueueInv, OnceInv, NEW c \in Connections, UNCHANGED <<unsent, routing>>,
         \/ outbound[c] # <<>> /\ outbound' = [outbound EXCEPT ![c] = Tail(@)]
         \/ outbound' = [outbound EXCEPT ![c] = <<>>],
         verdict' = [verdict EXCEPT ![c] = "none"]
  PROVE  OnceInv'
<1>1. \A d \in Connections : \A i \in DOMAIN outbound'[d] :
        IF d = c THEN i + 1 \in DOMAIN outbound[c] /\ outbound'[c][i] = outbound[c][i + 1] /\ i \in Nat \ {0}
                 ELSE i \in DOMAIN outbound[d] /\ outbound'[d][i] = outbound[d][i]
  BY ShorterPlaces
<1>2. SentOnce'
  <2>1. \A d \in Connections : \A i \in DOMAIN outbound'[d] :
          outbound'[d][i] \notin unsent' /\ outbound'[d][i] # routing'.packet
    BY <1>1 DEF OnceInv, SentOnce
  <2>2. ASSUME NEW d \in Connections, NEW e \in Connections,
               NEW i \in DOMAIN outbound'[d], NEW j \in DOMAIN outbound'[e],
               outbound'[d][i] = outbound'[e][j]
        PROVE  d = e /\ i = j
    <3>1. PICK k \in DOMAIN outbound[d] :
            k = (IF d = c THEN i + 1 ELSE i) /\ outbound'[d][i] = outbound[d][k]
      BY <1>1
    <3>2. PICK m \in DOMAIN outbound[e] :
            m = (IF e = c THEN j + 1 ELSE j) /\ outbound'[e][j] = outbound[e][m]
      BY <1>1
    <3>3. outbound[d][k] = outbound[e][m]
      BY <2>2, <3>1, <3>2, Zenon
    <3>4. d = e /\ k = m
      BY <3>3 DEF OnceInv, SentOnce
    <3>5. d = c => i \in Nat /\ j \in Nat
      BY <1>1, <3>4
    <3> QED
      BY <3>1, <3>2, <3>4, <3>5
  <2> QED
    BY <2>1, <2>2 DEF OnceInv, SentOnce
<1>3. OnlyGameOfB'
  BY <1>1 DEF OnceInv, OnlyGameOfB
<1>4. \A d \in Connections : verdict'[d] = "deny" => outbound'[d] = outbound[d] /\ verdict[d] = "deny"
  BY DEF QueueInv, PacketTypes
<1> QED
  BY <1>2, <1>3, <1>4 DEF OnceInv, OnlyGameDenied

LEMMA EventLoopKeepsOnce ==
  ASSUME QueueInv, OnceInv, NEW c \in Connections, EventLoop(c)
  PROVE  OnceInv'
<1>1. CASE Connects(c) \/ HookAttaches(c) \/ RelayRefused(c)
  BY <1>1, QuietStepKeepsOnce DEF Connects, HookAttaches, RelayRefused, writes, history
<1>2. CASE RelayDecides(c) \/ RelayWrites(c)
  <2>1. UNCHANGED <<outbound, unsent, routing>>
    BY <1>2 DEF RelayDecides, RelayWrites
  <2>2. OnlyGameDenied'
    <3>1. ASSUME NEW d \in Connections, verdict'[d] = "deny", outbound[d][1] \in APackets
          PROVE  Kind[outbound[d][1]] = "game"
      <4>1. CASE verdict[d] = "deny"
        BY <3>1, <4>1 DEF OnceInv, OnlyGameDenied
      <4>2. CASE verdict[d] # "deny"
        <5>1. RelayDecides(c) /\ d = c /\ ~AllowFromA(Head(outbound[c]), BActive)
          BY <1>2, <3>1, <4>2 DEF RelayDecides, RelayWrites, QueueInv, PacketTypes
        <5>2. Head(outbound[c]) = outbound[c][1] /\ outbound[c][1] \in Packets
          BY <5>1, FirstIsHead DEF RelayDecides, Waiting
        <5> QED
          BY <5>1, <5>2, KindsAreKnown DEF AllowFromA, IsGame
      <4> QED
        BY <4>1, <4>2
    <3> QED
      BY <2>1, <3>1 DEF OnlyGameDenied
  <2> QED
    BY <2>1, <2>2 DEF OnceInv, SentOnce, OnlyGameOfB
<1>3. CASE RelayDrops(c) \/ Arrives(c) \/ Disconnects(c)
  <2>1. UNCHANGED <<unsent, routing>>
    BY <1>3 DEF RelayDrops, Arrives, Disconnects, history
  <2> QED
    BY <1>3, <2>1, Shortens, ShorterKeepsOnce
<1> QED
  BY <1>1, <1>2, <1>3 DEF EventLoop

LEMMA SendsKeepOnce ==
  ASSUME QueueInv, OnceInv,
         \/ \E p \in APackets, c \in Connections : ASends(p, c)
         \/ \E p \in BPackets : BSends(p)
         \/ RouteSends
  PROVE  OnceInv'
<1>1. ASSUME NEW p \in APackets, NEW c \in Connections, ASends(p, c)
      PROVE  OnceInv'
  <2>1. /\ p \in Packets /\ p \in unsent /\ p \notin BPackets
        /\ outbound' = [outbound EXCEPT ![c] = Append(@, p)] /\ UNCHANGED <<verdict, routing>>
        /\ unsent' \subseteq unsent /\ p \notin unsent'
    BY <1>1, ABDisjoint DEF ASends, Packets
  <2>2. \A d \in Connections : \A i \in DOMAIN outbound[d] : outbound[d][i] # p
    BY <2>1 DEF OnceInv, SentOnce
  <2>3. routing'.packet # p /\ routing' \in {routing, NotRouting}
    BY <2>1 DEF OnceInv, SentOnce
  <2> QED
    BY <2>1, <2>2, <2>3, AppendKeepsOnce
<1>2. ASSUME NEW p \in BPackets, BSends(p)
      PROVE  OnceInv'
  <2>1. /\ p \in Packets /\ p \in unsent /\ unsent' = unsent \ {p}
        /\ routing' = routing \/ (AllowFromB(p) /\ routing'.packet = p)
        /\ UNCHANGED <<outbound, verdict>>
    BY <1>2 DEF BSends, Packets, writes
  <2> QED
    BY <2>1 DEF OnceInv, SentOnce, OnlyGameOfB, OnlyGameDenied, AllowFromB
<1>3. CASE RouteSends
  <2>1. routing' = NotRouting /\ UNCHANGED <<verdict, unsent>>
    BY <1>3 DEF RouteSends, history
  <2>2. CASE outbound' = outbound
    <3>1. routing'.packet = NoPacket
      BY <2>1 DEF NotRouting
    <3>2. \A d \in Connections : \A i \in DOMAIN outbound[d] : outbound[d][i] \in Packets
      BY DEF QueueInv, PacketTypes
    <3> QED
      BY <2>1, <2>2, <3>1, <3>2, NamesAreNone
      DEF OnceInv, SentOnce, OnlyGameOfB, OnlyGameDenied, Packets, QueueInv, PacketTypes
  <2>3. CASE outbound' # outbound
    <3>1. /\ routing.to \in Connections /\ routing.packet \in BPackets /\ routing.packet \in Packets
          /\ outbound' = [outbound EXCEPT ![routing.to] = Append(@, routing.packet)]
      BY <1>3, <2>3, Routed
    <3>2. routing'.packet # routing.packet /\ routing.packet \notin unsent'
      BY <2>1, <3>1, NamesAreNone DEF NotRouting, OnceInv, SentOnce
    <3>3. \A d \in Connections : \A i \in DOMAIN outbound[d] : outbound[d][i] # routing.packet
      BY DEF OnceInv, SentOnce
    <3>4. Kind[routing.packet] = "game"
      BY <3>1 DEF OnceInv, OnlyGameOfB
    <3> QED
      BY <2>1, <3>1, <3>2, <3>3, <3>4, AppendKeepsOnce
  <2> QED
    BY <2>2, <2>3
<1> QED
  BY <1>1, <1>2, <1>3

LEMMA OthersKeepOnce ==
  ASSUME OnceInv, Controller \/ TakesControl \/ LosesControl \/ UNCHANGED vars
  PROVE  OnceInv'
<1>1. UNCHANGED <<outbound, verdict, unsent, routing>>
  BY DEF Controller, CaptureFinds, CaptureAttaches, CaptureTargets, RequestStop, CloseGate,
         DetachAll, Starts, TakesControl, LosesControl, vars, writes
<1> QED
  BY <1>1, QuietStepKeepsOnce

\* A packet is sent once, B sends what allowFromB permits, and the filter denies A's
\* game alone (packet_policy.h:5-17, relay_handler.cpp:211-223, 383-411).
THEOREM OnceInvHolds == Spec => []OnceInv
<1>1. Init => OnceInv
  BY InitOnce
<1>2. QueueInv /\ OnceInv /\ [Next]_vars => OnceInv'
  BY EventLoopKeepsOnce, SendsKeepOnce, OthersKeepOnce DEF Next
<1> QED
  BY <1>1, <1>2, QueueInvHolds, PTL DEF Spec

\* The server gets its heartbeat from A alone and all of it, for any number of
\* connections and packets (packet_policy.h:5-6).
THEOREM HeartbeatStaysAs == Spec => []HeartbeatIsAs
<1>1. QueueInv /\ OnceInv => HeartbeatIsAs
  <2> SUFFICES ASSUME QueueInv, OnceInv PROVE HeartbeatIsAs
    OBVIOUS
  <2>1. ASSUME NEW p \in APackets, Dropping(p) PROVE Kind[p] = "game"
    <3>1. PICK c \in Connections : verdict[c] = "deny" /\ Head(outbound[c]) = p
      BY <2>1 DEF Dropping
    <3>2. outbound[c][1] = p
      BY <3>1, FirstIsHead DEF QueueInv, Turn
    <3> QED
      BY <3>1, <3>2 DEF OnceInv, OnlyGameDenied
  <2>2. ASSUME NEW p \in BPackets, Arriving(p) PROVE Kind[p] = "game"
    <3>1. PICK c \in Connections : outbound[c] # <<>> /\ Head(outbound[c]) = p
      BY <2>2 DEF Arriving, Waiting
    <3>2. 1 \in DOMAIN outbound[c] /\ outbound[c][1] = p
      BY <3>1, FirstIsHead
    <3> QED
      BY <3>2 DEF OnceInv, OnlyGameOfB
  <2> QED
    BY <2>1, <2>2 DEF HeartbeatIsAs
<1> QED
  BY <1>1, QueueInvHolds, OnceInvHolds, PTL

-----------------------------------------------------------------------------
\* The first packet has been judged.
Settled(c, i) == i = 1 /\ (verdict[c] = "allow" \/ passed[c] = 1)

\* While B is in control every packet that A's game has sent since then is still
\* behind the handler it was sent to; the handler is not taken out before the gate
\* has been closed, which ends B's control.
ControlInv ==
  IF BActive
  THEN \A c \in Connections : \A i \in DOMAIN outbound[c] :
         outbound[c][i] \in since =>
           handlers[c] = 1 /\ (Settled(c, i) => Kind[outbound[c][i]] # "game")
  ELSE \A c \in Connections : verdict[c] = "deny" => outbound[c][1] \notin since

LEMMA InitControl == Init => ControlInv
BY DEF Init, ControlInv

LEMMA SinceEmptied == since' = {} => ControlInv'
BY DEF ControlInv

\* More handlers, or none of what the invariant speaks of.
LEMMA QuietStepKeepsControl ==
  ASSUME ControlInv, UNCHANGED <<outbound, passed, verdict, since>>, BActive' = BActive,
         BActive => \A c \in Connections : handlers[c] = 1 => handlers'[c] = 1
  PROVE  ControlInv'
BY DEF ControlInv, Settled

\* A's packets that have been sent to a handler are no longer unsent.
SinceSent == \A p \in since : p \notin unsent

LEMMA SinceSentKept == SinceSent /\ [Next]_vars => SinceSent'
<1> SUFFICES ASSUME SinceSent, [Next]_vars PROVE SinceSent'
  OBVIOUS
<1>1. ASSUME NEW p \in APackets, NEW c \in Connections, ASends(p, c) PROVE SinceSent'
  BY <1>1 DEF ASends, SinceSent
<1>2. CASE UNCHANGED since /\ unsent' \subseteq unsent
  BY <1>2 DEF SinceSent
<1>3. CASE since' = {}
  BY <1>3 DEF SinceSent
<1>4. ASSUME NEW c \in Connections, EventLoop(c) PROVE UNCHANGED <<since, unsent>>
  BY <1>4 DEF EventLoop, Connects, HookAttaches, Disconnects, RelayDecides, RelayWrites, RelayDrops,
              RelayRefused, Arrives, history
<1>5. CASE Controller \/ TakesControl \/ LosesControl \/ UNCHANGED vars
  <2>1. UNCHANGED unsent /\ since' \in {since, {}}
    BY <1>5 DEF Controller, CaptureFinds, CaptureAttaches, CaptureTargets, RequestStop, CloseGate,
                DetachAll, Starts, TakesControl, LosesControl, vars, history
  <2> QED
    BY <2>1, <1>2, <1>3
<1>6. ASSUME NEW p \in BPackets, BSends(p) PROVE UNCHANGED since /\ unsent' \subseteq unsent
  BY <1>6 DEF BSends
<1>7. CASE RouteSends
  BY <1>7, <1>2 DEF RouteSends, history
<1> QED
  BY <1>1, <1>2, <1>4, <1>5, <1>6, <1>7 DEF Next

LEMMA AttachKeepsHandlers ==
  ASSUME IInv, IInv', NEW c \in Connections, Attach(c) \/ AttachFails(c)
  PROVE  \A d \in Connections : handlers[d] = 1 => handlers'[d] = 1
<1>1. handlers \in [Connections -> Nat] /\ \A d \in Connections : handlers'[d] \in {0, 1}
  BY DEF IInv, Tidy
<1>2. handlers' = handlers \/ handlers' = [handlers EXCEPT ![c] = @ + 1]
  BY DEF Attach, AttachFails, AddHandler
<1> QED
  BY <1>1, <1>2

LEMMA AppendKeepsControl ==
  ASSUME QueueInv, ControlInv, NEW c \in Connections, NEW p \in Packets,
         outbound' = [outbound EXCEPT ![c] = Append(@, p)],
         UNCHANGED <<phase, playing, passed, verdict, handlers>>,
         \A d \in Connections : \A i \in DOMAIN outbound[d] : outbound[d][i] # p,
         since' \subseteq since \cup {p}, p \in since' => handlers[c] = 1
  PROVE  ControlInv'
<1>1. \A d \in Connections : \A i \in DOMAIN outbound'[d] :
        \/ i \in DOMAIN outbound[d] /\ outbound'[d][i] = outbound[d][i]
        \/ d = c /\ outbound'[d][i] = p /\ i = Len(outbound[c]) + 1
  BY AppendPlaces
<1>2. /\ PacketTypes /\ (\A d \in Connections : Turn(d))
      /\ BActive' = BActive
  BY DEF QueueInv, BActive
<1>3. CASE BActive
  <2>1. ASSUME NEW d \in Connections, NEW i \in DOMAIN outbound'[d], outbound'[d][i] \in since'
        PROVE  handlers'[d] = 1 /\ (Settled(d, i)' => Kind[outbound'[d][i]] # "game")
    <3>1. CASE i \in DOMAIN outbound[d] /\ outbound'[d][i] = outbound[d][i]
      BY <1>3, <2>1, <3>1 DEF ControlInv, Settled
    <3>2. CASE d = c /\ outbound'[d][i] = p /\ i = Len(outbound[c]) + 1
      <4>1. handlers'[c] = 1
        BY <2>1, <3>2
      <4>2. i # 1 \/ outbound[c] = <<>>
        <5>1. PICK s \in Seq(Packets) : s = outbound[c]
          BY <1>2 DEF PacketTypes
        <5>2. s # <<>> => Len(s) \in Nat \ {0}
          BY EmptySeq
        <5> QED
          BY <3>2, <5>1, <5>2
      <4>3. ~Settled(c, i)'
        BY <1>2, <4>2 DEF Settled, Turn
      <4> QED
        BY <3>2, <4>1, <4>3
    <3> QED
      BY <1>1, <3>1, <3>2
  <2> QED
    BY <1>2, <1>3, <2>1 DEF ControlInv
<1>4. CASE ~BActive
  <2>1. ASSUME NEW d \in Connections, verdict'[d] = "deny"
        PROVE  outbound'[d][1] \notin since'
    <3>1. outbound[d] # <<>> /\ outbound[d][1] \notin since /\ 1 \in DOMAIN outbound[d]
      BY <1>2, <1>4, <2>1, FirstIsHead DEF Turn, ControlInv
    <3>2. outbound'[d][1] = outbound[d][1]
      <4>1. PICK s \in Seq(Packets) : s = outbound[d]
        BY <1>2 DEF PacketTypes
      <4>2. Append(s, p)[1] = s[1]
        <5>1. Len(s) \in Nat \ {0}
          BY <3>1, <4>1, EmptySeq
        <5> QED
          BY <5>1, AppendProperties
      <4>3. outbound'[d] \in {outbound[d], Append(s, p)}
        BY <1>2, <4>1 DEF PacketTypes
      <4> QED
        BY <4>1, <4>2, <4>3
    <3> QED
      BY <3>1, <3>2
  <2> QED
    BY <1>2, <1>4, <2>1 DEF ControlInv
<1> QED
  BY <1>3, <1>4

LEMMA ShorterKeepsControl ==
  ASSUME QueueInv, ControlInv, NEW c \in Connections,
         UNCHANGED <<phase, playing, handlers, since>>,
         \/ outbound[c] # <<>> /\ outbound' = [outbound EXCEPT ![c] = Tail(@)]
         \/ outbound' = [outbound EXCEPT ![c] = <<>>],
         passed' = [passed EXCEPT ![c] = 0],
         verdict' = [verdict EXCEPT ![c] = "none"]
  PROVE  ControlInv'
<1>1. \A d \in Connections : \A i \in DOMAIN outbound'[d] :
        IF d = c THEN i + 1 \in DOMAIN outbound[c] /\ outbound'[c][i] = outbound[c][i + 1] /\ i \in Nat \ {0}
                 ELSE i \in DOMAIN outbound[d] /\ outbound'[d][i] = outbound[d][i]
  BY ShorterPlaces
<1>2. BActive' = BActive /\ PacketTypes
  BY DEF BActive, QueueInv
<1>3. /\ ~Settled(c, 1)'
      /\ \A d \in Connections : d # c => passed'[d] = passed[d] /\ verdict'[d] = verdict[d] /\ outbound'[d] = outbound[d]
      /\ verdict'[c] = "none"
  BY <1>2 DEF Settled, PacketTypes
<1>4. CASE BActive
  <2>1. ASSUME NEW d \in Connections, NEW i \in DOMAIN outbound'[d], outbound'[d][i] \in since'
        PROVE  handlers'[d] = 1 /\ (Settled(d, i)' => Kind[outbound'[d][i]] # "game")
    <3>1. CASE d = c
      BY <1>1, <1>3, <1>4, <2>1, <3>1 DEF ControlInv, Settled
    <3>2. CASE d # c
      BY <1>1, <1>3, <1>4, <2>1, <3>2 DEF ControlInv, Settled
    <3> QED
      BY <3>1, <3>2
  <2> QED
    BY <1>2, <1>4, <2>1 DEF ControlInv
<1>5. CASE ~BActive
  BY <1>2, <1>3, <1>5 DEF ControlInv
<1> QED
  BY <1>4, <1>5

LEMMA EventLoopKeepsControl ==
  ASSUME IInv, IInv', QueueInv, ControlInv, NEW c \in Connections, EventLoop(c)
  PROVE  ControlInv'
<1>0. PacketTypes /\ Turn(c)
  BY DEF QueueInv
<1>1. CASE Connects(c)
  BY <1>1, QuietStepKeepsControl DEF Connects, writes, history, gate, BActive
<1>2. CASE HookAttaches(c)
  BY <1>2, QuietStepKeepsControl, AttachKeepsHandlers DEF HookAttaches, writes, history, gate, BActive
<1>3. CASE RelayDecides(c)
  <2>1. /\ UNCHANGED <<outbound, passed, since, handlers>> /\ BActive' = BActive
        /\ outbound[c] # <<>> /\ verdict[c] = "none"
    BY <1>3 DEF RelayDecides, Waiting, gate, ends, history, BActive
  <2>2. Head(outbound[c]) = outbound[c][1] /\ outbound[c][1] \in Packets
    BY <2>1, FirstIsHead
  <2>3. PICK v \in {"allow", "deny"} :
          /\ verdict' = [verdict EXCEPT ![c] = v]
          /\ v = "deny" => ~AllowFromA(outbound[c][1], BActive)
          /\ v = "allow" => Marked(outbound[c][1]) \/ AllowFromA(outbound[c][1], BActive)
    BY <1>3, <2>2 DEF RelayDecides
  <2>4. outbound[c][1] \in since => ~Marked(outbound[c][1])
    <3>1. \A p \in ToSet(marks) : p \in BPackets
      BY <1>0 DEF PacketTypes, ToSet
    <3> QED
      BY <1>0, <3>1, ABDisjoint DEF PacketTypes, Marked
  <2>5. CASE BActive
    <3>1. AllowFromA(outbound[c][1], BActive) => Kind[outbound[c][1]] # "game"
      BY <2>5 DEF AllowFromA, IsGame
    <3> QED
      BY <1>0, <2>1, <2>3, <2>4, <2>5, <3>1 DEF ControlInv, Settled, PacketTypes
  <2>6. CASE ~BActive
    <3>1. v = "allow"
      BY <2>3, <2>6 DEF AllowFromA
    <3> QED
      BY <1>0, <2>1, <2>3, <2>6, <3>1 DEF ControlInv, PacketTypes
  <2> QED
    BY <2>5, <2>6
<1>4. CASE RelayWrites(c)
  <2>1. /\ UNCHANGED <<outbound, since, handlers>> /\ BActive' = BActive
        /\ verdict[c] = "allow"
        /\ verdict' = [verdict EXCEPT ![c] = "none"] /\ passed' = [passed EXCEPT ![c] = @ + 1]
    BY <1>4 DEF RelayWrites, gate, ends, history, BActive
  <2> QED
    BY <1>0, <2>1 DEF ControlInv, Settled, PacketTypes
<1>5. CASE RelayRefused(c)
  <2>1. UNCHANGED <<outbound, verdict, since>> /\ BActive' = BActive /\ ~BActive
    BY <1>5 DEF RelayRefused, gate, ends, history, BActive, Admits
  <2> QED
    BY <2>1 DEF ControlInv
<1>6. CASE RelayDrops(c) \/ Arrives(c) \/ Disconnects(c)
  <2>1. UNCHANGED <<phase, playing, handlers, since>>
    BY <1>6 DEF RelayDrops, Arrives, Disconnects, gate, ends, history
  <2> QED
    BY <1>6, <2>1, Shortens, ShorterKeepsControl
<1> QED
  BY <1>1, <1>2, <1>3, <1>4, <1>5, <1>6 DEF EventLoop

LEMMA SendsKeepControl ==
  ASSUME IInv, QueueInv, OnceInv, SinceSent, ControlInv,
         \/ \E p \in APackets, c \in Connections : ASends(p, c)
         \/ \E p \in BPackets : BSends(p)
         \/ RouteSends
  PROVE  ControlInv'
<1>1. ASSUME NEW p \in APackets, NEW c \in Connections, ASends(p, c)
      PROVE  ControlInv'
  <2>1. /\ p \in Packets /\ p \in unsent
        /\ outbound' = [outbound EXCEPT ![c] = Append(@, p)]
        /\ UNCHANGED <<phase, playing, passed, verdict, handlers>>
        /\ since' = IF handlers[c] > 0 THEN since \cup {p} ELSE since
    BY <1>1 DEF ASends, Packets, gate, ends
  <2>2. \A d \in Connections : \A i \in DOMAIN outbound[d] : outbound[d][i] # p
    BY <2>1 DEF OnceInv, SentOnce
  <2>3. CASE handlers[c] = 1
    BY <2>1, <2>2, <2>3, AppendKeepsControl
  <2>4. CASE handlers[c] = 0
    <3>1. p \notin since
      BY <2>1 DEF SinceSent
    <3>2. since' = since
      BY <2>1, <2>4
    <3> QED
      BY <2>1, <2>2, <3>1, <3>2, AppendKeepsControl
  <2> QED
    BY <2>3, <2>4 DEF IInv, Tidy
<1>2. ASSUME NEW p \in BPackets, BSends(p)
      PROVE  ControlInv'
  BY <1>2, QuietStepKeepsControl DEF BSends, writes, gate, ends, BActive
<1>3. CASE RouteSends
  <2>1. UNCHANGED <<phase, playing, passed, verdict, handlers, since>>
    BY <1>3 DEF RouteSends, history, gate, ends
  <2>2. CASE outbound' = outbound
    BY <2>1, <2>2, QuietStepKeepsControl DEF BActive
  <2>3. CASE outbound' # outbound
    <3>1. /\ routing.to \in Connections /\ routing.packet \in BPackets /\ routing.packet \in Packets
          /\ outbound' = [outbound EXCEPT ![routing.to] = Append(@, routing.packet)]
      BY <1>3, <2>3, Routed
    <3>2. \A d \in Connections : \A i \in DOMAIN outbound[d] : outbound[d][i] # routing.packet
      BY DEF OnceInv, SentOnce
    <3>3. routing.packet \notin since'
      BY <2>1, <3>1, ABDisjoint DEF QueueInv, PacketTypes
    <3> QED
      BY <2>1, <3>1, <3>2, <3>3, AppendKeepsControl
  <2> QED
    BY <2>2, <2>3
<1> QED
  BY <1>1, <1>2, <1>3

LEMMA OthersKeepControl ==
  ASSUME IInv, IInv', ControlInv, Controller \/ TakesControl \/ LosesControl \/ UNCHANGED vars
  PROVE  ControlInv'
<1>1. CASE RequestStop \/ Starts \/ TakesControl \/ LosesControl
  BY <1>1, SinceEmptied DEF RequestStop, Starts, TakesControl, LosesControl
<1>2. CASE CloseGate \/ DetachAll
  <2>1. UNCHANGED <<outbound, passed, verdict, since>> /\ ~BActive /\ ~BActive'
    BY <1>2 DEF CloseGate, DetachAll, Drained, writes, history, BActive
  <2> QED
    BY <2>1 DEF ControlInv
<1>3. CASE CaptureAttaches
  <2>1. capture.of \in Connections /\ (Attach(capture.of) \/ AttachFails(capture.of))
    BY <1>3 DEF CaptureAttaches, IInv
  <2> QED
    BY <1>3, <2>1, AttachKeepsHandlers, QuietStepKeepsControl
    DEF CaptureAttaches, writes, history, BActive
<1>4. CASE (\E c \in Connections : CaptureFinds(c)) \/ CaptureTargets \/ UNCHANGED vars
  BY <1>4, QuietStepKeepsControl
  DEF CaptureFinds, CaptureTargets, vars, writes, history, gate, ends, BActive
<1> QED
  BY <1>1, <1>2, <1>3, <1>4 DEF Controller

\* What A's game has sent since B has control is still before its handler
\* (relay_handler.cpp:383-411).
THEOREM ControlInvHolds == Spec => [](SinceSent /\ ControlInv)
<1>1. Init => SinceSent /\ ControlInv
  BY InitControl DEF Init, SinceSent
<1>2. IInv /\ IInv' /\ QueueInv /\ OnceInv /\ SinceSent /\ ControlInv /\ [Next]_vars => ControlInv'
  BY EventLoopKeepsControl, SendsKeepControl, OthersKeepControl DEF Next
<1>3. SinceSent /\ [Next]_vars => SinceSent'
  BY SinceSentKept
<1> QED
  BY <1>1, <1>2, <1>3, QueueInvHolds, OnceInvHolds, PTL DEF Spec

\* As long as B is in control nothing that A's game sends through the handler reaches
\* the server, and as long as it is not nothing is filtered, for any number of
\* connections and packets (relay_handler.cpp:383-411).
THEOREM ControlExcludesA == Spec => []ControlIsExclusive
<1>1. IInv /\ QueueInv /\ ControlInv => ControlIsExclusive
  <2> SUFFICES ASSUME IInv, QueueInv, ControlInv, NEW p \in since
               PROVE  IF BActive THEN Arriving(p) => Kind[p] # "game" ELSE ~Dropping(p)
    BY DEF ControlIsExclusive
  <2>1. CASE BActive
    <3> SUFFICES ASSUME NEW c \in Connections, Waiting(c), passed[c] >= handlers[c], Head(outbound[c]) = p
                 PROVE  Kind[p] # "game"
      BY <2>1 DEF Arriving
    <3>1. 1 \in DOMAIN outbound[c] /\ outbound[c][1] = p
      BY FirstIsHead DEF Waiting
    <3>2. handlers[c] = 1 /\ (Settled(c, 1) => Kind[p] # "game")
      BY <2>1, <3>1 DEF ControlInv
    <3>3. passed[c] = 1
      BY <3>2 DEF QueueInv, PacketTypes
    <3> QED
      BY <3>2, <3>3 DEF Settled
  <2>2. CASE ~BActive
    <3> SUFFICES ASSUME NEW c \in Connections, verdict[c] = "deny", Head(outbound[c]) = p
                 PROVE  FALSE
      BY <2>2 DEF Dropping
    <3>1. outbound[c][1] = p
      BY FirstIsHead DEF QueueInv, Turn
    <3> QED
      BY <2>2, <3>1 DEF ControlInv
  <2> QED
    BY <2>1, <2>2
<1> QED
  BY <1>1, QueueInvHolds, OnceInvHolds, ControlInvHolds, PTL
-----------------------------------------------------------------------------
\* How many marks a history has after that of a packet.
After(log, p) == {i \in DOMAIN log : \E k \in 1..(i - 1) : log[k] = p}

LEMMA LaterMarks ==
  ASSUME NEW log \in Seq(BPackets), NEW p, NEW q \in BPackets
  PROVE  /\ Cardinality(After(log, p)) \in Nat
         /\ Cardinality(After(Append(log, q), p)) >= Cardinality(After(log, p))
         /\ p \in ToSet(log) => Cardinality(After(Append(log, q), p)) = Cardinality(After(log, p)) + 1
<1>1. PICK n \in Nat : n = Len(log) /\ DOMAIN log = 1..n
  BY LenProperties
<1>2. PICK t \in Seq(BPackets) :
        t = Append(log, q) /\ DOMAIN t = 1..(n + 1) /\ \A i \in 1..n : t[i] = log[i]
  <2>1. /\ Append(log, q) \in Seq(BPackets) /\ Len(Append(log, q)) = n + 1
        /\ \A i \in 1..n : Append(log, q)[i] = log[i]
    BY <1>1, AppendProperties
  <2> QED
    BY <2>1, LenProperties
<1>3. IsFiniteSet(After(log, p)) /\ After(log, p) \subseteq 1..n
  <2>1. IsFiniteSet(1..n) /\ After(log, p) \subseteq 1..n
    BY <1>1, FS_Interval DEF After
  <2> QED
    BY <2>1, FS_Subset
<1>4. Cardinality(After(log, p)) \in Nat
  BY <1>3, FS_CardinalityType
<1>5. After(t, p) = IF p \in ToSet(log) THEN After(log, p) \cup {n + 1} ELSE After(log, p)
  <2>1. \A i \in 1..n : i \in After(t, p) <=> i \in After(log, p)
    BY <1>1, <1>2 DEF After
  <2>2. n + 1 \in After(t, p) <=> p \in ToSet(log)
    BY <1>1, <1>2 DEF After, ToSet
  <2>3. After(t, p) \subseteq 1..(n + 1) /\ After(log, p) \subseteq 1..n
    BY <1>2, <1>3 DEF After
  <2>4. \A i \in 1..(n + 1) : i \in 1..n \/ i = n + 1
    BY <1>1
  <2>5. ASSUME NEW i PROVE i \in After(t, p) <=> i \in (IF p \in ToSet(log) THEN After(log, p) \cup {n + 1} ELSE After(log, p))
    <3>1. CASE i \in 1..n
      <4>1. i # n + 1
        BY <3>1
      <4> QED
        BY <2>1, <3>1, <4>1
    <3>2. CASE i = n + 1
      <4>1. i \notin After(log, p)
        BY <2>3, <3>2
      <4> QED
        BY <2>2, <3>2, <4>1
    <3> QED
      BY <2>3, <2>4, <3>1, <3>2
  <2> QED
    BY <2>5
<1>6. CASE p \in ToSet(log)
  <2>1. n + 1 \notin After(log, p)
    BY <1>3
  <2>2. Cardinality(After(log, p) \cup {n + 1}) = Cardinality(After(log, p)) + 1
    BY <1>3, <2>1, FS_AddElement
  <2> QED
    BY <1>2, <1>4, <1>5, <1>6, <2>2
<1>7. CASE p \notin ToSet(log)
  BY <1>2, <1>4, <1>5, <1>7
<1> QED
  BY <1>6, <1>7

-----------------------------------------------------------------------------
\* More marks were made after that of the packet than are kept.
Displaced(p) == Cardinality(MarkedAfter(p)) > MaxMarks
Covered(p) == p \in ToSet(marks) \/ Displaced(p)

\* The marks are in the order in which they were made.
MarkOrder ==
  \A i \in DOMAIN marks :
    marks[i] \in ToSet(markLog) /\ Cardinality(MarkedAfter(marks[i])) >= Len(marks) - i

\* While the gate admits the handler, each packet of B that is still to be judged is
\* marked, or its mark has given way to more than MaxMarks others.
AllCovered ==
  /\ routing # NotRouting => Covered(routing.packet)
  /\ \A c \in Connections : \A i \in DOMAIN outbound[c] :
       outbound[c][i] \in BPackets /\ ~Settled(c, i) => Covered(outbound[c][i])

OnlyDisplacedDenied ==
  \A c \in Connections :
    verdict[c] = "deny" /\ outbound[c][1] \in BPackets => Displaced(outbound[c][1])

MarkInv ==
  /\ MarkOrder
  /\ Admits => AllCovered
  /\ phase = "stopped" => routing = NotRouting
  /\ OnlyDisplacedDenied

LEMMA InitMarks == Init => MarkInv
BY DEF Init, MarkInv, MarkOrder, AllCovered, OnlyDisplacedDenied

LEMMA QuietStepKeepsMarks ==
  ASSUME MarkInv, UNCHANGED <<outbound, passed, verdict, marks, markLog, routing>>,
         Admits' => Admits, phase' = "stopped" => routing = NotRouting
  PROVE  MarkInv'
<1>1. \A q : /\ Covered(q)' = Covered(q) /\ Displaced(q)' = Displaced(q)
             /\ Cardinality(MarkedAfter(q))' = Cardinality(MarkedAfter(q))
  BY DEF Covered, Displaced, MarkedAfter
<1>2. AllCovered => AllCovered'
  BY <1>1 DEF AllCovered, Settled
<1>3. MarkOrder' /\ OnlyDisplacedDenied'
  BY <1>1 DEF MarkInv, MarkOrder, OnlyDisplacedDenied
<1> QED
  BY <1>2, <1>3 DEF MarkInv

\* A new mark takes the place of none or of the oldest, which is then displaced.
LEMMA BSendsKeepsMarks ==
  ASSUME QueueInv, MarkInv, NEW p \in BPackets, BSends(p)
  PROVE  MarkInv'
<1>1. /\ UNCHANGED <<outbound, passed, verdict, phase>> /\ phase = "running"
      /\ \/ /\ marks' = WithMark(p) /\ markLog' = Append(markLog, p)
            /\ routing' = [packet |-> p, to |-> target]
         \/ UNCHANGED <<marks, markLog, routing>>
  BY DEF BSends, writes, gate
<1>2. CASE UNCHANGED <<marks, markLog, routing>>
  BY <1>1, <1>2, QuietStepKeepsMarks DEF Admits
<1>3. CASE /\ marks' = WithMark(p) /\ markLog' = Append(markLog, p)
           /\ routing' = [packet |-> p, to |-> target]
  <2>1. marks \in Seq(BPackets) /\ markLog \in Seq(BPackets)
    BY DEF QueueInv, PacketTypes
  <2>2. PICK n \in Nat : n = Len(marks) /\ DOMAIN marks = 1..n
    BY <2>1, LenProperties
  <2>3. \A q : /\ Cardinality(After(markLog, q)) \in Nat /\ Cardinality(After(markLog', q)) \in Nat
               /\ Cardinality(After(markLog', q)) >= Cardinality(After(markLog, q))
               /\ q \in ToSet(markLog) =>
                    Cardinality(After(markLog', q)) = Cardinality(After(markLog, q)) + 1
    <3>1. Append(markLog, p) \in Seq(BPackets)
      BY <2>1, AppendProperties
    <3> QED
      BY <1>3, <2>1, <3>1, LaterMarks
  <2>0. \A q : /\ MarkedAfter(q) = After(markLog, q) /\ MarkedAfter(q)' = After(markLog', q)
               /\ Displaced(q) <=> Cardinality(After(markLog, q)) > MaxMarks
               /\ Displaced(q)' <=> Cardinality(After(markLog', q)) > MaxMarks
    BY DEF MarkedAfter, Displaced, After
  <2>4. \A q : Displaced(q) => Displaced(q)'
    BY <2>0, <2>3, MaxMarksIsNatural
  <2>5. PICK s \in Seq(BPackets), m \in Nat :
          /\ marks' = Append(s, p) /\ m = Len(s) /\ DOMAIN s = 1..m
          /\ \/ s = marks /\ m = n
             \/ /\ n > MaxMarks /\ m = n - 1
                /\ \A i \in 1..m : s[i] = marks[i + 1]
    <3>1. PICK s \in Seq(BPackets) :
            /\ WithMark(p) = Append(s, p)
            /\ \/ s = marks /\ ~(Len(marks) > MaxMarks)
               \/ /\ Len(marks) > MaxMarks /\ Len(s) = Len(marks) - 1
                  /\ \A i \in 1..Len(s) : s[i] = marks[i + 1]
      BY <2>1, WithMarkAppends
    <3>2. Len(s) \in Nat /\ DOMAIN s = 1..Len(s)
      BY LenProperties
    <3> QED
      BY <1>3, <2>2, <3>1, <3>2
  <2>6. /\ DOMAIN marks' = 1..(m + 1) /\ Len(marks') = m + 1 /\ marks'[m + 1] = p
        /\ \A i \in 1..m : marks'[i] = s[i]
    <3>1. PICK t \in Seq(BPackets) : t = Append(s, p)
      BY AppendProperties
    <3>2. Len(t) = m + 1 /\ t[m + 1] = p /\ \A i \in 1..m : t[i] = s[i]
      BY <2>5, <3>1, AppendProperties
    <3>3. DOMAIN t = 1..(m + 1)
      BY <3>2, LenProperties
    <3> QED
      BY <2>5, <3>1, <3>2, <3>3
  <2>7. ToSet(markLog) \subseteq ToSet(markLog') /\ p \in ToSet(markLog')
    <3>1. PICK k \in Nat : k = Len(markLog) /\ DOMAIN markLog = 1..k
      BY <2>1, LenProperties
    <3>2. PICK t \in Seq(BPackets) : t = Append(markLog, p)
      BY <2>1, AppendProperties
    <3>3. Len(t) = k + 1 /\ t[k + 1] = p /\ \A i \in 1..k : t[i] = markLog[i]
      BY <2>1, <3>1, <3>2, AppendProperties
    <3>4. DOMAIN t = 1..(k + 1)
      BY <3>3, LenProperties
    <3>5. \A i \in 1..k : markLog[i] \in ToSet(t)
      BY <3>3, <3>4 DEF ToSet
    <3>6. ToSet(markLog) \subseteq ToSet(t)
      BY <3>1, <3>5 DEF ToSet
    <3>7. p \in ToSet(t)
      BY <3>3, <3>4 DEF ToSet
    <3> QED
      BY <1>3, <3>2, <3>6, <3>7
  <2>8. MarkOrder'
    <3>1. ASSUME NEW i \in 1..m
          PROVE  marks'[i] \in ToSet(markLog') /\ Cardinality(After(markLog', marks'[i])) >= m + 1 - i
      <4>1. PICK j \in 1..n : marks'[i] = marks[j] /\ n - j >= m - i
        <5>1. CASE s = marks /\ m = n
          BY <2>6, <5>1
        <5>2. CASE m = n - 1 /\ \A k \in 1..m : s[k] = marks[k + 1]
          <6>1. i + 1 \in 1..n /\ n - (i + 1) >= m - i
            BY <5>2
          <6> QED
            BY <2>6, <5>2, <6>1
        <5> QED
          BY <2>5, <5>1, <5>2
      <4>2. marks[j] \in ToSet(markLog) /\ Cardinality(After(markLog, marks[j])) >= n - j
        BY <2>0, <2>2 DEF MarkInv, MarkOrder
      <4>3. /\ Cardinality(After(markLog', marks[j])) = Cardinality(After(markLog, marks[j])) + 1
            /\ Cardinality(After(markLog, marks[j])) \in Nat
        BY <2>3, <4>2
      <4>4. Cardinality(After(markLog', marks[j])) >= m + 1 - i
        BY <4>1, <4>2, <4>3
      <4> QED
        BY <2>7, <4>1, <4>2, <4>4
    <3>2. Cardinality(After(markLog', p)) >= m + 1 - (m + 1)
      BY <2>3
    <3>3. \A i \in 1..(m + 1) :
            marks'[i] \in ToSet(markLog') /\ Cardinality(After(markLog', marks'[i])) >= m + 1 - i
      <4>1. \A i \in 1..(m + 1) : i \in 1..m \/ i = m + 1
        OBVIOUS
      <4> QED
        BY <2>6, <2>7, <3>1, <3>2, <4>1
    <3> QED
      BY <2>6, <3>3 DEF MarkOrder, MarkedAfter, After
  <2>9. \A q \in BPackets : Covered(q) => Covered(q)'
    <3>1. ASSUME NEW j \in 1..n PROVE marks[j] \in ToSet(marks') \/ Cardinality(After(markLog', marks[j])) > MaxMarks
      <4>1. CASE \E i \in 1..m : s[i] = marks[j]
        <5>1. PICK i \in 1..m : s[i] = marks[j]
          BY <4>1
        <5>2. i \in DOMAIN marks' /\ marks'[i] = marks[j]
          BY <2>6, <5>1
        <5> QED
          BY <5>2 DEF ToSet
      <4>2. CASE ~\E i \in 1..m : s[i] = marks[j]
        <5>1. j = 1 /\ n > MaxMarks
          <6>1. ~(s = marks /\ m = n)
            BY <4>2
          <6>2. j # 1 => j - 1 \in 1..m /\ (j - 1) + 1 = j
            BY <2>5, <6>1
          <6> QED
            BY <2>5, <4>2, <6>1, <6>2
        <5>2. marks[1] \in ToSet(markLog) /\ Cardinality(After(markLog, marks[1])) >= n - 1
          BY <2>0, <2>2, <5>1 DEF MarkInv, MarkOrder
        <5>3. /\ Cardinality(After(markLog', marks[1])) = Cardinality(After(markLog, marks[1])) + 1
              /\ Cardinality(After(markLog, marks[1])) \in Nat
          BY <2>3, <5>2
        <5>4. Cardinality(After(markLog', marks[1])) > MaxMarks
          BY <5>1, <5>2, <5>3, MaxMarksIsNatural
        <5> QED
          BY <5>1, <5>4
      <4> QED
        BY <4>1, <4>2
    <3>2. ASSUME NEW q \in ToSet(marks) PROVE Covered(q)'
      <4>1. PICK j \in 1..n : q = marks[j]
        BY <2>2, <3>2 DEF ToSet
      <4>2. q \in ToSet(marks') \/ Displaced(q)'
        BY <2>0, <3>1, <4>1
      <4> QED
        BY <4>2 DEF Covered
    <3> QED
      BY <2>4, <3>2 DEF Covered
  <2>10. AllCovered
    BY <1>1 DEF MarkInv, Admits
  <2>11. AllCovered'
    <3>1. Covered(p)'
      BY <2>6 DEF Covered, ToSet
    <3>2. routing'.packet = p
      BY <1>3
    <3>3. \A c \in Connections : \A i \in DOMAIN outbound'[c] :
            outbound'[c][i] \in BPackets /\ ~Settled(c, i)' => Covered(outbound[c][i]) /\ outbound'[c][i] = outbound[c][i]
      BY <1>1, <2>10 DEF AllCovered, Settled
    <3> QED
      BY <1>1, <2>9, <3>1, <3>2, <3>3 DEF AllCovered
  <2>12. OnlyDisplacedDenied'
    BY <1>1, <2>4 DEF MarkInv, OnlyDisplacedDenied
  <2> QED
    BY <1>1, <2>8, <2>11, <2>12 DEF MarkInv
<1> QED
  BY <1>1, <1>2, <1>3

\* A packet of A, or one of B that was covered while it was routed, joins a queue.
LEMMA AppendKeepsMarks ==
  ASSUME QueueInv, MarkInv, NEW c \in Connections, NEW p \in Packets,
         outbound' = [outbound EXCEPT ![c] = Append(@, p)],
         UNCHANGED <<phase, passed, verdict, marks, markLog>>,
         routing' \in {routing, NotRouting},
         Admits /\ p \in BPackets => Covered(p)
  PROVE  MarkInv'
<1>1. \A d \in Connections : \A i \in DOMAIN outbound'[d] :
        \/ i \in DOMAIN outbound[d] /\ outbound'[d][i] = outbound[d][i]
        \/ d = c /\ outbound'[d][i] = p /\ i = Len(outbound[c]) + 1
  BY AppendPlaces
<1>2. Admits' = Admits /\ \A q : Covered(q)' = Covered(q) /\ Displaced(q)' = Displaced(q)
  BY DEF Admits, Covered, Displaced, MarkedAfter
<1>3. Admits => AllCovered'
  BY <1>1, <1>2 DEF MarkInv, AllCovered, Settled
<1>4. ASSUME NEW d \in Connections, verdict'[d] = "deny", outbound'[d][1] \in BPackets
      PROVE  Displaced(outbound'[d][1])
  <2>1. outbound[d] # <<>>
    BY <1>4 DEF QueueInv, Turn
  <2>2. outbound'[d][1] = outbound[d][1]
    <3>1. PICK s \in Seq(Packets) : s = outbound[d] /\ s # <<>>
      BY <2>1 DEF QueueInv, PacketTypes
    <3>2. Append(s, p)[1] = s[1]
      <4>1. Len(s) \in Nat \ {0}
        BY <3>1, EmptySeq
      <4> QED
        BY <4>1, AppendProperties
    <3>3. outbound'[d] \in {outbound[d], Append(s, p)}
      BY <3>1 DEF QueueInv, PacketTypes
    <3> QED
      BY <3>1, <3>2, <3>3
  <2> QED
    BY <1>4, <2>2 DEF MarkInv, OnlyDisplacedDenied
<1>5. MarkOrder'
  BY DEF MarkInv, MarkOrder, MarkedAfter
<1> QED
  BY <1>2, <1>3, <1>4, <1>5 DEF MarkInv, OnlyDisplacedDenied

LEMMA ShorterKeepsMarks ==
  ASSUME QueueInv, MarkInv, NEW c \in Connections,
         UNCHANGED <<phase, marks, markLog, routing>>,
         \/ outbound[c] # <<>> /\ outbound' = [outbound EXCEPT ![c] = Tail(@)]
         \/ outbound' = [outbound EXCEPT ![c] = <<>>],
         passed' = [passed EXCEPT ![c] = 0],
         verdict' = [verdict EXCEPT ![c] = "none"]
  PROVE  MarkInv'
<1>1. \A d \in Connections : \A i \in DOMAIN outbound'[d] :
        IF d = c THEN i + 1 \in DOMAIN outbound[c] /\ outbound'[c][i] = outbound[c][i + 1] /\ i \in Nat \ {0}
                 ELSE i \in DOMAIN outbound[d] /\ outbound'[d][i] = outbound[d][i]
  BY ShorterPlaces
<1>2. Admits' = Admits /\ \A q : Covered(q)' = Covered(q) /\ Displaced(q)' = Displaced(q)
  BY DEF Admits, Covered, Displaced, MarkedAfter
<1>3. /\ \A d \in Connections : d # c => passed'[d] = passed[d] /\ verdict'[d] = verdict[d] /\ outbound'[d] = outbound[d]
      /\ verdict'[c] = "none"
  BY DEF QueueInv, PacketTypes
<1>4. Admits => AllCovered'
  <2>1. ASSUME AllCovered, NEW d \in Connections, NEW i \in DOMAIN outbound'[d],
               outbound'[d][i] \in BPackets, ~Settled(d, i)'
        PROVE  Covered(outbound'[d][i])
    <3>1. CASE d = c
      <4>1. i + 1 \in DOMAIN outbound[c] /\ outbound'[c][i] = outbound[c][i + 1] /\ i + 1 # 1
        BY <1>1, <2>1, <3>1
      <4> QED
        BY <2>1, <3>1, <4>1 DEF AllCovered, Settled
    <3>2. CASE d # c
      BY <1>1, <1>3, <2>1, <3>2 DEF AllCovered, Settled
    <3> QED
      BY <3>1, <3>2
  <2> QED
    BY <1>2, <2>1 DEF MarkInv, AllCovered
<1>5. OnlyDisplacedDenied'
  BY <1>2, <1>3 DEF MarkInv, OnlyDisplacedDenied
<1>6. MarkOrder'
  BY DEF MarkInv, MarkOrder, MarkedAfter
<1> QED
  BY <1>2, <1>4, <1>5, <1>6 DEF MarkInv

\* The handler takes the mark of the packet it has: those of the others stay, in
\* their order; a packet of B without a mark has been displaced.
LEMMA RelayDecidesKeepsMarks ==
  ASSUME IInv, QueueInv, OnceInv, MarkInv, NEW c \in Connections, RelayDecides(c)
  PROVE  MarkInv'
<1>1. PacketTypes /\ handlers[c] \in {0, 1}
  BY DEF QueueInv, IInv, Tidy
<1>2. /\ outbound[c] # <<>> /\ verdict[c] = "none" /\ passed[c] < handlers[c] /\ Admits /\ Admits'
      /\ UNCHANGED <<phase, outbound, passed, routing, markLog>>
  BY DEF RelayDecides, Waiting, gate, history, Admits
<1>3. 1 \in DOMAIN outbound[c] /\ outbound[c][1] = Head(outbound[c]) /\ outbound[c][1] \in Packets
  BY <1>2, FirstIsHead
<1>4. PICK p \in Packets, v \in {"allow", "deny"} :
        /\ p = outbound[c][1]
        /\ marks' = (IF p \in ToSet(marks) THEN Unmarked(p) ELSE marks)
        /\ verdict' = [verdict EXCEPT ![c] = v]
        /\ p \in ToSet(marks) => v = "allow"
  BY <1>3 DEF RelayDecides, Marked
<1>5. AllCovered /\ ~Settled(c, 1) /\ ~(outbound[c][1] \in BPackets /\ ~Covered(outbound[c][1]))
  <2>1. AllCovered
    BY <1>2 DEF MarkInv
  <2>2. ~Settled(c, 1)
    BY <1>1, <1>2 DEF Settled, PacketTypes
  <2> QED
    BY <1>3, <2>1, <2>2 DEF AllCovered
<1>6. \A q : Displaced(q)' = Displaced(q) /\ MarkedAfter(q)' = MarkedAfter(q)
  BY <1>2 DEF Displaced, MarkedAfter
<1>7. v = "deny" /\ p \in BPackets => Displaced(p)
  BY <1>4, <1>5 DEF Covered
<1>8. OnlyDisplacedDenied'
  BY <1>1, <1>2, <1>4, <1>6, <1>7 DEF MarkInv, OnlyDisplacedDenied, PacketTypes
<1>9. CASE p \in ToSet(marks)
  <2>1. marks \in Seq(BPackets)
    BY <1>1 DEF PacketTypes
  <2>2. PICK u \in Seq(BPackets), n \in Nat :
          u = marks' /\ n = Len(marks) /\ Len(u) = n - 1
    BY <1>4, <1>9, <2>1, UnmarkedTakesOne, LenProperties
  <2>3. PICK k \in DOMAIN marks :
          /\ marks[k] = p
          /\ \A i \in DOMAIN u : u[i] = IF i < k THEN marks[i] ELSE marks[i + 1]
    BY <1>4, <1>9, <2>1, <2>2, UnmarkedTakesOne
  <2>4. DOMAIN marks = 1..n /\ DOMAIN u = 1..(n - 1)
    BY <2>1, <2>2, LenProperties
  <2>5. MarkOrder'
    <3>1. ASSUME NEW i \in 1..(n - 1)
          PROVE  u[i] \in ToSet(markLog) /\ Cardinality(MarkedAfter(u[i])) >= (n - 1) - i
      <4>1. PICK j \in 1..n : u[i] = marks[j] /\ n - j >= (n - 1) - i
        <5>1. i \in 1..n /\ i + 1 \in 1..n
          BY <3>1
        <5> QED
          BY <2>3, <2>4, <5>1
      <4>2. marks[j] \in ToSet(markLog) /\ Cardinality(MarkedAfter(marks[j])) >= n - j
        BY <2>2, <2>4 DEF MarkInv, MarkOrder
      <4>3. Cardinality(MarkedAfter(marks[j])) \in Nat
        <5>1. MarkedAfter(marks[j]) = After(markLog, marks[j]) /\ markLog \in Seq(BPackets)
          BY <1>1 DEF MarkedAfter, After, PacketTypes
        <5>2. p \in BPackets
          BY <1>9, <2>1 DEF ToSet
        <5> QED
          BY <5>1, <5>2, LaterMarks
      <4> QED
        BY <4>1, <4>2, <4>3
    <3> QED
      BY <1>2, <1>6, <2>2, <2>4, <3>1 DEF MarkOrder
  <2>6. \A q : q # p /\ Covered(q) => Covered(q)'
    BY <1>4, <1>6, <1>9, <2>1, OtherMarksStay DEF Covered
  <2>7. AllCovered'
    <3>1. routing.packet # p
      BY <1>3, <1>4 DEF OnceInv, SentOnce
    <3>2. Settled(c, 1)'
      BY <1>1, <1>4, <1>9 DEF Settled, PacketTypes
    <3>3. ASSUME NEW d \in Connections, NEW i \in DOMAIN outbound[d],
                 outbound[d][i] \in BPackets, ~Settled(d, i)'
          PROVE  outbound[d][i] # p /\ Covered(outbound[d][i])
      <4>1. ~(d = c /\ i = 1)
        BY <3>2, <3>3
      <4>2. outbound[d][i] # p
        BY <1>3, <1>4, <4>1 DEF OnceInv, SentOnce
      <4>3. ~Settled(d, i)
        BY <1>1, <1>2, <1>4, <3>3, <4>1 DEF Settled, PacketTypes
      <4>4. Covered(outbound[d][i])
        BY <1>5, <3>3, <4>3 DEF AllCovered
      <4> QED
        BY <4>2, <4>4
    <3> QED
      BY <1>2, <1>5, <2>6, <3>1, <3>3 DEF AllCovered
  <2> QED
    BY <1>2, <1>8, <2>5, <2>7 DEF MarkInv, Admits
<1>10. CASE p \notin ToSet(marks)
  <2>1. marks' = marks
    BY <1>4, <1>10
  <2>2. MarkOrder' /\ \A q : Covered(q)' = Covered(q)
    BY <1>2, <1>6, <2>1 DEF MarkInv, MarkOrder, Covered
  <2>3. AllCovered'
    <3>1. ASSUME NEW d \in Connections, NEW i \in DOMAIN outbound[d], ~Settled(d, i)'
          PROVE  ~Settled(d, i)
      BY <1>1, <1>2, <1>4, <1>5, <3>1 DEF Settled, PacketTypes
    <3> QED
      BY <1>2, <1>5, <2>2, <3>1 DEF AllCovered
  <2> QED
    BY <1>2, <1>8, <2>2, <2>3 DEF MarkInv, Admits
<1> QED
  BY <1>9, <1>10

LEMMA EventLoopKeepsMarks ==
  ASSUME IInv, QueueInv, OnceInv, MarkInv, NEW c \in Connections, EventLoop(c)
  PROVE  MarkInv'
<1>0. PacketTypes
  BY DEF QueueInv
<1>1. CASE Connects(c) \/ HookAttaches(c)
  BY <1>1, QuietStepKeepsMarks DEF Connects, HookAttaches, writes, history, gate, Admits, MarkInv
<1>2. CASE RelayWrites(c)
  <2>1. /\ UNCHANGED <<phase, outbound, marks, markLog, routing>>
        /\ verdict[c] = "allow" /\ verdict' = [verdict EXCEPT ![c] = "none"]
        /\ passed' = [passed EXCEPT ![c] = @ + 1] /\ passed[c] = 0
    BY <1>2 DEF RelayWrites, gate, history, QueueInv, Turn
  <2>2. \A d \in Connections : \A i : Settled(d, i)' = Settled(d, i)
    BY <1>0, <2>1 DEF Settled, PacketTypes
  <2>3. \A d \in Connections : verdict'[d] = "deny" => verdict[d] = "deny"
    BY <1>0, <2>1 DEF PacketTypes
  <2>4. \A q : Covered(q)' = Covered(q) /\ Displaced(q)' = Displaced(q)
    BY <2>1 DEF Covered, Displaced, MarkedAfter
  <2>5. AllCovered => AllCovered'
    BY <2>1, <2>2, <2>4 DEF AllCovered
  <2>6. OnlyDisplacedDenied'
    BY <2>1, <2>3, <2>4 DEF MarkInv, OnlyDisplacedDenied
  <2>7. MarkOrder'
    BY <2>1 DEF MarkInv, MarkOrder, MarkedAfter
  <2> QED
    BY <2>1, <2>5, <2>6, <2>7 DEF MarkInv, Admits
<1>3. CASE RelayRefused(c)
  <2>1. UNCHANGED <<phase, outbound, verdict, marks, markLog, routing>> /\ ~Admits
    BY <1>3 DEF RelayRefused, gate, history
  <2> QED
    BY <2>1 DEF MarkInv, MarkOrder, OnlyDisplacedDenied, Displaced, MarkedAfter, Admits
<1>4. CASE RelayDrops(c) \/ Arrives(c) \/ Disconnects(c)
  <2>1. UNCHANGED <<phase, marks, markLog, routing>>
    BY <1>4 DEF RelayDrops, Arrives, Disconnects, gate, history
  <2> QED
    BY <1>4, <2>1, Shortens, ShorterKeepsMarks
<1> QED
  BY <1>1, <1>2, <1>3, <1>4, RelayDecidesKeepsMarks DEF EventLoop

LEMMA SendsKeepMarks ==
  ASSUME QueueInv, MarkInv,
         \/ \E p \in APackets, c \in Connections : ASends(p, c)
         \/ \E p \in BPackets : BSends(p)
         \/ RouteSends
  PROVE  MarkInv'
<1>1. ASSUME NEW p \in APackets, NEW c \in Connections, ASends(p, c)
      PROVE  MarkInv'
  <2>1. /\ p \in Packets /\ p \notin BPackets
        /\ outbound' = [outbound EXCEPT ![c] = Append(@, p)]
        /\ UNCHANGED <<phase, passed, verdict, marks, markLog, routing>>
    BY <1>1, ABDisjoint DEF ASends, Packets, gate
  <2> QED
    BY <2>1, AppendKeepsMarks
<1>2. CASE RouteSends
  <2>1. UNCHANGED <<phase, passed, verdict, marks, markLog>> /\ routing # NotRouting /\ routing' = NotRouting
    BY <1>2 DEF RouteSends, history, gate
  <2>2. CASE outbound' = outbound
    <3>1. \A q : Covered(q)' = Covered(q)
      BY <2>1 DEF Covered, Displaced, MarkedAfter
    <3> QED
      BY <2>1, <2>2, <3>1
      DEF MarkInv, MarkOrder, AllCovered, OnlyDisplacedDenied, Displaced, MarkedAfter, Settled, Admits
  <2>3. CASE outbound' # outbound
    <3>1. /\ routing.to \in Connections /\ routing.packet \in Packets
          /\ outbound' = [outbound EXCEPT ![routing.to] = Append(@, routing.packet)]
      BY <1>2, <2>3, Routed
    <3>2. Admits => Covered(routing.packet)
      BY <2>1 DEF MarkInv, AllCovered
    <3> QED
      BY <2>1, <3>1, <3>2, AppendKeepsMarks
  <2> QED
    BY <2>2, <2>3
<1> QED
  BY <1>1, <1>2, BSendsKeepsMarks

LEMMA OthersKeepMarks ==
  ASSUME QueueInv, MarkInv, Controller \/ TakesControl \/ LosesControl \/ UNCHANGED vars
  PROVE  MarkInv'
<1>1. CASE DetachAll
  <2>1. /\ marks' = <<>> /\ routing' = NotRouting /\ phase' \in {"draining", "stopped"}
        /\ \A c \in Connections : verdict'[c] = "none"
    BY <1>1 DEF DetachAll, Drained, writes
  <2> QED
    BY <2>1 DEF MarkInv, MarkOrder, OnlyDisplacedDenied, Admits
<1>2. CASE Starts
  <2>1. /\ UNCHANGED <<outbound, verdict, marks, markLog, routing>> /\ routing = NotRouting
        /\ phase' = "running" /\ \A c \in Connections : outbound[c] = <<>>
    BY <1>2 DEF Starts, writes, MarkInv
  <2>2. AllCovered'
    BY <2>1 DEF AllCovered
  <2> QED
    BY <2>1, <2>2 DEF MarkInv, MarkOrder, OnlyDisplacedDenied, Displaced, MarkedAfter
<1>3. CASE CloseGate \/ RequestStop
  <2>1. UNCHANGED <<outbound, passed, verdict, marks, markLog, routing>> /\ Admits /\ phase' # "stopped"
    BY <1>3 DEF CloseGate, RequestStop, writes, history, Admits
  <2> QED
    BY <2>1, QuietStepKeepsMarks
<1>4. CASE \/ \E c \in Connections : CaptureFinds(c)
           \/ CaptureAttaches \/ CaptureTargets \/ TakesControl \/ LosesControl \/ UNCHANGED vars
  <2>1. UNCHANGED <<phase, outbound, passed, verdict, marks, markLog, routing>>
    BY <1>4 DEF CaptureFinds, CaptureAttaches, CaptureTargets, TakesControl, LosesControl, vars,
                writes, history, gate
  <2> QED
    BY <2>1, QuietStepKeepsMarks DEF Admits, MarkInv
<1> QED
  BY <1>1, <1>2, <1>3, <1>4 DEF Controller

\* A packet of B that is still to be decided has its mark unless it was displaced
\* (relay_handler.cpp:37-47, 211-223).
THEOREM MarkInvHolds == Spec => []MarkInv
<1>1. Init => MarkInv
  BY InitMarks
<1>2. IInv /\ QueueInv /\ OnceInv /\ MarkInv /\ [Next]_vars => MarkInv'
  BY EventLoopKeepsMarks, SendsKeepMarks, OthersKeepMarks DEF Next
<1> QED
  BY <1>1, <1>2, QueueInvHolds, OnceInvHolds, PTL DEF Spec

\* A packet of B is filtered only if more than MaxMarks others were marked after it,
\* for any bound and any number of connections and packets (relay_handler.cpp:37-47, 211-223).
THEOREM BPacketsGetThrough == Spec => []BPacketsPass
<1>1. QueueInv /\ MarkInv => BPacketsPass
  <2> SUFFICES ASSUME QueueInv, MarkInv, NEW p \in BPackets, NEW c \in Connections,
                      verdict[c] = "deny", Head(outbound[c]) = p
               PROVE  Displaced(p)
    BY DEF BPacketsPass, Dropping, Displaced
  <2>1. outbound[c][1] = p
    BY FirstIsHead DEF QueueInv, Turn
  <2> QED
    BY <2>1 DEF MarkInv, OnlyDisplacedDenied
<1> QED
  BY <1>1, QueueInvHolds, MarkInvHolds, PTL
=============================================================================
