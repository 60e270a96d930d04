---------------------------- MODULE ProxySession ----------------------------
(***************************************************************************)
(* One proxy session, from the moment InstallBServer listens until the     *)
(* controller requests the stop: B clients that log in and take control,   *)
(* the snapshot that brings a late B up to date, and the live packets of   *)
(* A's server that follow it.                                              *)
(*                                                                         *)
(* Threads: the controller; the event loop of each B channel, which runs   *)
(* that channel's callbacks one at a time; A's Netty thread; A's render    *)
(* thread with its FIFO of tasks.  dispatch is the recursive dispatchMutex *)
(* of state.h: a critical section that no other thread can see into is one *)
(* action guarded by DispatchFree, one that other threads overlap names    *)
(* its holder.  Sections under clientMutex, targetMutex and gateMutex are  *)
(* short and are parts of the actions that contain them.                   *)
(*                                                                         *)
(* The game packets of A's server ("deltas") are numbered in the order in  *)
(* which A's Netty thread reads them; the first of a connection is the     *)
(* join packet that creates A's world.  A world is the number of the last  *)
(* delta applied to it.                                                    *)
(***************************************************************************)
EXTENDS Integers, Sequences, LoginHandoff

CONSTANTS
  Channels,        \* B channels the listener may accept
  NoChannel,       \* no channel: a null clientChannel
  MaxDeltas,       \* bound: deltas A's server sends
  MaxConnections,  \* bound: connections A makes to a server
  MaxPending       \* kMaxPendingPackets

ASSUME NoChannelIsNone == NoChannel \notin Channels
ASSUME SessionBoundsAreNat ==
  MaxDeltas \in Nat \ {0} /\ MaxConnections \in Nat \ {0} /\ MaxPending \in Nat

VARIABLES
  \* ServerState
  stopping, midSession, handoff, pendingPackets, clientChannel, clientState,
  clientConnected, gateCancelled, gateTasks, targetConnection,
  dispatch,     \* who is inside a visible critical section of dispatchMutex
  startup,      \* progress of startSession after InstallBServer
  \* A: its connection (0 is none), the relay in its pipeline, its world
  connection, connections, relayed, joined, sent, applied,
  renderQueue, renderJob,
  \* B channels
  chan, protocol, pc, stream,
  \* snapshot jobs, one per login
  job, jobConnection, snapshot,
  \* history
  boundary,     \* sent when the capture's boundary was taken, or NotYet
  loginMid,     \* midSession as the login saw it
  ackSeen,      \* channels that acknowledged after they had the snapshot
  failed        \* channels whose synchronisation was given up

serverVars == <<stopping, midSession, handoff, pendingPackets, clientChannel,
                clientState, clientConnected, gateCancelled, gateTasks, targetConnection>>
aVars == <<connection, connections, relayed, joined, sent, applied>>
renderVars == <<renderQueue, renderJob>>
bVars == <<chan, protocol, pc, stream>>
jobVars == <<job, jobConnection, snapshot>>
historyVars == <<boundary, loginMid, ackSeen, failed>>
vars == <<serverVars, dispatch, startup, aVars, renderVars, bVars, jobVars, historyVars>>

ANetty == "ANetty"
Free == "free"
ASSUME HoldersDiffer == {ANetty, Free} \cap Channels = {}

NotYet == -1
NoJob == [step |-> "idle", channel |-> NoChannel]

ClientStates == {"AwaitHandshake", "AwaitLogin", "Play", "Syncing", "AwaitReady"}
LoginSteps == {"hello", "login", "begin", "enqueue", "waiting", "write", "selfInfo",
               "finish", "play", "release"}
Tasks == [kind : {"delta"}, number : 1..MaxDeltas, connection : 1..MaxConnections]
         \cup [kind : {"snapshot"}, channel : Channels] \cup [kind : {"gate"}]
Items == {"snapshot", "delta"} \X (0..MaxDeltas)

TypeOK ==
  /\ {stopping, midSession, clientConnected, gateCancelled, relayed} \subseteq BOOLEAN
  /\ handoff \in HandoffStates
  /\ pendingPackets \in Seq(1..MaxDeltas) /\ Len(pendingPackets) <= MaxPending
  /\ clientChannel \in Channels \cup {NoChannel}
  /\ clientState \in ClientStates
  /\ gateTasks \in 0..1
  /\ {targetConnection, connection, connections} \subseteq 0..MaxConnections
  /\ dispatch \in {Free, ANetty} \cup Channels
  /\ startup \in {"capture", "attached", "gate", "done"}
  /\ {joined, sent, applied} \subseteq 0..MaxDeltas
  /\ renderQueue \in Seq(Tasks)
  /\ renderJob \in [step : {"idle", "boundary", "capture"}, channel : Channels \cup {NoChannel}]
  /\ chan \in [Channels -> {"none", "open", "closing", "closed"}]
  /\ protocol \in [Channels -> {"HANDSHAKING", "STATUS", "LOGIN", "PLAY"}]
  /\ pc \in [Channels -> {"idle"} \cup LoginSteps]
  /\ stream \in [Channels -> Seq(Items)]
  /\ job \in [Channels -> {"none", "queued", "running", "done", "failed", "cancelled"}]
  /\ jobConnection \in [Channels -> 0..MaxConnections]
  /\ snapshot \in [Channels -> 0..MaxDeltas]
  /\ boundary \in [Channels -> NotYet..MaxDeltas]
  /\ loginMid \in [Channels -> BOOLEAN]
  /\ ackSeen \subseteq Channels /\ failed \subseteq Channels

\* InstallBServer has just bound the port.  A is at the title screen, or
\* connected (no relay in its pipeline yet) and in a world or still joining.
Init ==
  /\ stopping = FALSE /\ midSession = FALSE
  /\ handoff = "Idle" /\ pendingPackets = <<>>
  /\ clientChannel = NoChannel /\ clientState = "AwaitHandshake"
  /\ clientConnected = FALSE /\ gateCancelled = FALSE /\ gateTasks = 0
  /\ targetConnection = 0 /\ dispatch = Free /\ startup = "capture"
  /\ connection \in {0, 1} /\ connections = connection
  /\ relayed = FALSE /\ joined = 0 /\ sent \in 0..connection /\ applied = sent
  /\ renderQueue = <<>> /\ renderJob = NoJob
  /\ chan = [c \in Channels |-> "none"]
  /\ protocol = [c \in Channels |-> "HANDSHAKING"]
  /\ pc = [c \in Channels |-> "idle"]
  /\ stream = [c \in Channels |-> <<>>]
  /\ job = [c \in Channels |-> "none"]
  /\ jobConnection = [c \in Channels |-> 0]
  /\ snapshot = [c \in Channels |-> 0]
  /\ boundary = [c \in Channels |-> NotYet]
  /\ loginMid = [c \in Channels |-> FALSE]
  /\ ackSeen = {} /\ failed = {}

NoDispatchLock == TRUE   \* mutant: the critical sections do not exclude each other

DispatchFree == dispatch = Free

\* A has a world: the render thread has applied the join packet.
InGame == connection # 0 /\ applied > joined

\* Channel.close(): the channel goes inactive in a later event-loop callback.
Closed(S) == [c \in Channels |-> IF c \in S /\ chan[c] = "open" THEN "closing" ELSE chan[c]]

\* stream is what was handed to B's channel before it went inactive; the close
\* of another thread, or of the peer, takes effect only there.
Written(c, items) ==
  [stream EXCEPT ![c] = IF chan[c] = "closed" THEN @ ELSE @ \o items]

Live(numbers) == [i \in 1..Len(numbers) |-> <<"delta", numbers[i]>>]

-----------------------------------------------------------------------------
\* Controller: startSession after the port is bound, and the loop.

\* TryCaptureLiveConnection found A in a world: the relay is attached and the
\* target set before midSession is.
CaptureLive ==
  /\ startup = "capture"
  /\ InGame
  /\ startup' = "attached"
  /\ relayed' = TRUE
  /\ targetConnection' = connection
  /\ UNCHANGED <<stopping, midSession, handoff, pendingPackets, clientChannel, clientState,
                 clientConnected, gateCancelled, gateTasks, dispatch, connection, connections,
                 joined, sent, applied, renderVars, bVars, jobVars, historyVars>>

SetMidSession ==
  /\ startup = "attached"
  /\ startup' = "done"
  /\ midSession' = TRUE
  /\ UNCHANGED <<stopping, handoff, pendingPackets, clientChannel, clientState,
                 clientConnected, gateCancelled, gateTasks, targetConnection, dispatch,
                 aVars, renderVars, bVars, jobVars, historyVars>>

\* TryCaptureLiveConnection found no player: NotConnected.
CaptureNone ==
  /\ startup = "capture"
  /\ ~InGame
  /\ startup' = "gate"
  /\ UNCHANGED <<serverVars, dispatch, aVars, renderVars, bVars, jobVars, historyVars>>

\* BlockAMainThreadUntilBConnected: nothing to do if B is in, otherwise a task
\* that parks the render thread.
QueueGate ==
  /\ startup = "gate"
  /\ startup' = "done"
  /\ IF clientConnected
     THEN UNCHANGED <<gateTasks, renderQueue>>
     ELSE /\ gateTasks' = gateTasks + 1
          /\ renderQueue' = Append(renderQueue, [kind |-> "gate"])
  /\ UNCHANGED <<stopping, midSession, handoff, pendingPackets, clientChannel, clientState,
                 clientConnected, gateCancelled, targetConnection, dispatch, aVars, renderJob,
                 bVars, jobVars, historyVars>>

\* mutant: the buffered packets outlive the login.
GiveUpLoginKeepsBuffer ==
  /\ handoff' = "Idle"
  /\ chan' = Closed({clientChannel})
  /\ failed' = failed \cup ({clientChannel} \cap Channels)
  /\ UNCHANGED pendingPackets

\* BServer_CheckLoginTimeout for a handoff that failed or whose deadline passed;
\* the caller holds or takes the dispatch lock.
GiveUpLogin ==
  /\ pendingPackets' = <<>>
  /\ handoff' = "Idle"
  /\ chan' = Closed({clientChannel})
  /\ failed' = failed \cup ({clientChannel} \cap Channels)

CheckLoginTimeout ==
  /\ startup = "done" /\ ~stopping
  /\ DispatchFree
  /\ MayExpire(handoff) \/ handoff = "Failed"
  /\ GiveUpLogin
  /\ UNCHANGED <<stopping, midSession, clientChannel, clientState, clientConnected,
                 gateCancelled, gateTasks, targetConnection, dispatch, startup, aVars,
                 renderVars, protocol, pc, stream, jobVars, boundary, loginMid, ackSeen>>

\* BServer_RequestStop, by DEL or by a start that failed.
RequestStop ==
  /\ ~stopping
  /\ stopping' = TRUE
  /\ clientConnected' = FALSE
  /\ gateCancelled' = TRUE
  /\ startup' = "done"
  /\ UNCHANGED <<midSession, handoff, pendingPackets, clientChannel, clientState, gateTasks,
                 targetConnection, dispatch, aVars, renderVars, bVars, jobVars, historyVars>>

-----------------------------------------------------------------------------
\* A: its player, its server and its Netty thread.

\* A connects, which takes its render thread; the class hook then reports the
\* connection to Native_onChannelActive, unless the proxy is stopping.
AConnects ==
  /\ connection = 0 /\ connections < MaxConnections
  /\ \A i \in DOMAIN renderQueue : renderQueue[i].kind # "gate"
  /\ connections' = connections + 1
  /\ connection' = connections'
  /\ joined' = sent /\ applied' = sent
  /\ relayed' = ~stopping
  /\ targetConnection' = IF stopping THEN targetConnection ELSE connection'
  /\ UNCHANGED <<stopping, midSession, handoff, pendingPackets, clientChannel, clientState,
                 clientConnected, gateCancelled, gateTasks, dispatch, startup, sent,
                 renderVars, bVars, jobVars, historyVars>>

\* A leaves or is kicked.  The proxy is not told: its target stays.
ADisconnects ==
  /\ connection # 0 /\ dispatch # ANetty
  /\ connection' = 0 /\ relayed' = FALSE
  /\ UNCHANGED <<serverVars, dispatch, startup, connections, joined, sent, applied,
                 renderVars, bVars, jobVars, historyVars>>

\* A's Netty thread reads a delta and hands it to A's own pipeline, which
\* queues it for the render thread.  With a relay this happens inside the
\* dispatch lock, which is kept for the forwarding that follows; a relay whose
\* callback is refused by the runtime gate only hands the packet on.
RelayRead ==
  /\ connection # 0 /\ sent < MaxDeltas
  /\ dispatch # ANetty
  /\ sent' = sent + 1
  /\ renderQueue' =
       Append(renderQueue, [kind |-> "delta", number |-> sent', connection |-> connection])
  /\ \/ relayed /\ DispatchFree /\ dispatch' = ANetty
     \/ (~relayed \/ stopping) /\ UNCHANGED dispatch
  /\ UNCHANGED <<serverVars, startup, connection, connections, relayed, joined, applied,
                 renderJob, bVars, jobVars, historyVars>>

\* mutant: a full buffer drops the newest packet.
BufferDropsNewest(n) ==
  /\ handoff = "Capturing"
  /\ pendingPackets' =
       IF Len(pendingPackets) < MaxPending THEN Append(pendingPackets, n) ELSE pendingPackets
  /\ UNCHANGED <<handoff, failed, chan, stream>>

\* BServer_ForwardToB: buffered while the snapshot is being taken, written to
\* the occupant once it was sent, dropped otherwise.
Buffer(n) ==
  /\ handoff = "Capturing"
  /\ IF Len(pendingPackets) < MaxPending
     THEN pendingPackets' = Append(pendingPackets, n) /\ UNCHANGED <<handoff, failed>>
     ELSE /\ pendingPackets' = <<>> /\ handoff' = "Failed"
          /\ failed' = failed \cup {clientChannel}
  /\ UNCHANGED <<chan, stream>>

WriteLive(n) ==
  /\ \/ stream' = Written(clientChannel, Live(<<n>>)) /\ UNCHANGED chan
     \/ chan' = Closed({clientChannel}) /\ UNCHANGED stream
  /\ UNCHANGED <<handoff, pendingPackets, failed>>

Receives == ~stopping /\ clientState \in {"Play", "Syncing", "AwaitReady"}

\* mutant: a synchronising B gets the live packets at once.
ForwardUnbuffered(n) ==
  \/ Receives /\ clientChannel # NoChannel /\ WriteLive(n)
  \/ /\ ~Receives \/ clientChannel = NoChannel
     /\ UNCHANGED <<handoff, pendingPackets, failed, chan, stream>>

ForwardToB(n) ==
  \/ Receives /\ clientState = "Syncing" /\ Buffer(n)
  \/ Receives /\ clientState # "Syncing" /\ clientChannel # NoChannel /\ WriteLive(n)
  \/ /\ \/ ~Receives
        \/ clientState = "Syncing" /\ handoff # "Capturing"
        \/ clientState # "Syncing" /\ clientChannel = NoChannel
     /\ UNCHANGED <<handoff, pendingPackets, failed, chan, stream>>

RelayForward ==
  /\ dispatch = ANetty
  /\ ForwardToB(sent)
  /\ dispatch' = Free
  /\ UNCHANGED <<stopping, midSession, clientChannel, clientState, clientConnected,
                 gateCancelled, gateTasks, targetConnection, startup, aVars, renderVars,
                 protocol, pc, jobVars, boundary, loginMid, ackSeen>>

-----------------------------------------------------------------------------
\* A's render thread: one task at a time, in the order they were queued.
RenderIdle == renderJob.step = "idle" /\ renderQueue # <<>>
NextTask(kind) == RenderIdle /\ Head(renderQueue).kind = kind

\* A delta of a connection that is gone is ignored.
RenderDelta ==
  /\ NextTask("delta")
  /\ renderQueue' = Tail(renderQueue)
  /\ applied' = IF Head(renderQueue).connection = connection
                THEN Head(renderQueue).number ELSE applied
  /\ UNCHANGED <<serverVars, dispatch, startup, connection, connections, relayed, joined,
                 sent, renderJob, bVars, jobVars, historyVars>>

GateOpensForBOnly == clientConnected   \* mutant: the stop does not count

GateOpens == clientConnected \/ gateCancelled

\* MainThreadGate.run waits for B or for the cancellation.
RenderGate ==
  /\ NextTask("gate")
  /\ GateOpens
  /\ gateTasks' = IF gateTasks > 0 THEN gateTasks - 1 ELSE 0
  /\ renderQueue' = Tail(renderQueue)
  /\ UNCHANGED <<stopping, midSession, handoff, pendingPackets, clientChannel, clientState,
                 clientConnected, gateCancelled, targetConnection, dispatch, startup, aVars,
                 renderJob, bVars, jobVars, historyVars>>

\* runSnapshot takes its job off the list and reads "cancelled"; a task whose
\* job is no longer listed does nothing.
RunSnapshot ==
  /\ NextTask("snapshot")
  /\ renderQueue' = Tail(renderQueue)
  /\ LET c == Head(renderQueue).channel
     IN IF job[c] = "queued"
        THEN /\ job' = [job EXCEPT ![c] = "running"]
             /\ renderJob' = [step |-> "boundary", channel |-> c]
        ELSE UNCHANGED <<job, renderJob>>
  /\ UNCHANGED <<serverVars, dispatch, startup, aVars, bVars, jobConnection, snapshot,
                 historyVars>>

\* The task ends: a job cancelled meanwhile stays cancelled.
JobEnds(c, result) ==
  /\ job' = [job EXCEPT ![c] = IF @ = "running" THEN result ELSE @]
  /\ renderJob' = NoJob

\* beginSnapshot: the deltas buffered so far are dropped as already applied.
BeginSnapshot ==
  /\ renderJob.step = "boundary"
  /\ DispatchFree
  /\ IF ~stopping /\ handoff = "Capturing"
     THEN /\ pendingPackets' = <<>>
          /\ boundary' = [boundary EXCEPT ![clientChannel] = sent]
          /\ renderJob' = [renderJob EXCEPT !.step = "capture"]
          /\ UNCHANGED job
     ELSE JobEnds(renderJob.channel, "failed") /\ UNCHANGED <<pendingPackets, boundary>>
  /\ UNCHANGED <<stopping, midSession, handoff, clientChannel, clientState, clientConnected,
                 gateCancelled, gateTasks, targetConnection, dispatch, startup, aVars,
                 renderQueue, bVars, jobConnection, snapshot, loginMid, ackSeen, failed>>

\* captureNow reads the world, and throws unless A still has the connection
\* the job was created for and a world on it.
CaptureNow ==
  /\ renderJob.step = "capture"
  /\ LET c == renderJob.channel
     IN \/ /\ InGame /\ connection = jobConnection[c]
           /\ snapshot' = [snapshot EXCEPT ![c] = applied]
           /\ JobEnds(c, "done")
        \/ JobEnds(c, "failed") /\ UNCHANGED snapshot
  /\ UNCHANGED <<serverVars, dispatch, startup, aVars, renderQueue, bVars, jobConnection,
                 historyVars>>

-----------------------------------------------------------------------------
\* B channels.  A callback runs to its end before the next one of the channel;
\* a packet may still be read after close() was called from another thread.
LoopIdle(c) == pc[c] = "idle" /\ dispatch # c
Readable(c) == LoopIdle(c) /\ chan[c] \in {"open", "closing"} /\ ~stopping
Owns(c) == clientChannel = c
Goto(c, step) == pc' = [pc EXCEPT ![c] = step]

\* initChannel of an accepted connection; a stopping server closes it.
Accept(c) ==
  /\ chan[c] = "none"
  /\ chan' = [chan EXCEPT ![c] = IF stopping THEN "closed" ELSE "open"]
  /\ UNCHANGED <<serverVars, dispatch, startup, aVars, renderVars, protocol, pc, stream,
                 jobVars, historyVars>>

\* The peer hangs up.
PeerCloses(c) ==
  /\ chan[c] = "open"
  /\ chan' = Closed({c})
  /\ UNCHANGED <<serverVars, dispatch, startup, aVars, renderVars, protocol, pc, stream,
                 jobVars, historyVars>>

StatusIntention(c) ==
  /\ Readable(c) /\ protocol[c] = "HANDSHAKING"
  /\ protocol' = [protocol EXCEPT ![c] = "STATUS"]
  /\ UNCHANGED <<serverVars, dispatch, startup, aVars, renderVars, chan, pc, stream,
                 jobVars, historyVars>>

NeverOccupied(c) == FALSE   \* mutant: the newest login takes the slot

\* A login intention claims the only slot, or is turned away.
Occupied(c) == clientChannel \notin {NoChannel, c}

LoginIntention(c) ==
  /\ Readable(c) /\ protocol[c] = "HANDSHAKING"
  /\ protocol' = [protocol EXCEPT ![c] = "LOGIN"]
  /\ IF Occupied(c)
     THEN chan' = Closed({c}) /\ UNCHANGED <<clientChannel, clientState>>
     ELSE clientChannel' = c /\ clientState' = "AwaitLogin" /\ UNCHANGED chan
  /\ UNCHANGED <<stopping, midSession, handoff, pendingPackets, clientConnected, gateCancelled,
                 gateTasks, targetConnection, dispatch, startup, aVars, renderVars, pc, stream,
                 jobVars, historyVars>>

\* A status query is answered, or closed when no response can be built.
StatusQueryFails(c) ==
  /\ Readable(c) /\ protocol[c] = "STATUS"
  /\ chan' = Closed({c})
  /\ UNCHANGED <<serverVars, dispatch, startup, aVars, renderVars, protocol, pc, stream,
                 jobVars, historyVars>>

\* The steps of completeLogin and reconstructAndSendLoginToB on the event loop
\* of channel c.  The hello packet is judged by a client state read before the
\* ownership of the slot is.
ReadHello(c) ==
  /\ Readable(c) /\ protocol[c] = "LOGIN"
  /\ clientState = "AwaitLogin"
  /\ Goto(c, "hello")
  /\ UNCHANGED <<serverVars, dispatch, startup, aVars, renderVars, chan, protocol, stream,
                 jobVars, historyVars>>

CheckOwner(c) ==
  /\ pc[c] = "hello"
  /\ Goto(c, IF Owns(c) THEN "login" ELSE "idle")
  /\ UNCHANGED <<serverVars, dispatch, startup, aVars, renderVars, chan, protocol, stream,
                 jobVars, historyVars>>

\* Identities and teams are reset under the dispatch lock, which an old B's
\* channelInactive must have let go.
CompleteLogin(c) ==
  /\ pc[c] = "login"
  /\ DispatchFree
  /\ protocol' = [protocol EXCEPT ![c] = "PLAY"]
  /\ loginMid' = [loginMid EXCEPT ![c] = midSession]
  /\ Goto(c, IF midSession THEN "begin" ELSE "selfInfo")
  /\ UNCHANGED <<serverVars, dispatch, startup, aVars, renderVars, chan, stream, jobVars,
                 boundary, ackSeen, failed>>

\* A snapshot that cannot be taken closes B; the handoff is left as it is.
SyncFails(c) ==
  /\ chan' = Closed({c})
  /\ Goto(c, "idle")
  /\ failed' = failed \cup {c}

BeginSync(c) ==
  /\ pc[c] = "begin"
  /\ targetConnection # 0
  /\ DispatchFree
  /\ pendingPackets' = <<>>
  /\ handoff' = "Capturing"
  /\ clientState' = "Syncing"
  /\ jobConnection' = [jobConnection EXCEPT ![c] = targetConnection]
  /\ Goto(c, "enqueue")
  /\ UNCHANGED <<stopping, midSession, clientChannel, clientConnected, gateCancelled, gateTasks,
                 targetConnection, dispatch, startup, aVars, renderVars, chan, protocol, stream,
                 job, snapshot, historyVars>>

BeginSyncFails(c) ==
  /\ pc[c] = "begin"
  /\ SyncFails(c)
  /\ UNCHANGED <<serverVars, dispatch, startup, aVars, renderVars, protocol, stream, jobVars,
                 boundary, loginMid, ackSeen>>

\* CaptureWorldSnapshot queues the job's task on the render thread.
EnqueueSnapshot(c) ==
  /\ pc[c] = "enqueue"
  /\ \/ /\ job' = [job EXCEPT ![c] = "queued"]
        /\ renderQueue' = Append(renderQueue, [kind |-> "snapshot", channel |-> c])
        /\ Goto(c, "waiting")
        /\ UNCHANGED <<chan, failed>>
     \/ SyncFails(c) /\ UNCHANGED <<job, renderQueue>>
  /\ UNCHANGED <<serverVars, dispatch, startup, aVars, renderJob, protocol, stream,
                 jobConnection, snapshot, boundary, loginMid, ackSeen>>

\* mutant: the wait has no timeout, the task is trusted to run.
CaptureReturnsInTime(c) ==
  /\ pc[c] = "waiting"
  /\ \/ job[c] = "done" /\ Goto(c, "write") /\ UNCHANGED <<job, chan, failed>>
     \/ job[c] = "failed" /\ SyncFails(c) /\ UNCHANGED job
  /\ UNCHANGED <<serverVars, dispatch, startup, aVars, renderVars, protocol, stream,
                 jobConnection, snapshot, boundary, loginMid, ackSeen>>

\* It waits 15 seconds for the result, then cancels the job: one still listed
\* is taken off the list, a running one ends on its own.
CaptureReturns(c) ==
  /\ pc[c] = "waiting"
  /\ \/ job[c] = "done" /\ Goto(c, "write") /\ UNCHANGED <<job, chan, failed>>
     \/ job[c] = "failed" /\ SyncFails(c) /\ UNCHANGED job
     \/ /\ job[c] \in {"queued", "running"}
        /\ job' = [job EXCEPT ![c] = "cancelled"]
        /\ SyncFails(c)
  /\ UNCHANGED <<serverVars, dispatch, startup, aVars, renderVars, protocol, stream,
                 jobConnection, snapshot, boundary, loginMid, ackSeen>>

\* The snapshot is written unless the handoff was given up or the stop began.
WriteSnapshot(c) ==
  /\ pc[c] = "write"
  /\ DispatchFree
  /\ \/ /\ ~stopping /\ MaySendSnapshot(handoff)
        /\ stream' = Written(c, <<<<"snapshot", snapshot[c]>>>>)
        /\ Goto(c, "selfInfo")
        /\ UNCHANGED <<pendingPackets, handoff, chan, failed>>
     \/ /\ SyncFails(c)
        /\ pendingPackets' = <<>>
        /\ handoff' = "Failed"
        /\ UNCHANGED stream
  /\ UNCHANGED <<stopping, midSession, clientChannel, clientState, clientConnected,
                 gateCancelled, gateTasks, targetConnection, dispatch, startup, aVars,
                 renderVars, protocol, jobVars, boundary, loginMid, ackSeen>>

\* B's own player info; then midSession is read again.
SendSelfInfo(c) ==
  /\ pc[c] = "selfInfo"
  /\ Goto(c, IF midSession THEN "finish" ELSE "play")
  /\ UNCHANGED <<serverVars, dispatch, startup, aVars, renderVars, chan, protocol, stream,
                 jobVars, historyVars>>

\* snapshotSent: the buffered deltas follow the snapshot, up to one that cannot
\* be written and closes B.
FinishSync(c) ==
  /\ pc[c] = "finish"
  /\ DispatchFree
  /\ Goto(c, "idle")
  /\ \/ stopping /\ UNCHANGED <<handoff, clientState, pendingPackets, stream, chan, failed>>
     \/ ~stopping /\ ~MaySendSnapshot(handoff) /\ GiveUpLogin /\ UNCHANGED <<clientState, stream>>
     \/ /\ ~stopping /\ MaySendSnapshot(handoff)
        /\ handoff' = "AwaitingAck"
        /\ clientState' = "AwaitReady"
        /\ pendingPackets' = <<>>
        /\ \E n \in 0..Len(pendingPackets) :
             /\ stream' = Written(c, Live(SubSeq(pendingPackets, 1, n)))
             /\ chan' = IF n < Len(pendingPackets) THEN Closed({c}) ELSE chan
        /\ UNCHANGED failed
  /\ UNCHANGED <<stopping, midSession, clientChannel, clientConnected, gateCancelled, gateTasks,
                 targetConnection, dispatch, startup, aVars, renderVars, protocol, jobVars,
                 boundary, loginMid, ackSeen>>

\* The login of a B that was there before A: control at once, and then the
\* render thread is let out of the gate.
EnterPlay(c) ==
  /\ pc[c] = "play"
  /\ clientState' = "Play"
  /\ Goto(c, "release")
  /\ UNCHANGED <<stopping, midSession, handoff, pendingPackets, clientChannel, clientConnected,
                 gateCancelled, gateTasks, targetConnection, dispatch, startup, aVars,
                 renderVars, chan, protocol, stream, jobVars, historyVars>>

ReleaseGate(c) ==
  /\ pc[c] = "release"
  /\ clientConnected' = TRUE
  /\ Goto(c, "idle")
  /\ UNCHANGED <<stopping, midSession, handoff, pendingPackets, clientChannel, clientState,
                 gateCancelled, gateTasks, targetConnection, dispatch, startup, aVars,
                 renderVars, chan, protocol, stream, jobVars, historyVars>>

HasSnapshot(c) == \E i \in DOMAIN stream[c] : stream[c][i][1] = "snapshot"

\* A game packet of the occupant that carries a teleport id.  The local id is
\* consumed; what is routed to A's server instead goes on in RelayFilter.
ClientPacket(c, id) ==
  /\ Readable(c) /\ protocol[c] = "PLAY"
  /\ Owns(c)
  /\ DispatchFree
  /\ handoff' = Acknowledged(handoff, id)
  /\ clientState' = IF ConsumesAck(handoff, id) /\ clientState = "AwaitReady" /\ handoff' = "Active"
                    THEN "Play" ELSE clientState
  /\ ackSeen' = IF id = "local" /\ HasSnapshot(c) THEN ackSeen \cup {c} ELSE ackSeen
  /\ UNCHANGED <<stopping, midSession, pendingPackets, clientChannel, clientConnected,
                 gateCancelled, gateTasks, targetConnection, dispatch, startup, aVars,
                 renderVars, bVars, jobVars, boundary, loginMid, failed>>

\* channelInactive frees the slot; the rest of it follows under the same
\* dispatch lock, but a new B may claim the slot in between.  Once the server is
\* stopping it may be a callback that was admitted before, or do nothing.
ChannelInactive(c) ==
  /\ LoopIdle(c)
  /\ chan[c] = "closing"
  /\ chan' = [chan EXCEPT ![c] = "closed"]
  /\ \/ /\ DispatchFree
        /\ Owns(c)
        /\ clientChannel' = NoChannel /\ clientState' = "AwaitHandshake" /\ dispatch' = c
     \/ /\ stopping \/ (DispatchFree /\ ~Owns(c))
        /\ UNCHANGED <<clientChannel, clientState, dispatch>>
  /\ UNCHANGED <<stopping, midSession, handoff, pendingPackets, clientConnected, gateCancelled,
                 gateTasks, targetConnection, startup, aVars, renderVars, protocol, pc, stream,
                 jobVars, historyVars>>

\* Without a mid-session capture A's own connection is closed with B's.
KeepsA == midSession \/ targetConnection = 0

ReleaseSlot(c) ==
  /\ dispatch = c
  /\ dispatch' = Free
  /\ handoff' = "Idle" /\ pendingPackets' = <<>>
  /\ clientConnected' = FALSE
  /\ IF KeepsA
     THEN UNCHANGED <<targetConnection, connection, relayed>>
     ELSE /\ targetConnection' = 0
          /\ connection' = IF targetConnection = connection THEN 0 ELSE connection
          /\ relayed' = (relayed /\ connection' # 0)
  /\ UNCHANGED <<stopping, midSession, clientChannel, clientState, gateCancelled, gateTasks,
                 startup, connections, joined, sent, applied, renderVars, bVars, jobVars,
                 historyVars>>

-----------------------------------------------------------------------------
ControllerStep ==
  \/ CaptureLive \/ SetMidSession \/ CaptureNone \/ QueueGate
  \/ CheckLoginTimeout

RenderStep ==
  \/ RenderDelta \/ RenderGate \/ RunSnapshot \/ BeginSnapshot \/ CaptureNow

\* What the event loop of c does on its own once a hello is being handled.
LoginStep(c) ==
  \/ CheckOwner(c) \/ CompleteLogin(c)
  \/ BeginSync(c) \/ BeginSyncFails(c) \/ EnqueueSnapshot(c) \/ CaptureReturns(c)
  \/ WriteSnapshot(c) \/ SendSelfInfo(c) \/ FinishSync(c) \/ EnterPlay(c) \/ ReleaseGate(c)

CloseStep(c) == ChannelInactive(c) \/ ReleaseSlot(c)

PeerStep(c) ==
  \/ Accept(c) \/ PeerCloses(c) \/ StatusIntention(c) \/ StatusQueryFails(c)
  \/ LoginIntention(c) \/ ReadHello(c)
  \/ \E id \in TeleportIds : ClientPacket(c, id)

Next ==
  \/ ControllerStep \/ RequestStop
  \/ AConnects \/ ADisconnects \/ RelayRead \/ RelayForward
  \/ RenderStep
  \/ \E c \in Channels : LoginStep(c) \/ CloseStep(c) \/ PeerStep(c)

Spec == Init /\ [][Next]_vars

\* The threads of the proxy and of netty: the controller polls, A's Netty thread
\* finishes a forwarding it began, every event loop runs, and the wait for a
\* capture ends by its 15 seconds.  Nothing is assumed of A's render thread, which
\* is the game's, nor of the players, the servers or the DEL key.
Fairness ==
  /\ WF_vars(ControllerStep)
  /\ WF_vars(RelayForward)
  /\ \A c \in Channels : WF_vars(LoginStep(c)) /\ WF_vars(CloseStep(c))

FairSpec == Spec /\ Fairness

-----------------------------------------------------------------------------
\* The deltas whose forwarding is over: the newest may still be in the hands of
\* A's Netty thread.
Upto == IF dispatch = ANetty THEN sent - 1 ELSE sent

From(n) == [i \in 1..(Upto - n) |-> n + i]

\* What B's stream begins with.
Led(c) == IF HasSnapshot(c) THEN <<<<"snapshot", snapshot[c]>>>> ELSE <<>>

\* From the boundary of its snapshot on, a synchronising or controlling B
\* misses no delta, gets none twice and none out of order: what was written
\* behind the snapshot and what is still buffered is exactly what A's server
\* sent since (architecture.md:41, README.md:34; login.cpp:6-14 and 333-348,
\* forwarding.cpp:399-438).
MirrorComplete ==
  \A c \in Channels :
    (/\ clientChannel = c /\ boundary[c] # NotYet /\ chan[c] = "open" /\ ~stopping
     /\ handoff \in {"Capturing", "AwaitingAck", "Active"})
      => stream[c] \o Live(pendingPackets) = Led(c) \o Live(From(boundary[c]))

\* No delta that the snapshot already contains reaches B, in front of the
\* snapshot or behind it, however A's render thread lags behind its Netty
\* thread (architecture.md:41; relay_handler.cpp:73-74).
NoDuplicateDelta ==
  \A c \in Channels :
    HasSnapshot(c) =>
      /\ stream[c][1] = <<"snapshot", snapshot[c]>>
      /\ \A i \in 2..Len(stream[c]) :
           stream[c][i][1] = "delta" /\ stream[c][i][2] > snapshot[c]

\* A B that joined a running game has control only after it acknowledged the
\* local teleport of a snapshot it was really sent; one that acknowledges early,
\* twice or with another id does not (README.md:34; forwarding.cpp:372-386).
ControlAfterAck ==
  clientState = "Play" /\ loginMid[clientChannel] => clientChannel \in ackSeen

\* A B whose synchronisation was given up, by a timeout, a full buffer or a
\* failed snapshot, never gets control, however late its acknowledgement comes
\* (README.md:34; lifecycle.cpp:107-127, login.cpp:302-311).
NoControlAfterFailure == clientState = "Play" => clientChannel \notin failed

\* The slot has one occupant, which nobody else moves on and which skips no step
\* of its login: no login, timeout or teardown of a B that has gone writes its
\* state over the slot of the next one (transport.cpp:164-177, login.cpp:283-333,
\* forwarding.cpp:310-330).
BSlot == INSTANCE Slot WITH occupant <- clientChannel, phase <- clientState
SlotSpec == BSlot!Spec

\* The handoff and the buffer belong to the occupant: a B that left, or was
\* turned away, leaves neither a running handoff nor buffered packets behind for
\* the next (transport.cpp:178-179, login.cpp:188-190).
HandoffIsOccupants ==
  /\ pendingPackets # <<>> => handoff = "Capturing"
  /\ handoff # "Idle" /\ dispatch \notin Channels =>
       clientState \in {"Syncing", "AwaitReady", "Play"}

\* A B with control has let A's render thread out of the gate, and the teardown
\* of an earlier B does not lock it in again (login.cpp:283-289, 366-371,
\* transport.cpp:180-183).
ControlOpensGate ==
  (/\ clientState = "Play" /\ ~loginMid[clientChannel] /\ ~stopping
   /\ pc[clientChannel] # "release")
    => clientConnected

\* A synchronisation ends: in control for B, or with the slot free for the next.
\* Neither a silent B nor a render thread that never runs the snapshot, or stops
\* in the middle of it, holds the slot for ever: FairSpec lets the render thread
\* stand still (architecture.md:48; lifecycle.cpp:107-127, world_snapshot.cpp:272-280).
SyncEnds ==
  clientState \in {"Syncing", "AwaitReady"}
    ~> (clientState \in {"Play", "AwaitHandshake"} \/ stopping)

\* A stop lets A's render thread out of the gate, with or without B, provided that
\* the thread runs otherwise, and takes one task of its queue after the other
\* (architecture.md: the gate is cancelled first; lifecycle.cpp:129-137).
StopReleasesGate ==
  WF_vars(RenderStep) => ((stopping /\ gateTasks > 0) ~> gateTasks = 0)

-----------------------------------------------------------------------------
\* What the documents say and the code does not do.

Delivered(c) == {stream[c][i][2] : i \in {j \in DOMAIN stream[c] : stream[c][j][1] = "delta"}}

\* A B with control of a running game has every delta of A's connection, from
\* the snapshot or after it ("discard earlier deltas without losing packets
\* still awaiting application", relay_handler.cpp:73-74).
SnapshotLosesNothing ==
  \A c \in Channels :
    (/\ clientChannel = c /\ clientState = "Play" /\ loginMid[c] /\ ~stopping
     /\ chan[c] = "open" /\ connections = 1 /\ connection = 1)
      => \A n \in joined + 1..Upto : n <= snapshot[c] \/ n \in Delivered(c)

\* A B that took control without a snapshot was initialised by the login stream
\* of A's connection, from its first packet (architecture.md:45-46).
LoginStreamComplete ==
  \A c \in Channels :
    (/\ clientChannel = c /\ clientState = "Play" /\ ~loginMid[c] /\ ~stopping
     /\ startup = "done" /\ chan[c] = "open" /\ connection # 0)
      => joined + 1..Upto \subseteq Delivered(c)
=============================================================================
