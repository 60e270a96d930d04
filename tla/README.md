# SakuraTools in TLA+

SakuraTools is a DLL that lives in the JVM of a Minecraft client **A** and lets a
second client **B** take over A's connection to its server. B connects to port
25565 of A's machine; the proxy gives B A's world, mirrors every packet of A's
server to B, and sends B's packets up A's connection. DEL in A's window suspends
the proxy, the launcher resumes it.

This directory holds a TLA+ model of that program, the TLC configurations that
check it, and proofs that TLAPS checks. Paths below are relative to the
repository's `native/` unless they start with another directory.

## 1. Inventory

### Threads

| Thread | Runs |
| --- | --- |
| controller (`RuntimeThread`, `loader.cpp`) | start, DEL, stop, retry, resume, the login timeout |
| event loop of each B channel | `initChannel`, `channelRead`, `channelInactive` of that channel, one at a time; the whole login of that B |
| A's Netty thread | the relay: every packet of A's server |
| A's render thread | a FIFO of tasks: A's packets, the snapshot, the gate that parks it until B is in |
| launchers (`Compass.exe`, the Java entry point, the plain loader), processes of their own | find A, ask a resident to resume, or load the DLL |

`dispatchMutex` (recursive) is taken before `clientMutex` or `targetMutex`;
`childrenMutex`, `gateMutex` and the runtime gate's own mutex are leaves. Nothing
that waits for the render thread may hold one of them.

### Components

| Component | State | Operations | What makes it correct |
| --- | --- | --- | --- |
| Runtime gate, `runtime_gate.h` | `enabled_`, `inFlight_` | enter, leave, start, stopFor | a drained gate is empty until the next start |
| Controller, `loader.cpp`, `InstallBServer`/`StopBServer` of `server/lifecycle.cpp` | `active`, `clean`, `requested`, the resume event, DEL's edge | start, cancel, stop, drain, cleanup, retry, resume | no callback during the teardown; a clean stop leaves nothing; every stop completes; no resume is lost |
| Login handoff, `login_handoff.h` | `state_`, `deadline_` | begin, snapshotSent, acknowledge, expired, fail, reset | the local acknowledgement is consumed, and only the awaited one gives control |
| B session, `server/transport.cpp`, `forwarding.cpp`, `login.cpp` | the slot (`clientChannel`, `clientState`), the handoff, `pendingPackets` | intention, status, hello, login, sync, acknowledgement, game packets, close | one B at a time; control after the acknowledgement; nothing of an old B reaches the new one |
| Relay, `relay_handler.cpp`, `BServer_ForwardToB` | the handlers in A's pipelines, the bypass marks | read, write filter, attach, detach | the mirror is complete and in order; only the one in control is heard by the server |
| World snapshot, `world_snapshot.cpp` | the list of jobs, each with `done`, `cancelled`, `ok` | queue, run, capture, time out, cancel | no packet is both in the snapshot and behind it; every reference is released once |
| Render-thread gate, `MainThreadGate_run` | `clientConnected`, `gateCancelled`, `gateTasks` | queue, wait, release | B in control, or a stop, lets A go on |
| Team state, `team_state.h`, `server/teams.cpp` | the memberships B was told | apply, prepare | B never gets a removal it would reject |
| Connection hook, `connection_hook.cpp`, `trampolines.cpp`, `class_edit.cpp` | the class-load event, the edited class | install, uninstall, prepend code, shift the tables | the edited method still verifies; an active session has a patched `Connection`, a suspended one has not |
| Bridge classes, `classfile.cpp` | a constant pool with its index maps | references, fields, methods | an index means one constant |
| Installation, `InstallBServer`/`StopBServer` with what they call | the parts that live in A's virtual machine, and the references to them | define, bind, announce, capture; close, stop, release | whatever failed, the stop can reach what runs; suspended is gone, active is complete; a stop can be completed |
| Launchers, `injector/`, `jni_inject.cpp` | handles, the resume event, copies of the DLL | scan, signal, map, wait, poll | one resident; no handle left, no memory of A of its own; no lost request |
| Packet policy, `packet_policy.h` | – | allowFromA, allowFromB | who may send what |
| Names and descriptors, contents of packets, random names, build | – | – | not modelled (section 7) |

How they interact: callbacks enter through the runtime gate and reach the session
through `server` (`server/state.h`); the relay calls `BServer_ForwardToB`; the
login calls the snapshot, which calls back `beginSnapshot` on the render thread;
the controller polls the login timeout, and its stop closes the gate, waits, and
releases everything.

The hard behaviours are the interleavings of those four kinds of thread, the
snapshot's boundary between two of them, the timeouts of the login and of the
stop, and the partial failures of the cleanup. `PROJECT.json` lists each hazard
with its line and the property that covers it.

## 2. Modules

| Module | Models |
| --- | --- |
| `RuntimeGate` | `runtime_gate.h` |
| `Controller` (extends `RuntimeGate`) | the controller thread with callbacks, DEL, the launcher, the session's resources |
| `Install` | the start and the stop part by part: what `lifecycle.cpp`, `transport.cpp`, `connection_hook.cpp`, `relay_handler.cpp` and `bindings.cpp` put into A's virtual machine and take back |
| `Launcher` | the launchers, the resume event, the copies of the DLL that race for it |
| `LoginHandoff` | `login_handoff.h`, as operators |
| `Slot` | abstract: one slot, one occupant, the order of a login |
| `ProxySession` (extends `LoginHandoff`, implements `Slot`) | one session from the bound port to the stop |
| `MCProxySession` | the symmetry of B channels for TLC, and which of the two extremes a behaviour takes |
| `TeamState`, `MCTeamState` | `team_state.h` with `server/teams.cpp`, and the vanilla client at its other end |
| `SnapshotJob` | the owners of the references in `world_snapshot.cpp` |
| `RelayFilter`, `MCRelayFilter` | the write half of `relay_handler.cpp`, its attach and detach, `packet_policy.h` |
| `ClassFile` | `classfile.cpp`, and the bridge class built with it |
| `ClassEdit` (extends `ClassFile`), `MCClassEdit` | `class_edit.cpp` and the callback of `connection_hook.cpp` that uses it |
| `ControllerProofs`, `InstallProofs`, `LauncherProofs`, `ProxySessionProofs`, `TeamStateProofs`, `SnapshotJobProofs`, `RelayFilterProofs`, `ClassEditProofs` | theorems |

### RuntimeGate and Controller

Each method of the gate holds its mutex from the first to the last line and is one
action. `stopFor` lets the mutex go while it waits: the call (`StopFor`), the
wake-up with the predicate true (`StopForWakes`) and the deadline with the
predicate false (`StopForTimesOut`).

`Controller` adds the controller thread with a program counter: `top` (retry of an
incomplete stop), `begin` (start), `install` … `capture` (inside `startSession`),
`stop`, `drain`, `cleanup` (inside `stopSession`, `ret` says where it returns),
`keys` (DEL), `wait`. The session's resources are a set `live` of what must be given
back; `Cleanup` releases any part of it, and reports success only when all is gone,
as `StopBServer`, `UninstallConnectionHook` and `RelayHandler_DetachAll` do. A
callback that is inside the gate may attach a relay or record a channel at any
moment (`UseSession`), which is what the drain is for. Failing JNI calls
(`PushLocalFrame`) and failing installs are choices.

### Install

`Controller` takes the start and the cleanup for one step each. `Install` is the same two
functions, with one step for each part that can fail by itself: in the order of
`startSession`, the bridge and relay classes, the hook, the bindings, the server, the
announcement, the capture of A's connection and the gate on its render thread; in the order
of `stopSession`, the request, the listener, the children, the announcement, the event
loops, the gate's tasks, the references, the hook and the relays. Each step says what it
leaves when it fails. There are three kinds of state: what the resident DLL keeps for good
(`resident`), what the controller refers to (`refs`, `children`, `gateTasks`), and what is
there in A's virtual machine (`running`, `open`, `connection`, `attached`). The properties
relate the second to the third. Meanwhile netty accepts and closes channels and ends its
loops, the class `Connection` is loaded and linked, A connects, B takes control and
leaves, and the render thread runs its task. The callbacks inside a closed gate are `Controller`'s.

`Connection` is read, past the class-file callback (`ClassFileLoadHook`), and defined later:
a load that is under way when the hook is installed or taken out is not among the loaded
classes that `RetransformIfLoaded` enumerates (mark `missed`). The callback gives up without
telling anybody when `channelActive` is not there, an exception is thrown or no memory can be
allocated (mark `skipped`); JVMTI answers NONE all the same. A close is a task for the
channel's event loop, so once that has ended every close fails (`LoopGone`, `Closes`).

### Launcher

Each launcher is a program counter with the set of handles and buffers it holds (`held`),
and brings one copy of the DLL. `Compass.exe` (`Cli`) and the Java entry point (`Jni`) ask for
a resident first; `inject_ll` (`Classic`) does not. `Acquired` and `Frees` are what each of
the three programs has acquired, and gives back, at each step of its failure paths. A copy
starts in its remote thread, races for the named event (`CreateEvent`), joins the resident or
becomes it (`Attach`), and starts, suspends and resumes sessions. The event is
auto-reset and lives as long as anybody has a handle, a launcher's included. A may end at any
moment. How the image is mapped is not modelled: `RemoteThread` loads the DLL or fails. What
`LoadRemoteLibraryR` allocates in A for it is (`Image`): it stays when the write or the remote
thread fails, and no path frees it.

### ProxySession

The packets of A's server are numbered in the order A's Netty thread reads them. A
world is the number of the last packet applied to it; a snapshot is the number it
was taken at; B's stream is the sequence of what was written to it. That is all the
properties need of the data: what is lost, repeated or out of order.

`dispatch` is `dispatchMutex`. A critical section that no other thread can observe
is one action with the guard `DispatchFree`. Two are split: the relay holds the lock
between handing the packet to A (`RelayRead`) and forwarding it (`RelayForward`), and
`channelInactive` holds it between freeing the slot (`ChannelInactive`) and resetting
the handoff and the gate (`ReleaseSlot`), because a new B claims the slot under
another lock. The login of a channel runs on its event loop, step by step (`pc`):
`hello` → `login` → either `selfInfo` → `play` → `release`, or `begin` → `enqueue` →
`waiting` → `write` → `selfInfo` → `finish`. `midSession` is read twice, as in the
code. `SlotSpec` is the refinement: the occupant is the channel in the slot, the phase is
`clientState`, and every other step of this module is a stutter of `Slot`.

The render thread takes its tasks in order; the snapshot's task is two steps, the
boundary (`BeginSnapshot`) and the reading of the world (`CaptureNow`). The capture's
timeout may strike at any moment before the job is done, the login deadline whenever
the controller looks.

History variables (`boundary`, `loginMid`, `ackSeen`, `failed`) record what
properties speak of; no guard reads them.

Taken for granted: a connection of A gets its relay (an attach that fails,
`relay_handler.cpp:256-293`, leaves B without a mirror); and `channelInactive` learns its
channel from netty (if `ctx.channel()` failed, `server/transport.cpp:157-162` returns with the
slot taken).

### TeamState

A scoreboard is a record of the teams that exist and of the team of each player. There
are three: what A's server has, what the proxy believes B was told, and what B's client
shows. `Sends` is `TeamState::apply` with `prepareTeamPacket`: the players a packet is
about (`Candidates`), those it is forwarded for (`Affected`), the new records
(`Applied`). `Handled` and `Rejects` are the vanilla client's, external: it throws on a
removal from a team the player is not on, and that closes B. B's own name is among the
players the server may list. Only the membership methods are told apart from each
other; a team's display data has no influence on them.

### SnapshotJob

`ProxySession` knows only which packet a snapshot ends with. `SnapshotJob` has the rest
of `world_snapshot.cpp`: a waiter that makes the job, enlists and dispatches it and waits,
and a task that takes it from the list, asks whether it is cancelled, captures packet by
packet and finishes. The state is the set of live JNI references of each job, with a
history flag for a reference that is used or deleted when dead. Each critical section
of `jobsMutex` and of the job's own mutex is one action. Two jobs, because the task of
a capture that timed out may run during the next login's capture.

### RelayFilter

Packets are objects that are written to a connection once, wait in its pipeline, and meet
the relay handlers in it. A decision (`RelayDecides`, with the mark it consumes and the
control state it reads) and the write it leads to (`RelayWrites`, `RelayDrops`) are two
steps. A's connections are made, found by the controller, attached to by both, closed
and collected; a stop closes the gate, waits until nobody is inside, and removes the
handlers, where each removal may fail before or after its effect. A packet has one of the three classes
`packet_policy.h` distinguishes. Taken for granted are four things: a JNI reference can
be made (memory does not run out); a session starts only after what was written
before the last stop has left A's event loops; A's pipeline has its `packet_handler` (at the
head of the pipeline, where `relay_handler.cpp:268-277` falls back to, a handler sees encoded
buffers and filters nothing); and a packet of B is marked only while the session runs, where the code
looks at `stopping` on entry of `channelRead` only (`server/transport.cpp:202`).

### ClassFile and ClassEdit

`ClassFile` is the pool of `ClassBuilder`, which finds a constant again by a key, and the
bridge class that `trampolines.cpp` and `relay_handler.cpp` build with it. `ClassEdit` is the edit of one class, in the four steps of the callback: parse, add the reference to the
bridge's method, prepend the call, serialize. A constant is a record, a pool a sequence in
which a wide constant takes two places; code is its length and the tables with positions in
it. `IndexOf`, `Denotes` and `Describe` say how the JVM reads the result and share nothing
with the editor's definitions. Frames for uninitialized objects and switch instructions
are outside the domain: the editor does not support them,
and the one method it is used for has none. An index is a u2 (`PoolU2`), the size of the pool
is not: a search that finds nothing counts to the size with a u2, and never ends once the size
is 65536 (`class_edit.cpp:156`, `:191`, `:206`, `:223`). The edit is then `stuck`
(`Endless`); the casts of the size to an index (`:173`) and to the count (`:514`) are in `Find`
and `Serialize`. The module assumes of its constants that the
files are such as a JVM has loaded (`Loadable`), that a file has the text "Code" once
(`CodeIsOnce`: `findUtf8` takes the first), that the bridge built for `Owner` has the method
that is called, and the types of names and sizes.

Comments that begin with *mutant* mark operators that stand for a plausible bug in
the definition after them; no specification uses them. `PROJECT.json` pairs each
property with the one that breaks it, so that each property is known to depend on
the code it is about.

## 3. Runs

| Run | Configuration | Result |
| --- | --- | --- |
| `controller` | `Controller.cfg` | passes, about 160 000 states |
| `install` | `Install.cfg` | passes, 102 151 states |
| `launcher` | `Launcher.cfg` | passes, 68 150 states |
| `session` | `MCProxySession.cfg` | passes, 1 328 650 states up to symmetry |
| `session_live` | `ProxySessionLive.cfg` | passes, 375 612 states |
| `teams` | `MCTeamState.cfg` | passes, 7 354 states up to symmetry |
| `snapshot_job` | `SnapshotJob.cfg` | passes, 6 149 states |
| `relay` | `MCRelayFilter.cfg` | passes, 1 702 732 states up to symmetry |
| `class_edit` | `MCClassEdit.cfg` | passes, 18 684 states |
| `session_lost_delta` | `ProxySessionLost.cfg` | violated: section 5 |
| `session_empty_world` | `ProxySessionEmptyWorld.cfg` | violated: section 5 |
| `controller_stale_start` | `ControllerStale.cfg` | violated: section 5 |

`controller` checks that no callback runs during the teardown (`QuietCleanup`), that a
stop that succeeded left nothing and nothing comes back (`CleanMeansReleased`), that
every incomplete stop is completed (`StopCompletes`) and that a resume request of a
stop starts a session (`ResumeIsKept`).

`install` checks that whatever still runs in A's virtual machine is within the controller's
reach (`NothingOrphaned`), that a stop that reported success has taken everything back
(`SuspendedIsGone`), that an active session has all it needs whatever failed before
(`ActiveIsWired`), that a stop which is retried succeeds (`StopSucceeds`) and that nothing
a session left behind keeps the next one from starting (`StartSucceeds`). The exceptions are
the code's and have names: `missed` and `skipped` for `Connection`, `Stuck` and `Unclosable`
for the stop, `Unbound` for the start; section 5 says what each is.

`launcher` checks that at most one copy controls a process (`OneResident`), that a launcher
that is done holds nothing but the raw image in A (`HandlesReleased`), that a reported failure leaves no copy
running or on its way (`FailureBringsNothing`), that a request reported as made is looked at
(`RequestServed`), and that a launcher which has found its process ends (`LauncherEnds`).

`session` checks the mirror (`MirrorComplete`: from the boundary of its snapshot on, B
has, in order and without a hole, exactly what A's server sent; `NoDuplicateDelta`: and
nothing the snapshot already contains), the control (`ControlAfterAck`,
`NoControlAfterFailure`; `ControlOpensGate`: B in control lets A's render thread go), the
slot (`SlotSpec`: the session implements `Slot`; `HandoffIsOccupants`: the handoff and the
buffer are the occupant's).
`session_live` checks that a synchronisation ends even if A's render thread stands still
(`SyncEnds`), and that a stop releases A's render thread if it runs otherwise
(`StopReleasesGate`).

`teams` checks that B never gets a removal it would disconnect for (`BNeverRejects`), that B's own name follows
A (`BFollowsA`), and that a B which missed nothing shows everyone where the server has
them (`OthersMirrored`).

`snapshot_job` checks that no reference is used or deleted when dead (`ReferencesAreSound`),
that none is left (`NothingLeaks`), that success means a whole snapshot (`SuccessIsWhole`), and that the login thread comes back
whatever the render thread does (`CaptureReturns`).

`relay` checks that the filter never takes a packet of B for one
of A's unless more than `MaxMarks` others were marked after it (`BPacketsPass`), that what A's game sends while B is in control
does not reach the server and is untouched while B is not (`ControlIsExclusive`: about
packets whose whole way lies between two changes of control), that heartbeats are A's
alone (`HeartbeatIsAs`); and that a pipeline has at most one handler (`OneRelay`), the
stop knows it (`RelayIsKnown`) and leaves none (`StoppedLeavesNothing`).

`class_edit` checks that all constants of the old file keep their index, those of the built
bridge are found again, the new call reaches the bridge and the count is right, however full
the pool was (`IndexesKeepMeaning`), that the
one change is a call of the bridge in the target method (`CallIsTheEdit`), and that frames,
variables, handlers and lines follow their instructions, with the inserted call guarded
by no handler (`FramesFollowCode`, `ScopesFollowCode`).

### Bounds

* Two callbacks, two DEL presses, two resume events, one failed local frame: a
  callback inside during a stop, a drain that times out, its retry, a second stop and
  a request at each of those moments.
* One client of B, three failing calls and two sessions in `Install`: a start that fails
  at any part, a stop that fails twice, and the session after them.
* One launcher of each program, one process and one DEL press: three copies that race for
  one event, a resident that suspends and is asked again. Processes do not interact.
* Two B channels: an old B and a new one, or two that compete for the slot. The slot
  holds one B, so a third adds only more of the same.
* Three packets of A's server on one connection of A, the join packet and two live ones:
  one in the snapshot, one buffered and one live, or an overflow; or two packets and a
  second connection with its own join. The constraint of `MCProxySession.cfg` names these
  two extremes.
* `MaxPending`, 8192 in the code, is 1, and 0 in the liveness run, so that it overflows.
* Two teams and three players, B's name among them: A moves between two teams while
  another player is on each, which is what suppression and the mirrored removal need.
* Two captures of at most two packets: a snapshot that is partial, and a late task
  during the next capture.
* `MaxMarks`, 256 in the code, is 0, so that the second packet of B displaces a mark (the
  code keeps one more than its constant); with two connections that is enough to meet a
  second handler, a displaced mark, and a mark of a packet that never arrives.
* Code of up to six bytes with up to two frames of every form, two variables or one
  handler, and an inserted call of two bytes. A one-byte frame holds up to 3 instead of
  63, so that frames stay narrow, grow, or are extended already; code lengths reach
  the limit that stands for 65536. `PoolU2`, 65536 in the code, is 15: pools of the file have up to
  13 indexes, and the call needs none to seven more, so that an edit just fits, ends
  stuck in the reference, or ends stuck at the last search.

`CHECK_DEADLOCK FALSE` because a bounded run really ends: the packets are sent, the
channels closed, the controller thread gone.

### Fairness

The controller's own steps, the event loops and a forwarding that
has begun are weakly fair: the threads are scheduled and every native call in them
returns, the capture after 15 seconds at the latest. A's render thread is the game's, and
nothing is assumed of it in `FairSpec`; `StopReleasesGate`, which is about
the gate alone, has its fairness as a premise. The retry loops of the start end
by their counters (240 and 10). Strong fairness is used for two things, the retry of
an incomplete stop, which the clock makes due again and again, and a cleanup that can
succeed: that a cleanup tried for ever succeeds in the end is an assumption on Netty
and JVMTI, not something the code enforces. In `SnapshotJob` the waiter and a task that has begun are weakly fair, and the
render thread need never begin one: that the wait ends is its 15 seconds. Callbacks
leave the gate. In `Install` the controller and the render thread are weakly fair and the
number of failing calls is bounded: `StopSucceeds` shows what `Controller` assumes of its
cleanup, from the failures of its parts, and its exceptions where the assumption is wrong. In `Launcher` a launcher that has found a window
and every copy are weakly fair; the windows, the keys and the end of A are not. Nothing is
assumed of B, of A's player, of A's server, of DEL or of the launcher.

## 4. Theorems

TLAPS proves these for all values of the constants:

* `GateDrains` (`ControllerProofs`): a drained gate is empty, and the counter is the
  number of callbacks inside. The invariant adds the types, the finiteness of the set
  of callbacks, and that `drained` implies a closed gate with counter 0; without the
  closed gate a callback could enter after the drain.
* `ControllerImplementsGate`: every step of the controller is a step of the gate or
  leaves it alone.
* `CleanupIsQuiet`: `QuietCleanup`. From the gate's invariant and the fact that the
  controller is at `cleanup` only with the gate drained.
* `CleanIsReleased`: `CleanMeansReleased`. The invariant says in addition that a
  controller that is clean, idle and not starting has the gate drained and nothing in
  `live`, so that no callback can bring a resource back.

* `SessionImplementsSlot`, `SlotAndStateAgree`, `FailedNeverControls`, `HandoffBelongs`
  (`ProxySessionProofs`): the refinement of `Slot`, that the client state says whether the
  slot is free, `NoControlAfterFailure` and `HandoffIsOccupants`, for any channels and
  bounds. The invariant ties the position of each channel's login to the slot: only its
  occupant is inside one, `dispatchMutex` is held over what `channelInactive` does after it
  has freed the slot, and a login that has failed has a handoff that has failed.
  `HandoffBelongs` is about what those who leave leave behind, not about whose packets a late
  snapshot task clears (section 5).
* `SessionTypes`, `ControlNeedsAck`, `ControlLeavesGateOpen`, `SnapshotIsNewest`,
  `MirrorIsComplete` (`ProxySessionProofs`): the type invariant, `ControlAfterAck`,
  `ControlOpensGate`, `NoDuplicateDelta` and `MirrorComplete`. No single invariant carries
  them: each of the following is inductive only with the ones before it.
  1. `HistoryInv`: a login that began in a running game remembers it (`loginMid`), and is
     past the snapshot's write only with a snapshot in its stream. With the types it gives
     both properties of control.
  2. `JobsInv`: which states a login's snapshot job can have at each step of the login, and
     which streams are still empty.
  3. `WorldsInv`: the render thread never has applied more than the Netty thread has read,
     its queue included, and no boundary lies ahead of what has been offered to B.
  4. `BoundaryInv`: while the handoff captures, the buffer and the packet in A's Netty
     thread are later than the world the snapshot is, or will be, taken of. It is here that
     clearing the buffer on the render thread matters.
  5. `MirrorInv`: A's connection has the relay, and a B in `Syncing` has at most its
     snapshot. With the buffer's contents from 3 and 4 every write extends the stream by
     exactly the next delta; the arithmetic of runs of deltas is in `RunGrows` and
     `MirrorGrows`.
* `AlwaysStoppable`, `SuspensionIsComplete`, `ActivationIsComplete` (`InstallProofs`):
  `NothingOrphaned`, `SuspendedIsGone` and `ActiveIsWired` for any clients and any number of
  failures and sessions. A `Connection` that is loaded during an active session, or under a
  stop that reported success, is patched or restored unless it bears a mark (section 5). The invariant lists what each position of the controller already
  has and no longer has; `sound` is the hinge, since a stop that is not sound keeps the
  references its retry needs.
* `AtMostOneResident`, `FailuresAreFailures`, `NothingHeld` (`LauncherProofs`): `OneResident`,
  `FailureBringsNothing` and `HandlesReleased` for any launchers and processes; the raw image
  in A is what the last one leaves out. The
  invariant says that the event exists as long as a resident does, which is why a second
  copy finds it, and what each launcher holds at each of its steps.
* `BoardsTyped`, `TeamsOutliveMembers`, `BStaysConnected`, `BShowsAsTeam`, `BShowsOthers`
  (`TeamStateProofs`): the type invariant, that nobody is on a team
  that does not exist, and the three properties of `teams`, for any players, teams and lists. The invariant says that the proxy's record equals B's board as
  long as B is there (so that what the proxy withholds is what B would reject), and that
  each of the three boards has only existing teams.
* `ReferencesSound`, `JobsFreed`, `SuccessWhole` (`SnapshotJobProofs`): the three safety
  properties of `snapshot_job`, for any number of captures and packets. The invariant
  lists, for each pair of places the two threads can be at, who owns the references.
* `OneHandler`, `HandlersKnown`, `StopDetaches` (`RelayFilterProofs`): `OneRelay`,
  `RelayIsKnown` and `StoppedLeavesNothing`, for any number of connections and packets. The
  list need not hold every pipeline with a handler, because those of closed connections
  are collected; the invariant says that it holds all that somebody can still reach,
  the controller that found a connection before it closed included.

* `HeartbeatStaysAs`, `ControlExcludesA`, `BPacketsGetThrough` (`RelayFilterProofs`):
  `HeartbeatIsAs`, `ControlIsExclusive` and `BPacketsPass`, for any connections, packets and
  `MaxMarks`. Four invariants, each inductive only with the ones before it:
  1. `QueueInv`: the types of what is on its way, and that each event loop deals with the
     first packet of its queue, which has at most one handler before it (`OneRelay`).
  2. `OnceInv`: a packet is on its way in one place only, what B sends is of a kind the policy
     lets through, and a packet of A is denied for its kind alone. It gives `HeartbeatIsAs`.
  3. `ControlInv`: while B is in control, what A's game sent since then is still behind the
     handler it was sent to. It needs that a packet is nowhere else, and that a handler is
     taken out only after the gate was closed.
  4. `MarkInv`: a packet of B that is still to be judged is among the marks, or more than
     `MaxMarks` others were marked after it. If a packet were in two places, the first
     handler would take the mark the second one needs.
* `IndexesKeepMeaningHolds`, `CallIsTheEditHolds`, `FramesFollowCodeHolds`,
  `ScopesFollowCodeHolds`, `BuiltAsAskedHolds` (`ClassEditProofs`): the four properties of
  `class_edit`, and the part of the first that is about the classes the proxy builds, for any
  loadable files, any lists of builder calls and any limit of a u2. They are about the classes that are
  written: the edit of a pool that does not fit ends in a search without end, and no index or count
  ever wraps (`KeptIsCounted`). `EditInv` says what the parsed file, the pool
  and the methods are after each of the four steps; `BuilderInv` that each key of the builder's
  index leads to its constant, and that each index handed out so far denotes what was asked
  for, in the pool as it is now: a pool only grows. The lemmas are about the definitions that read a file: `SlotsHold` and `KeptHolds`
  relate a constant's place in the sequence to its index when wide ones take two, `FindIsNat`, `FindIsFirst`,
  `AddedIsFound` and `AddedHolds` say what a search and an addition do, `Flattened` what a concatenation of
  sequences is. Statements about a sequence of any length (`Flattened`, `AllOfInterval`)
  are proved from the least number of a set (`LeastOfInterval`), as the induction theorems of the library
  take an operator that no prover here can instantiate.

The assumptions are `CallbacksFinite`, the typing of the bounds, that the names of
nobody (`NoConnection` and the like) are none of the real ones, those on the kinds
of packets, and those on the files of `ClassEdit` (section 2). A theorem that is not temporal in substance is proved from Init and the steps
alone; fairness is used in no proof.

Only model-checked: liveness (`StopCompletes`, `ResumeIsKept`, `StopSucceeds`,
`StartSucceeds`, `RequestServed`, `LauncherEnds`, `SyncEnds`, `StopReleasesGate` and
`CaptureReturns`), because fairness and `ENABLED` are beyond the prover. Every other property
of a passing run is a theorem.

## 5. Where code and documents disagree

1. **A packet is lost at the boundary of the snapshot** (`session_lost_delta`).
   `beginSnapshot` (`server/login.cpp:12`) clears the buffer because "A's earlier packet
   tasks have run on the render thread". The buffer holds every packet mirrored since
   the handoff began, and those read after the snapshot's task was queued have their own
   tasks *behind* it. They are neither in the snapshot nor in the buffer.
   `relay_handler.cpp:73` claims that none is lost.
2. **A B that is early enters an empty world** (`session_empty_world`). The port is bound
   before A's connection is captured, and `midSession` is set last. A B that logs in in
   between has control at once, without the snapshot that `docs/architecture.md:46`
   describes. The same happens to every B when A connects on its own after its first B
   has left, because `midSession` is set nowhere else.
3. **A cancelled start starts again** (`controller_stale_start`). DEL inside
   `startSession` (`loader.cpp:26`, `:38`) does not reset the resume event, as the other
   DEL path does ("Ignore duplicate start requests made before this stop",
   `loader.cpp:140`).

More are in the models and noted here, without a run of their own. First, cleanups and starts
that cannot be completed:

* A first start that ends before `InstallConnectionHook` leaves JVMTI without the
  capability to retransform. If `Connection` is loaded, the stop that follows calls
  `RetransformClasses` (`connection_hook.cpp:120`) and is refused at every retry, although
  nothing is patched: the proxy stays in its cleanup (`src/README.md:26`: the stop retries
  until the cleanup is complete). `StopSucceeds` excludes it by name (`Stuck`).
* `RelayHandler::valid` (`relay_handler.h:30`) asks only for the class. An installation that
  missed one of netty's methods counts as done at the next start.
* `cacheJavaRefs` does not require `Minecraft.getInstance`; when it was not found, the
  bindings count as complete, are not looked up again (`server/lifecycle.cpp:79`), and every
  later start fails at the capture. `StartSucceeds` excludes it by name (`Unbound`).
* `StopBServer` closes the listener and the children before it shuts the event loop down, and keeps
  all references when an attempt is incomplete. If an attempt ends the loop but fails at something
  else, such as the gate's task or the announcement (`server/lifecycle.cpp:182`, `:207`), the next
  one closes channels of a loop that has ended: netty rejects that, the future has failed
  (`:60`), and `ok` is false at every retry (`:145-171`). The proxy is not suspended any more, although
  `src/README.md:26` promises a retry after which a resume request is served. `StopSucceeds` excludes
  it by name (`Unclosable`); without the exception one failing call is enough to violate it.

Then what is left behind, or missing, without a report:

* The class-file callback gives up on `Connection` (`connection_hook.cpp:36`, `:55-58`, `:63-66`,
  `:72-76`), or the class is between its reading and its definition when the hook is installed:
  the session is active over a `Connection` that is not patched. In the second case, at the stop, the
  proxy is suspended over one that is. `ActiveIsWired` and `SuspendedIsGone` name both.
* `LoadRemoteLibraryR` (`injector/LoadLibraryR.c:153-162`) leaves the raw DLL in A, whether the load
  succeeds or not. `HandlesReleased` names it (`Image`).
* A constant pool that is full makes the editor count for ever (`class_edit.cpp:156`), inside the
  callback. Minecraft's `Connection` is far from it.
* A snapshot task that asked whether it is cancelled just before it was (`world_snapshot.cpp:198-200`)
  may clear the buffer of the next B while that one captures (`server/login.cpp:8-12`). That B's own
  snapshot, which is taken later on the same thread, clears it as well, so `MirrorComplete` holds.

## 6. Plan

The order was: the gate and the controller, the session with its handoff, teams, the
snapshot's references, the relay's write side, the class editor; then the slot and its
refinement, the class writer, the launchers, the installation part by part. What is left,
in order of importance:

1. `TabList`: player-info packets as `server/forwarding.cpp` rewrites them for B, with the
   entry `server/login.cpp:101-168` pushes for B itself and the entries of a snapshot, in the
   manner of `TeamState`.
2. `Mirror`: an abstract stream that B's world is a prefix of, refined by `ProxySession` from
   the boundary on; `MirrorInv` holds what its refinement proof needs.
3. Bundles as sequences of packets, some of which B must not get.

## 7. Not modelled

How a DLL is mapped into a process (`ReflectiveLoader.c`, `GetProcAddressR.c`,
`LoadLibraryR.c`: third-party code, which here loads or fails, and of which only the memory it
takes in A is modelled); the names and descriptors in
`server/bindings.*`, `jni_lookup.cpp` and `snapshot_jni.h`, and the bindings the proxy can do
without; the contents of the packets the snapshot creates and of the status response;
random names, logging, build scripts and the experiments of `mindll`: they keep no state
another part depends on, or their correctness is a matter of names and formats. Player-info
mirroring and bundles are the writing of one packet here. The B channel's TCP and the
JVM are taken as reliable: a write that Netty accepted reaches B unless the channel
closes.
