------------------------------ MODULE Launcher ------------------------------
(***************************************************************************)
(* How the proxy gets into A's process and how it is asked to come back:   *)
(* Compass.exe (injector/cli.c with Inject.c), the Java entry point        *)
(* (native/jni_inject.cpp) and the plain loader (inject_ll.c), each of     *)
(* them a launcher, against the copies of the DLL they load.  A copy races *)
(* for the named resume event: the one that creates it is the resident     *)
(* controller of that process, any other signals the event and quits       *)
(* (RuntimeThread of native/loader.cpp).  The event lives as long as       *)
(* anybody has a handle to it, a launcher's handle included.               *)
(*                                                                         *)
(* What the resident does between a request and a session is the subject   *)
(* of Controller: here a session is on or off.                             *)
(***************************************************************************)
EXTENDS Naturals, Sequences

CONSTANTS
  Processes,   \* Java processes with a game window, numbered as created
  Cli, Jni, Classic,   \* launchers, by the program they run
  MaxDels      \* bound: foreground DEL presses

Launchers == Cli \cup Jni \cup Classic

ASSUME ProgramsDiffer ==
  Cli \cap Jni = {} /\ Classic \cap (Cli \cup Jni) = {}
ASSUME ProcessesAreNumbered == Processes \subseteq Nat /\ MaxDels \in Nat

VARIABLES
  alive,       \* processes still running
  pc, target, held, result,   \* of each launcher; held: handles and memory it
                              \* acquired and has not given back
  thread,      \* the remote thread each launcher started
  copy,        \* the DLL copy each launcher brought
  signalled,   \* the auto-reset event of each process
  requested, active,   \* locals of the resident controller
  asked,       \* history: successful requests nobody has looked at yet
  dels

launcherVars == <<pc, target, held, result>>
residentVars == <<requested, active>>
vars == <<alive, launcherVars, thread, copy, signalled, residentVars, asked, dels>>

Nobody == 0   \* no process chosen yet
ASSUME NobodyIsNoProcess == Nobody \notin Processes

HoldsEvent == {"joining", "attaching", "resident"}   \* copies with a handle
Controls == {"attaching", "resident"}                \* the one that created it
Busy == HoldsEvent \cup {"starting"}

TypeOK ==
  /\ alive \subseteq Processes
  /\ pc \in [Launchers -> {"scan", "resume", "signal", "prepare", "load", "wait",
                           "poll", "done"}]
  /\ target \in [Launchers -> Processes \cup {Nobody}]
  /\ held \in [Launchers -> SUBSET {"event", "file", "buffer", "process", "remote",
                                "thread", "image"}]
  /\ result \in [Launchers -> {"none", "ok", "failed", "notReady"}]
  /\ thread \in [Launchers -> {"none", "running", "null", "loaded", "died"}]
  /\ copy \in [Launchers -> Busy \cup {"none", "gone"}]
  /\ {signalled, requested, active} \subseteq [Processes -> BOOLEAN]
  /\ asked \subseteq Launchers
  /\ dels \in 0..MaxDels

Init ==
  /\ alive = Processes
  /\ pc = [l \in Launchers |-> "scan"]
  /\ target = [l \in Launchers |-> Nobody]
  /\ held = [l \in Launchers |-> {}]
  /\ result = [l \in Launchers |-> "none"]
  /\ thread = [l \in Launchers |-> "none"]
  /\ copy = [l \in Launchers |-> "none"]
  /\ signalled = [p \in Processes |-> FALSE]
  /\ requested = signalled /\ active = signalled
  /\ asked = {}
  /\ dels = 0

-----------------------------------------------------------------------------
At(p) == {l \in Launchers : target[l] = p}

\* Somebody has a handle to the resume event of p.
OpenBy(p, handles, copies) ==
  \E l \in At(p) : "event" \in handles[l] \/ copies[l] \in HoldsEvent

EventOpen(p) == OpenBy(p, held, copy)

\* The signal of an event is gone with its last handle.
AfterClose(signals) == signalled' = [p \in Processes |-> signals[p] /\ OpenBy(p, held', copy')]

SetEvent(p) == [signalled EXCEPT ![p] = TRUE]

Goto(l, step) == pc' = [pc EXCEPT ![l] = step]

Hold(l, more, less) == held' = [held EXCEPT ![l] = (@ \cup more) \ less]

Answer(l, answer) == result' = [result EXCEPT ![l] = answer]

\* The launcher is told that the proxy is coming: Compass.exe waits for its
\* listener before it exits, the others return.
Succeeds(l) ==
  IF l \in Cli THEN Goto(l, "poll") /\ UNCHANGED result
               ELSE Goto(l, "done") /\ Answer(l, "ok")

Fails(l) == Answer(l, "failed") /\ Goto(l, "done")

\* The newest of the visible windows' processes; a process whose creation time
\* cannot be read counts as created at 0, and stays if it was found first.
Newest(windows, timed) ==
  IF timed = {} THEN windows ELSE {p \in timed : \A q \in timed : q <= p}

-----------------------------------------------------------------------------
\* Windows come and go, so every poll may see any of them.  inject_ll takes the
\* process from its command line and never looks for a resident.  A launcher may
\* fail here for want of a DLL file, and the Java entry point for want of a window.
Scan(l) ==
  /\ pc[l] = "scan"
  /\ \/ /\ l \notin Classic
        /\ \E windows \in SUBSET alive, timed \in SUBSET alive :
             /\ timed \subseteq windows
             /\ \E p \in Newest(windows, timed) : target' = [target EXCEPT ![l] = p]
        /\ Goto(l, "resume") /\ UNCHANGED result
     \/ /\ l \in Classic
        /\ \E p \in Processes : target' = [target EXCEPT ![l] = p]
        /\ Goto(l, "prepare") /\ UNCHANGED result
     \/ Fails(l) /\ UNCHANGED target
  /\ UNCHANGED <<alive, held, thread, copy, signalled, residentVars, asked, dels>>

\* TryResumeProxy: only an event that does not exist means that no resident is
\* there; any other error is a failure.
OpenEvent(l) ==
  /\ pc[l] = "resume"
  /\ \/ /\ EventOpen(target[l])
        /\ Hold(l, {"event"}, {}) /\ Goto(l, "signal") /\ UNCHANGED result
     \/ /\ ~EventOpen(target[l])
        /\ Goto(l, "prepare") /\ UNCHANGED <<held, result>>
     \/ Fails(l) /\ UNCHANGED held
  /\ UNCHANGED <<alive, target, thread, copy, signalled, residentVars, asked, dels>>

Signal(l) ==
  /\ pc[l] = "signal"
  /\ Hold(l, {}, {"event"})
  /\ UNCHANGED <<alive, target, thread, copy, residentVars, dels>>
  /\ \/ /\ asked' = asked \cup {l}
        /\ Succeeds(l)
        /\ AfterClose(SetEvent(target[l]))
     \/ /\ UNCHANGED asked
        /\ Fails(l)
        /\ AfterClose(signalled)

-----------------------------------------------------------------------------
\* The straight way to the remote thread, and what each program gives back when
\* a step of it fails.  Nobody else sees these steps: they are one action.
Path(l) ==
  IF l \in Classic THEN <<"process", "remote", "write">>
                   ELSE <<"file", "size", "buffer", "read", "process">>

Acquired(l, n) ==
  LET all == {Path(l)[i] : i \in 1..n} \cap {"file", "buffer", "process", "remote"}
  IN IF l \in Jni /\ n >= 4 THEN all \ {"file"} ELSE all

CliFrees(step) == {"buffer", "file", "process"}

JniFrees(step) ==
  CASE step = "file" -> {} [] step \in {"size", "buffer"} -> {"file"}
    [] step = "read" -> {"buffer", "file"} [] step = "process" -> {"buffer"}
    [] step = "load" -> {"buffer", "process"}

ClassicFrees(step) ==
  CASE step = "process" -> {} [] step = "remote" -> {"process"}
    [] step \in {"write", "load"} -> {"remote", "process"}

\* mutant: a failed load leaves the process handle open.
FreesNoProcess(l, step) ==
  (CASE l \in Cli -> CliFrees(step) [] l \in Jni -> JniFrees(step)
     [] l \in Classic -> ClassicFrees(step)) \ (IF step = "load" THEN {"process"} ELSE {})

Frees(l, step) ==
  CASE l \in Cli -> CliFrees(step) [] l \in Jni -> JniFrees(step)
    [] l \in Classic -> ClassicFrees(step)

Prepare(l) ==
  /\ pc[l] = "prepare"
  /\ \/ /\ target[l] \in alive
        /\ Hold(l, Acquired(l, Len(Path(l))), {})
        /\ Goto(l, "load") /\ UNCHANGED result
     \/ /\ \E n \in DOMAIN Path(l) : Hold(l, Acquired(l, n - 1), Frees(l, Path(l)[n]))
        /\ Fails(l)
  /\ UNCHANGED <<alive, target, thread, copy, signalled, residentVars, asked, dels>>

\* What LoadRemoteLibraryR allocates in A: the raw DLL.  The loader in it copies
\* itself to an allocation of its own, and nobody ever frees this one.
Image(l) == IF l \in Classic THEN {} ELSE {"image"}

\* LoadRemoteLibraryR, or CreateRemoteThread on LoadLibraryA.  A write or a thread
\* that fails leaves the raw DLL in A; without a process there is no room for it.
StartThread(l) ==
  /\ pc[l] = "load"
  /\ \/ /\ target[l] \in alive
        /\ thread' = [thread EXCEPT ![l] = "running"]
        /\ Hold(l, {"thread"} \cup Image(l), IF l \in Jni THEN {"buffer"} ELSE {})
        /\ Goto(l, "wait") /\ UNCHANGED result
     \/ /\ \E image \in SUBSET Image(l) :
             /\ target[l] \notin alive => image = {}
             /\ Hold(l, image, Frees(l, "load"))
        /\ Fails(l) /\ UNCHANGED thread
  /\ UNCHANGED <<alive, target, copy, signalled, residentVars, asked, dels>>

\* The exit code that counts as failure.  A thread still running has the code
\* STILL_ACTIVE, a thread of a process that is gone that of the process, and the
\* code of LoadLibraryA is the low half of an address.
\* mutant: a thread still running after 15 seconds counts as failed.
ExitIsZeroWhileRunning(l) ==
  \/ thread[l] \in {"null", "running"}
  \/ thread[l] = "died"
  \/ thread[l] = "loaded" /\ l \in Classic

MayExitZero(l) ==
  \/ thread[l] \in {"null", "died"}
  \/ thread[l] = "loaded" /\ l \in Classic

\* Compass.exe waits without a limit and ignores the code; the others wait 15 s.
WaitReturns(l) ==
  /\ pc[l] = "wait"
  /\ Hold(l, {}, {"thread", "process", "buffer", "file", "remote"})
  /\ \/ l \in Cli /\ thread[l] # "running" /\ Succeeds(l)
     \/ l \notin Cli /\ thread[l] # "null" /\ Succeeds(l)
     \/ l \notin Cli /\ MayExitZero(l) /\ Fails(l)
  /\ UNCHANGED <<alive, target, thread, copy, signalled, residentVars, asked, dels>>

\* mutant: the listener is waited for without a limit.
PollForever(l) ==
  /\ pc[l] = "poll"
  /\ active[target[l]] /\ Answer(l, "ok")
  /\ Goto(l, "done")
  /\ UNCHANGED <<alive, target, held, thread, copy, signalled, residentVars, asked, dels>>

\* The listener is looked for under the id of the process, for 30 seconds.
Poll(l) ==
  /\ pc[l] = "poll"
  /\ \/ active[target[l]] /\ Answer(l, "ok")
     \/ Answer(l, "notReady")
  /\ Goto(l, "done")
  /\ UNCHANGED <<alive, target, held, thread, copy, signalled, residentVars, asked, dels>>

-----------------------------------------------------------------------------
\* LoadLibraryA of a file that is loaded already only counts a reference; every
\* reflective load is a new copy.  DllMain starts RuntimeThread and returns.
Mapped(l) == l \in Classic /\ \E m \in Classic \ {l} : target[m] = target[l] /\ thread[m] = "loaded"

RemoteThread(l) ==
  /\ thread[l] = "running"
  /\ \/ thread' = [thread EXCEPT ![l] = "null"] /\ UNCHANGED copy
     \/ /\ thread' = [thread EXCEPT ![l] = "loaded"]
        /\ IF Mapped(l) THEN UNCHANGED copy
           ELSE \E created \in BOOLEAN :
                  copy' = [copy EXCEPT ![l] = IF created THEN "starting" ELSE "gone"]
  /\ UNCHANGED <<alive, launcherVars, signalled, residentVars, asked, dels>>

\* mutant: the answer of CreateEvent is not looked at.
CreateEventAlways(c) ==
  /\ copy[c] = "starting"
  /\ copy' = [copy EXCEPT ![c] = "attaching"]
  /\ UNCHANGED <<alive, launcherVars, thread, signalled, residentVars, asked, dels>>

CreateEvent(c) ==
  /\ copy[c] = "starting"
  /\ \/ copy' = [copy EXCEPT ![c] = "gone"]
     \/ EventOpen(target[c]) /\ copy' = [copy EXCEPT ![c] = "joining"]
     \/ ~EventOpen(target[c]) /\ copy' = [copy EXCEPT ![c] = "attaching"]
  /\ UNCHANGED <<alive, launcherVars, thread, signalled, residentVars, asked, dels>>

\* A copy that is not the first passes its request on and quits.
Join(c) ==
  /\ copy[c] = "joining"
  /\ copy' = [copy EXCEPT ![c] = "gone"]
  /\ asked' = asked \cup {c}
  /\ UNCHANGED <<alive, launcherVars, thread, residentVars, dels>>
  /\ AfterClose(SetEvent(target[c]))

\* The first waits for the VM, attaches and gets JVMTI; its own start is
\* requested.  One that cannot gives the event up.
Attach(c) ==
  /\ copy[c] = "attaching"
  /\ UNCHANGED <<alive, launcherVars, thread, active, dels>>
  /\ \/ /\ copy' = [copy EXCEPT ![c] = "resident"]
        /\ requested' = [requested EXCEPT ![target[c]] = TRUE]
        /\ asked' = asked \cup {c}
        /\ UNCHANGED signalled
     \/ /\ copy' = [copy EXCEPT ![c] = "gone"]
        /\ UNCHANGED <<requested, asked>>
        /\ AfterClose(signalled)

Seen(p) == asked' = asked \ At(p)

\* startSession; the port has room for one process.
StartSession(c) ==
  LET p == target[c]
  IN /\ copy[c] = "resident"
     /\ requested[p] /\ ~active[p]
     /\ requested' = [requested EXCEPT ![p] = FALSE]
     /\ \E started \in BOOLEAN :
          /\ started => \A q \in Processes : ~active[q]
          /\ active' = [active EXCEPT ![p] = started]
     /\ Seen(p)
     /\ UNCHANGED <<alive, launcherVars, thread, copy, signalled, dels>>

PressDel(c) ==
  LET p == target[c]
  IN /\ copy[c] = "resident"
     /\ requested[p] \/ active[p]
     /\ dels < MaxDels
     /\ dels' = dels + 1
     /\ signalled' = [signalled EXCEPT ![p] = FALSE]
     /\ requested' = [requested EXCEPT ![p] = FALSE]
     /\ active' = [active EXCEPT ![p] = FALSE]
     /\ Seen(p)
     /\ UNCHANGED <<alive, launcherVars, thread, copy>>

\* mutant: the event is consumed and the request forgotten.
WaitForgets(c) ==
  /\ copy[c] = "resident"
  /\ signalled[target[c]]
  /\ signalled' = [signalled EXCEPT ![target[c]] = FALSE]
  /\ UNCHANGED <<alive, launcherVars, thread, copy, residentVars, asked, dels>>

Wait(c) ==
  LET p == target[c]
  IN /\ copy[c] = "resident"
     /\ signalled[p]
     /\ signalled' = [signalled EXCEPT ![p] = FALSE]
     /\ requested' = [requested EXCEPT ![p] = @ \/ ~active[p]]
     /\ IF active[p] THEN Seen(p) ELSE UNCHANGED asked
     /\ UNCHANGED <<alive, launcherVars, thread, copy, active, dels>>

\* The wait fails: the session is stopped and the event closed.
WaitFails(c) ==
  /\ copy[c] = "resident"
  /\ copy' = [copy EXCEPT ![c] = "gone"]
  /\ requested' = [requested EXCEPT ![target[c]] = FALSE]
  /\ active' = [active EXCEPT ![target[c]] = FALSE]
  /\ UNCHANGED <<alive, launcherVars, thread, asked, dels>>
  /\ AfterClose(signalled)

\* A exits with its threads, its copies of the DLL and their handles.
AExits(p) ==
  /\ p \in alive
  /\ alive' = alive \ {p}
  /\ thread' = [l \in Launchers |->
       IF target[l] = p /\ thread[l] = "running" THEN "died" ELSE thread[l]]
  /\ copy' = [l \in Launchers |->
       IF target[l] = p /\ copy[l] \in Busy THEN "gone" ELSE copy[l]]
  /\ requested' = [requested EXCEPT ![p] = FALSE]
  /\ active' = [active EXCEPT ![p] = FALSE]
  /\ UNCHANGED <<launcherVars, asked, dels>>
  /\ AfterClose(signalled)

-----------------------------------------------------------------------------
LauncherStep(l) ==
  \/ Scan(l) \/ OpenEvent(l) \/ Signal(l)
  \/ Prepare(l) \/ StartThread(l) \/ WaitReturns(l) \/ Poll(l)

CopyStep(c) ==
  \/ RemoteThread(c) \/ CreateEvent(c) \/ Join(c) \/ Attach(c)
  \/ StartSession(c) \/ Wait(c)

Next ==
  \/ \E l \in Launchers : LauncherStep(l) \/ CopyStep(l) \/ PressDel(l) \/ WaitFails(l)
  \/ \E p \in Processes : AExits(p)

Spec == Init /\ [][Next]_vars

\* The launchers run once they have found a window; so do the remote threads and
\* the controller.  Nothing is assumed of windows, keys and processes.
Fairness ==
  \A l \in Launchers :
    /\ WF_vars(pc[l] # "scan" /\ LauncherStep(l))
    /\ WF_vars(CopyStep(l))

FairSpec == Spec /\ Fairness

-----------------------------------------------------------------------------
\* However many launchers run at once, at most one copy of the DLL controls a
\* process: the test for a resident (RuntimeControl.h:8-16) and the creation of
\* the event (loader.cpp:74-80) are not one step, the event decides.
OneResident ==
  \A c, d \in Launchers :
    copy[c] \in Controls /\ copy[d] \in Controls /\ target[c] = target[d] => c = d

\* Whatever step fails, a launcher that is done has given back every handle and
\* buffer, and the memory of A it allocated itself (Inject.c:76-83,
\* jni_inject.cpp:97-148, inject_ll.c:37-78).  What stays in A is the raw DLL of
\* LoadRemoteLibraryR, which is freed on no path (LoadLibraryR.c:153-162).
HandlesReleased == \A l \in Launchers : pc[l] = "done" => held[l] \subseteq Image(l)

\* A reported failure is one: no copy of the DLL is running or still to come.
\* A load that outlasts the 15 seconds is therefore not one (jni_inject.cpp:144-154).
\* inject_ll is left out: half of an address decides there.
FailureBringsNothing ==
  \A l \in Cli \cup Jni :
    result[l] = "failed" => copy[l] \notin Busy /\ thread[l] # "running"

HasResident(p) == \E c \in At(p) : copy[c] \in Controls

\* A request that was reported as made is looked at: by a start, by a DEL, or by
\* the resident that is active already, unless the resident goes away.  Requests
\* may come while it attaches, and several may share one signal (README.md:25).
RequestServed ==
  \A l \in Launchers : l \in asked ~> (l \notin asked \/ ~HasResident(target[l]))

\* A launcher that has found its process ends, whatever happens to the process:
\* the wait of Compass.exe for the remote thread has no limit (Inject.c:71).
LauncherEnds ==
  \A l \in Launchers : pc[l] # "scan" ~> pc[l] = "done"
=============================================================================
