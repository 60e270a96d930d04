----------------------------- MODULE Controller -----------------------------
(***************************************************************************)
(* The resident controller thread (RuntimeThread, startSession and         *)
(* stopSession of native/loader.cpp) with the runtime gate, the native     *)
(* callbacks that run through it, the person at A's keyboard and the       *)
(* launcher that asks a suspended proxy to resume.                         *)
(*                                                                         *)
(* A session holds resources that the stop must give back: the class-load  *)
(* hook, the listener ("server"), the accepted B channels ("children"),    *)
(* the relay handlers in A's pipelines and the task that blocks A's render *)
(* thread until B connects ("gate").  What the session does with them is   *)
(* the subject of ProxySession; here only who acquires and releases them   *)
(* matters.                                                                *)
(***************************************************************************)
EXTENDS RuntimeGate

CONSTANTS
  MaxDels,      \* bound: foreground DEL presses
  MaxResumes,   \* bound: resume events set by the launcher
  MaxNoFrames   \* bound: failing PushLocalFrame calls

ASSUME BoundsAreNat ==
  MaxDels \in Nat /\ MaxResumes \in Nat /\ MaxNoFrames \in Nat

VARIABLES
  pc,             \* where the controller thread is
  ret,            \* where stopSession returns to
  active, clean, requested,   \* the locals of RuntimeThread
  resume,         \* the auto-reset resume event is signalled
  wasDown,        \* DeleteKeyEdge::wasDown_
  live,           \* session resources acquired and not yet released
  gateCancelled,  \* ServerState::gateCancelled
  duplicate,      \* history: the pending request is older than the last DEL
  dels, resumes, noFrames

loopVars == <<active, clean, requested>>
boundVars == <<dels, resumes, noFrames>>
envVars == <<resume, duplicate, wasDown>>
sessionVars == <<live, gateCancelled>>
vars == <<gateVars, pc, ret, loopVars, envVars, sessionVars, boundVars>>

Resources == {"hook", "server", "children", "relays", "gate"}

Startup == {"install", "open", "hooks", "server", "capture"}
Stopping == {"stop", "drain", "cleanup"}

TypeOK ==
  /\ GateTypeOK
  /\ pc \in {"top", "begin", "keys", "wait", "exited"} \cup Startup \cup Stopping
  /\ ret \in {"begin", "keys", "wait", "exited"}
  /\ {active, clean, requested, resume, wasDown, gateCancelled, duplicate} \subseteq BOOLEAN
  /\ live \subseteq Resources
  /\ dels \in 0..MaxDels /\ resumes \in 0..MaxResumes /\ noFrames \in 0..MaxNoFrames

Init ==
  /\ GateInit
  /\ pc = "top" /\ ret = "begin"
  /\ active = FALSE /\ clean = TRUE /\ requested = TRUE
  /\ resume = FALSE /\ duplicate = FALSE /\ wasDown = TRUE
  /\ live = {} /\ gateCancelled = FALSE
  /\ dels = 0 /\ resumes = 0 /\ noFrames = 0

-----------------------------------------------------------------------------
\* One poll of DeleteKeyEdge: a press is a transition to down while A's window
\* is in the foreground.
DeletePressed(pressed) ==
  \E down, foreground \in BOOLEAN :
    /\ pressed = (down /\ ~wasDown /\ foreground)
    /\ wasDown' = down
    /\ pressed => dels < MaxDels
    /\ dels' = IF pressed THEN dels + 1 ELSE dels

PushLocalFrame(ok) ==
  IF ok THEN UNCHANGED noFrames
        ELSE noFrames < MaxNoFrames /\ noFrames' = noFrames + 1

\* Call stopSession and remember where to go on.
CallStop(next) == pc' = "stop" /\ ret' = next

-----------------------------------------------------------------------------
\* Top of the loop: an incomplete stop is retried once its second has passed.
RetryStop ==
  /\ pc = "top"
  /\ ~active /\ ~clean
  /\ \E ok \in BOOLEAN :
       /\ PushLocalFrame(ok)
       /\ IF ok THEN CallStop("begin") ELSE pc' = "begin" /\ UNCHANGED ret
  /\ UNCHANGED <<gateVars, loopVars, envVars, sessionVars, dels, resumes>>

NoRetry ==
  /\ pc = "top"
  /\ pc' = "begin"
  /\ UNCHANGED <<gateVars, ret, loopVars, envVars, sessionVars, boundVars>>

\* A requested start begins only when the last stop left nothing behind.
MayStart == requested /\ ~active /\ clean

BeginStart ==
  /\ pc = "begin"
  /\ MayStart
  /\ requested' = FALSE
  /\ \E ok \in BOOLEAN :
       /\ PushLocalFrame(ok)
       /\ pc' = IF ok THEN "install" ELSE "keys"
  /\ UNCHANGED <<gateVars, ret, active, clean, envVars, sessionVars, dels, resumes>>

NoStart ==
  /\ pc = "begin"
  /\ ~MayStart
  /\ pc' = "keys"
  /\ UNCHANGED <<gateVars, ret, loopVars, envVars, sessionVars, boundVars>>

\* DEL polled inside startSession cancels the start.  Nothing resets the
\* resume event here, so a request made before the cancel survives it.
DelCancels ==
  /\ pc \in {"install", "capture"}
  /\ DeletePressed(TRUE)
  /\ duplicate' = resume
  /\ CallStop("keys")
  /\ UNCHANGED <<gateVars, loopVars, resume, sessionVars, resumes, noFrames>>

\* startSession up to the gate: the bridge class is retried until it installs;
\* when it never does, or the relay class fails, stopSession follows.
Install ==
  /\ pc = "install"
  /\ DeletePressed(FALSE)
  /\ \/ CallStop("keys")
     \/ pc' \in {"install", "open"} /\ UNCHANGED ret
  /\ UNCHANGED <<gateVars, loopVars, resume, duplicate, sessionVars, resumes, noFrames>>

OpenGate ==
  /\ pc = "open"
  /\ Start
  /\ pc' = "hooks"
  /\ UNCHANGED <<ret, loopVars, envVars, sessionVars, boundVars>>

\* InstallConnectionHook: the callback may be enabled even when it fails.
InstallHook ==
  /\ pc = "hooks"
  /\ \/ /\ live' \in {live, live \cup {"hook"}}
        /\ CallStop("keys")
     \/ /\ live' = live \cup {"hook"}
        /\ pc' = "server" /\ UNCHANGED ret
  /\ UNCHANGED <<gateVars, loopVars, envVars, gateCancelled, boundVars>>

\* InstallBServer: a server still bound is taken as it is; the flags of the gate
\* are reset before the port is bound, which may fail.
InstallBServer ==
  /\ pc = "server"
  /\ \/ /\ live' \in {live, live \cup {"server"}}
        /\ gateCancelled' \in {gateCancelled, FALSE}
        /\ CallStop("keys")
     \/ /\ live' = live \cup {"server"}
        /\ gateCancelled' = ("server" \in live /\ gateCancelled)
        /\ pc' = "capture" /\ UNCHANGED ret
  /\ UNCHANGED <<gateVars, loopVars, envVars, boundVars>>

\* Up to ten attempts to capture A's connection.  A connected A gets a relay
\* handler; an A that is not connected gets the task that blocks its render
\* thread, unless B is there already.
Capture ==
  /\ pc = "capture"
  /\ DeletePressed(FALSE)
  /\ \E ok \in BOOLEAN :
       /\ PushLocalFrame(ok)
       /\ \/ CallStop("keys") /\ UNCHANGED <<live, active>>
          \/ ok /\ UNCHANGED <<pc, ret, live, active>>
          \/ /\ ok
             /\ live' \in {live \cup {"relays"}, live \cup {"gate"}, live}
             /\ active' = TRUE
             /\ pc' = "keys" /\ UNCHANGED ret
  /\ UNCHANGED <<gateVars, clean, requested, resume, duplicate, gateCancelled, resumes>>

-----------------------------------------------------------------------------
\* mutant: the render-thread gate is not cancelled.
RequestStopKeepsGate ==
  /\ pc = "stop"
  /\ StopFor
  /\ pc' = "drain"
  /\ UNCHANGED <<ret, loopVars, envVars, sessionVars, boundVars>>

\* stopSession: BServer_RequestStop cancels the render-thread gate before the
\* callbacks are drained.
RequestStop ==
  /\ pc = "stop"
  /\ gateCancelled' = TRUE
  /\ StopFor
  /\ pc' = "drain"
  /\ UNCHANGED <<ret, loopVars, envVars, live, boundVars>>

\* mutant: an incomplete stop counts as a complete one.
StopReturnsClean(ok) ==
  /\ clean' = (ok \in BOOLEAN)
  /\ active' = FALSE
  /\ pc' = ret

StopReturns(ok) ==
  /\ clean' = ok
  /\ active' = FALSE
  /\ pc' = ret

Wakes == pc = "drain" /\ StopForWakes
         /\ UNCHANGED <<pc, ret, loopVars, envVars, sessionVars, boundVars>>

TimesOut == pc = "drain" /\ StopForTimesOut
            /\ UNCHANGED <<pc, ret, loopVars, envVars, sessionVars, boundVars>>

DrainReturns ==
  /\ pc = "drain"
  /\ \/ stopper = "drained" /\ pc' = "cleanup" /\ UNCHANGED <<clean, active>>
     \/ stopper = "timedOut" /\ StopReturns(FALSE)
  /\ UNCHANGED <<gateVars, ret, requested, envVars, sessionVars, boundVars>>

\* StopBServer keeps the server's references unless every part of it stopped
\* and the render thread has left the gate; the hook and the relay handlers
\* are tried whatever it returns.
Cleanup ==
  /\ pc = "cleanup"
  /\ \E released \in SUBSET (live \ {"gate"}) :
       /\ "server" \in released => live \cap {"children", "gate"} \subseteq released
       /\ live' = live \ released
       /\ \E ok \in BOOLEAN : (ok => live' = {}) /\ StopReturns(ok)
  /\ UNCHANGED <<gateVars, ret, requested, envVars, gateCancelled, boundVars>>

-----------------------------------------------------------------------------
\* DEL stops a running session or drops a pending request; the resume event is
\* reset so that requests made before this stop are ignored.
PollKey ==
  /\ pc = "keys"
  /\ \E pressed \in BOOLEAN :
       /\ DeletePressed(pressed)
       /\ IF pressed /\ (active \/ requested)
          THEN /\ resume' = FALSE /\ duplicate' = FALSE
               /\ requested' = FALSE
               /\ \E ok \in BOOLEAN :
                    /\ PushLocalFrame(ok)
                    /\ IF ok THEN CallStop("wait") ELSE pc' = "wait" /\ UNCHANGED ret
          ELSE pc' = "wait" /\ UNCHANGED <<resume, duplicate, requested, ret, noFrames>>
  /\ UNCHANGED <<gateVars, active, clean, sessionVars, resumes>>

\* mutant: a request that arrives while a stop is incomplete is dropped.
WaitDropsRequest ==
  /\ pc = "wait"
  /\ resume' = FALSE
  /\ requested' = (requested \/ (resume /\ ~active /\ clean))
  /\ pc' = "top"
  /\ UNCHANGED <<gateVars, ret, active, clean, duplicate, wasDown, sessionVars, boundVars>>

\* The wait consumes the event even while active, where it means nothing.
Wait ==
  /\ pc = "wait"
  /\ resume' = FALSE
  /\ requested' = (requested \/ (resume /\ ~active))
  /\ pc' = "top"
  /\ UNCHANGED <<gateVars, ret, active, clean, duplicate, wasDown, sessionVars, boundVars>>

WaitFails ==
  /\ pc = "wait"
  /\ \E ok \in BOOLEAN :
       /\ PushLocalFrame(ok)
       /\ IF ok THEN CallStop("exited") ELSE pc' = "exited" /\ UNCHANGED ret
  /\ UNCHANGED <<gateVars, loopVars, envVars, sessionVars, dels, resumes>>

-----------------------------------------------------------------------------
\* The environment: the launcher, the native callbacks, A's render thread.
SetResume ==
  /\ resumes < MaxResumes
  /\ resumes' = resumes + 1
  /\ resume' = TRUE
  /\ duplicate' = FALSE
  /\ UNCHANGED <<gateVars, pc, ret, loopVars, wasDown, sessionVars, dels, noFrames>>

Callback(c) ==
  /\ Enter(c) \/ Leave(c)
  /\ UNCHANGED <<pc, ret, loopVars, envVars, sessionVars, boundVars>>

\* A callback that is inside attaches a relay handler to a new connection of A
\* or records a B channel the listener accepted.
UseSession(c) ==
  /\ c \in entered
  /\ \/ live' = live \cup {"relays"}
     \/ "server" \in live /\ live' = live \cup {"children"}
  /\ UNCHANGED <<gateVars, pc, ret, loopVars, envVars, gateCancelled, boundVars>>

\* The render thread leaves the gate when B connects or the gate is cancelled.
RenderLeavesGate(bConnected) ==
  /\ "gate" \in live
  /\ bConnected \/ gateCancelled
  /\ live' = live \ {"gate"}
  /\ UNCHANGED <<gateVars, pc, ret, loopVars, envVars, gateCancelled, boundVars>>

ControllerNext ==
  \/ RetryStop \/ NoRetry \/ BeginStart \/ NoStart
  \/ DelCancels \/ Install \/ OpenGate \/ InstallHook \/ InstallBServer \/ Capture
  \/ RequestStop \/ Wakes \/ TimesOut \/ DrainReturns \/ Cleanup
  \/ PollKey \/ Wait \/ WaitFails

Next ==
  \/ ControllerNext
  \/ SetResume
  \/ \E c \in Callbacks : Callback(c) \/ UseSession(c)
  \/ \E bConnected \in BOOLEAN : RenderLeavesGate(bConnected)

Spec == Init /\ [][Next]_vars

\* The controller thread runs; its retry loops (240 installs, 10 captures, the
\* one-second retry of a stop) end; every callback returns; the render thread
\* runs once the gate is cancelled; and cleaning up, tried again and again,
\* does not fail for ever.
Fairness ==
  /\ WF_vars(ControllerNext)
  /\ WF_vars(Install /\ pc' # "install")
  /\ WF_vars(Capture /\ pc' # "capture")
  /\ SF_vars(RetryStop)
  /\ SF_vars(Cleanup /\ clean')
  /\ \A c \in Callbacks : WF_vars(c \in entered /\ Callback(c))
  /\ WF_vars(RenderLeavesGate(FALSE))

FairSpec == Spec /\ Fairness

-----------------------------------------------------------------------------
\* No callback is inside while the controller tears the session down
\* (architecture.md: stop admitting callbacks, drain the old ones, only then
\* close B and the listener and remove the hooks).
QuietCleanup == pc = "cleanup" => entered = {}

\* A stop that reported success left nothing behind: until the next start no
\* hook, listener, channel, relay or render-thread task of the session exists,
\* and none can come back through a callback that was still running
\* (loader.cpp:63-68).
CleanMeansReleased == clean /\ ~active /\ pc \notin Startup \cup Stopping => live = {}

\* An incomplete stop is retried until it completes; the controller never ends
\* up suspended for good with half a session in place (README.md:26).
StopCompletes == ~clean ~> (clean \/ pc = "exited")

\* Once nobody presses DEL any more, a resume event that arrives during a stop,
\* or while an incomplete stop is still to be retried, is kept and starts a
\* session after the cleanup (README.md:26).
Quiet == dels = MaxDels /\ noFrames = MaxNoFrames
ResumeIsKept ==
  (resume /\ Quiet /\ (pc \in Stopping \/ (~active /\ ~clean)))
     ~> (pc \in Startup \/ pc = "exited" \/ ret = "exited")

\* A session never starts on a request older than the last DEL
\* (loader.cpp:140, "Ignore duplicate start requests made before this stop").
NoStaleStart == [][pc = "begin" /\ pc' = "install" => ~duplicate]_vars
=============================================================================
