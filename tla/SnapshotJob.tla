---------------------------- MODULE SnapshotJob ----------------------------
(***************************************************************************)
(* native/world_snapshot.cpp: who owns the references of a snapshot.       *)
(*                                                                         *)
(* A login thread (the waiter) makes a job, queues its task on A's render  *)
(* thread and waits 15 s for it.  The task takes the job from the list,    *)
(* captures packets and marks the job done; the waiter may have given up   *)
(* by then, at any moment.  Every JNI global reference must be deleted     *)
(* once, by one of the two, and not be used afterwards.                    *)
(*                                                                         *)
(* A reference is a member of refs[j] as long as it is alive; the C++      *)
(* fields keep their (dangling) value.  The packets of a job are counted.  *)
(***************************************************************************)
EXTENDS Integers

CONSTANTS
  Jobs,        \* one for each call of CaptureWorldSnapshot
  MaxPackets   \* bound: packets of a snapshot

ASSUME MaxPacketsIsPositive == MaxPackets \in Nat \ {0}

VARIABLES
  waiter,      \* where CaptureWorldSnapshot is
  render,      \* where the job's task is
  listed,      \* the vector jobs, guarded by jobsMutex
  done, cancelled, ok, \* Job, guarded by its mutex
  refs,        \* the live references to the task, Minecraft and the connection
  packets,     \* Job.packets: live references
  given,       \* the caller's packets
  returned,    \* history: what CaptureWorldSnapshot returned
  whole,       \* history: the packets of the finished snapshot
  misused      \* history: a dead reference was used or deleted

waiterVars == <<waiter, given, returned>>
jobVars == <<listed, done, cancelled, ok, refs, packets>>
vars == <<waiterVars, render, jobVars, whole, misused>>

Refs == {"task", "minecraft", "connection"}
WaiterStates == {"idle", "made", "listed", "waiting", "giving up", "unlisting", "returned", "over"}
RenderStates == {"none", "queued", "taken", "bounding", "capturing", "captured", "failed", "gone"}
Running == {"taken", "bounding", "capturing", "captured", "failed"}

TypeOK ==
  /\ waiter \in [Jobs -> WaiterStates] /\ render \in [Jobs -> RenderStates]
  /\ listed \subseteq Jobs
  /\ done \in [Jobs -> BOOLEAN] /\ cancelled \in [Jobs -> BOOLEAN]
  /\ ok \in [Jobs -> BOOLEAN] /\ returned \in [Jobs -> BOOLEAN]
  /\ refs \in [Jobs -> SUBSET Refs]
  /\ packets \in [Jobs -> 0..MaxPackets]
  /\ given \in [Jobs -> 0..MaxPackets] /\ whole \in [Jobs -> 0..MaxPackets]
  /\ misused \in BOOLEAN

Init ==
  /\ waiter = [j \in Jobs |-> "idle"] /\ render = [j \in Jobs |-> "none"]
  /\ listed = {}
  /\ done = [j \in Jobs |-> FALSE] /\ cancelled = done /\ ok = done /\ returned = done
  /\ refs = [j \in Jobs |-> {}]
  /\ packets = [j \in Jobs |-> 0] /\ given = packets /\ whole = packets
  /\ misused = FALSE

\* Deleting references, and using them.
Delete(j, S) ==
  /\ refs' = [refs EXCEPT ![j] = @ \ S]
  /\ misused' = (misused \/ ~(S \subseteq refs[j]))
Use(j, S) == misused' = (misused \/ ~(S \subseteq refs[j]))

Goes(pc, j, from, to) == pc[j] = from /\ pc' = [pc EXCEPT ![j] = to]

-----------------------------------------------------------------------------
\* CaptureWorldSnapshot.  A reference that cannot be made ends it: the others
\* are discarded.
Make(j) ==
  /\ Goes(waiter, j, "idle", "made")
  /\ refs' = [refs EXCEPT ![j] = Refs]
  /\ UNCHANGED <<given, returned, render, listed, done, cancelled, ok, packets, whole, misused>>

MakeFails(j) ==
  /\ Goes(waiter, j, "idle", "returned")
  /\ UNCHANGED <<given, returned, render, jobVars, whole, misused>>

Enlist(j) ==
  /\ Goes(waiter, j, "made", "listed")
  /\ listed' = listed \cup {j}
  /\ UNCHANGED <<given, returned, render, done, cancelled, ok, refs, packets, whole, misused>>

\* Minecraft.execute queues the task, or throws.
Dispatch(j) ==
  /\ \/ Goes(waiter, j, "listed", "waiting") /\ render' = [render EXCEPT ![j] = "queued"]
     \/ Goes(waiter, j, "listed", "giving up") /\ UNCHANGED render
  /\ UNCHANGED <<given, returned, jobVars, whole, misused>>

\* mutant: whatever has been captured is a success.
WaitEndsDone(j) ==
  /\ Goes(waiter, j, "waiting", "returned") /\ done[j]
  /\ given' = [given EXCEPT ![j] = packets[j]] /\ packets' = [packets EXCEPT ![j] = 0]
  /\ returned' = [returned EXCEPT ![j] = TRUE]
  /\ UNCHANGED <<render, listed, done, cancelled, ok, refs, whole, misused>>

WaitEnds(j) ==
  /\ Goes(waiter, j, "waiting", "returned") /\ done[j]
  /\ given' = [given EXCEPT ![j] = packets[j]] /\ packets' = [packets EXCEPT ![j] = 0]
  /\ returned' = [returned EXCEPT ![j] = ok[j]]
  /\ UNCHANGED <<render, listed, done, cancelled, ok, refs, whole, misused>>

\* mutant: the wait is for the task's end once it has begun.
WaitTimesOutInTask(j) ==
  /\ Goes(waiter, j, "waiting", "giving up") /\ render[j] \in Running
  /\ UNCHANGED <<given, returned, render, jobVars, whole, misused>>

\* The job's mutex is free again after wait_for and before the next step.
WaitTimesOut(j) ==
  /\ Goes(waiter, j, "waiting", "giving up") /\ ~done[j]
  /\ UNCHANGED <<given, returned, render, jobVars, whole, misused>>

\* mutant: the task will release the packets.
CancelLeavesPackets(j) ==
  /\ Goes(waiter, j, "giving up", "unlisting")
  /\ cancelled' = [cancelled EXCEPT ![j] = TRUE]
  /\ UNCHANGED <<given, returned, render, listed, done, ok, refs, packets, whole, misused>>

Cancel(j) ==
  /\ Goes(waiter, j, "giving up", "unlisting")
  /\ cancelled' = [cancelled EXCEPT ![j] = TRUE]
  /\ packets' = [packets EXCEPT ![j] = IF done[j] THEN 0 ELSE @]
  /\ UNCHANGED <<given, returned, render, listed, done, ok, refs, whole, misused>>

\* mutant: the references of a job the task has taken are deleted, too.
UnlistAlways(j) ==
  /\ Goes(waiter, j, "unlisting", "returned")
  /\ listed' = listed \ {j}
  /\ Delete(j, Refs)
  /\ UNCHANGED <<given, returned, render, done, cancelled, ok, packets, whole>>

\* A task that runs owns its references.
Unlist(j) ==
  /\ Goes(waiter, j, "unlisting", "returned")
  /\ listed' = listed \ {j}
  /\ IF j \in listed THEN Delete(j, Refs) ELSE UNCHANGED <<refs, misused>>
  /\ UNCHANGED <<given, returned, render, done, cancelled, ok, packets, whole>>

\* reconstructAndSendLoginToB writes and deletes the packets it was given.
Consume(j) ==
  /\ Goes(waiter, j, "returned", "over")
  /\ given' = [given EXCEPT ![j] = 0]
  /\ UNCHANGED <<returned, render, jobVars, whole, misused>>

-----------------------------------------------------------------------------
\* runSnapshot.  One render thread; the tasks may be run in any order.
Take(j) ==
  /\ \A k \in Jobs : render[k] \notin Running
  /\ Goes(render, j, "queued", IF j \in listed THEN "taken" ELSE "gone")
  /\ listed' = listed \ {j}
  /\ UNCHANGED <<waiterVars, done, cancelled, ok, refs, packets, whole, misused>>

\* The runtime gate may refuse the task.
TestCancelled(j) ==
  /\ \/ Goes(render, j, "taken", "failed")
     \/ Goes(render, j, "taken", "bounding") /\ ~cancelled[j]
  /\ UNCHANGED <<waiterVars, jobVars, whole, misused>>

\* beginSnapshot, which refuses when the handoff is not Capturing any more.
Bound(j) ==
  /\ \E next \in {"capturing", "failed"} : Goes(render, j, "bounding", next)
  /\ UNCHANGED <<waiterVars, jobVars, whole, misused>>

\* captureNow: packet by packet, until it throws or has all.
CapturePacket(j) ==
  /\ render[j] = "capturing" /\ packets[j] < MaxPackets
  /\ Use(j, {"minecraft", "connection"})
  /\ packets' = [packets EXCEPT ![j] = @ + 1]
  /\ UNCHANGED <<waiterVars, render, listed, done, cancelled, ok, refs, whole>>

CaptureThrows(j) ==
  /\ Goes(render, j, "capturing", "failed")
  /\ Use(j, {"minecraft", "connection"})
  /\ UNCHANGED <<waiterVars, jobVars, whole>>

CaptureEnds(j) ==
  /\ Goes(render, j, "capturing", "captured") /\ packets[j] > 0
  /\ whole' = [whole EXCEPT ![j] = packets[j]]
  /\ UNCHANGED <<waiterVars, jobVars, misused>>

Finish(j) ==
  /\ \E at \in {"captured", "failed"} : Goes(render, j, at, "gone")
  /\ packets' = [packets EXCEPT ![j] = IF render[j] = "failed" \/ cancelled[j] THEN 0 ELSE @]
  /\ Delete(j, Refs)
  /\ ok' = [ok EXCEPT ![j] = render[j] = "captured" /\ ~cancelled[j]]
  /\ done' = [done EXCEPT ![j] = TRUE]
  /\ UNCHANGED <<waiterVars, listed, cancelled, whole>>

-----------------------------------------------------------------------------
WaiterSteps(j) ==
  \/ Make(j) \/ MakeFails(j) \/ Enlist(j) \/ Dispatch(j)
  \/ WaitEnds(j) \/ WaitTimesOut(j) \/ Cancel(j) \/ Unlist(j) \/ Consume(j)

RunningSteps(j) ==
  \/ TestCancelled(j) \/ Bound(j)
  \/ CapturePacket(j) \/ CaptureThrows(j) \/ CaptureEnds(j) \/ Finish(j)

Next == \E j \in Jobs : WaiterSteps(j) \/ Take(j) \/ RunningSteps(j)

\* The waiter runs and its wait ends after 15 s.  A task that has begun goes on;
\* whether the render thread ever begins one is not assumed.
Fairness == \A j \in Jobs : WF_vars(WaiterSteps(j)) /\ WF_vars(RunningSteps(j))

Spec == Init /\ [][Next]_vars /\ Fairness

-----------------------------------------------------------------------------
\* No reference is deleted twice or used when dead, wherever the time-out falls
\* between the steps of the task (world_snapshot.cpp:190-215, 277-288).
ReferencesAreSound == ~misused

\* Between them the two threads delete everything: when the waiter is back and
\* the task not running, the only live references are the caller's packets.
NothingLeaks ==
  \A j \in Jobs : waiter[j] \in {"returned", "over"} /\ render[j] \notin Running =>
    refs[j] = {} /\ packets[j] = 0

\* The caller is told of success exactly with a whole snapshot in its hands: a
\* capture that threw half-way or was cancelled leaves it nothing.
SuccessIsWhole ==
  \A j \in Jobs : waiter[j] = "returned" =>
    IF returned[j] THEN given[j] = whole[j] /\ given[j] > 0 ELSE given[j] = 0

\* A login thread is not held by a render thread that never runs its task
\* (world_snapshot.cpp:272-278).
CaptureReturns == \A j \in Jobs : waiter[j] # "idle" ~> waiter[j] = "over"
=============================================================================
