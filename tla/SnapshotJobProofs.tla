------------------------- MODULE SnapshotJobProofs -------------------------
(***************************************************************************)
(* For any number of jobs: the references of a job are deleted once, by    *)
(* the thread that owns them, and success means a whole snapshot.          *)
(*                                                                         *)
(* The owner of the three references is the waiter until the job is        *)
(* listed, then whoever takes the job off the list, then the task (Owned). *)
(* The packets are the task's until the job is done; then the waiter's, if *)
(* it has not given up, and nobody's otherwise (Packets).                  *)
(***************************************************************************)
EXTENDS SnapshotJob, TLAPS

\* Who may hold the references.
Owned(j) ==
  refs[j] = IF waiter[j] = "made" \/ j \in listed \/ render[j] \in Running THEN Refs ELSE {}

\* Where the two threads and the list can be together.
Places(j) ==
  /\ waiter[j] \in {"idle", "made", "listed"} => render[j] = "none"
  /\ j \in listed => /\ waiter[j] \in {"listed", "waiting", "giving up", "unlisting"}
                     /\ render[j] \in {"none", "queued"}
  /\ waiter[j] = "listed" => j \in listed
  /\ waiter[j] = "waiting" => render[j] # "none"
  /\ cancelled[j] => waiter[j] \in {"unlisting", "returned", "over"}
  /\ waiter[j] = "unlisting" => cancelled[j]
  /\ waiter[j] \in {"returned", "over"} /\ render[j] \in Running => cancelled[j]
  /\ done[j] => render[j] = "gone"

Packets(j) ==
  /\ render[j] \in {"none", "queued", "taken", "bounding"} => packets[j] = 0
  /\ render[j] = "captured" => packets[j] = whole[j] /\ packets[j] > 0
  /\ render[j] = "gone" =>
       packets[j] = IF done[j] /\ ok[j] /\ waiter[j] \in {"waiting", "giving up"} THEN whole[j] ELSE 0
  /\ ok[j] => done[j] /\ whole[j] > 0

Given(j) ==
  /\ returned[j] => waiter[j] \in {"returned", "over"} /\ done[j]
  /\ IF waiter[j] = "returned" /\ returned[j] THEN given[j] = whole[j] /\ given[j] > 0
     ELSE given[j] = 0

JobInv(j) == Owned(j) /\ Places(j) /\ Packets(j) /\ Given(j)

IInv == TypeOK /\ misused = FALSE /\ \A j \in Jobs : JobInv(j)

\* No packets is a number of packets.
LEMMA ZeroFits == 0 \in 0..MaxPackets
BY MaxPacketsIsPositive

\* No job, nothing owned.
LEMMA InitIInv == Init => IInv
<1> SUFFICES ASSUME Init PROVE IInv
  OBVIOUS
<1> USE DEF Init
<1>1. TypeOK
  BY ZeroFits DEF TypeOK, WaiterStates, RenderStates
<1>2. ASSUME NEW j \in Jobs PROVE JobInv(j)
  BY DEF JobInv, Owned, Places, Packets, Given, Running
<1> QED
  BY <1>1, <1>2 DEF IInv

\* A step of one job leaves the others alone.  The waiter owns what it has made.
LEMMA MakeKeepsIInv ==
  ASSUME IInv, NEW j \in Jobs, Make(j)
  PROVE  IInv'
<1> USE DEF Make, Goes, waiterVars, jobVars, Delete, Use, IInv
<1>1. TypeOK'
  BY MaxPacketsIsPositive DEF TypeOK, WaiterStates, RenderStates, Refs
<1>2. misused' = FALSE
  BY DEF TypeOK, JobInv, Owned, Places, Running, Refs
<1>3. ASSUME NEW k \in Jobs PROVE JobInv(k)'
  <2>1. JobInv(k)
    OBVIOUS
  <2>2. CASE k = j
    BY <2>1, <2>2 DEF TypeOK, JobInv, Owned, Places, Packets, Given, Running, Refs
  <2>3. CASE k # j
    BY <2>1, <2>3 DEF TypeOK, JobInv, Owned, Places, Packets, Given
  <2> QED
    BY <2>2, <2>3
<1> QED
  BY <1>1, <1>2, <1>3

\* Nothing was kept.
LEMMA MakeFailsKeepsIInv ==
  ASSUME IInv, NEW j \in Jobs, MakeFails(j)
  PROVE  IInv'
<1> USE DEF MakeFails, Goes, waiterVars, jobVars, Delete, Use, IInv
<1>1. TypeOK'
  BY MaxPacketsIsPositive DEF TypeOK, WaiterStates, RenderStates, Refs
<1>2. misused' = FALSE
  BY DEF TypeOK, JobInv, Owned, Places, Running, Refs
<1>3. ASSUME NEW k \in Jobs PROVE JobInv(k)'
  <2>1. JobInv(k)
    OBVIOUS
  <2>2. CASE k = j
    BY <2>1, <2>2 DEF TypeOK, JobInv, Owned, Places, Packets, Given, Running, Refs
  <2>3. CASE k # j
    BY <2>1, <2>3 DEF TypeOK, JobInv, Owned, Places, Packets, Given
  <2> QED
    BY <2>2, <2>3
<1> QED
  BY <1>1, <1>2, <1>3

\* The list owns the references now.
LEMMA EnlistKeepsIInv ==
  ASSUME IInv, NEW j \in Jobs, Enlist(j)
  PROVE  IInv'
<1> USE DEF Enlist, Goes, waiterVars, jobVars, Delete, Use, IInv
<1>1. TypeOK'
  BY MaxPacketsIsPositive DEF TypeOK, WaiterStates, RenderStates, Refs
<1>2. misused' = FALSE
  BY DEF TypeOK, JobInv, Owned, Places, Running, Refs
<1>3. ASSUME NEW k \in Jobs PROVE JobInv(k)'
  <2>1. JobInv(k)
    OBVIOUS
  <2>2. CASE k = j
    BY <2>1, <2>2 DEF TypeOK, JobInv, Owned, Places, Packets, Given, Running, Refs
  <2>3. CASE k # j
    BY <2>1, <2>3 DEF TypeOK, JobInv, Owned, Places, Packets, Given
  <2> QED
    BY <2>2, <2>3
<1> QED
  BY <1>1, <1>2, <1>3

\* Queued or not, the job stays listed.
LEMMA DispatchKeepsIInv ==
  ASSUME IInv, NEW j \in Jobs, Dispatch(j)
  PROVE  IInv'
<1> USE DEF Dispatch, Goes, waiterVars, jobVars, Delete, Use, IInv
<1>1. TypeOK'
  BY MaxPacketsIsPositive DEF TypeOK, WaiterStates, RenderStates, Refs
<1>2. misused' = FALSE
  BY DEF TypeOK, JobInv, Owned, Places, Running, Refs
<1>3. ASSUME NEW k \in Jobs PROVE JobInv(k)'
  <2>1. JobInv(k)
    OBVIOUS
  <2>2. CASE k = j
    BY <2>1, <2>2 DEF TypeOK, JobInv, Owned, Places, Packets, Given, Running, Refs
  <2>3. CASE k # j
    <3>1. waiter'[k] = waiter[k] /\ render'[k] = render[k]
      BY <2>3 DEF TypeOK
    <3> QED
      BY <2>1, <3>1 DEF JobInv, Owned, Places, Packets, Given
  <2> QED
    BY <2>2, <2>3
<1> QED
  BY <1>1, <1>2, <1>3

\* A job that is done has its packets, if any, for the waiter.
LEMMA WaitEndsKeepsIInv ==
  ASSUME IInv, NEW j \in Jobs, WaitEnds(j)
  PROVE  IInv'
<1> USE DEF WaitEnds, Goes, waiterVars, jobVars, Delete, Use, IInv
<1>1. TypeOK'
  <2>1. waiter' \in [Jobs -> WaiterStates] /\ render' \in [Jobs -> RenderStates]
    BY DEF TypeOK, WaiterStates, RenderStates
  <2>2. /\ listed' \subseteq Jobs /\ refs' \in [Jobs -> SUBSET Refs]
        /\ done' \in [Jobs -> BOOLEAN] /\ cancelled' \in [Jobs -> BOOLEAN]
        /\ ok' \in [Jobs -> BOOLEAN] /\ returned' \in [Jobs -> BOOLEAN]
    BY DEF TypeOK
  <2>3. /\ packets' \in [Jobs -> 0..MaxPackets] /\ given' \in [Jobs -> 0..MaxPackets]
        /\ whole' \in [Jobs -> 0..MaxPackets]
    BY ZeroFits, MaxPacketsIsPositive DEF TypeOK
  <2>4. misused' \in BOOLEAN
    BY DEF TypeOK
  <2> QED
    BY <2>1, <2>2, <2>3, <2>4 DEF TypeOK
<1>2. misused' = FALSE
  BY DEF TypeOK, JobInv, Owned, Places, Running, Refs
<1>3. ASSUME NEW k \in Jobs PROVE JobInv(k)'
  <2>1. JobInv(k)
    OBVIOUS
  <2>2. CASE k = j
    BY <2>1, <2>2 DEF TypeOK, JobInv, Owned, Places, Packets, Given, Running, Refs
  <2>3. CASE k # j
    BY <2>1, <2>3 DEF TypeOK, JobInv, Owned, Places, Packets, Given
  <2> QED
    BY <2>2, <2>3
<1> QED
  BY <1>1, <1>2, <1>3

\* The waiter still may find the job done.
LEMMA WaitTimesOutKeepsIInv ==
  ASSUME IInv, NEW j \in Jobs, WaitTimesOut(j)
  PROVE  IInv'
<1> USE DEF WaitTimesOut, Goes, waiterVars, jobVars, Delete, Use, IInv
<1>1. TypeOK'
  BY MaxPacketsIsPositive DEF TypeOK, WaiterStates, RenderStates, Refs
<1>2. misused' = FALSE
  BY DEF TypeOK, JobInv, Owned, Places, Running, Refs
<1>3. ASSUME NEW k \in Jobs PROVE JobInv(k)'
  <2>1. JobInv(k)
    OBVIOUS
  <2>2. CASE k = j
    BY <2>1, <2>2 DEF TypeOK, JobInv, Owned, Places, Packets, Given, Running, Refs
  <2>3. CASE k # j
    BY <2>1, <2>3 DEF TypeOK, JobInv, Owned, Places, Packets, Given
  <2> QED
    BY <2>2, <2>3
<1> QED
  BY <1>1, <1>2, <1>3

\* Done before: the waiter releases the packets.  Not done: the task will.
LEMMA CancelKeepsIInv ==
  ASSUME IInv, NEW j \in Jobs, Cancel(j)
  PROVE  IInv'
<1> USE DEF Cancel, Goes, waiterVars, jobVars, Delete, Use, IInv
<1>1. TypeOK'
  <2>1. waiter' \in [Jobs -> WaiterStates] /\ render' \in [Jobs -> RenderStates]
    BY DEF TypeOK, WaiterStates, RenderStates
  <2>2. /\ listed' \subseteq Jobs /\ refs' \in [Jobs -> SUBSET Refs]
        /\ done' \in [Jobs -> BOOLEAN] /\ cancelled' \in [Jobs -> BOOLEAN]
        /\ ok' \in [Jobs -> BOOLEAN] /\ returned' \in [Jobs -> BOOLEAN]
    BY DEF TypeOK
  <2>3. /\ packets' \in [Jobs -> 0..MaxPackets] /\ given' \in [Jobs -> 0..MaxPackets]
        /\ whole' \in [Jobs -> 0..MaxPackets]
    BY ZeroFits, MaxPacketsIsPositive DEF TypeOK
  <2>4. misused' \in BOOLEAN
    BY DEF TypeOK
  <2> QED
    BY <2>1, <2>2, <2>3, <2>4 DEF TypeOK
<1>2. misused' = FALSE
  BY DEF TypeOK, JobInv, Owned, Places, Running, Refs
<1>3. ASSUME NEW k \in Jobs PROVE JobInv(k)'
  <2>1. JobInv(k)
    OBVIOUS
  <2>2. CASE k = j
    BY <2>1, <2>2 DEF TypeOK, JobInv, Owned, Places, Packets, Given, Running, Refs
  <2>3. CASE k # j
    BY <2>1, <2>3 DEF TypeOK, JobInv, Owned, Places, Packets, Given
  <2> QED
    BY <2>2, <2>3
<1> QED
  BY <1>1, <1>2, <1>3

\* On the list: the waiter deletes.  Taken: the task will, and it was cancelled.
LEMMA UnlistKeepsIInv ==
  ASSUME IInv, NEW j \in Jobs, Unlist(j)
  PROVE  IInv'
<1> USE DEF Unlist, Goes, waiterVars, jobVars, Delete, Use, IInv
<1>1. TypeOK'
  <2>1. waiter' \in [Jobs -> WaiterStates] /\ render' \in [Jobs -> RenderStates]
    BY DEF TypeOK, WaiterStates, RenderStates
  <2>2. /\ listed' \subseteq Jobs /\ refs' \in [Jobs -> SUBSET Refs]
        /\ done' \in [Jobs -> BOOLEAN] /\ cancelled' \in [Jobs -> BOOLEAN]
        /\ ok' \in [Jobs -> BOOLEAN] /\ returned' \in [Jobs -> BOOLEAN]
    BY DEF TypeOK
  <2>3. /\ packets' \in [Jobs -> 0..MaxPackets] /\ given' \in [Jobs -> 0..MaxPackets]
        /\ whole' \in [Jobs -> 0..MaxPackets]
    BY ZeroFits, MaxPacketsIsPositive DEF TypeOK
  <2>4. misused' \in BOOLEAN
    BY DEF TypeOK
  <2> QED
    BY <2>1, <2>2, <2>3, <2>4 DEF TypeOK
<1>2. misused' = FALSE
  <2>1. Owned(j)
    BY DEF JobInv
  <2>2. j \in listed => refs[j] = Refs
    BY <2>1 DEF Owned
  <2> QED
    BY <2>2
<1>3. ASSUME NEW k \in Jobs PROVE JobInv(k)'
  <2>1. JobInv(k)
    OBVIOUS
  <2>2. CASE k = j
    <3>1. waiter[k] = "unlisting" /\ waiter'[k] = "returned" /\ k \notin listed' /\ cancelled[k]
      BY <2>1, <2>2 DEF TypeOK, JobInv, Places
    <3>2. refs'[k] = IF k \in listed THEN {} ELSE refs[k]
      BY <2>1, <2>2, SMTT(30) DEF TypeOK, Refs
    <3>3. Owned(k)'
      BY <2>1, <3>1, <3>2 DEF JobInv, Owned, Places, Running
    <3>4. Places(k)'
      BY <2>1, <3>1 DEF JobInv, Places
    <3>5. Packets(k)' /\ Given(k)'
      BY <2>1, <3>1 DEF JobInv, Packets, Given
    <3> QED
      BY <3>3, <3>4, <3>5 DEF JobInv
  <2>3. CASE k # j
    BY <2>1, <2>3 DEF TypeOK, JobInv, Owned, Places, Packets, Given
  <2> QED
    BY <2>2, <2>3
<1> QED
  BY <1>1, <1>2, <1>3

\* The caller's packets are gone.
LEMMA ConsumeKeepsIInv ==
  ASSUME IInv, NEW j \in Jobs, Consume(j)
  PROVE  IInv'
<1> USE DEF Consume, Goes, waiterVars, jobVars, Delete, Use, IInv
<1>1. TypeOK'
  <2>1. waiter' \in [Jobs -> WaiterStates] /\ render' \in [Jobs -> RenderStates]
    BY DEF TypeOK, WaiterStates, RenderStates
  <2>2. /\ listed' \subseteq Jobs /\ refs' \in [Jobs -> SUBSET Refs]
        /\ done' \in [Jobs -> BOOLEAN] /\ cancelled' \in [Jobs -> BOOLEAN]
        /\ ok' \in [Jobs -> BOOLEAN] /\ returned' \in [Jobs -> BOOLEAN]
    BY DEF TypeOK
  <2>3. /\ packets' \in [Jobs -> 0..MaxPackets] /\ given' \in [Jobs -> 0..MaxPackets]
        /\ whole' \in [Jobs -> 0..MaxPackets]
    BY ZeroFits, MaxPacketsIsPositive DEF TypeOK
  <2>4. misused' \in BOOLEAN
    BY DEF TypeOK
  <2> QED
    BY <2>1, <2>2, <2>3, <2>4 DEF TypeOK
<1>2. misused' = FALSE
  BY DEF TypeOK, JobInv, Owned, Places, Running, Refs
<1>3. ASSUME NEW k \in Jobs PROVE JobInv(k)'
  <2>1. JobInv(k)
    OBVIOUS
  <2>2. CASE k = j
    BY <2>1, <2>2 DEF TypeOK, JobInv, Owned, Places, Packets, Given, Running, Refs
  <2>3. CASE k # j
    BY <2>1, <2>3 DEF TypeOK, JobInv, Owned, Places, Packets, Given
  <2> QED
    BY <2>2, <2>3
<1> QED
  BY <1>1, <1>2, <1>3

\* From the list to the task, in one step under jobsMutex.
LEMMA TakeKeepsIInv ==
  ASSUME IInv, NEW j \in Jobs, Take(j)
  PROVE  IInv'
<1> USE DEF Take, Goes, waiterVars, jobVars, Delete, Use, IInv
<1>1. TypeOK'
  BY MaxPacketsIsPositive DEF TypeOK, WaiterStates, RenderStates, Refs
<1>2. misused' = FALSE
  BY DEF TypeOK, JobInv, Owned, Places, Running, Refs
<1>3. ASSUME NEW k \in Jobs PROVE JobInv(k)'
  <2>1. JobInv(k)
    OBVIOUS
  <2>2. CASE k = j
    BY <2>1, <2>2 DEF TypeOK, JobInv, Owned, Places, Packets, Given, Running, Refs
  <2>3. CASE k # j
    BY <2>1, <2>3 DEF TypeOK, JobInv, Owned, Places, Packets, Given
  <2> QED
    BY <2>2, <2>3
<1> QED
  BY <1>1, <1>2, <1>3

\* The test moves no reference.
LEMMA TestCancelledKeepsIInv ==
  ASSUME IInv, NEW j \in Jobs, TestCancelled(j)
  PROVE  IInv'
<1> USE DEF TestCancelled, Goes, waiterVars, jobVars, Delete, Use, IInv
<1>1. TypeOK'
  BY MaxPacketsIsPositive DEF TypeOK, WaiterStates, RenderStates, Refs
<1>2. misused' = FALSE
  BY DEF TypeOK, JobInv, Owned, Places, Running, Refs
<1>3. ASSUME NEW k \in Jobs PROVE JobInv(k)'
  <2>1. JobInv(k)
    OBVIOUS
  <2>2. CASE k = j
    BY <2>1, <2>2 DEF TypeOK, JobInv, Owned, Places, Packets, Given, Running, Refs
  <2>3. CASE k # j
    BY <2>1, <2>3 DEF TypeOK, JobInv, Owned, Places, Packets, Given
  <2> QED
    BY <2>2, <2>3
<1> QED
  BY <1>1, <1>2, <1>3

\* Nor does the boundary.
LEMMA BoundKeepsIInv ==
  ASSUME IInv, NEW j \in Jobs, Bound(j)
  PROVE  IInv'
<1> USE DEF Bound, Goes, waiterVars, jobVars, Delete, Use, IInv
<1>1. TypeOK'
  <2>1. waiter' \in [Jobs -> WaiterStates] /\ render' \in [Jobs -> RenderStates]
    BY DEF TypeOK, WaiterStates, RenderStates
  <2>2. /\ listed' \subseteq Jobs /\ refs' \in [Jobs -> SUBSET Refs]
        /\ done' \in [Jobs -> BOOLEAN] /\ cancelled' \in [Jobs -> BOOLEAN]
        /\ ok' \in [Jobs -> BOOLEAN] /\ returned' \in [Jobs -> BOOLEAN]
    BY DEF TypeOK
  <2>3. /\ packets' \in [Jobs -> 0..MaxPackets] /\ given' \in [Jobs -> 0..MaxPackets]
        /\ whole' \in [Jobs -> 0..MaxPackets]
    BY ZeroFits, MaxPacketsIsPositive DEF TypeOK
  <2>4. misused' \in BOOLEAN
    BY DEF TypeOK
  <2> QED
    BY <2>1, <2>2, <2>3, <2>4 DEF TypeOK
<1>2. misused' = FALSE
  BY DEF TypeOK, JobInv, Owned, Places, Running, Refs
<1>3. ASSUME NEW k \in Jobs PROVE JobInv(k)'
  <2>1. JobInv(k)
    OBVIOUS
  <2>2. CASE k = j
    BY <2>1, <2>2 DEF TypeOK, JobInv, Owned, Places, Packets, Given, Running, Refs
  <2>3. CASE k # j
    BY <2>1, <2>3 DEF TypeOK, JobInv, Owned, Places, Packets, Given
  <2> QED
    BY <2>2, <2>3
<1> QED
  BY <1>1, <1>2, <1>3

\* The task uses what it owns.
LEMMA CapturePacketKeepsIInv ==
  ASSUME IInv, NEW j \in Jobs, CapturePacket(j)
  PROVE  IInv'
<1> USE DEF CapturePacket, Goes, waiterVars, jobVars, Delete, Use, IInv
<1>1. TypeOK'
  <2>1. waiter' \in [Jobs -> WaiterStates] /\ render' \in [Jobs -> RenderStates]
    BY DEF TypeOK, WaiterStates, RenderStates
  <2>2. /\ listed' \subseteq Jobs /\ refs' \in [Jobs -> SUBSET Refs]
        /\ done' \in [Jobs -> BOOLEAN] /\ cancelled' \in [Jobs -> BOOLEAN]
        /\ ok' \in [Jobs -> BOOLEAN] /\ returned' \in [Jobs -> BOOLEAN]
    BY DEF TypeOK
  <2>3. /\ packets' \in [Jobs -> 0..MaxPackets] /\ given' \in [Jobs -> 0..MaxPackets]
        /\ whole' \in [Jobs -> 0..MaxPackets]
    BY ZeroFits, MaxPacketsIsPositive DEF TypeOK
  <2>4. misused' \in BOOLEAN
    BY DEF TypeOK
  <2> QED
    BY <2>1, <2>2, <2>3, <2>4 DEF TypeOK
<1>2. misused' = FALSE
  BY DEF TypeOK, JobInv, Owned, Places, Running, Refs
<1>3. ASSUME NEW k \in Jobs PROVE JobInv(k)'
  <2>1. JobInv(k)
    OBVIOUS
  <2>2. CASE k = j
    BY <2>1, <2>2 DEF TypeOK, JobInv, Owned, Places, Packets, Given, Running, Refs
  <2>3. CASE k # j
    BY <2>1, <2>3 DEF TypeOK, JobInv, Owned, Places, Packets, Given
  <2> QED
    BY <2>2, <2>3
<1> QED
  BY <1>1, <1>2, <1>3

\* What was captured is still to be released.
LEMMA CaptureThrowsKeepsIInv ==
  ASSUME IInv, NEW j \in Jobs, CaptureThrows(j)
  PROVE  IInv'
<1> USE DEF CaptureThrows, Goes, waiterVars, jobVars, Delete, Use, IInv
<1>1. TypeOK'
  BY MaxPacketsIsPositive DEF TypeOK, WaiterStates, RenderStates, Refs
<1>2. misused' = FALSE
  BY DEF TypeOK, JobInv, Owned, Places, Running, Refs
<1>3. ASSUME NEW k \in Jobs PROVE JobInv(k)'
  <2>1. JobInv(k)
    OBVIOUS
  <2>2. CASE k = j
    BY <2>1, <2>2 DEF TypeOK, JobInv, Owned, Places, Packets, Given, Running, Refs
  <2>3. CASE k # j
    BY <2>1, <2>3 DEF TypeOK, JobInv, Owned, Places, Packets, Given
  <2> QED
    BY <2>2, <2>3
<1> QED
  BY <1>1, <1>2, <1>3

\* The snapshot is whole.
LEMMA CaptureEndsKeepsIInv ==
  ASSUME IInv, NEW j \in Jobs, CaptureEnds(j)
  PROVE  IInv'
<1> USE DEF CaptureEnds, Goes, waiterVars, jobVars, Delete, Use, IInv
<1>1. TypeOK'
  BY MaxPacketsIsPositive DEF TypeOK, WaiterStates, RenderStates, Refs
<1>2. misused' = FALSE
  BY DEF TypeOK, JobInv, Owned, Places, Running, Refs
<1>3. ASSUME NEW k \in Jobs PROVE JobInv(k)'
  <2>1. JobInv(k)
    OBVIOUS
  <2>2. CASE k = j
    BY <2>1, <2>2 DEF TypeOK, JobInv, Owned, Places, Packets, Given, Running, Refs
  <2>3. CASE k # j
    BY <2>1, <2>3 DEF TypeOK, JobInv, Owned, Places, Packets, Given
  <2> QED
    BY <2>2, <2>3
<1> QED
  BY <1>1, <1>2, <1>3

\* The task deletes the references; the packets stay only for a waiter still there.
LEMMA FinishKeepsIInv ==
  ASSUME IInv, NEW j \in Jobs, Finish(j)
  PROVE  IInv'
<1> USE DEF Finish, Goes, waiterVars, jobVars, Delete, Use, IInv
<1>1. TypeOK'
  <2>1. waiter' \in [Jobs -> WaiterStates] /\ render' \in [Jobs -> RenderStates]
    BY DEF TypeOK, WaiterStates, RenderStates
  <2>2. /\ listed' \subseteq Jobs /\ refs' \in [Jobs -> SUBSET Refs]
        /\ done' \in [Jobs -> BOOLEAN] /\ cancelled' \in [Jobs -> BOOLEAN]
        /\ ok' \in [Jobs -> BOOLEAN] /\ returned' \in [Jobs -> BOOLEAN]
    BY DEF TypeOK
  <2>3. /\ packets' \in [Jobs -> 0..MaxPackets] /\ given' \in [Jobs -> 0..MaxPackets]
        /\ whole' \in [Jobs -> 0..MaxPackets]
    BY ZeroFits, MaxPacketsIsPositive DEF TypeOK
  <2>4. misused' \in BOOLEAN
    BY DEF TypeOK
  <2> QED
    BY <2>1, <2>2, <2>3, <2>4 DEF TypeOK
<1>2. misused' = FALSE
  BY ZenonT(30) DEF TypeOK, JobInv, Owned, Places, Running, Refs
<1>3. ASSUME NEW k \in Jobs PROVE JobInv(k)'
  <2>1. JobInv(k)
    OBVIOUS
  <2>2. CASE k = j
    <3>1. render[k] \in {"captured", "failed"} /\ render'[k] = "gone" /\ waiter'[k] = waiter[k]
      BY <2>2 DEF TypeOK
    <3>2. refs'[k] = {} /\ done'[k]
      BY <2>2 DEF TypeOK, Refs
    <3>3. /\ ok'[k] = (render[k] = "captured" /\ ~cancelled[k])
          /\ packets'[k] = IF render[k] = "failed" \/ cancelled[k] THEN 0 ELSE packets[k]
      BY <2>2 DEF TypeOK
    <3>4. render[k] \in Running
      BY <3>1 DEF Running
    <3>5. /\ waiter[k] \in {"waiting", "giving up", "unlisting", "returned", "over"}
          /\ ~cancelled[k] => waiter[k] \in {"waiting", "giving up"}
      BY <2>1, <3>1, <3>4 DEF TypeOK, WaiterStates, JobInv, Places
    <3>6. Owned(k)' /\ Places(k)'
      BY <2>1, <3>1, <3>2, <3>5 DEF JobInv, Owned, Places, Running
    <3>7. Packets(k)'
      BY <2>1, <3>1, <3>2, <3>3, <3>5, ZenonT(30) DEF JobInv, Packets, Places
    <3>8. Given(k)'
      BY <2>1, <3>1, <3>2 DEF JobInv, Given
    <3> QED
      BY <3>6, <3>7, <3>8 DEF JobInv
  <2>3. CASE k # j
    BY <2>1, <2>3, ZenonT(30) DEF TypeOK, JobInv, Owned, Places, Packets, Given
  <2> QED
    BY <2>2, <2>3
<1> QED
  BY <1>1, <1>2, <1>3

-----------------------------------------------------------------------------
\* The invariant is inductive.
LEMMA NextKeepsIInv == IInv /\ [Next]_vars => IInv'
<1> SUFFICES ASSUME IInv, [Next]_vars PROVE IInv'
  OBVIOUS
<1>1. ASSUME NEW j \in Jobs, WaiterSteps(j) PROVE IInv'
  BY <1>1, MakeKeepsIInv, MakeFailsKeepsIInv, EnlistKeepsIInv, DispatchKeepsIInv,
     WaitEndsKeepsIInv, WaitTimesOutKeepsIInv, CancelKeepsIInv, UnlistKeepsIInv, ConsumeKeepsIInv DEF WaiterSteps
<1>2. ASSUME NEW j \in Jobs, Take(j) PROVE IInv'
  BY <1>2, TakeKeepsIInv
<1>3. ASSUME NEW j \in Jobs, RunningSteps(j) PROVE IInv'
  BY <1>3, TestCancelledKeepsIInv, BoundKeepsIInv, CapturePacketKeepsIInv,
     CaptureThrowsKeepsIInv, CaptureEndsKeepsIInv, FinishKeepsIInv DEF RunningSteps
<1>4. CASE UNCHANGED vars
  BY <1>4, ZenonT(30) DEF vars, waiterVars, jobVars, IInv, TypeOK, JobInv, Owned, Places, Packets, Given
<1> QED
  BY <1>1, <1>2, <1>3, <1>4 DEF Next

\* It gives the three properties.
LEMMA IInvImplies == IInv => ReferencesAreSound /\ NothingLeaks /\ SuccessIsWhole
<1> SUFFICES ASSUME IInv PROVE ReferencesAreSound /\ NothingLeaks /\ SuccessIsWhole
  OBVIOUS
<1>1. ReferencesAreSound
  BY DEF IInv, ReferencesAreSound
<1>2. NothingLeaks
  <2> SUFFICES ASSUME NEW j \in Jobs, waiter[j] \in {"returned", "over"}, render[j] \notin Running
               PROVE  refs[j] = {} /\ packets[j] = 0
    BY DEF NothingLeaks
  <2>1. JobInv(j)
    BY DEF IInv
  <2>2. j \notin listed /\ refs[j] = {}
    BY <2>1 DEF JobInv, Owned, Places
  <2>3. render[j] \in {"none", "queued", "gone"}
    BY DEF IInv, TypeOK, RenderStates, Running
  <2>4. packets[j] = 0
    BY <2>1, <2>3 DEF JobInv, Packets
  <2> QED
    BY <2>2, <2>4
<1>3. SuccessIsWhole
  BY DEF IInv, JobInv, Given, SuccessIsWhole
<1> QED
  BY <1>1, <1>2, <1>3

\* The ownership holds in every state (world_snapshot.cpp:187-290).
THEOREM SpecInvariant == Spec => []IInv
BY InitIInv, NextKeepsIInv, PTL DEF Spec

-----------------------------------------------------------------------------
\* However many captures overlap and wherever their time-outs fall, no JNI
\* reference is deleted twice or used when dead (world_snapshot.cpp:190-215, 277-288).
THEOREM ReferencesSound == Spec => []ReferencesAreSound
BY SpecInvariant, IInvImplies, PTL

\* When CaptureWorldSnapshot is back and its task does not run, what is left of
\* the job is the caller's (world_snapshot.cpp:208-212, 280-286).
THEOREM JobsFreed == Spec => []NothingLeaks
BY SpecInvariant, IInvImplies, PTL

\* TRUE comes with a whole snapshot, FALSE with none (world_snapshot.cpp:213, 272-274).
THEOREM SuccessWhole == Spec => []SuccessIsWhole
BY SpecInvariant, IInvImplies, PTL
=============================================================================
