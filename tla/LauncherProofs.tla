--------------------------- MODULE LauncherProofs ---------------------------
(***************************************************************************)
(* What holds of any number of launchers and processes: at most one copy   *)
(* of the DLL controls a process, a reported failure leaves no copy, and a *)
(* launcher that is done holds no more than the raw DLL it put into A.     *)
(***************************************************************************)
EXTENDS Launcher, TLAPS

Unstarted == {"scan", "resume", "signal", "prepare", "load"}

Steps == Unstarted \cup {"wait", "poll", "done"}

\* The functions are functions on the launchers.
Shape ==
  /\ alive \subseteq Processes
  /\ pc \in [Launchers -> Steps]
  /\ target \in [Launchers -> Processes \cup {Nobody}]
  /\ held \in [Launchers -> SUBSET {"event", "file", "buffer", "process", "remote",
                                "thread", "image"}]
  /\ result \in [Launchers -> {"none", "ok", "failed", "notReady"}]
  /\ thread \in [Launchers -> {"none", "running", "null", "loaded", "died"}]
  /\ copy \in [Launchers -> Busy \cup {"none", "gone"}]

\* A launcher chooses its process before it starts a thread there, and only a
\* thread that loaded the DLL leaves a copy of it.
Order ==
  \A l \in Launchers :
    /\ pc[l] \in Unstarted => thread[l] = "none"
    /\ copy[l] # "none" => thread[l] = "loaded"
    /\ result[l] = "failed" => pc[l] = "done"

\* What a launcher holds at each of its steps.
Holding(l) ==
  IF pc[l] = "signal" THEN {"event"}
  ELSE IF pc[l] # "load" THEN {}
  ELSE IF l \in Cli THEN {"file", "buffer", "process"}
  ELSE IF l \in Jni THEN {"buffer", "process"}
  ELSE {"process", "remote"}

Holds ==
  \A l \in Launchers :
    IF pc[l] = "wait" THEN "event" \notin held[l] /\ (l \in Classic => "image" \notin held[l])
    ELSE IF pc[l] \in {"poll", "done"} THEN held[l] \subseteq Image(l)
    ELSE held[l] = Holding(l)

Inv == Shape /\ Order /\ OneResident /\ FailureBringsNothing

-----------------------------------------------------------------------------
LEMMA InitInv == Init => Inv /\ Holds
  BY ProgramsDiffer DEF Init, Inv, Shape, Order, OneResident, FailureBringsNothing, Holds,
     Holding, Steps, Unstarted, Controls, Busy, HoldsEvent, Launchers

LEMMA AcquiredAreResources ==
  \A l, n : Acquired(l, n) \in SUBSET {"file", "buffer", "process", "remote"}
BY DEF Acquired

\* The steps of a launcher leave the copies as they are.
LEMMA LauncherStepInv ==
  ASSUME Inv, NEW l \in Launchers, LauncherStep(l)
  PROVE  Inv'
<1> USE ProgramsDiffer DEF Inv, Shape, Order, OneResident, FailureBringsNothing, Steps, Unstarted, Controls,
            Busy, HoldsEvent, launcherVars, residentVars, Goto, Hold, Answer, Succeeds, Fails, Launchers
<1>1. CASE Scan(l)
  <2>1. copy[l] = "none" /\ thread[l] = "none"
    BY <1>1 DEF Scan
  <2>2. target' \in [Launchers -> Processes \cup {Nobody}]
        /\ \A m \in Launchers \ {l} : target'[m] = target[m]
    BY <1>1 DEF Scan, Newest
  <2>3. pc' \in [Launchers -> Steps] /\ \A m \in Launchers \ {l} : pc'[m] = pc[m]
    BY <1>1 DEF Scan
  <2>4. /\ result' \in [Launchers -> {"none", "ok", "failed", "notReady"}]
        /\ \A m \in Launchers \ {l} : result'[m] = result[m]
        /\ result'[l] = "failed" => pc'[l] = "done"
        /\ pc[l] = "scan"
    BY <1>1 DEF Scan
  <2>5. UNCHANGED <<alive, held, thread, copy>>
    BY <1>1 DEF Scan
  <2> QED
    BY <2>1, <2>2, <2>3, <2>4, <2>5
<1>2. CASE OpenEvent(l)
  BY <1>2 DEF OpenEvent
<1>3. CASE Signal(l)
  BY <1>3 DEF Signal
<1>4. CASE Prepare(l)
  <2>1. /\ held' \in [Launchers -> SUBSET {"event", "file", "buffer", "process", "remote",
                                          "thread", "image"}]
        /\ pc[l] = "prepare"
    BY <1>4, AcquiredAreResources DEF Prepare
  <2>2. pc' \in [Launchers -> Steps] /\ \A m \in Launchers \ {l} : pc'[m] = pc[m]
    BY <1>4 DEF Prepare
  <2>3. /\ result' \in [Launchers -> {"none", "ok", "failed", "notReady"}]
        /\ \A m \in Launchers \ {l} : result'[m] = result[m]
        /\ result'[l] = "failed" => pc'[l] = "done"
    BY <1>4 DEF Prepare
  <2>4. UNCHANGED <<alive, target, thread, copy>>
    BY <1>4 DEF Prepare
  <2> QED
    BY <2>1, <2>2, <2>3, <2>4
<1>5. CASE StartThread(l)
  BY <1>5 DEF StartThread, Image
<1>6. CASE WaitReturns(l)
  BY <1>6 DEF WaitReturns, MayExitZero
<1>7. CASE Poll(l)
  BY <1>7 DEF Poll
<1> QED
  BY <1>1, <1>2, <1>3, <1>4, <1>5, <1>6, <1>7 DEF LauncherStep

LEMMA CopyStepInv ==
  ASSUME Inv, NEW c \in Launchers, CopyStep(c) \/ PressDel(c) \/ WaitFails(c)
  PROVE  Inv'
<1> USE DEF Inv, Shape, Order, OneResident, FailureBringsNothing, Steps, Unstarted, Controls,
            Busy, HoldsEvent, launcherVars, residentVars, Launchers
<1>1. CASE RemoteThread(c)
  BY <1>1 DEF RemoteThread
<1>2. CASE CreateEvent(c)
  BY <1>2 DEF CreateEvent, EventOpen, OpenBy, At
<1>3. CASE Join(c)
  BY <1>3 DEF Join
<1>4. CASE Attach(c)
  BY <1>4 DEF Attach
<1>5. CASE StartSession(c)
  BY <1>5 DEF StartSession
<1>6. CASE Wait(c)
  BY <1>6 DEF Wait
<1>7. CASE PressDel(c)
  BY <1>7 DEF PressDel
<1>8. CASE WaitFails(c)
  BY <1>8 DEF WaitFails
<1> QED
  BY <1>1, <1>2, <1>3, <1>4, <1>5, <1>6, <1>7, <1>8 DEF CopyStep

LEMMA ExitInv ==
  ASSUME Inv, NEW p \in Processes, AExits(p)
  PROVE  Inv'
BY DEF Inv, Shape, Order, OneResident, FailureBringsNothing, Steps, Unstarted, Controls,
   Busy, HoldsEvent, launcherVars, Launchers, AExits

LEMMA InvInductive == Inv /\ [Next]_vars => Inv'
<1> SUFFICES ASSUME Inv, [Next]_vars PROVE Inv'
  OBVIOUS
<1>1. CASE UNCHANGED vars
  BY <1>1 DEF vars, launcherVars, Inv, Shape, Order, OneResident, FailureBringsNothing
<1>2. CASE Next
  BY <1>2, LauncherStepInv, CopyStepInv, ExitInv DEF Next
<1> QED
  BY <1>1, <1>2

-----------------------------------------------------------------------------
\* What each program holds when its preparation is over, and that a failure on
\* the way gives all of it back.
LEMMA PreparedHolds ==
  ASSUME NEW l \in Launchers
  PROVE  Acquired(l, Len(Path(l))) = IF l \in Cli THEN {"file", "buffer", "process"}
                                     ELSE IF l \in Jni THEN {"buffer", "process"}
                                     ELSE {"process", "remote"}
<1>1. CASE l \in Classic
  <2>1. Path(l) = <<"process", "remote", "write">> /\ l \notin Cli /\ l \notin Jni
    BY <1>1, ProgramsDiffer DEF Path
  <2>2. {Path(l)[i] : i \in 1..3} = {"process", "remote", "write"} /\ Len(Path(l)) = 3
    BY <2>1
  <2> QED
    BY <2>1, <2>2 DEF Acquired
<1>2. CASE l \notin Classic
  <2>1. Path(l) = <<"file", "size", "buffer", "read", "process">>
    BY <1>2 DEF Path
  <2>2. {Path(l)[i] : i \in 1..5} = {"file", "size", "buffer", "read", "process"} /\ Len(Path(l)) = 5
    BY <2>1
  <2>3. CASE l \in Cli
    <3>1. l \notin Jni
      BY <2>3, ProgramsDiffer
    <3> QED
      BY <2>2, <2>3, <3>1 DEF Acquired
  <2>4. CASE l \in Jni
    <3>1. l \notin Cli
      BY <2>4, ProgramsDiffer
    <3> QED
      BY <2>2, <2>4, <3>1 DEF Acquired
  <2> QED
    BY <1>2, <2>3, <2>4 DEF Launchers
<1> QED
  BY <1>1, <1>2

LEMMA FailureFrees ==
  ASSUME NEW l \in Launchers, NEW n \in DOMAIN Path(l)
  PROVE  Acquired(l, n - 1) \subseteq Frees(l, Path(l)[n])
<1> USE DEF Acquired, Frees
<1>1. CASE l \in Classic
  <2>1. Path(l) = <<"process", "remote", "write">> /\ l \notin Cli /\ l \notin Jni
    BY <1>1, ProgramsDiffer DEF Path
  <2>2. n \in 1..3
    BY <2>1
  <2>3. CASE n = 1
    BY <2>1, <2>3
  <2>4. CASE n = 2
    BY <2>1, <2>4, <1>1 DEF ClassicFrees
  <2>5. CASE n = 3
    BY <2>1, <2>5, <1>1 DEF ClassicFrees
  <2>6. n = 1 \/ n = 2 \/ n = 3
    BY <2>2
  <2> QED
    BY <2>6, <2>3, <2>4, <2>5
<1>2. CASE l \in Cli
  BY <1>2, ProgramsDiffer DEF Path, CliFrees
<1>3. CASE l \in Jni
  <2>1. Path(l) = <<"file", "size", "buffer", "read", "process">> /\ l \notin Cli /\ l \notin Classic
    BY <1>3, ProgramsDiffer DEF Path
  <2>2. n \in 1..5
    BY <2>1
  <2>3. CASE n = 1
    BY <2>1, <2>3
  <2>4. CASE n = 2
    BY <2>1, <2>4, <1>3 DEF JniFrees
  <2>5. CASE n = 3
    BY <2>1, <2>5, <1>3 DEF JniFrees
  <2>6. CASE n = 4
    BY <2>1, <2>6, <1>3 DEF JniFrees
  <2>7. CASE n = 5
    BY <2>1, <2>7, <1>3 DEF JniFrees
  <2>8. n = 1 \/ n = 2 \/ n = 3 \/ n = 4 \/ n = 5
    BY <2>2
  <2> QED
    BY <2>8, <2>3, <2>4, <2>5, <2>6, <2>7
<1> QED
  BY <1>1, <1>2, <1>3 DEF Launchers

LEMMA HoldsInductive == Inv /\ Holds /\ [Next]_vars => Holds'
<1> SUFFICES ASSUME Inv, Holds, [Next]_vars PROVE Holds'
  OBVIOUS
<1>1. ASSUME NEW l \in Launchers, LauncherStep(l)
      PROVE  Holds'
  <2> USE <1>1, ProgramsDiffer DEF Inv, Shape, Steps, Unstarted, Holds, Holding, Goto, Hold, Answer,
          Succeeds, Fails, Launchers
  <2>1. CASE Scan(l)
    BY <2>1 DEF Scan
  <2>2. CASE OpenEvent(l)
    <3>1. \A m \in Launchers \ {l} : pc'[m] = pc[m] /\ held'[m] = held[m]
      BY <2>2 DEF OpenEvent
    <3>2. \/ pc'[l] = "signal" /\ held'[l] = {"event"}
          \/ pc'[l] \in {"prepare", "done"} /\ held'[l] = {}
      BY <2>2 DEF OpenEvent
    <3> QED
      BY <3>1, <3>2, ZenonT(30)
  <2>3. CASE Signal(l)
    <3>1. \A m \in Launchers \ {l} : pc'[m] = pc[m] /\ held'[m] = held[m]
      BY <2>3 DEF Signal
    <3>2. pc'[l] \in {"poll", "done"} /\ held'[l] = {}
      <4>1. pc[l] = "signal" /\ held[l] = {"event"}
        BY <2>3 DEF Signal
      <4>2. held'[l] = held[l] \ {"event"}
        BY <2>3 DEF Signal
      <4>3. pc'[l] \in {"poll", "done"}
        BY <2>3 DEF Signal
      <4> QED
        BY <4>1, <4>2, <4>3
    <3> QED
      BY <3>1, <3>2, ZenonT(30)
  <2>4. CASE Prepare(l)
    <3>0. pc[l] = "prepare" /\ held[l] = {}
      BY <2>4 DEF Prepare
    <3>1. CASE held' = [held EXCEPT ![l] = (@ \cup Acquired(l, Len(Path(l)))) \ {}]
               /\ pc' = [pc EXCEPT ![l] = "load"]
      <4>1. held'[l] = Acquired(l, Len(Path(l)))
        BY <3>0, <3>1
      <4> QED
        BY <3>1, <4>1, PreparedHolds
    <3>2. CASE /\ \E n \in DOMAIN Path(l) :
                    held' = [held EXCEPT ![l] = (@ \cup Acquired(l, n - 1)) \ Frees(l, Path(l)[n])]
               /\ pc' = [pc EXCEPT ![l] = "done"]
      <4>1. held'[l] = {} /\ \A m \in Launchers \ {l} : held'[m] = held[m]
        BY <3>0, <3>2, FailureFrees
      <4> QED
        BY <3>2, <4>1
    <3> QED
      BY <2>4, <3>1, <3>2 DEF Prepare
  <2>5. CASE StartThread(l)
    <3>0. pc[l] = "load" /\ held[l] = Holding(l)
      BY <2>5 DEF StartThread
    <3>1. \A m \in Launchers \ {l} : pc'[m] = pc[m] /\ held'[m] = held[m]
      BY <2>5 DEF StartThread
    <3>2. \/ /\ pc'[l] = "wait" /\ "event" \notin held'[l]
             /\ l \in Classic => "image" \notin held'[l]
          \/ /\ pc'[l] = "done"
             /\ held'[l] \subseteq (Holding(l) \ Frees(l, "load")) \cup Image(l)
      BY <2>5, <3>0 DEF StartThread, Image
    <3>3. Holding(l) \subseteq Frees(l, "load")
      <4>1. CASE l \in Cli
        BY <3>0, <4>1 DEF Frees, CliFrees
      <4>2. CASE l \in Jni
        <5>1. l \notin Cli /\ l \notin Classic
          BY <4>2, ProgramsDiffer
        <5> QED
          BY <3>0, <4>2, <5>1 DEF Frees, JniFrees
      <4>3. CASE l \in Classic
        <5>1. l \notin Cli /\ l \notin Jni
          BY <4>3, ProgramsDiffer
        <5> QED
          BY <3>0, <4>3, <5>1 DEF Frees, ClassicFrees
      <4> QED
        BY <4>1, <4>2, <4>3
    <3>4. \/ /\ pc'[l] = "wait" /\ "event" \notin held'[l]
             /\ l \in Classic => "image" \notin held'[l]
          \/ pc'[l] = "done" /\ held'[l] \subseteq Image(l)
      <4> HIDE DEF Holding, Holds
      <4> QED
        BY <3>2, <3>3
    <3> QED
      BY <3>1, <3>4, ZenonT(30)
  <2>6. CASE WaitReturns(l)
    <3>1. \A m \in Launchers \ {l} : pc'[m] = pc[m] /\ held'[m] = held[m]
      BY <2>6 DEF WaitReturns
    <3>2. pc'[l] \in {"poll", "done"} /\ held'[l] \subseteq Image(l)
      <4>1. "event" \notin held[l] /\ (l \in Classic => "image" \notin held[l])
        BY <2>6 DEF WaitReturns
      <4>2. held'[l] = held[l] \ {"thread", "process", "buffer", "file", "remote"}
        BY <2>6 DEF WaitReturns
      <4>3. pc'[l] \in {"poll", "done"}
        BY <2>6 DEF WaitReturns
      <4> QED
        BY <4>1, <4>2, <4>3 DEF Image
    <3> QED
      BY <3>1, <3>2, ZenonT(30)
  <2>7. CASE Poll(l)
    BY <2>7 DEF Poll
  <2> QED
    BY <2>1, <2>2, <2>3, <2>4, <2>5, <2>6, <2>7 DEF LauncherStep
<1>2. ASSUME UNCHANGED <<pc, held>>
      PROVE  Holds'
  BY <1>2 DEF Holds, Holding
<1>3. ASSUME NEW c \in Launchers, CopyStep(c) \/ PressDel(c) \/ WaitFails(c)
      PROVE  UNCHANGED <<pc, held>>
  BY <1>3 DEF CopyStep, RemoteThread, CreateEvent, Join, Attach, StartSession, Wait, PressDel,
     WaitFails, launcherVars
<1>4. ASSUME NEW p \in Processes, AExits(p)
      PROVE  UNCHANGED <<pc, held>>
  BY <1>4 DEF AExits, launcherVars
<1>5. CASE UNCHANGED vars
  BY <1>2, <1>5 DEF vars, launcherVars
<1> QED
  BY <1>1, <1>2, <1>3, <1>4, <1>5 DEF Next

-----------------------------------------------------------------------------
LEMMA InvHolds == Spec => [](Inv /\ Holds)
<1>1. Init => Inv /\ Holds
  BY InitInv
<1>2. (Inv /\ Holds) /\ [Next]_vars => (Inv /\ Holds)'
  BY InvInductive, HoldsInductive
<1> QED
  BY <1>1, <1>2, PTL DEF Spec

\* However many launchers find no resident at the same time, one copy of the DLL
\* becomes the controller of a process (loader.cpp:74-80).
THEOREM AtMostOneResident == Spec => []OneResident
<1>1. Inv => OneResident
  BY DEF Inv
<1> QED
  BY <1>1, InvHolds, PTL

\* A launcher that reports failure leaves no copy behind (jni_inject.cpp:144-154).
THEOREM FailuresAreFailures == Spec => []FailureBringsNothing
<1>1. Inv => FailureBringsNothing
  BY DEF Inv
<1> QED
  BY <1>1, InvHolds, PTL

\* A launcher that is done has given back all handles, all buffers and the memory of
\* A it allocated itself, whichever of its steps failed (Inject.c:76-83,
\* jni_inject.cpp:97-148, inject_ll.c:37-78); the raw DLL stays in A.
THEOREM NothingHeld == Spec => []HandlesReleased
<1>1. Holds => HandlesReleased
  BY DEF Holds, HandlesReleased
<1> QED
  BY <1>1, InvHolds, PTL
=============================================================================
