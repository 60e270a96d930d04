------------------------- MODULE ProxySessionProofs -------------------------
(***************************************************************************)
(* What holds of any number of B channels, deltas and connections, and of  *)
(* a buffer of any size.  A ladder of inductive invariants, each of which  *)
(* uses the one before it: SlotInv (the session implements Slot), FullInv  *)
(* (the handoff is the occupant's, a failure is final), TypedInv (the      *)
(* types), HistoryInv (what a B that has control has been through),        *)
(* JobsInv (a login, its snapshot job and its stream), WorldsInv (the      *)
(* counters of A's threads), BoundaryInv (no delta twice) and MirrorInv    *)
(* (no delta missing).                                                     *)
(***************************************************************************)
EXTENDS ProxySession, SequenceTheorems, TLAPS

slotState == <<clientChannel, clientState, handoff, dispatch, protocol, pc, midSession>>

Shape ==
  /\ clientChannel \in Channels \cup {NoChannel}
  /\ clientState \in ClientStates
  /\ handoff \in HandoffStates
  /\ dispatch \in {Free, ANetty} \cup Channels
  /\ midSession \in BOOLEAN
  /\ protocol \in [Channels -> {"HANDSHAKING", "STATUS", "LOGIN", "PLAY"}]
  /\ pc \in [Channels -> {"idle"} \cup LoginSteps]

SlotAgreesWithState == clientChannel = NoChannel <=> clientState = "AwaitHandshake"

\* Only the occupant is past the owner check, and where it is says how far the
\* slot has got.
LoginOrder ==
  \A c \in Channels :
    /\ clientChannel = c => protocol[c] # "HANDSHAKING"
    /\ pc[c] \notin {"idle", "hello"} => clientChannel = c
    /\ pc[c] = "hello" /\ clientChannel = c => clientState = "AwaitLogin"
    /\ pc[c] \in {"login", "begin", "play"} => clientState = "AwaitLogin"
    /\ pc[c] \in {"enqueue", "waiting", "write"} => clientState = "Syncing" /\ midSession
    /\ pc[c] = "begin" => midSession
    /\ pc[c] \notin {"idle", "hello", "login"} => protocol[c] = "PLAY"
    /\ pc[c] = "selfInfo" =>
         clientState = "AwaitLogin" \/ (clientState = "Syncing" /\ midSession)
    /\ pc[c] = "finish" => clientState \in {"AwaitLogin", "Syncing"}

HandoffOwned ==
  handoff # "Idle" /\ dispatch \notin Channels =>
    clientState \in {"Syncing", "AwaitReady", "Play"}

SlotInv == Shape /\ SlotAgreesWithState /\ LoginOrder /\ HandoffOwned

-----------------------------------------------------------------------------
LEMMA InitSlotInv == Init => SlotInv
<1> SUFFICES ASSUME Init PROVE SlotInv
  OBVIOUS
<1>1. /\ clientChannel = NoChannel /\ clientState = "AwaitHandshake" /\ handoff = "Idle"
      /\ dispatch = Free /\ midSession = FALSE
      /\ protocol = [c \in Channels |-> "HANDSHAKING"] /\ pc = [c \in Channels |-> "idle"]
  BY DEF Init
<1>2. Shape
  BY <1>1 DEF Shape, ClientStates, HandoffStates
<1>3. LoginOrder
  BY <1>1, NoChannelIsNone DEF LoginOrder
<1> QED
  BY <1>1, <1>2, <1>3 DEF SlotInv, SlotAgreesWithState, HandoffOwned

LEMMA UnchangedSlotInv == SlotInv /\ UNCHANGED slotState => SlotInv'
BY DEF slotState, SlotInv, Shape, SlotAgreesWithState, LoginOrder, HandoffOwned

\* The actions that have nothing to do with the slot.
Elsewhere ==
  \/ CaptureLive \/ CaptureNone \/ QueueGate \/ RequestStop
  \/ AConnects \/ ADisconnects \/ RenderStep
  \/ \E c \in Channels : Accept(c) \/ PeerCloses(c) \/ StatusQueryFails(c)

LEMMA ElsewhereKeepsSlot == Elsewhere => UNCHANGED slotState
BY DEF Elsewhere, slotState, CaptureLive, CaptureNone, QueueGate, RequestStop, AConnects,
   ADisconnects, RenderStep, RenderDelta, RenderGate, RunSnapshot, BeginSnapshot, CaptureNow,
   Accept, PeerCloses, StatusQueryFails, serverVars, bVars

LEMMA SharedStepSlotInv ==
  ASSUME SlotInv, SetMidSession \/ CheckLoginTimeout \/ RelayRead \/ RelayForward
  PROVE  SlotInv'
<1> USE DEF SlotInv, Shape, SlotAgreesWithState, LoginOrder, HandoffOwned, ClientStates, HandoffStates,
            serverVars, bVars
<1>1. CASE SetMidSession
  BY <1>1 DEF SetMidSession
<1>2. CASE CheckLoginTimeout
  BY <1>2 DEF CheckLoginTimeout, GiveUpLogin
<1>3. CASE RelayRead
  BY <1>3, HoldersDiffer DEF RelayRead, DispatchFree
<1>4. CASE RelayForward
  <2>1. /\ UNCHANGED <<clientChannel, clientState, midSession, protocol, pc>>
        /\ handoff' \in {handoff, "Failed"} /\ (handoff = "Idle" => handoff' = "Idle")
        /\ dispatch = ANetty /\ dispatch' = Free
    BY <1>4 DEF RelayForward, ForwardToB, Buffer, WriteLive
  <2> QED
    BY <2>1, HoldersDiffer
<1> QED
  BY <1>1, <1>2, <1>3, <1>4

\* The steps of c change nothing that is said of another channel's login.
LEMMA LoginStepSlotInv ==
  ASSUME SlotInv, NEW c \in Channels, LoginStep(c)
  PROVE  SlotInv'
<1> USE NoChannelIsNone DEF SlotInv, Shape, SlotAgreesWithState, LoginOrder, HandoffOwned, ClientStates,
        HandoffStates, LoginSteps, serverVars, bVars, Goto
<1>1. CASE CheckOwner(c)
  BY <1>1 DEF CheckOwner, Owns
<1>2. CASE CompleteLogin(c)
  <2>1. /\ pc[c] = "login" /\ clientState = "AwaitLogin" /\ clientChannel = c
        /\ UNCHANGED <<clientChannel, clientState, handoff, dispatch, midSession>>
    BY <1>2 DEF CompleteLogin
  <2>2. /\ pc' = [pc EXCEPT ![c] = IF midSession THEN "begin" ELSE "selfInfo"]
        /\ protocol' = [protocol EXCEPT ![c] = "PLAY"]
    BY <1>2 DEF CompleteLogin
  <2>3. Shape'
    BY <2>1, <2>2
  <2>4. LoginOrder'
    <3>1. /\ \A d \in Channels \ {c} : pc'[d] = pc[d] /\ protocol'[d] = protocol[d]
          /\ (pc'[c] = "begin" /\ midSession) \/ pc'[c] = "selfInfo"
          /\ protocol'[c] = "PLAY"
      BY <2>2
    <3> QED
      BY <2>1, <3>1
  <2> QED
    BY <2>1, <2>3, <2>4
<1>3. CASE BeginSync(c)
  BY <1>3 DEF BeginSync
<1>4. CASE BeginSyncFails(c)
  BY <1>4 DEF BeginSyncFails, SyncFails
<1>5. CASE EnqueueSnapshot(c)
  BY <1>5 DEF EnqueueSnapshot, SyncFails
<1>6. CASE CaptureReturns(c)
  BY <1>6 DEF CaptureReturns, SyncFails
<1>7. CASE WriteSnapshot(c)
  BY <1>7 DEF WriteSnapshot, SyncFails
<1>8. CASE SendSelfInfo(c)
  BY <1>8 DEF SendSelfInfo
<1>9. CASE FinishSync(c)
  BY <1>9, HoldersDiffer DEF FinishSync, GiveUpLogin, MaySendSnapshot, DispatchFree
<1>10. CASE EnterPlay(c)
  BY <1>10 DEF EnterPlay
<1>11. CASE ReleaseGate(c)
  BY <1>11 DEF ReleaseGate
<1> QED
  BY <1>1, <1>2, <1>3, <1>4, <1>5, <1>6, <1>7, <1>8, <1>9, <1>10, <1>11 DEF LoginStep

LEMMA PeerStepSlotInv ==
  ASSUME SlotInv, NEW c \in Channels,
         \/ StatusIntention(c) \/ LoginIntention(c) \/ ReadHello(c)
         \/ CloseStep(c)
         \/ \E id \in TeleportIds : ClientPacket(c, id)
  PROVE  SlotInv'
<1> USE NoChannelIsNone DEF SlotInv, Shape, SlotAgreesWithState, LoginOrder, HandoffOwned, ClientStates,
        HandoffStates, LoginSteps, serverVars, bVars, Goto, Readable, LoopIdle, Owns
<1>1. CASE StatusIntention(c)
  BY <1>1 DEF StatusIntention
<1>2. CASE LoginIntention(c)
  BY <1>2 DEF LoginIntention, Occupied
<1>3. CASE ReadHello(c)
  BY <1>3 DEF ReadHello
<1>4. CASE ChannelInactive(c)
  BY <1>4 DEF ChannelInactive
<1>5. CASE ReleaseSlot(c)
  BY <1>5 DEF ReleaseSlot
<1>6. ASSUME NEW id \in TeleportIds, ClientPacket(c, id)
      PROVE  SlotInv'
  BY <1>6 DEF ClientPacket, Acknowledged, ConsumesAck
<1> QED
  BY <1>1, <1>2, <1>3, <1>4, <1>5, <1>6 DEF CloseStep

LEMMA SlotInvInductive == SlotInv /\ [Next]_vars => SlotInv'
<1> SUFFICES ASSUME SlotInv, [Next]_vars PROVE SlotInv'
  OBVIOUS
<1>1. CASE Elsewhere
  BY <1>1, ElsewhereKeepsSlot, UnchangedSlotInv
<1>2. CASE SetMidSession \/ CheckLoginTimeout \/ RelayRead \/ RelayForward
  BY <1>2, SharedStepSlotInv
<1>3. CASE \E c \in Channels : LoginStep(c)
  BY <1>3, LoginStepSlotInv
<1>4. ASSUME NEW c \in Channels, CloseStep(c) \/ PeerStep(c), ~Elsewhere
      PROVE  SlotInv'
  BY <1>4, PeerStepSlotInv DEF PeerStep, Elsewhere
<1>5. CASE UNCHANGED vars
  BY <1>5, UnchangedSlotInv DEF vars, slotState, serverVars, bVars
<1> QED
  BY <1>1, <1>2, <1>3, <1>4, <1>5 DEF Next, ControllerStep, Elsewhere

\* Every step of the session is a step of the slot or leaves it alone.
LEMMA StepIsSlotStep ==
  ASSUME SlotInv, [Next]_vars
  PROVE  [BSlot!Next]_<<clientChannel, clientState>>
<1> DEFINE Goal == [BSlot!Next]_<<clientChannel, clientState>>
<1> USE NoChannelIsNone DEF BSlot!Next, BSlot!Claim, BSlot!Advance, BSlot!Follows, BSlot!Vacate
<1>1. ASSUME UNCHANGED <<clientChannel, clientState>> PROVE Goal
  BY <1>1
<1>2. CASE Elsewhere
  BY <1>1, <1>2, ElsewhereKeepsSlot DEF slotState
<1>3. CASE SetMidSession \/ CheckLoginTimeout \/ RelayRead \/ RelayForward
  BY <1>1, <1>3 DEF SetMidSession, CheckLoginTimeout, RelayRead, RelayForward, serverVars
<1>4. ASSUME NEW c \in Channels, LoginStep(c)
      PROVE  Goal
  <2>1. CASE BeginSync(c)
    BY <2>1 DEF BeginSync, SlotInv, LoginOrder, Shape
  <2>2. CASE FinishSync(c)
    <3>1. CASE UNCHANGED clientState
      BY <1>1, <2>2, <3>1 DEF FinishSync
    <3>2. CASE handoff = "Capturing" /\ clientState' = "AwaitReady"
      <4>1. clientState = "Syncing" /\ clientChannel = c
        BY <2>2, <3>2, HoldersDiffer
           DEF FinishSync, DispatchFree, SlotInv, LoginOrder, HandoffOwned, Shape
      <4> QED
        BY <2>2, <3>2, <4>1 DEF FinishSync
    <3> QED
      BY <2>2, <3>1, <3>2 DEF FinishSync, MaySendSnapshot
  <2>3. CASE EnterPlay(c)
    BY <2>3 DEF EnterPlay, SlotInv, LoginOrder, Shape
  <2>4. CASE LoginStep(c) /\ ~BeginSync(c) /\ ~FinishSync(c) /\ ~EnterPlay(c)
    BY <1>1, <2>4 DEF LoginStep, CheckOwner, CompleteLogin, BeginSyncFails, EnqueueSnapshot,
       CaptureReturns, WriteSnapshot, SendSelfInfo, ReleaseGate, serverVars
  <2> QED
    BY <1>4, <2>1, <2>2, <2>3, <2>4
<1>5. ASSUME NEW c \in Channels, CloseStep(c) \/ PeerStep(c), ~Elsewhere
      PROVE  Goal
  <2>1. CASE LoginIntention(c)
    BY <2>1 DEF LoginIntention, Occupied, SlotInv, LoginOrder, Shape, Readable
  <2>2. CASE ChannelInactive(c)
    BY <2>2 DEF ChannelInactive, Owns
  <2>3. ASSUME NEW id \in TeleportIds, ClientPacket(c, id)
        PROVE  Goal
    BY <2>3 DEF ClientPacket, Owns
  <2>4. CASE StatusIntention(c) \/ ReadHello(c) \/ ReleaseSlot(c)
    BY <1>1, <2>4 DEF StatusIntention, ReadHello, ReleaseSlot, serverVars
  <2> QED
    BY <1>5, <2>1, <2>2, <2>3, <2>4 DEF CloseStep, PeerStep, Elsewhere
<1>6. CASE UNCHANGED vars
  BY <1>1, <1>6 DEF vars, serverVars
<1> QED
  BY <1>2, <1>3, <1>4, <1>5, <1>6 DEF Next, ControllerStep, Elsewhere

-----------------------------------------------------------------------------
LEMMA SlotInvHolds == Spec => []SlotInv
<1>1. Init => SlotInv
  BY InitSlotInv
<1>2. SlotInv /\ [Next]_vars => SlotInv'
  BY SlotInvInductive
<1> QED
  BY <1>1, <1>2, PTL DEF Spec

\* The session implements the slot, for any number of B channels: one occupant,
\* moved on by nobody else (forwarding.cpp:310-330, transport.cpp:164-177).
THEOREM SessionImplementsSlot == Spec => SlotSpec
<1>1. Init => BSlot!Init
  BY DEF Init, BSlot!Init
<1>2. SlotInv /\ [Next]_vars => [BSlot!Next]_<<clientChannel, clientState>>
  BY StepIsSlotStep
<1> QED
  BY <1>1, <1>2, SlotInvHolds, PTL DEF Spec, SlotSpec, BSlot!Spec, BSlot!slotVars

\* The slot is empty exactly when the client state says so (transport.cpp:164-177).
THEOREM SlotAndStateAgree == Spec => []SlotAgreesWithState
<1>1. SlotInv => SlotAgreesWithState
  BY DEF SlotInv
<1> QED
  BY <1>1, SlotInvHolds, PTL

-----------------------------------------------------------------------------
\* A failed synchronisation: a B that is in failed has left the way to control.
FailureIsFinal ==
  /\ failed \subseteq {c \in Channels : protocol[c] # "HANDSHAKING"}
  /\ clientState \in {"Syncing", "AwaitReady", "Play"} => dispatch \notin Channels
  /\ \A c \in Channels : pc[c] \notin {"idle", "hello", "login"} => dispatch \notin Channels
  /\ clientState = "Play" => handoff \in {"Idle", "Active"} /\ clientChannel \notin failed
  /\ clientState = "AwaitReady" => handoff \in {"Idle", "AwaitingAck"}
  /\ clientState = "AwaitReady" /\ clientChannel \in failed => handoff = "Idle"
  /\ clientState = "Syncing" /\ clientChannel \in failed =>
       handoff # "Capturing" \/ pc[clientChannel] = "idle"
  /\ (/\ clientState = "AwaitLogin"
      /\ \/ protocol[clientChannel] = "LOGIN"
         \/ pc[clientChannel] # "idle") => clientChannel \notin failed

\* The buffer belongs to a capture.
BufferOwned == pendingPackets # <<>> => handoff = "Capturing"

FullInv == SlotInv /\ FailureIsFinal /\ BufferOwned

LEMMA InitFull == Init => FailureIsFinal /\ BufferOwned
<1> SUFFICES ASSUME Init PROVE FailureIsFinal /\ BufferOwned
  OBVIOUS
<1>1. /\ clientState = "AwaitHandshake" /\ failed = {} /\ pendingPackets = <<>>
      /\ pc = [c \in Channels |-> "idle"]
  BY DEF Init
<1> QED
  BY <1>1 DEF FailureIsFinal, BufferOwned

LEMMA ElsewhereFull ==
  ASSUME FullInv, Elsewhere
  PROVE  FailureIsFinal' /\ BufferOwned'
<1>1. UNCHANGED slotState
  BY ElsewhereKeepsSlot
<1>2. failed' = failed
  BY DEF Elsewhere, CaptureLive, CaptureNone, QueueGate, RequestStop, AConnects, ADisconnects,
     RenderStep, RenderDelta, RenderGate, RunSnapshot, BeginSnapshot, CaptureNow, Accept, PeerCloses,
     StatusQueryFails, historyVars
<1>3. pendingPackets' \in {pendingPackets, <<>>}
  BY DEF Elsewhere, CaptureLive, CaptureNone, QueueGate, RequestStop, AConnects, ADisconnects,
     RenderStep, RenderDelta, RenderGate, RunSnapshot, BeginSnapshot, CaptureNow, Accept, PeerCloses,
     StatusQueryFails, serverVars
<1> QED
  BY <1>1, <1>2, <1>3 DEF FullInv, FailureIsFinal, BufferOwned, slotState

LEMMA SharedStepFull ==
  ASSUME FullInv, SetMidSession \/ CheckLoginTimeout \/ RelayRead \/ RelayForward
  PROVE  FailureIsFinal' /\ BufferOwned'
<1> USE DEF FullInv, SlotInv, Shape, SlotAgreesWithState, LoginOrder, HandoffOwned, FailureIsFinal,
            BufferOwned, ClientStates, HandoffStates, serverVars, bVars, historyVars
<1>1. CASE SetMidSession
  BY <1>1 DEF SetMidSession
<1>2. CASE CheckLoginTimeout
  <2>1. /\ UNCHANGED <<clientChannel, clientState, dispatch, protocol, pc>>
        /\ handoff' = "Idle" /\ pendingPackets' = <<>>
        /\ failed' = failed \cup ({clientChannel} \cap Channels)
        /\ dispatch = Free /\ handoff \in {"Capturing", "AwaitingAck", "Failed"}
    BY <1>2 DEF CheckLoginTimeout, GiveUpLogin, MayExpire, DispatchFree
  <2>2. clientState \in {"Syncing", "AwaitReady"}
    BY <2>1, HoldersDiffer
  <2> QED
    BY <2>1, <2>2, NoChannelIsNone
<1>3. CASE RelayRead
  BY <1>3, HoldersDiffer DEF RelayRead, DispatchFree
<1>4. CASE RelayForward
  <2>1. /\ UNCHANGED <<clientChannel, clientState, protocol, pc>>
        /\ dispatch = ANetty /\ dispatch' = Free
    BY <1>4 DEF RelayForward
  <2>2. \/ UNCHANGED <<handoff, pendingPackets, failed>>
        \/ /\ handoff = "Capturing" /\ clientState = "Syncing" /\ clientChannel # NoChannel
           /\ \/ handoff' = handoff /\ failed' = failed
              \/ handoff' = "Failed" /\ pendingPackets' = <<>> /\ failed' = failed \cup {clientChannel}
    BY <1>4 DEF RelayForward, ForwardToB, Buffer, WriteLive
  <2> QED
    BY <2>1, <2>2, HoldersDiffer
<1> QED
  BY <1>1, <1>2, <1>3, <1>4

LEMMA LoginStepFull ==
  ASSUME FullInv, NEW c \in Channels, LoginStep(c)
  PROVE  FailureIsFinal' /\ BufferOwned'
<1> USE NoChannelIsNone DEF FullInv, SlotInv, Shape, SlotAgreesWithState, LoginOrder, HandoffOwned,
        FailureIsFinal, BufferOwned, ClientStates, HandoffStates, LoginSteps, serverVars, bVars,
        historyVars, Goto
<1>1. CASE CheckOwner(c)
  BY <1>1 DEF CheckOwner, Owns
<1>2. CASE CompleteLogin(c)
  BY <1>2, HoldersDiffer DEF CompleteLogin, DispatchFree
<1>3. CASE BeginSync(c)
  BY <1>3, HoldersDiffer DEF BeginSync, DispatchFree
<1>4. CASE BeginSyncFails(c)
  <2>1. /\ clientChannel = c /\ clientState = "AwaitLogin" /\ pc[c] = "begin"
        /\ UNCHANGED <<clientChannel, clientState, dispatch, handoff, pendingPackets, protocol>>
        /\ pc' = [pc EXCEPT ![c] = "idle"] /\ failed' = failed \cup {c}
    BY <1>4 DEF BeginSyncFails, SyncFails
  <2>2. protocol[c] = "PLAY"
    BY <2>1
  <2> QED
    BY <2>1, <2>2
<1>5. CASE EnqueueSnapshot(c)
  BY <1>5 DEF EnqueueSnapshot, SyncFails
<1>6. CASE CaptureReturns(c)
  BY <1>6 DEF CaptureReturns, SyncFails
<1>7. CASE WriteSnapshot(c)
  BY <1>7 DEF WriteSnapshot, SyncFails
<1>8. CASE SendSelfInfo(c)
  BY <1>8 DEF SendSelfInfo
<1>9. CASE FinishSync(c)
  <2>1. /\ clientChannel = c /\ pc[c] = "finish" /\ clientState \in {"AwaitLogin", "Syncing"}
        /\ dispatch = Free
        /\ UNCHANGED <<clientChannel, dispatch, protocol>>
        /\ pc' = [pc EXCEPT ![c] = "idle"]
    BY <1>9 DEF FinishSync, DispatchFree
  <2>2. CASE UNCHANGED <<handoff, clientState, pendingPackets, failed>> /\ stopping
    BY <2>1, <2>2
  <2>3. CASE GiveUpLogin /\ UNCHANGED clientState /\ handoff # "Capturing"
    BY <2>1, <2>3, HoldersDiffer DEF GiveUpLogin
  <2>4. CASE /\ handoff = "Capturing" /\ handoff' = "AwaitingAck" /\ clientState' = "AwaitReady"
             /\ pendingPackets' = <<>> /\ UNCHANGED failed
    <3>1. clientState = "Syncing" /\ c \notin failed
      BY <2>1, <2>4, HoldersDiffer
    <3> QED
      BY <2>1, <2>4, <3>1, HoldersDiffer
  <2> QED
    BY <1>9, <2>2, <2>3, <2>4 DEF FinishSync, MaySendSnapshot
<1>10. CASE EnterPlay(c)
  BY <1>10 DEF EnterPlay
<1>11. CASE ReleaseGate(c)
  BY <1>11 DEF ReleaseGate
<1> QED
  BY <1>1, <1>2, <1>3, <1>4, <1>5, <1>6, <1>7, <1>8, <1>9, <1>10, <1>11 DEF LoginStep

LEMMA PeerStepFull ==
  ASSUME FullInv, NEW c \in Channels,
         \/ StatusIntention(c) \/ LoginIntention(c) \/ ReadHello(c)
         \/ CloseStep(c)
         \/ \E id \in TeleportIds : ClientPacket(c, id)
  PROVE  FailureIsFinal' /\ BufferOwned'
<1> USE NoChannelIsNone DEF FullInv, SlotInv, Shape, SlotAgreesWithState, LoginOrder, HandoffOwned,
        FailureIsFinal, BufferOwned, ClientStates, HandoffStates, LoginSteps, serverVars, bVars,
        historyVars, Goto, Readable, LoopIdle, Owns
<1>1. CASE StatusIntention(c)
  BY <1>1 DEF StatusIntention
<1>2. CASE LoginIntention(c)
  BY <1>2 DEF LoginIntention, Occupied
<1>3. CASE ReadHello(c)
  BY <1>3 DEF ReadHello
<1>4. CASE ChannelInactive(c)
  BY <1>4 DEF ChannelInactive
<1>5. CASE ReleaseSlot(c)
  BY <1>5 DEF ReleaseSlot
<1>6. ASSUME NEW id \in TeleportIds, ClientPacket(c, id)
      PROVE  FailureIsFinal' /\ BufferOwned'
  BY <1>6 DEF ClientPacket, Acknowledged, ConsumesAck
<1> QED
  BY <1>1, <1>2, <1>3, <1>4, <1>5, <1>6 DEF CloseStep

LEMMA FullInvInductive == FullInv /\ [Next]_vars => FullInv'
<1> SUFFICES ASSUME FullInv, [Next]_vars PROVE FullInv'
  OBVIOUS
<1>1. SlotInv'
  BY SlotInvInductive DEF FullInv
<1>2. FailureIsFinal' /\ BufferOwned'
  <2>1. CASE Elsewhere
    BY <2>1, ElsewhereFull
  <2>2. CASE SetMidSession \/ CheckLoginTimeout \/ RelayRead \/ RelayForward
    BY <2>2, SharedStepFull
  <2>3. CASE \E c \in Channels : LoginStep(c)
    BY <2>3, LoginStepFull
  <2>4. ASSUME NEW c \in Channels, CloseStep(c) \/ PeerStep(c), ~Elsewhere
        PROVE  FailureIsFinal' /\ BufferOwned'
    BY <2>4, PeerStepFull DEF PeerStep, Elsewhere
  <2>5. CASE UNCHANGED vars
    BY <2>5 DEF vars, serverVars, bVars, historyVars, FullInv, FailureIsFinal, BufferOwned
  <2> QED
    BY <2>1, <2>2, <2>3, <2>4, <2>5 DEF Next, ControllerStep, Elsewhere
<1> QED
  BY <1>1, <1>2 DEF FullInv

LEMMA FullInvHolds == Spec => []FullInv
<1>1. Init => FullInv
  BY InitSlotInv, InitFull DEF FullInv
<1> QED
  BY <1>1, FullInvInductive, PTL DEF Spec

\* A B whose synchronisation was given up never gets control, for any number of
\* B channels and any size of the buffer (lifecycle.cpp:107-127, login.cpp:302-311).
THEOREM FailedNeverControls == Spec => []NoControlAfterFailure
<1>1. FullInv => NoControlAfterFailure
  BY DEF FullInv, FailureIsFinal, NoControlAfterFailure
<1> QED
  BY <1>1, FullInvHolds, PTL

\* The handoff and the buffer are the occupant's (transport.cpp:178-179).
THEOREM HandoffBelongs == Spec => []HandoffIsOccupants
<1>1. FullInv => HandoffIsOccupants
  BY DEF FullInv, SlotInv, HandoffOwned, BufferOwned, HandoffIsOccupants
<1> QED
  BY <1>1, FullInvHolds, PTL

-----------------------------------------------------------------------------
\* Types.  The bounds of the counters need what their guards say.
Counted ==
  /\ dispatch = ANetty => sent >= 1
  /\ startup \in {"capture", "gate"} => gateTasks = 0

\* The type invariant by the threads that change its variables.
Flags ==
  /\ stopping \in BOOLEAN /\ midSession \in BOOLEAN /\ relayed \in BOOLEAN
  /\ clientConnected \in BOOLEAN /\ gateCancelled \in BOOLEAN

Numbers ==
  /\ gateTasks \in 0..1
  /\ targetConnection \in 0..MaxConnections
  /\ connection \in 0..MaxConnections /\ connections \in 0..MaxConnections
  /\ startup \in {"capture", "attached", "gate", "done"}
  /\ joined \in 0..MaxDeltas /\ sent \in 0..MaxDeltas /\ applied \in 0..MaxDeltas
  /\ Counted

Queued ==
  /\ renderQueue \in Seq(Tasks)
  /\ renderJob \in [step : {"idle", "boundary", "capture"}, channel : Channels \cup {NoChannel}]
  /\ renderJob.step # "idle" => renderJob.channel \in Channels

Buffered == pendingPackets \in Seq(1..MaxDeltas) /\ Len(pendingPackets) <= MaxPending

Streams ==
  /\ chan \in [Channels -> {"none", "open", "closing", "closed"}]
  /\ stream \in [Channels -> Seq(Items)]

PerJob ==
  /\ job \in [Channels -> {"none", "queued", "running", "done", "failed", "cancelled"}]
  /\ jobConnection \in [Channels -> 0..MaxConnections]
  /\ snapshot \in [Channels -> 0..MaxDeltas]
  /\ boundary \in [Channels -> NotYet..MaxDeltas]
  /\ loginMid \in [Channels -> BOOLEAN]
  /\ ackSeen \subseteq Channels

Typed == Flags /\ Numbers /\ Queued /\ Buffered /\ Streams /\ PerJob

TypedInv == FullInv /\ Typed

LEMMA InitTyped == Init => Typed
<1> SUFFICES ASSUME Init PROVE Typed
  OBVIOUS
<1> USE SessionBoundsAreNat DEF Init
<1>0. Flags
  BY ZenonT(20) DEF Flags
<1>1. Numbers
  <2>1. connection \in 0..MaxConnections /\ connections \in 0..MaxConnections /\ sent \in 0..MaxDeltas
    OBVIOUS
  <2>2. dispatch # ANetty
    BY DEF Free, ANetty
  <2> QED
    BY <2>1, <2>2 DEF Numbers, Counted
<1>2. Queued
  BY DEF Queued, NoJob
<1>3. Buffered /\ Streams /\ PerJob
  BY DEF Buffered, Streams, PerJob, NotYet
<1> QED
  BY <1>0, <1>1, <1>2, <1>3 DEF Typed

LEMMA NumbersKept ==
  ASSUME TypedInv, [Next]_vars
  PROVE  Numbers'
<1> USE SessionBoundsAreNat DEF TypedInv, Typed, Numbers, Counted
<1>1. CASE CaptureLive
  BY <1>1 DEF CaptureLive
<1>2. CASE SetMidSession
  BY <1>2 DEF SetMidSession, aVars
<1>3. CASE CaptureNone
  BY <1>3 DEF CaptureNone, serverVars, aVars
<1>4. CASE QueueGate
  BY <1>4 DEF QueueGate, aVars
<1>5. CASE RequestStop
  BY <1>5 DEF RequestStop, aVars
<1>6. CASE AConnects
  BY <1>6 DEF AConnects
<1>7. CASE ADisconnects
  BY <1>7 DEF ADisconnects, serverVars
<1>8. CASE RelayRead
  BY <1>8 DEF RelayRead, serverVars
<1>9. CASE RelayForward
  BY <1>9, HoldersDiffer DEF RelayForward, aVars
<1>10. CASE RenderDelta
  <2>1. Head(renderQueue) \in Tasks /\ Head(renderQueue).kind = "delta"
    BY <1>10 DEF RenderDelta, NextTask, RenderIdle, Queued
  <2>2. Head(renderQueue).number \in 1..MaxDeltas
    BY <2>1 DEF Tasks
  <2> QED
    BY <1>10, <2>2 DEF RenderDelta, serverVars
<1>11. CASE RenderGate
  BY <1>11 DEF RenderGate, aVars
<1>12. ASSUME NEW c \in Channels, ReleaseGate(c) \/ ChannelInactive(c) \/ ReleaseSlot(c)
       PROVE  Numbers'
  <2>1. CASE ReleaseGate(c)
    BY <1>12, <2>1 DEF ReleaseGate, aVars
  <2>2. CASE ChannelInactive(c)
    BY <1>12, <2>2, HoldersDiffer DEF ChannelInactive, aVars
  <2>3. CASE ReleaseSlot(c)
    <3>0. dispatch' # ANetty
      BY <2>3 DEF ReleaseSlot, Free, ANetty
    <3>1. UNCHANGED <<gateTasks, startup, connections, joined, sent, applied>> /\ dispatch' # ANetty
      BY <2>3, <3>0 DEF ReleaseSlot
    <3>2. CASE KeepsA
      BY <2>3, <3>1, <3>2 DEF ReleaseSlot
    <3>3. CASE ~KeepsA
      BY <2>3, <3>1, <3>3 DEF ReleaseSlot
    <3> QED
      BY <3>2, <3>3
  <2> QED
    BY <1>12, <2>1, <2>2, <2>3
<1>13. ASSUME UNCHANGED <<gateTasks, targetConnection, dispatch, startup, connection,
                          connections, joined, sent, applied>>
       PROVE  Numbers'
  BY <1>13
<1>14. CASE CheckLoginTimeout \/ RunSnapshot \/ BeginSnapshot \/ CaptureNow
  BY <1>13, <1>14 DEF CheckLoginTimeout, RunSnapshot, BeginSnapshot, CaptureNow, serverVars, aVars
<1>15. ASSUME NEW c \in Channels, LoginStep(c) \/ PeerStep(c), ~ReleaseGate(c)
       PROVE  Numbers'
  BY <1>13, <1>15 DEF LoginStep, PeerStep, CheckOwner, CompleteLogin, BeginSync, BeginSyncFails,
     EnqueueSnapshot, CaptureReturns, WriteSnapshot, SendSelfInfo, FinishSync, EnterPlay, Accept,
     PeerCloses, StatusIntention, StatusQueryFails, LoginIntention, ReadHello, ClientPacket, serverVars,
     aVars
<1>16. CASE UNCHANGED vars
  BY <1>13, <1>16 DEF vars, serverVars, aVars
<1> QED
  BY <1>1, <1>2, <1>3, <1>4, <1>5, <1>6, <1>7, <1>8, <1>9, <1>10, <1>11, <1>12, <1>14, <1>15, <1>16
  DEF Next, ControllerStep, RenderStep, CloseStep

LEMMA QueuedKept ==
  ASSUME TypedInv, [Next]_vars
  PROVE  Queued'
<1> USE SessionBoundsAreNat DEF TypedInv, Typed, Queued
<1>1. CASE QueueGate
  BY <1>1 DEF QueueGate, Tasks
<1>2. CASE RelayRead
  <2>1. [kind |-> "delta", number |-> sent', connection |-> connection] \in Tasks
    BY <1>2 DEF RelayRead, Tasks, Numbers
  <2> QED
    BY <1>2, <2>1 DEF RelayRead
<1>3. CASE RenderDelta \/ RenderGate
  BY <1>3 DEF RenderDelta, RenderGate, NextTask, RenderIdle
<1>4. CASE RunSnapshot
  <2>1. Head(renderQueue) \in Tasks /\ Head(renderQueue).kind = "snapshot" /\ renderQueue # <<>>
    BY <1>4 DEF RunSnapshot, NextTask, RenderIdle
  <2>2. Head(renderQueue).channel \in Channels
    BY <2>1 DEF Tasks
  <2> QED
    BY <1>4, <2>1, <2>2 DEF RunSnapshot
<1>5. CASE BeginSnapshot \/ CaptureNow
  BY <1>5 DEF BeginSnapshot, CaptureNow, JobEnds, NoJob
<1>6. ASSUME NEW c \in Channels, EnqueueSnapshot(c)
      PROVE  Queued'
  <2>1. [kind |-> "snapshot", channel |-> c] \in Tasks
    BY DEF Tasks
  <2> QED
    BY <1>6, <2>1, SMTT(30) DEF EnqueueSnapshot
<1>7. ASSUME UNCHANGED renderVars
      PROVE  Queued'
  BY <1>7 DEF renderVars
<1>8. CASE \/ CaptureLive \/ SetMidSession \/ CaptureNone \/ CheckLoginTimeout \/ RequestStop
           \/ AConnects \/ ADisconnects \/ RelayForward
  BY <1>7, <1>8 DEF CaptureLive, SetMidSession, CaptureNone, CheckLoginTimeout, RequestStop,
     AConnects, ADisconnects, RelayForward
<1>9. ASSUME NEW c \in Channels, LoginStep(c) \/ CloseStep(c) \/ PeerStep(c), ~EnqueueSnapshot(c)
      PROVE  Queued'
  BY <1>7, <1>9 DEF LoginStep, CloseStep, PeerStep, CheckOwner, CompleteLogin, BeginSync,
     BeginSyncFails, CaptureReturns, WriteSnapshot, SendSelfInfo, FinishSync, EnterPlay,
     ReleaseGate, ChannelInactive, ReleaseSlot, Accept, PeerCloses, StatusIntention,
     StatusQueryFails, LoginIntention, ReadHello, ClientPacket
<1>10. CASE UNCHANGED vars
  BY <1>7, <1>10 DEF vars
<1> QED
  BY <1>1, <1>2, <1>3, <1>4, <1>5, <1>6, <1>8, <1>9, <1>10 DEF Next, ControllerStep, RenderStep

LEMMA FlagsKept ==
  ASSUME TypedInv, [Next]_vars
  PROVE  Flags'
<1>1. Flags
  BY DEF TypedInv, Typed
<1>2. ASSUME UNCHANGED <<stopping, midSession, clientConnected, gateCancelled, relayed>>
      PROVE  Flags'
  BY <1>1, <1>2 DEF Flags
<1>3. CASE CaptureLive
  BY <1>1, <1>3, Zenon DEF Flags, CaptureLive
<1>4. CASE SetMidSession
  BY <1>1, <1>4, Zenon DEF Flags, SetMidSession, aVars
<1>5. CASE RequestStop
  BY <1>1, <1>5, Zenon DEF Flags, RequestStop, aVars
<1>6. CASE AConnects
  BY <1>1, <1>6, Zenon DEF Flags, AConnects
<1>7. CASE ADisconnects
  BY <1>1, <1>7, Zenon DEF Flags, ADisconnects, serverVars
<1>8. ASSUME NEW c \in Channels, ReleaseGate(c)
      PROVE  Flags'
  BY <1>1, <1>8, Zenon DEF Flags, ReleaseGate, aVars
<1>9. ASSUME NEW c \in Channels, ReleaseSlot(c)
      PROVE  Flags'
  <2>1. /\ UNCHANGED <<stopping, midSession, gateCancelled>> /\ clientConnected' = FALSE
        /\ relayed' = relayed \/ relayed' = (relayed /\ connection' # 0)
    BY <1>9, Zenon DEF ReleaseSlot
  <2> QED
    BY <1>1, <2>1, Zenon DEF Flags
<1>10. CASE \/ CaptureNone \/ QueueGate \/ CheckLoginTimeout \/ RelayRead \/ RelayForward \/ RenderStep
  BY <1>2, <1>10 DEF CaptureNone, QueueGate, CheckLoginTimeout, RelayRead, RelayForward, RenderStep,
     RenderDelta, RenderGate, RunSnapshot, BeginSnapshot, CaptureNow, serverVars, aVars
<1>11. ASSUME NEW c \in Channels, LoginStep(c) \/ CloseStep(c) \/ PeerStep(c),
              ~ReleaseGate(c), ~ReleaseSlot(c)
       PROVE  Flags'
  BY <1>2, <1>11 DEF LoginStep, CloseStep, PeerStep, CheckOwner, CompleteLogin, BeginSync,
     BeginSyncFails, EnqueueSnapshot, CaptureReturns, WriteSnapshot, SendSelfInfo, FinishSync,
     EnterPlay, ChannelInactive, Accept, PeerCloses, StatusIntention, StatusQueryFails,
     LoginIntention, ReadHello, ClientPacket, serverVars, aVars
<1>12. CASE UNCHANGED vars
  BY <1>2, <1>12 DEF vars, serverVars, aVars
<1> QED
  BY <1>3, <1>4, <1>5, <1>6, <1>7, <1>8, <1>9, <1>10, <1>11, <1>12 DEF Next, ControllerStep

\* Every thread empties the buffer; only A's Netty thread fills it.
LEMMA BufferStep ==
  ASSUME [Next]_vars
  PROVE  \/ pendingPackets' \in {pendingPackets, <<>>}
         \/ /\ RelayForward /\ Len(pendingPackets) < MaxPending
            /\ pendingPackets' = Append(pendingPackets, sent)
<1> DEFINE Emptied == pendingPackets' = pendingPackets \/ pendingPackets' = <<>>
<1>1. CASE RelayForward
  BY <1>1 DEF RelayForward, ForwardToB, Buffer, WriteLive
<1>2. CASE \/ CaptureLive \/ SetMidSession \/ CaptureNone \/ QueueGate \/ CheckLoginTimeout \/ RequestStop
           \/ AConnects \/ ADisconnects \/ RelayRead \/ RenderStep
  <2>1. Emptied
    BY <1>2 DEF CaptureLive, SetMidSession, CaptureNone, QueueGate, CheckLoginTimeout, GiveUpLogin,
       RequestStop, AConnects, ADisconnects, RelayRead, RenderStep, RenderDelta, RenderGate,
       RunSnapshot, BeginSnapshot, CaptureNow, serverVars
  <2> QED
    BY <2>1
<1>3. ASSUME NEW c \in Channels, LoginStep(c) \/ CloseStep(c) \/ PeerStep(c)
      PROVE  Emptied
  BY <1>3 DEF LoginStep, CloseStep, PeerStep, CheckOwner, CompleteLogin, BeginSync,
     BeginSyncFails, EnqueueSnapshot, CaptureReturns, WriteSnapshot, SendSelfInfo, FinishSync,
     GiveUpLogin, EnterPlay, ReleaseGate, ChannelInactive, ReleaseSlot, Accept, PeerCloses,
     StatusIntention, StatusQueryFails, LoginIntention, ReadHello, ClientPacket, serverVars
<1>4. CASE UNCHANGED vars
  BY <1>4 DEF vars, serverVars
<1> QED
  BY <1>1, <1>2, <1>3, <1>4 DEF Next, ControllerStep

LEMMA BufferedKept ==
  ASSUME TypedInv, [Next]_vars
  PROVE  Buffered'
<1>0. <<>> \in Seq(1..MaxDeltas) /\ Len(<<>>) = 0
  OBVIOUS
<1>1. CASE pendingPackets' \in {pendingPackets, <<>>}
  <2>1. CASE pendingPackets' = pendingPackets
    BY <2>1 DEF TypedInv, Typed, Buffered
  <2>2. CASE pendingPackets' = <<>>
    BY <1>0, <2>2, SessionBoundsAreNat DEF Buffered
  <2> QED
    BY <1>1, <2>1, <2>2
<1>2. CASE /\ RelayForward /\ Len(pendingPackets) < MaxPending
           /\ pendingPackets' = Append(pendingPackets, sent)
  <2>1. sent \in 1..MaxDeltas
    BY <1>2 DEF RelayForward, TypedInv, Typed, Numbers, Counted
  <2>2. pendingPackets \in Seq(1..MaxDeltas)
    BY DEF TypedInv, Typed, Buffered
  <2> QED
    BY <1>2, <2>1, <2>2, SessionBoundsAreNat DEF Buffered
<1> QED
  BY <1>1, <1>2, BufferStep

LEMMA PerJobKept ==
  ASSUME TypedInv, [Next]_vars
  PROVE  PerJob'
<1> USE SessionBoundsAreNat DEF TypedInv, Typed, PerJob
<1>1. CASE RunSnapshot
  BY <1>1 DEF RunSnapshot, historyVars
<1>2. CASE BeginSnapshot
  <2>1. UNCHANGED <<jobConnection, snapshot, loginMid, ackSeen>>
    BY <1>2 DEF BeginSnapshot
  <2>2. CASE UNCHANGED boundary
    <3>1. \/ job' = job
          \/ job' = [job EXCEPT ![renderJob.channel] = IF @ = "running" THEN "failed" ELSE @]
      BY <1>2 DEF BeginSnapshot, JobEnds
    <3> QED
      BY <2>1, <2>2, <3>1
  <2>3. CASE boundary' = [boundary EXCEPT ![clientChannel] = sent] /\ UNCHANGED job
    <3>1. sent \in NotYet..MaxDeltas
      BY DEF Numbers, NotYet
    <3> QED
      BY <2>1, <2>3, <3>1
  <2> QED
    BY <1>2, <2>2, <2>3 DEF BeginSnapshot
<1>3. CASE CaptureNow
  BY <1>3 DEF CaptureNow, JobEnds, Numbers, historyVars
<1>4. ASSUME NEW c \in Channels, CompleteLogin(c)
      PROVE  PerJob'
  BY <1>4 DEF CompleteLogin, Flags, jobVars
<1>5. ASSUME NEW c \in Channels, BeginSync(c) \/ EnqueueSnapshot(c) \/ CaptureReturns(c)
      PROVE  PerJob'
  BY <1>5 DEF BeginSync, EnqueueSnapshot, CaptureReturns, Numbers, historyVars
<1>6. ASSUME NEW c \in Channels, NEW id \in TeleportIds, ClientPacket(c, id)
      PROVE  PerJob'
  BY <1>6 DEF ClientPacket, jobVars
<1>7. ASSUME UNCHANGED <<jobVars, boundary, loginMid, ackSeen>>
      PROVE  PerJob'
  BY <1>7 DEF jobVars
<1>8. CASE \/ CaptureLive \/ SetMidSession \/ CaptureNone \/ QueueGate \/ CheckLoginTimeout \/ RequestStop
           \/ AConnects \/ ADisconnects \/ RelayRead \/ RelayForward \/ RenderDelta \/ RenderGate
  BY <1>7, <1>8 DEF CaptureLive, SetMidSession, CaptureNone, QueueGate, CheckLoginTimeout, RequestStop,
     AConnects, ADisconnects, RelayRead, RelayForward, RenderDelta, RenderGate, historyVars
<1>9. ASSUME NEW c \in Channels, LoginStep(c) \/ CloseStep(c) \/ PeerStep(c),
             ~CompleteLogin(c), ~BeginSync(c), ~EnqueueSnapshot(c), ~CaptureReturns(c),
             ~\E id \in TeleportIds : ClientPacket(c, id)
      PROVE  PerJob'
  BY <1>7, <1>9 DEF LoginStep, CloseStep, PeerStep, CheckOwner, BeginSyncFails, WriteSnapshot,
     SendSelfInfo, FinishSync, EnterPlay, ReleaseGate, ChannelInactive, ReleaseSlot, Accept,
     PeerCloses, StatusIntention, StatusQueryFails, LoginIntention, ReadHello, historyVars
<1>10. CASE UNCHANGED vars
  BY <1>7, <1>10 DEF vars, historyVars
<1> QED
  BY <1>1, <1>2, <1>3, <1>4, <1>5, <1>6, <1>8, <1>9, <1>10 DEF Next, ControllerStep, RenderStep

\* Channels only move towards closed, and only three actions write to one.
Opened(c) == chan[c] = "none" /\ chan' = [chan EXCEPT ![c] = "open"]

LEMMA ChanStep ==
  ASSUME [Next]_vars
  PROVE  \/ chan' = chan
         \/ \E S \in {{clientChannel}} \cup {{c} : c \in Channels} : chan' = Closed(S)
         \/ \E c \in Channels : Opened(c) \/ chan' = [chan EXCEPT ![c] = "closed"]
<1> DEFINE Kept == chan' = chan
           Shut(c) == chan' = Closed({c})
<1>1. CASE CheckLoginTimeout \/ RelayForward
  <2>1. Kept \/ Shut(clientChannel)
    BY <1>1 DEF CheckLoginTimeout, GiveUpLogin, RelayForward, ForwardToB, Buffer, WriteLive
  <2> QED
    BY <2>1
<1>2. CASE \/ CaptureLive \/ SetMidSession \/ CaptureNone \/ QueueGate \/ RequestStop
           \/ AConnects \/ ADisconnects \/ RelayRead \/ RenderStep
  BY <1>2 DEF CaptureLive, SetMidSession, CaptureNone, QueueGate, RequestStop, AConnects,
     ADisconnects, RelayRead, RenderStep, RenderDelta, RenderGate, RunSnapshot, BeginSnapshot,
     CaptureNow, bVars
<1>3. ASSUME NEW c \in Channels, Accept(c) \/ ChannelInactive(c)
      PROVE  Opened(c) \/ chan' = [chan EXCEPT ![c] = "closed"]
  BY <1>3 DEF Accept, ChannelInactive, Opened
<1>4. ASSUME NEW c \in Channels, LoginStep(c) \/ CloseStep(c) \/ PeerStep(c),
             ~Accept(c), ~ChannelInactive(c)
      PROVE  Kept \/ Shut(c) \/ Shut(clientChannel)
  BY <1>4 DEF LoginStep, CloseStep, PeerStep, CheckOwner, CompleteLogin, BeginSync,
     BeginSyncFails, EnqueueSnapshot, CaptureReturns, WriteSnapshot, SyncFails, SendSelfInfo, FinishSync,
     GiveUpLogin, EnterPlay, ReleaseGate, ReleaseSlot, PeerCloses,
     StatusIntention, StatusQueryFails, LoginIntention, ReadHello, ClientPacket, bVars
<1>5. CASE UNCHANGED vars
  BY <1>5 DEF vars, bVars
<1>6. ASSUME NEW c \in Channels, LoginStep(c) \/ CloseStep(c) \/ PeerStep(c)
      PROVE  \/ Kept \/ Shut(c) \/ Shut(clientChannel)
             \/ Opened(c) \/ chan' = [chan EXCEPT ![c] = "closed"]
  BY <1>3, <1>4, <1>6
<1> QED
  BY <1>1, <1>2, <1>5, <1>6 DEF Next, ControllerStep

LEMMA StreamStep ==
  ASSUME [Next]_vars
  PROVE  \/ stream' = stream
         \/ /\ RelayForward /\ clientState \in {"AwaitReady", "Play"}
            /\ stream' = Written(clientChannel, Live(<<sent>>))
         \/ \E c \in Channels :
              WriteSnapshot(c) /\ stream' = Written(c, <<<<"snapshot", snapshot[c]>>>>)
         \/ \E c \in Channels : FinishSync(c) /\ \E n \in 0..Len(pendingPackets) :
              stream' = Written(c, Live(SubSeq(pendingPackets, 1, n)))
<1>1. CASE RelayForward
  BY <1>1 DEF RelayForward, ForwardToB, Buffer, WriteLive, Receives
<1>2. CASE \/ CaptureLive \/ SetMidSession \/ CaptureNone \/ QueueGate \/ CheckLoginTimeout \/ RequestStop
           \/ AConnects \/ ADisconnects \/ RelayRead \/ RenderStep
  BY <1>2 DEF CaptureLive, SetMidSession, CaptureNone, QueueGate, CheckLoginTimeout, RequestStop,
     AConnects, ADisconnects, RelayRead, RenderStep, RenderDelta, RenderGate, RunSnapshot,
     BeginSnapshot, CaptureNow, bVars
<1>3. ASSUME NEW c \in Channels, WriteSnapshot(c)
      PROVE  stream' = stream \/ stream' = Written(c, <<<<"snapshot", snapshot[c]>>>>)
  BY <1>3 DEF WriteSnapshot
<1>4. ASSUME NEW c \in Channels, FinishSync(c)
      PROVE  \/ stream' = stream
             \/ \E n \in 0..Len(pendingPackets) :
                  stream' = Written(c, Live(SubSeq(pendingPackets, 1, n)))
  BY <1>4 DEF FinishSync
<1>5. ASSUME NEW c \in Channels, LoginStep(c) \/ CloseStep(c) \/ PeerStep(c),
             ~WriteSnapshot(c), ~FinishSync(c)
      PROVE  stream' = stream
  BY <1>5 DEF LoginStep, CloseStep, PeerStep, CheckOwner, CompleteLogin, BeginSync,
     BeginSyncFails, EnqueueSnapshot, CaptureReturns, SendSelfInfo, EnterPlay, ReleaseGate,
     ReleaseSlot, ChannelInactive, Accept, PeerCloses, StatusIntention, StatusQueryFails,
     LoginIntention, ReadHello, ClientPacket, bVars
<1>6. CASE UNCHANGED vars
  BY <1>6 DEF vars, bVars
<1> QED
  BY <1>1, <1>2, <1>3, <1>4, <1>5, <1>6 DEF Next, ControllerStep

LEMMA LiveTyped ==
  ASSUME NEW numbers \in Seq(1..MaxDeltas)
  PROVE  Live(numbers) \in Seq(Items) /\ Len(Live(numbers)) = Len(numbers)
<1>1. Len(numbers) \in Nat /\ \A i \in 1..Len(numbers) : numbers[i] \in 1..MaxDeltas
  BY ElementOfSeq, LenProperties
<1>2. \A i \in 1..Len(numbers) : <<"delta", numbers[i]>> \in Items
  BY <1>1, SessionBoundsAreNat DEF Items
<1> QED
  BY <1>1, <1>2 DEF Live

LEMMA SentTyped ==
  ASSUME TypedInv, RelayForward
  PROVE  <<sent>> \in Seq(1..MaxDeltas)
BY DEF RelayForward, TypedInv, Typed, Numbers, Counted

LEMMA SnapshotTyped ==
  ASSUME TypedInv, NEW c \in Channels
  PROVE  <<<<"snapshot", snapshot[c]>>>> \in Seq(Items)
<1>1. <<"snapshot", snapshot[c]>> \in Items
  BY DEF TypedInv, Typed, PerJob, Items
<1> QED
  BY <1>1

LEMMA BufferedTyped ==
  ASSUME TypedInv, NEW n \in 0..Len(pendingPackets)
  PROVE  /\ SubSeq(pendingPackets, 1, n) \in Seq(1..MaxDeltas)
         /\ Len(SubSeq(pendingPackets, 1, n)) = n
         /\ \A i \in 1..n : SubSeq(pendingPackets, 1, n)[i] = pendingPackets[i]
<1>1. pendingPackets \in Seq(1..MaxDeltas)
  BY DEF TypedInv, Typed, Buffered
<1>2. Len(pendingPackets) \in Nat
  BY <1>1, LenProperties
<1>3. n \in Nat /\ \A i \in 1..n : i \in 1..Len(pendingPackets)
  BY <1>2
<1>4. \A i \in 1..Len(pendingPackets) : pendingPackets[i] \in 1..MaxDeltas
  BY <1>1, ElementOfSeq
<1>5. \A i \in 1..n : pendingPackets[i] \in 1..MaxDeltas
  BY <1>3, <1>4
<1>6. /\ SubSeq(pendingPackets, 1, n) \in Seq(1..MaxDeltas)
      /\ Len(SubSeq(pendingPackets, 1, n)) = IF 1 <= n THEN n - 1 + 1 ELSE 0
      /\ \A i \in 1..n - 1 + 1 : SubSeq(pendingPackets, 1, n)[i] = pendingPackets[1 + i - 1]
  BY <1>3, <1>5, SubSeqProperties
<1> QED
  BY <1>3, <1>6

LEMMA StreamsKept ==
  ASSUME TypedInv, [Next]_vars
  PROVE  Streams'
<1> DEFINE ChanStates == {"none", "open", "closing", "closed"}
<1>1. chan \in [Channels -> ChanStates] /\ stream \in [Channels -> Seq(Items)]
  BY DEF TypedInv, Typed, Streams
<1>2. chan' \in [Channels -> ChanStates]
  <2>1. \A S : Closed(S) \in [Channels -> ChanStates]
    BY <1>1 DEF Closed
  <2> QED
    BY <1>1, <2>1, ChanStep DEF Opened
<1>3. ASSUME NEW c, NEW items \in Seq(Items)
      PROVE  Written(c, items) \in [Channels -> Seq(Items)]
  <2>1. \A d \in Channels : stream[d] \o items \in Seq(Items)
    BY <1>1
  <2> QED
    BY <1>1, <2>1 DEF Written
<1>4. ASSUME RelayForward, stream' = Written(clientChannel, Live(<<sent>>))
      PROVE  stream' \in [Channels -> Seq(Items)]
  BY <1>3, <1>4, SentTyped, LiveTyped
<1>5. ASSUME NEW c \in Channels, stream' = Written(c, <<<<"snapshot", snapshot[c]>>>>)
      PROVE  stream' \in [Channels -> Seq(Items)]
  BY <1>3, <1>5, SnapshotTyped
<1>6. ASSUME NEW c \in Channels, NEW n \in 0..Len(pendingPackets),
             stream' = Written(c, Live(SubSeq(pendingPackets, 1, n)))
      PROVE  stream' \in [Channels -> Seq(Items)]
  BY <1>3, <1>6, BufferedTyped, LiveTyped
<1>7. stream' \in [Channels -> Seq(Items)]
  BY <1>1, <1>4, <1>5, <1>6, StreamStep
<1> QED
  BY <1>2, <1>7 DEF Streams

LEMMA TypedInvInductive == TypedInv /\ [Next]_vars => TypedInv'
BY FullInvInductive, FlagsKept, NumbersKept, QueuedKept, BufferedKept, StreamsKept, PerJobKept
   DEF TypedInv, Typed

LEMMA TypedInvHolds == Spec => []TypedInv
<1>1. Init => TypedInv
  BY InitSlotInv, InitFull, InitTyped DEF TypedInv, FullInv
<1> QED
  BY <1>1, TypedInvInductive, PTL DEF Spec

\* Every variable keeps its type, for any number of B channels and any bounds: no
\* counter leaves its range and the buffer never exceeds its limit (forwarding.cpp:399-413).
THEOREM SessionTypes == Spec => []TypeOK
<1>1. TypedInv => TypeOK
  <2> SUFFICES ASSUME TypedInv PROVE TypeOK
    OBVIOUS
  <2>1. {stopping, midSession, clientConnected, gateCancelled, relayed} \subseteq BOOLEAN
    BY Zenon DEF TypedInv, Typed, Flags
  <2>2. Shape /\ failed \subseteq Channels
    BY DEF TypedInv, FullInv, SlotInv, FailureIsFinal
  <2>3. Numbers /\ Queued /\ Buffered /\ Streams /\ PerJob
    BY DEF TypedInv, Typed
  <2> QED
    BY <2>1, <2>2, <2>3 DEF TypeOK, Shape, Numbers, Queued, Buffered, Streams, PerJob
<1> QED
  BY <1>1, TypedInvHolds, PTL

-----------------------------------------------------------------------------
\* What a B that joined a running game has been through.
LoginHistory ==
  \A c \in Channels :
    /\ pc[c] # "idle" => chan[c] \in {"open", "closing"}
    /\ loginMid[c] => midSession
    /\ pc[c] \in {"begin", "enqueue", "waiting", "write"} => loginMid[c]
    /\ pc[c] = "play" => ~loginMid[c]
    /\ pc[c] \in {"selfInfo", "finish"} /\ loginMid[c] => HasSnapshot(c)

OccupantHistory ==
  /\ clientState \in {"Syncing", "AwaitReady"} => loginMid[clientChannel]
  /\ clientState = "AwaitReady" => HasSnapshot(clientChannel)

HistoryInv == TypedInv /\ LoginHistory /\ OccupantHistory /\ ControlAfterAck /\ ControlOpensGate

historyState == <<slotState, chan, stream, loginMid, ackSeen, stopping, clientConnected>>

\* A stream is only appended to.
LEMMA SnapshotStays ==
  ASSUME TypedInv, [Next]_vars, NEW c \in Channels, HasSnapshot(c)
  PROVE  HasSnapshot(c)'
<1>1. stream \in [Channels -> Seq(Items)] /\ stream' \in [Channels -> Seq(Items)]
  BY StreamsKept DEF TypedInv, Typed, Streams
<1>2. PICK i \in DOMAIN stream[c] : stream[c][i][1] = "snapshot"
  BY DEF HasSnapshot
<1>3. Len(stream[c]) \in Nat /\ DOMAIN stream[c] = 1..Len(stream[c])
  BY <1>1, LenProperties
<1>4. ASSUME NEW items \in Seq(Items)
      PROVE  i \in DOMAIN (stream[c] \o items) /\ (stream[c] \o items)[i] = stream[c][i]
  BY <1>1, <1>2, <1>3, <1>4
<1>5. ASSUME NEW d, NEW items \in Seq(Items), stream' = Written(d, items)
      PROVE  HasSnapshot(c)'
  <2>1. stream'[c] \in {stream[c], stream[c] \o items}
    BY <1>1, <1>5 DEF Written
  <2> QED
    BY <1>2, <1>4, <2>1 DEF HasSnapshot
<1>6. CASE stream' = stream
  BY <1>6 DEF HasSnapshot
<1>7. CASE RelayForward /\ stream' = Written(clientChannel, Live(<<sent>>))
  BY <1>5, <1>7, SentTyped, LiveTyped
<1>8. ASSUME NEW d \in Channels, stream' = Written(d, <<<<"snapshot", snapshot[d]>>>>)
      PROVE  HasSnapshot(c)'
  BY <1>5, <1>8, SnapshotTyped
<1>9. ASSUME NEW d \in Channels, NEW n \in 0..Len(pendingPackets),
             stream' = Written(d, Live(SubSeq(pendingPackets, 1, n)))
      PROVE  HasSnapshot(c)'
  BY <1>5, <1>9, BufferedTyped, LiveTyped
<1> QED
  BY <1>6, <1>7, <1>8, <1>9, StreamStep

LEMMA InitHistory == Init => LoginHistory /\ OccupantHistory /\ ControlAfterAck /\ ControlOpensGate
<1> SUFFICES ASSUME Init PROVE LoginHistory /\ OccupantHistory /\ ControlAfterAck /\ ControlOpensGate
  OBVIOUS
<1>1. /\ clientState = "AwaitHandshake" /\ pc = [c \in Channels |-> "idle"]
      /\ \A c \in Channels : ~loginMid[c]
  BY DEF Init
<1> QED
  BY <1>1 DEF LoginHistory, OccupantHistory, ControlAfterAck, ControlOpensGate

LEMMA SameHistory ==
  ASSUME HistoryInv, [Next]_vars,
         UNCHANGED <<clientChannel, clientState, midSession, pc, loginMid, ackSeen>>,
         stopping' \/ UNCHANGED <<stopping, clientConnected>>,
         \A c \in Channels : pc[c] # "idle" => chan'[c] \in {"open", "closing"}
  PROVE  LoginHistory' /\ OccupantHistory' /\ ControlAfterAck' /\ ControlOpensGate'
<1>1. \A c \in Channels : HasSnapshot(c) => HasSnapshot(c)'
  BY SnapshotStays DEF HistoryInv
<1>2. LoginHistory'
  BY <1>1 DEF HistoryInv, LoginHistory
<1>3. OccupantHistory'
  <2>1. clientState = "AwaitReady" => clientChannel \in Channels
    BY DEF HistoryInv, TypedInv, FullInv, SlotInv, SlotAgreesWithState, Shape
  <2> QED
    BY <1>1, <2>1 DEF HistoryInv, OccupantHistory
<1>4. ControlAfterAck' /\ ControlOpensGate'
  BY DEF HistoryInv, ControlAfterAck, ControlOpensGate
<1> QED
  BY <1>2, <1>3, <1>4

\* A channel whose event loop is inside a login has not gone inactive.
LEMMA ClosedKeepsLogins ==
  ASSUME HistoryInv, NEW S, NEW c \in Channels, pc[c] # "idle"
  PROVE  Closed(S)[c] \in {"open", "closing"}
BY DEF HistoryInv, LoginHistory, Closed

LEMMA ElsewhereHistory ==
  ASSUME HistoryInv, Elsewhere, [Next]_vars
  PROVE  LoginHistory' /\ OccupantHistory' /\ ControlAfterAck' /\ ControlOpensGate'
<1>1. UNCHANGED <<clientChannel, clientState, midSession, pc>>
  BY ElsewhereKeepsSlot DEF slotState
<1>2. UNCHANGED <<loginMid, ackSeen>>
  BY DEF Elsewhere, CaptureLive, CaptureNone, QueueGate, RequestStop, AConnects, ADisconnects,
     RenderStep, RenderDelta, RenderGate, RunSnapshot, BeginSnapshot, CaptureNow, Accept, PeerCloses,
     StatusQueryFails, historyVars
<1>3. stopping' \/ UNCHANGED <<stopping, clientConnected>>
  BY DEF Elsewhere, CaptureLive, CaptureNone, QueueGate, RequestStop, AConnects, ADisconnects,
     RenderStep, RenderDelta, RenderGate, RunSnapshot, BeginSnapshot, CaptureNow, Accept, PeerCloses,
     StatusQueryFails, serverVars
<1>4. ASSUME NEW c \in Channels, pc[c] # "idle"
      PROVE  chan'[c] \in {"open", "closing"}
  <2>0. chan[c] \in {"open", "closing"}
    BY <1>4 DEF HistoryInv, LoginHistory
  <2>1. CASE chan' = chan
    BY <2>0, <2>1
  <2>2. ASSUME NEW d \in Channels, Accept(d)
        PROVE  chan'[c] \in {"open", "closing"}
    BY <2>0, <2>2 DEF Accept, HistoryInv, TypedInv, Typed, Streams
  <2>3. ASSUME NEW d \in Channels, PeerCloses(d) \/ StatusQueryFails(d)
        PROVE  chan'[c] \in {"open", "closing"}
    <3>1. chan' = Closed({d})
      BY <2>3 DEF PeerCloses, StatusQueryFails
    <3> QED
      BY <1>4, <3>1, ClosedKeepsLogins
  <2> QED
    BY <2>1, <2>2, <2>3 DEF Elsewhere, CaptureLive, CaptureNone, QueueGate, RequestStop, AConnects,
       ADisconnects, RenderStep, RenderDelta, RenderGate, RunSnapshot, BeginSnapshot, CaptureNow, bVars
<1> QED
  BY <1>1, <1>2, <1>3, <1>4, SameHistory

LEMMA SharedStepHistory ==
  ASSUME HistoryInv, [Next]_vars, SetMidSession \/ CheckLoginTimeout \/ RelayRead \/ RelayForward
  PROVE  LoginHistory' /\ OccupantHistory' /\ ControlAfterAck' /\ ControlOpensGate'
<1>1. CASE SetMidSession
  <2>1. /\ midSession' = TRUE
        /\ UNCHANGED <<clientChannel, clientState, pc, loginMid, ackSeen, chan, stream, stopping,
                       clientConnected>>
    BY <1>1 DEF SetMidSession, bVars, historyVars
  <2> QED
    BY <2>1 DEF HistoryInv, LoginHistory, OccupantHistory, ControlAfterAck, ControlOpensGate, HasSnapshot
<1>2. CASE CheckLoginTimeout \/ RelayRead \/ RelayForward
  <2>1. UNCHANGED <<clientChannel, clientState, midSession, pc, loginMid, ackSeen, stopping,
                    clientConnected>>
    BY <1>2 DEF CheckLoginTimeout, RelayRead, RelayForward, serverVars, bVars, historyVars
  <2>2. chan' = chan \/ chan' = Closed({clientChannel})
    BY <1>2 DEF CheckLoginTimeout, GiveUpLogin, RelayRead, RelayForward, ForwardToB, Buffer, WriteLive,
       bVars
  <2>3. \A c \in Channels : pc[c] # "idle" => chan'[c] \in {"open", "closing"}
    BY <2>2, ClosedKeepsLogins DEF HistoryInv, LoginHistory
  <2> QED
    BY <2>1, <2>3, SameHistory
<1> QED
  BY <1>1, <1>2

\* One event loop moves on; the histories of the others are untouched.
LEMMA LoginStepHistory ==
  ASSUME HistoryInv, [Next]_vars, NEW c \in Channels, LoginStep(c)
  PROVE  LoginHistory' /\ OccupantHistory' /\ ControlAfterAck' /\ ControlOpensGate'
<1> DEFINE Goal == LoginHistory' /\ OccupantHistory' /\ ControlAfterAck' /\ ControlOpensGate'
<1>1. /\ Shape /\ LoginOrder /\ SlotAgreesWithState
      /\ LoginHistory /\ OccupantHistory /\ ControlAfterAck /\ ControlOpensGate
  BY DEF HistoryInv, TypedInv, FullInv, SlotInv
<1>2. \A d \in Channels : HasSnapshot(d) => HasSnapshot(d)'
  BY SnapshotStays DEF HistoryInv
<1>3. pc[c] # "idle" /\ pc \in [Channels -> {"idle"} \cup LoginSteps]
  BY <1>1 DEF LoginStep, CheckOwner, CompleteLogin, BeginSync, BeginSyncFails, EnqueueSnapshot,
     CaptureReturns, WriteSnapshot, SendSelfInfo, FinishSync, EnterPlay, ReleaseGate, Shape
<1>4. \A d \in Channels : pc[d] # "idle" => chan'[d] \in {"open", "closing"}
  <2>1. chan' = chan \/ chan' = Closed({c}) \/ chan' = Closed({clientChannel})
    BY DEF LoginStep, CheckOwner, CompleteLogin, BeginSync, BeginSyncFails, EnqueueSnapshot,
       CaptureReturns, WriteSnapshot, SyncFails, SendSelfInfo, FinishSync, GiveUpLogin, EnterPlay,
       ReleaseGate, bVars
  <2> QED
    BY <1>1, <2>1, ClosedKeepsLogins DEF LoginHistory
\* What is left to show of a step of c.
<1>5. ASSUME NEW step, pc' = [pc EXCEPT ![c] = step],
             UNCHANGED <<clientChannel, midSession, loginMid, ackSeen, stopping>>,
             step \in {"begin", "enqueue", "waiting", "write"} => loginMid[c],
             step = "play" => ~loginMid[c],
             step \in {"selfInfo", "finish"} /\ loginMid[c] => HasSnapshot(c)'
      PROVE  LoginHistory'
  BY <1>1, <1>2, <1>3, <1>4, <1>5 DEF LoginHistory
<1>6. ASSUME UNCHANGED <<clientChannel, clientState, loginMid>>
      PROVE  OccupantHistory'
  <2>1. clientState = "AwaitReady" => clientChannel \in Channels
    BY <1>1 DEF SlotAgreesWithState, Shape
  <2> QED
    BY <1>1, <1>2, <1>6, <2>1 DEF OccupantHistory
<1>7. ASSUME clientState' # "Play"
      PROVE  ControlAfterAck' /\ ControlOpensGate'
  BY <1>7 DEF ControlAfterAck, ControlOpensGate
<1>8. pc[c] \notin {"idle", "hello"} => clientChannel = c
  BY <1>1 DEF LoginOrder
<1>9. CASE CheckOwner(c)
  <2>1. \/ pc' = [pc EXCEPT ![c] = "login"] /\ clientChannel = c /\ clientState = "AwaitLogin"
        \/ pc' = [pc EXCEPT ![c] = "idle"] /\ clientChannel # c
    BY <1>1, <1>9 DEF CheckOwner, Goto, Owns, LoginOrder
  <2>2. UNCHANGED <<clientChannel, clientState, midSession, loginMid, ackSeen, stopping, clientConnected>>
    BY <1>9 DEF CheckOwner, serverVars, historyVars
  <2>3. ControlAfterAck' /\ ControlOpensGate'
    BY <1>1, <1>3, <2>1, <2>2, NoChannelIsNone DEF ControlAfterAck, ControlOpensGate, Shape, SlotAgreesWithState
  <2> QED
    BY <1>5, <1>6, <2>1, <2>2, <2>3
<1>10. CASE CompleteLogin(c)
  <2>1. /\ clientState = "AwaitLogin" /\ clientChannel = c
        /\ pc' = [pc EXCEPT ![c] = IF midSession THEN "begin" ELSE "selfInfo"]
        /\ loginMid' = [loginMid EXCEPT ![c] = midSession]
        /\ UNCHANGED <<clientChannel, clientState, midSession>>
    BY <1>1, <1>8, <1>10 DEF CompleteLogin, Goto, serverVars, LoginOrder
  <2>2. loginMid'[c] = midSession /\ \A d \in Channels \ {c} : loginMid'[d] = loginMid[d]
    BY <2>1 DEF HistoryInv, TypedInv, Typed, PerJob
  <2>3. \/ pc'[c] = "begin" /\ midSession
        \/ pc'[c] = "selfInfo" /\ ~midSession
    BY <1>3, <2>1
  <2>4. \A d \in Channels \ {c} : pc'[d] = pc[d]
    BY <1>3, <2>1
  <2>5. LoginHistory'
    BY <1>1, <1>2, <1>3, <1>4, <2>1, <2>2, <2>3, <2>4 DEF LoginHistory
  <2>6. OccupantHistory'
    BY <2>1 DEF OccupantHistory
  <2> QED
    BY <1>7, <2>1, <2>5, <2>6
<1>11. CASE BeginSync(c)
  <2>1. /\ pc[c] = "begin" /\ clientState' = "Syncing" /\ clientChannel = c
        /\ pc' = [pc EXCEPT ![c] = "enqueue"]
        /\ UNCHANGED <<clientChannel, midSession, loginMid, ackSeen, stopping>>
    BY <1>8, <1>11 DEF BeginSync, Goto, historyVars
  <2>2. loginMid[c]
    BY <1>1, <2>1 DEF LoginHistory
  <2>3. OccupantHistory'
    BY <2>1, <2>2 DEF OccupantHistory
  <2> QED
    BY <1>5, <1>7, <2>1, <2>2, <2>3
<1>12. CASE BeginSyncFails(c) \/ EnqueueSnapshot(c) \/ CaptureReturns(c) \/ WriteSnapshot(c)
  <2>1. /\ pc[c] \in {"begin", "enqueue", "waiting", "write"}
        /\ UNCHANGED <<clientChannel, clientState, midSession, loginMid, ackSeen, stopping>>
    BY <1>12 DEF BeginSyncFails, EnqueueSnapshot, CaptureReturns, WriteSnapshot, serverVars
  <2>2. loginMid[c] /\ clientState' # "Play"
    BY <1>1, <2>1 DEF LoginHistory, LoginOrder
  <2>3. ASSUME WriteSnapshot(c), stream' = Written(c, <<<<"snapshot", snapshot[c]>>>>)
        PROVE  HasSnapshot(c)'
    <3>1. stream'[c] = stream[c] \o <<<<"snapshot", snapshot[c]>>>>
      BY <1>1, <2>1, <2>3 DEF Written, LoginHistory, HistoryInv, TypedInv, Typed, Streams
    <3>2. stream[c] \in Seq(Items) /\ Len(stream[c]) \in Nat
      BY LenProperties DEF HistoryInv, TypedInv, Typed, Streams
    <3>3. /\ Len(stream[c]) + 1 \in DOMAIN stream'[c]
          /\ stream'[c][Len(stream[c]) + 1] = <<"snapshot", snapshot[c]>>
      <4>1. DOMAIN stream'[c] = 1..Len(stream'[c])
        BY <3>1, <3>2
      <4> QED
        BY <3>1, <3>2, <4>1
    <3> QED
      BY <3>3 DEF HasSnapshot
  <2>4. \/ \E step \in {"enqueue", "waiting", "write", "idle"} : pc' = [pc EXCEPT ![c] = step]
        \/ pc' = [pc EXCEPT ![c] = "selfInfo"] /\ HasSnapshot(c)'
    BY <1>12, <2>3 DEF BeginSyncFails, EnqueueSnapshot, CaptureReturns, WriteSnapshot, SyncFails, Goto
  <2> QED
    BY <1>5, <1>6, <1>7, <2>1, <2>2, <2>4
<1>13. CASE SendSelfInfo(c)
  <2>1. /\ pc[c] = "selfInfo" /\ clientChannel = c
        /\ pc' = [pc EXCEPT ![c] = IF midSession THEN "finish" ELSE "play"]
        /\ UNCHANGED <<clientChannel, clientState, midSession, loginMid, ackSeen, stopping>>
    BY <1>8, <1>13 DEF SendSelfInfo, Goto, serverVars, historyVars
  <2>2. clientState' # "Play"
    BY <1>1, <2>1 DEF LoginOrder
  <2>3. \/ pc' = [pc EXCEPT ![c] = "finish"] /\ (loginMid[c] => HasSnapshot(c)')
        \/ pc' = [pc EXCEPT ![c] = "play"] /\ ~loginMid[c]
    BY <1>1, <1>2, <2>1 DEF LoginHistory
  <2> QED
    BY <1>5, <1>6, <1>7, <2>1, <2>2, <2>3
<1>14. CASE FinishSync(c)
  <2>1. /\ pc[c] = "finish" /\ clientChannel = c
        /\ pc' = [pc EXCEPT ![c] = "idle"]
        /\ UNCHANGED <<clientChannel, midSession, loginMid, ackSeen, stopping>>
    BY <1>8, <1>14 DEF FinishSync, Goto
  <2>2. clientState \in {"AwaitLogin", "Syncing"}
    BY <1>1, <2>1 DEF LoginOrder
  <2>3. CASE UNCHANGED clientState
    BY <1>5, <1>6, <1>7, <2>1, <2>2, <2>3
  <2>4. CASE handoff = "Capturing" /\ clientState' = "AwaitReady"
    <3>1. clientState = "Syncing"
      BY <1>14, <2>2, <2>4, HoldersDiffer
         DEF FinishSync, DispatchFree, HistoryInv, TypedInv, FullInv, SlotInv, HandoffOwned
    <3>2. loginMid[c] /\ HasSnapshot(c)'
      BY <1>1, <1>2, <2>1, <3>1 DEF OccupantHistory, LoginHistory
    <3>3. OccupantHistory'
      BY <2>1, <2>4, <3>2 DEF OccupantHistory
    <3> QED
      BY <1>5, <1>7, <2>1, <2>4, <3>3
  <2> QED
    BY <1>14, <2>3, <2>4 DEF FinishSync, MaySendSnapshot
<1>15. CASE EnterPlay(c)
  <2>1. /\ pc[c] = "play" /\ clientChannel = c /\ clientState' = "Play"
        /\ pc' = [pc EXCEPT ![c] = "release"]
        /\ UNCHANGED <<clientChannel, midSession, loginMid, ackSeen, stopping>>
    BY <1>8, <1>15 DEF EnterPlay, Goto, historyVars
  <2>2. pc'[c] = "release" /\ ~loginMid[c]
    BY <1>1, <1>3, <2>1 DEF LoginHistory
  <2> QED
    BY <1>5, <2>1, <2>2 DEF OccupantHistory, ControlAfterAck, ControlOpensGate
<1>16. CASE ReleaseGate(c)
  <2>1. /\ clientConnected' = TRUE
        /\ pc' = [pc EXCEPT ![c] = "idle"]
        /\ UNCHANGED <<clientChannel, clientState, midSession, loginMid, ackSeen, stopping>>
    BY <1>16 DEF ReleaseGate, Goto, historyVars
  <2>2. ControlAfterAck' /\ ControlOpensGate'
    BY <1>1, <2>1 DEF ControlAfterAck, ControlOpensGate
  <2> QED
    BY <1>5, <1>6, <2>1, <2>2
<1> QED
  BY <1>9, <1>10, <1>11, <1>12, <1>13, <1>14, <1>15, <1>16 DEF LoginStep

LEMMA PeerStepHistory ==
  ASSUME HistoryInv, [Next]_vars, NEW c \in Channels,
         \/ StatusIntention(c) \/ LoginIntention(c) \/ ReadHello(c)
         \/ CloseStep(c)
         \/ \E id \in TeleportIds : ClientPacket(c, id)
  PROVE  LoginHistory' /\ OccupantHistory' /\ ControlAfterAck' /\ ControlOpensGate'
<1>1. /\ Shape /\ LoginOrder /\ SlotAgreesWithState /\ FailureIsFinal
      /\ LoginHistory /\ OccupantHistory /\ ControlAfterAck /\ ControlOpensGate
  BY DEF HistoryInv, TypedInv, FullInv, SlotInv
<1>2. \A d \in Channels : HasSnapshot(d) => HasSnapshot(d)'
  BY SnapshotStays DEF HistoryInv
<1>3. CASE StatusIntention(c)
  <2>1. UNCHANGED <<clientChannel, clientState, midSession, pc, chan, loginMid, ackSeen, stopping,
                    clientConnected>>
    BY <1>3 DEF StatusIntention, serverVars, historyVars
  <2> QED
    BY <1>1, <2>1, SameHistory DEF LoginHistory
<1>4. CASE LoginIntention(c)
  <2>1. UNCHANGED <<midSession, pc, loginMid, ackSeen, stopping, clientConnected>>
    BY <1>4 DEF LoginIntention, historyVars
  <2>2. \A d \in Channels : pc[d] # "idle" => chan'[d] \in {"open", "closing"}
    BY <1>1, <1>4, ClosedKeepsLogins DEF LoginIntention, LoginHistory
  <2>3. CASE UNCHANGED <<clientChannel, clientState>>
    BY <2>1, <2>2, <2>3, SameHistory
  <2>4. CASE clientChannel' = c /\ clientState' = "AwaitLogin"
    BY <1>1, <1>2, <2>1, <2>2, <2>4 DEF LoginHistory, OccupantHistory, ControlAfterAck, ControlOpensGate
  <2> QED
    BY <1>4, <2>3, <2>4 DEF LoginIntention
<1>5. CASE ReadHello(c)
  <2>1. /\ clientState = "AwaitLogin" /\ pc' = [pc EXCEPT ![c] = "hello"]
        /\ chan[c] \in {"open", "closing"}
        /\ UNCHANGED <<clientChannel, clientState, midSession, chan, loginMid, ackSeen>>
    BY <1>5 DEF ReadHello, Goto, Readable, serverVars, historyVars
  <2>2. \A d \in Channels : pc'[d] = IF d = c THEN "hello" ELSE pc[d]
    BY <1>1, <2>1 DEF Shape
  <2> QED
    BY <1>1, <1>2, <2>1, <2>2 DEF LoginHistory, OccupantHistory, ControlAfterAck, ControlOpensGate
<1>6. CASE ChannelInactive(c)
  <2>1. /\ pc[c] = "idle" /\ chan' = [chan EXCEPT ![c] = "closed"]
        /\ UNCHANGED <<midSession, pc, loginMid, ackSeen, stopping, clientConnected>>
    BY <1>6 DEF ChannelInactive, LoopIdle, historyVars
  <2>2. \A d \in Channels : pc[d] # "idle" => chan'[d] \in {"open", "closing"}
    BY <1>1, <2>1 DEF LoginHistory, HistoryInv, TypedInv, Typed, Streams
  <2>3. CASE UNCHANGED <<clientChannel, clientState>>
    BY <2>1, <2>2, <2>3, SameHistory
  <2>4. CASE clientState' = "AwaitHandshake"
    BY <1>1, <1>2, <2>1, <2>2, <2>4 DEF LoginHistory, OccupantHistory, ControlAfterAck, ControlOpensGate
  <2> QED
    BY <1>6, <2>3, <2>4 DEF ChannelInactive
<1>7. CASE ReleaseSlot(c)
  <2>1. /\ dispatch \in Channels
        /\ UNCHANGED <<clientChannel, clientState, midSession, pc, chan, stream, loginMid, ackSeen>>
    BY <1>7 DEF ReleaseSlot, bVars, historyVars
  <2>2. clientState \notin {"Syncing", "AwaitReady", "Play"}
    BY <1>1, <2>1 DEF FailureIsFinal
  <2> QED
    BY <1>1, <1>2, <2>1, <2>2 DEF LoginHistory, OccupantHistory, ControlAfterAck, ControlOpensGate
<1>8. ASSUME NEW id \in TeleportIds, ClientPacket(c, id)
      PROVE  LoginHistory' /\ OccupantHistory' /\ ControlAfterAck' /\ ControlOpensGate'
  <2>1. /\ clientChannel = c
        /\ UNCHANGED <<clientChannel, midSession, pc, chan, stream, loginMid, stopping, clientConnected>>
        /\ ackSeen \subseteq ackSeen'
        /\ \/ clientState' = clientState
           \/ id = "local" /\ clientState = "AwaitReady" /\ clientState' = "Play"
    BY <1>8 DEF ClientPacket, Owns, bVars, ConsumesAck
  <2>2. CASE clientState' = clientState
    BY <1>1, <1>2, <2>1, <2>2 DEF LoginHistory, OccupantHistory, ControlAfterAck, ControlOpensGate,
       SlotAgreesWithState, Shape
  <2>3. CASE id = "local" /\ clientState = "AwaitReady" /\ clientState' = "Play"
    <3>1. HasSnapshot(c) /\ loginMid[c]
      BY <1>1, <2>1, <2>3 DEF OccupantHistory
    <3>2. c \in ackSeen'
      BY <1>8, <2>3, <3>1 DEF ClientPacket
    <3> QED
      BY <1>1, <1>2, <2>1, <2>3, <3>1, <3>2 DEF LoginHistory, OccupantHistory, ControlAfterAck,
         ControlOpensGate
  <2> QED
    BY <2>1, <2>2, <2>3
<1> QED
  BY <1>3, <1>4, <1>5, <1>6, <1>7, <1>8 DEF CloseStep

LEMMA HistoryInvInductive == HistoryInv /\ [Next]_vars => HistoryInv'
<1> SUFFICES ASSUME HistoryInv, [Next]_vars PROVE HistoryInv'
  OBVIOUS
<1>1. TypedInv'
  BY TypedInvInductive DEF HistoryInv
<1>2. LoginHistory' /\ OccupantHistory' /\ ControlAfterAck' /\ ControlOpensGate'
  <2>1. CASE Elsewhere
    BY <2>1, ElsewhereHistory
  <2>2. CASE SetMidSession \/ CheckLoginTimeout \/ RelayRead \/ RelayForward
    BY <2>2, SharedStepHistory
  <2>3. CASE \E c \in Channels : LoginStep(c)
    BY <2>3, LoginStepHistory
  <2>4. ASSUME NEW c \in Channels, CloseStep(c) \/ PeerStep(c), ~Elsewhere
        PROVE  LoginHistory' /\ OccupantHistory' /\ ControlAfterAck' /\ ControlOpensGate'
    BY <2>4, PeerStepHistory DEF PeerStep, Elsewhere
  <2>5. CASE UNCHANGED vars
    <3>1. UNCHANGED historyState
      BY <2>5 DEF vars, serverVars, bVars, historyVars, historyState, slotState
    <3> QED
      BY <3>1, SameHistory DEF historyState, slotState, HistoryInv, LoginHistory
  <2> QED
    BY <2>1, <2>2, <2>3, <2>4, <2>5 DEF Next, ControllerStep, Elsewhere
<1> QED
  BY <1>1, <1>2 DEF HistoryInv

LEMMA HistoryInvHolds == Spec => []HistoryInv
<1>1. Init => HistoryInv
  BY InitSlotInv, InitFull, InitTyped, InitHistory DEF HistoryInv, TypedInv, FullInv
<1> QED
  BY <1>1, HistoryInvInductive, PTL DEF Spec

\* A B that joined a running game takes control only by acknowledging the local
\* teleport of a snapshot it was sent, for any number of B channels and any
\* bounds (forwarding.cpp:372-386, login.cpp:283-333).
THEOREM ControlNeedsAck == Spec => []ControlAfterAck
<1>1. HistoryInv => ControlAfterAck
  BY DEF HistoryInv
<1> QED
  BY <1>1, HistoryInvHolds, PTL

\* A's render thread is not left in the gate behind a B that has control
\* (login.cpp:366-371, transport.cpp:180-183).
THEOREM ControlLeavesGateOpen == Spec => []ControlOpensGate
<1>1. HistoryInv => ControlOpensGate
  BY DEF HistoryInv
<1> QED
  BY <1>1, HistoryInvHolds, PTL

-----------------------------------------------------------------------------
\* What the snapshot job of a login has to do with the login and its stream.
SynchedStates == {"Syncing", "AwaitReady", "Play"}

Jobs ==
  \A c \in Channels :
    /\ job[c] \in {"queued", "running"} => pc[c] = "waiting"
    /\ pc[c] = "write" => job[c] = "done"
    /\ HasSnapshot(c) => job[c] = "done"
    /\ protocol[c] # "PLAY" \/ pc[c] \in {"hello", "login", "begin", "enqueue"} => job[c] = "none"
    /\ pc[c] \in {"hello", "login"} => protocol[c] = "LOGIN"
    /\ stream[c] # <<>> =>
         protocol[c] = "PLAY" /\ pc[c] \notin {"begin", "enqueue", "waiting", "write"}
    /\ boundary[c] # NotYet =>
         /\ loginMid[c] /\ protocol[c] = "PLAY"
         /\ clientChannel = c => clientState \in SynchedStates
    /\ renderJob.step # "idle" /\ renderJob.channel = c => job[c] \in {"running", "cancelled"}
    /\ clientChannel = c /\ clientState \in SynchedStates => protocol[c] = "PLAY"

Snap(s) == \E i \in DOMAIN s : s[i][1] = "snapshot"

LEMMA SnapConcat ==
  ASSUME NEW s \in Seq(Items), NEW t \in Seq(Items)
  PROVE  Snap(s \o t) <=> Snap(s) \/ Snap(t)
<1>1. Len(s) \in Nat /\ Len(t) \in Nat /\ DOMAIN s = 1..Len(s) /\ DOMAIN t = 1..Len(t)
  BY LenProperties
<1>2. /\ DOMAIN (s \o t) = 1..Len(s) + Len(t)
      /\ \A i \in 1..Len(s) + Len(t) : (s \o t)[i] = IF i <= Len(s) THEN s[i] ELSE t[i - Len(s)]
  BY <1>1, ConcatProperties, LenProperties
<1>3. ASSUME NEW i \in DOMAIN (s \o t), (s \o t)[i][1] = "snapshot"
      PROVE  Snap(s) \/ Snap(t)
  <2>1. i \in 1..Len(s) \/ i - Len(s) \in 1..Len(t)
    BY <1>1, <1>2
  <2> QED
    BY <1>1, <1>2, <1>3, <2>1 DEF Snap
<1>4. ASSUME NEW i \in DOMAIN s, s[i][1] = "snapshot"
      PROVE  Snap(s \o t)
  <2>1. i \in 1..Len(s) + Len(t) /\ i <= Len(s)
    BY <1>1
  <2> QED
    BY <1>2, <1>4, <2>1 DEF Snap
<1>5. ASSUME NEW i \in DOMAIN t, t[i][1] = "snapshot"
      PROVE  Snap(s \o t)
  <2>1. i + Len(s) \in 1..Len(s) + Len(t) /\ ~(i + Len(s) <= Len(s)) /\ i + Len(s) - Len(s) = i
    BY <1>1
  <2>2. (s \o t)[i + Len(s)] = t[i]
    BY <1>2, <2>1
  <2> QED
    BY <1>2, <1>5, <2>1, <2>2 DEF Snap
<1> QED
  BY <1>3, <1>4, <1>5 DEF Snap

LEMMA SnapLive ==
  ASSUME NEW numbers
  PROVE  ~Snap(Live(numbers))
BY DEF Snap, Live

\* What one step writes to the stream of c.
LEMMA StreamOf ==
  ASSUME TypedInv, [Next]_vars, NEW c \in Channels
  PROVE  \/ stream'[c] = stream[c]
         \/ /\ RelayForward /\ clientChannel = c /\ clientState \in {"AwaitReady", "Play"}
            /\ stream'[c] = stream[c] \o Live(<<sent>>)
         \/ WriteSnapshot(c) /\ stream'[c] = stream[c] \o <<<<"snapshot", snapshot[c]>>>>
         \/ FinishSync(c) /\ \E n \in 0..Len(pendingPackets) :
              stream'[c] = stream[c] \o Live(SubSeq(pendingPackets, 1, n))
<1>1. stream \in [Channels -> Seq(Items)]
  BY DEF TypedInv, Typed, Streams
<1>2. ASSUME NEW d, NEW items, stream' = Written(d, items)
      PROVE  stream'[c] = stream[c] \/ (d = c /\ stream'[c] = stream[c] \o items)
  BY <1>1, <1>2 DEF Written
<1>3. CASE RelayForward /\ clientState \in {"AwaitReady", "Play"}
           /\ stream' = Written(clientChannel, Live(<<sent>>))
  BY <1>2, <1>3
<1>4. ASSUME NEW d \in Channels, WriteSnapshot(d), stream' = Written(d, <<<<"snapshot", snapshot[d]>>>>)
      PROVE  \/ stream'[c] = stream[c]
             \/ WriteSnapshot(c) /\ stream'[c] = stream[c] \o <<<<"snapshot", snapshot[c]>>>>
  BY <1>2, <1>4
<1>5. ASSUME NEW d \in Channels, FinishSync(d), NEW n \in 0..Len(pendingPackets),
             stream' = Written(d, Live(SubSeq(pendingPackets, 1, n)))
      PROVE  \/ stream'[c] = stream[c]
             \/ FinishSync(c) /\ \E k \in 0..Len(pendingPackets) :
                  stream'[c] = stream[c] \o Live(SubSeq(pendingPackets, 1, k))
  BY <1>2, <1>5
<1> QED
  BY <1>3, <1>4, <1>5, StreamStep

\* Only WriteSnapshot puts a snapshot into a stream.
LEMMA SnapshotOrigin ==
  ASSUME TypedInv, [Next]_vars, NEW c \in Channels, HasSnapshot(c)'
  PROVE  HasSnapshot(c) \/ WriteSnapshot(c)
<1>1. stream[c] \in Seq(Items) /\ Snap(stream'[c])
  BY DEF TypedInv, Typed, Streams, Snap, HasSnapshot
<1>2. SUFFICES ASSUME ~WriteSnapshot(c) PROVE Snap(stream[c])
  BY DEF Snap, HasSnapshot
<1>3. CASE stream'[c] = stream[c]
  BY <1>1, <1>3
<1>4. CASE RelayForward /\ stream'[c] = stream[c] \o Live(<<sent>>)
  BY <1>1, <1>4, SentTyped, LiveTyped, SnapConcat, SnapLive
<1>5. ASSUME NEW n \in 0..Len(pendingPackets),
             stream'[c] = stream[c] \o Live(SubSeq(pendingPackets, 1, n))
      PROVE  Snap(stream[c])
  <2>1. Live(SubSeq(pendingPackets, 1, n)) \in Seq(Items)
    BY BufferedTyped, LiveTyped
  <2>2. ~Snap(Live(SubSeq(pendingPackets, 1, n)))
    BY SnapLive
  <2> QED
    BY <1>1, <1>5, <2>1, <2>2, SnapConcat
<1> QED
  BY <1>2, <1>3, <1>4, <1>5, StreamOf

JobsInv == HistoryInv /\ Jobs

\* The state Jobs speaks of, but for the streams.
jobsState == <<job, pc, protocol, boundary, loginMid, renderJob, clientChannel, clientState>>

LEMMA InitJobs == Init => Jobs
<1> SUFFICES ASSUME Init, NEW c \in Channels
             PROVE  /\ job[c] = "none" /\ pc[c] = "idle" /\ boundary[c] = NotYet
                    /\ stream[c] = <<>> /\ renderJob.step = "idle" /\ clientState = "AwaitHandshake"
  BY DEF Jobs, HasSnapshot, SynchedStates
<1> QED
  BY DEF Init, NoJob

\* A step that writes no snapshot leaves what a stream says to what it was, and
\* the stream of a login that has none empty.
LEMMA StreamsOfJobs ==
  ASSUME JobsInv, [Next]_vars, NEW c \in Channels, ~WriteSnapshot(c)
  PROVE  /\ HasSnapshot(c)' => HasSnapshot(c)
         /\ stream'[c] # <<>> =>
              protocol[c] = "PLAY" /\ pc[c] \notin {"begin", "enqueue", "waiting", "write"}
<1>1. HasSnapshot(c)' => HasSnapshot(c)
  BY SnapshotOrigin DEF JobsInv, HistoryInv
<1>2. CASE stream'[c] = stream[c]
  BY <1>1, <1>2 DEF JobsInv, Jobs
<1>3. CASE clientChannel = c /\ clientState \in {"AwaitReady", "Play"}
  BY <1>1, <1>3 DEF JobsInv, Jobs, SynchedStates, HistoryInv, TypedInv, FullInv, SlotInv, LoginOrder
<1>4. CASE FinishSync(c)
  <2>1. pc[c] = "finish"
    BY <1>4 DEF FinishSync
  <2> QED
    BY <1>1, <2>1 DEF JobsInv, HistoryInv, TypedInv, FullInv, SlotInv, LoginOrder
<1> QED
  BY <1>2, <1>3, <1>4, StreamOf DEF JobsInv, HistoryInv

LEMMA SameJobs ==
  ASSUME JobsInv, [Next]_vars, UNCHANGED jobsState,
         \A c \in Channels : ~WriteSnapshot(c)
  PROVE  Jobs'
BY StreamsOfJobs DEF JobsInv, Jobs, jobsState

LEMMA RenderStepJobs ==
  ASSUME JobsInv, [Next]_vars, RenderStep
  PROVE  Jobs'
<1>1. /\ UNCHANGED <<pc, protocol, stream, loginMid, clientChannel, clientState>>
      /\ \A c \in Channels : HasSnapshot(c)' <=> HasSnapshot(c)
  BY DEF RenderStep, RenderDelta, RenderGate, RunSnapshot, BeginSnapshot, CaptureNow, bVars, historyVars,
     serverVars, HasSnapshot
<1>2. /\ Jobs /\ Queued
      /\ job \in [Channels -> {"none", "queued", "running", "done", "failed", "cancelled"}]
      /\ boundary \in [Channels -> NotYet..MaxDeltas]
  BY DEF JobsInv, HistoryInv, TypedInv, Typed, PerJob
<1>3. CASE RenderDelta \/ RenderGate
  BY <1>1, <1>2, <1>3 DEF RenderDelta, RenderGate, Jobs, jobVars, historyVars
<1>4. CASE RunSnapshot
  <2>1. /\ renderJob.step = "idle" /\ UNCHANGED boundary
        /\ \/ UNCHANGED <<job, renderJob>>
           \/ LET c == Head(renderQueue).channel
              IN /\ job[c] = "queued" /\ job' = [job EXCEPT ![c] = "running"]
                 /\ renderJob' = [step |-> "boundary", channel |-> c]
    BY <1>4 DEF RunSnapshot, NextTask, RenderIdle, historyVars
  <2> QED
    BY <1>1, <1>2, <2>1 DEF Jobs
<1>5. CASE BeginSnapshot
  <2>1. CASE ~(~stopping /\ handoff = "Capturing")
    <3>1. /\ UNCHANGED boundary /\ renderJob' = NoJob
          /\ job' = [job EXCEPT ![renderJob.channel] = IF @ = "running" THEN "failed" ELSE @]
          /\ renderJob.step = "boundary"
      BY <1>5, <2>1 DEF BeginSnapshot, JobEnds
    <3> QED
      BY <1>1, <1>2, <3>1 DEF Jobs, NoJob
  <2>2. CASE ~stopping /\ handoff = "Capturing"
    <3>1. /\ UNCHANGED job /\ renderJob.step = "boundary" /\ renderJob'.channel = renderJob.channel
          /\ boundary' = [boundary EXCEPT ![clientChannel] = sent] /\ dispatch = Free
      BY <1>2, <1>5, <2>2 DEF BeginSnapshot, DispatchFree, Queued
    <3>2. clientState \in SynchedStates
      BY <2>2, <3>1, HoldersDiffer
         DEF JobsInv, HistoryInv, TypedInv, FullInv, SlotInv, HandoffOwned, SynchedStates
    <3>3. loginMid[clientChannel] /\ protocol[clientChannel] = "PLAY"
      <4>1. clientChannel \in Channels
        BY <3>2 DEF JobsInv, HistoryInv, TypedInv, FullInv, SlotInv, SlotAgreesWithState, Shape, SynchedStates
      <4>2. clientState # "Play"
        BY <2>2 DEF JobsInv, HistoryInv, TypedInv, FullInv, FailureIsFinal
      <4> QED
        BY <1>2, <3>2, <4>1, <4>2 DEF Jobs, JobsInv, HistoryInv, OccupantHistory, SynchedStates
    <3>4. \A c \in Channels : boundary'[c] # NotYet => boundary[c] # NotYet \/ c = clientChannel
      BY <1>2, <3>1
    <3> QED
      BY <1>1, <1>2, <3>1, <3>2, <3>3, <3>4 DEF Jobs
  <2> QED
    BY <2>1, <2>2
<1>6. CASE CaptureNow
  <2>1. /\ UNCHANGED boundary /\ renderJob' = NoJob /\ renderJob.step = "capture"
        /\ \/ job' = [job EXCEPT ![renderJob.channel] = IF @ = "running" THEN "done" ELSE @]
           \/ job' = [job EXCEPT ![renderJob.channel] = IF @ = "running" THEN "failed" ELSE @]
    BY <1>6 DEF CaptureNow, JobEnds, historyVars
  <2> QED
    BY <1>1, <1>2, <2>1 DEF Jobs, NoJob
<1> QED
  BY <1>3, <1>4, <1>5, <1>6 DEF RenderStep

LEMMA LoginStepJobs ==
  ASSUME JobsInv, [Next]_vars, NEW c \in Channels, LoginStep(c)
  PROVE  Jobs'
<1>1. /\ Jobs /\ LoginOrder /\ UNCHANGED <<boundary, renderJob>>
      /\ pc \in [Channels -> {"idle"} \cup LoginSteps]
      /\ protocol \in [Channels -> {"HANDSHAKING", "STATUS", "LOGIN", "PLAY"}]
      /\ job \in [Channels -> {"none", "queued", "running", "done", "failed", "cancelled"}]
      /\ loginMid \in [Channels -> BOOLEAN]
  BY DEF JobsInv, Jobs, HistoryInv, TypedInv, FullInv, SlotInv, Shape, Typed, PerJob, LoginStep, CheckOwner,
     CompleteLogin, BeginSync, BeginSyncFails, EnqueueSnapshot, CaptureReturns, WriteSnapshot, SendSelfInfo,
     FinishSync, EnterPlay, ReleaseGate, historyVars, renderVars
<1>2. \A d \in Channels : ~WriteSnapshot(d) =>
        /\ HasSnapshot(d)' => HasSnapshot(d)
        /\ stream'[d] # <<>> =>
             protocol[d] = "PLAY" /\ pc[d] \notin {"begin", "enqueue", "waiting", "write"}
  BY StreamsOfJobs
<1>3. CASE CheckOwner(c)
  <2>1. /\ pc[c] = "hello" /\ \E step \in {"login", "idle"} : pc' = [pc EXCEPT ![c] = step]
        /\ UNCHANGED <<job, protocol, loginMid, clientChannel, clientState, stream>>
    BY <1>3 DEF CheckOwner, Goto, jobVars, historyVars, serverVars
  <2>2. \A d \in Channels : HasSnapshot(d)' <=> HasSnapshot(d)
    BY <2>1 DEF HasSnapshot
  <2> QED
    BY <1>1, <2>1, <2>2 DEF Jobs
<1>4. CASE CompleteLogin(c)
  <2>1. /\ pc[c] = "login" /\ \E step \in {"begin", "selfInfo"} : pc' = [pc EXCEPT ![c] = step]
        /\ protocol' = [protocol EXCEPT ![c] = "PLAY"]
        /\ \A d \in Channels \ {c} : loginMid'[d] = loginMid[d]
        /\ UNCHANGED <<job, clientChannel, clientState, stream>>
    BY <1>1, <1>4 DEF CompleteLogin, Goto, jobVars, serverVars
  <2>2. \A d \in Channels : HasSnapshot(d)' <=> HasSnapshot(d)
    BY <2>1 DEF HasSnapshot
  <2>3. protocol[c] = "LOGIN" /\ boundary[c] = NotYet /\ job[c] = "none" /\ stream[c] = <<>>
    BY <1>1, <2>1 DEF Jobs
  <2> QED
    BY <1>1, <2>1, <2>2, <2>3 DEF Jobs
<1>5. CASE BeginSync(c)
  <2>1. /\ pc[c] = "begin" /\ pc' = [pc EXCEPT ![c] = "enqueue"] /\ clientState' = "Syncing"
        /\ UNCHANGED <<job, protocol, loginMid, clientChannel, stream>>
    BY <1>5 DEF BeginSync, Goto, historyVars
  <2>2. \A d \in Channels : HasSnapshot(d)' <=> HasSnapshot(d)
    BY <2>1 DEF HasSnapshot
  <2>3. clientChannel = c /\ protocol[c] = "PLAY" /\ stream[c] = <<>>
    BY <1>1, <2>1 DEF Jobs, LoginOrder
  <2> QED
    BY <1>1, <2>1, <2>2, <2>3 DEF Jobs, SynchedStates
<1>6. CASE BeginSyncFails(c) \/ EnqueueSnapshot(c) \/ CaptureReturns(c)
  <2>1. /\ pc[c] \in {"begin", "enqueue", "waiting"}
        /\ UNCHANGED <<protocol, loginMid, clientChannel, clientState, stream>>
        /\ \/ pc' = [pc EXCEPT ![c] = "idle"] /\ job' = job /\ job[c] \notin {"queued", "running"}
           \/ pc' = [pc EXCEPT ![c] = "idle"] /\ job' = [job EXCEPT ![c] = "cancelled"] /\ pc[c] = "waiting"
              /\ job[c] \in {"queued", "running"}
           \/ pc' = [pc EXCEPT ![c] = "waiting"] /\ job' = [job EXCEPT ![c] = "queued"] /\ job[c] = "none"
           \/ pc' = [pc EXCEPT ![c] = "write"] /\ job' = job /\ job[c] = "done"
    BY <1>1, <1>6 DEF BeginSyncFails, EnqueueSnapshot, CaptureReturns, SyncFails, Goto, jobVars, serverVars,
       Jobs
  <2>2. \A d \in Channels : HasSnapshot(d)' <=> HasSnapshot(d)
    BY <2>1 DEF HasSnapshot
  <2>3. stream[c] = <<>> /\ ~HasSnapshot(c) /\ protocol[c] = "PLAY"
    BY <1>1, <2>1 DEF Jobs, LoginOrder, HasSnapshot
  <2>4. \A d \in Channels \ {c} : pc'[d] = pc[d] /\ job'[d] = job[d]
    BY <1>1, <2>1
  <2> QED
    BY <1>1, <2>1, <2>2, <2>3, <2>4 DEF Jobs
<1>7. CASE WriteSnapshot(c)
  <2>1. /\ pc[c] = "write" /\ \E step \in {"selfInfo", "idle"} : pc' = [pc EXCEPT ![c] = step]
        /\ UNCHANGED <<job, protocol, loginMid, clientChannel, clientState>>
    BY <1>7 DEF WriteSnapshot, SyncFails, Goto, jobVars
  <2>2. \A d \in Channels \ {c} : ~WriteSnapshot(d)
    BY <1>1, <2>1 DEF WriteSnapshot, LoginOrder
  <2>3. job[c] = "done" /\ protocol[c] = "PLAY"
    BY <1>1, <2>1 DEF Jobs, LoginOrder
  <2> QED
    BY <1>1, <1>2, <2>1, <2>2, <2>3 DEF Jobs
<1>8. CASE SendSelfInfo(c) \/ EnterPlay(c) \/ ReleaseGate(c)
  <2>1. /\ pc[c] \in {"selfInfo", "play", "release"}
        /\ \E step \in {"finish", "play", "release", "idle"} : pc' = [pc EXCEPT ![c] = step]
        /\ UNCHANGED <<job, protocol, loginMid, clientChannel, stream>>
        /\ clientState' \in {clientState, "Play"}
    BY <1>8 DEF SendSelfInfo, EnterPlay, ReleaseGate, Goto, jobVars, historyVars, serverVars
  <2>2. \A d \in Channels : HasSnapshot(d)' <=> HasSnapshot(d)
    BY <2>1 DEF HasSnapshot
  <2>3. protocol[c] = "PLAY" /\ clientChannel = c
    BY <1>1, <2>1 DEF LoginOrder
  <2> QED
    BY <1>1, <2>1, <2>2, <2>3 DEF Jobs, SynchedStates
<1>9. CASE FinishSync(c)
  <2>1. /\ pc[c] = "finish" /\ pc' = [pc EXCEPT ![c] = "idle"]
        /\ UNCHANGED <<job, protocol, loginMid, clientChannel>>
        /\ clientState' \in {clientState, "AwaitReady"}
    BY <1>9 DEF FinishSync, Goto, jobVars
  <2>2. protocol[c] = "PLAY" /\ clientChannel = c
    BY <1>1, <2>1 DEF LoginOrder
  <2>3. \A d \in Channels : ~WriteSnapshot(d)
    BY <1>1, <2>1, <2>2 DEF WriteSnapshot, LoginOrder
  <2> QED
    BY <1>1, <1>2, <2>1, <2>2, <2>3 DEF Jobs, SynchedStates
<1> QED
  BY <1>3, <1>4, <1>5, <1>6, <1>7, <1>8, <1>9 DEF LoginStep

LEMMA PeerStepJobs ==
  ASSUME JobsInv, [Next]_vars, NEW c \in Channels, CloseStep(c) \/ PeerStep(c)
  PROVE  Jobs'
<1>1. /\ Jobs /\ LoginOrder /\ SlotAgreesWithState
      /\ UNCHANGED <<job, boundary, loginMid, renderJob, stream>>
      /\ \A d \in Channels : HasSnapshot(d)' <=> HasSnapshot(d)
      /\ pc \in [Channels -> {"idle"} \cup LoginSteps]
      /\ protocol \in [Channels -> {"HANDSHAKING", "STATUS", "LOGIN", "PLAY"}]
  BY DEF JobsInv, HistoryInv, TypedInv, FullInv, SlotInv, Shape, CloseStep, PeerStep, Accept, PeerCloses,
     StatusIntention, StatusQueryFails, LoginIntention, ReadHello, ClientPacket, ChannelInactive, ReleaseSlot,
     jobVars, historyVars, renderVars, bVars, HasSnapshot
<1>2. CASE \/ ReleaseSlot(c) \/ Accept(c) \/ PeerCloses(c) \/ StatusQueryFails(c)
  BY <1>1, <1>2 DEF ReleaseSlot, Accept, PeerCloses, StatusQueryFails, Jobs, bVars, serverVars
<1>3. CASE StatusIntention(c)
  <2>1. /\ protocol[c] = "HANDSHAKING" /\ protocol' = [protocol EXCEPT ![c] = "STATUS"]
        /\ UNCHANGED <<pc, clientChannel, clientState>>
    BY <1>3 DEF StatusIntention, serverVars
  <2> QED
    BY <1>1, <2>1 DEF Jobs
<1>4. CASE LoginIntention(c)
  <2>1. /\ protocol[c] = "HANDSHAKING" /\ protocol' = [protocol EXCEPT ![c] = "LOGIN"]
        /\ UNCHANGED pc
        /\ \/ UNCHANGED <<clientChannel, clientState>> /\ clientChannel # c
           \/ clientChannel' = c /\ clientState' = "AwaitLogin"
    BY <1>1, <1>4 DEF LoginIntention, LoginOrder
  <2> QED
    BY <1>1, <2>1 DEF Jobs, SynchedStates
<1>5. CASE ReadHello(c)
  <2>1. /\ protocol[c] = "LOGIN" /\ pc' = [pc EXCEPT ![c] = "hello"] /\ pc[c] = "idle"
        /\ UNCHANGED <<protocol, clientChannel, clientState>>
    BY <1>5 DEF ReadHello, Readable, LoopIdle, Goto, serverVars
  <2> QED
    BY <1>1, <2>1 DEF Jobs
<1>6. CASE ChannelInactive(c)
  <2>1. /\ UNCHANGED <<pc, protocol>>
        /\ \/ UNCHANGED <<clientChannel, clientState>>
           \/ clientChannel' = NoChannel /\ clientState' = "AwaitHandshake"
    BY <1>6 DEF ChannelInactive
  <2> QED
    BY <1>1, <2>1, NoChannelIsNone DEF Jobs
<1>7. ASSUME NEW id \in TeleportIds, ClientPacket(c, id)
      PROVE  Jobs'
  <2>1. /\ UNCHANGED <<pc, protocol, clientChannel>> /\ clientChannel = c /\ protocol[c] = "PLAY"
        /\ clientState' \in {clientState, "Play"}
    BY <1>7 DEF ClientPacket, Owns, bVars
  <2> QED
    BY <1>1, <2>1 DEF Jobs, SynchedStates
<1> QED
  BY <1>2, <1>3, <1>4, <1>5, <1>6, <1>7 DEF CloseStep, PeerStep

LEMMA JobsInvInductive == JobsInv /\ [Next]_vars => JobsInv'
<1> SUFFICES ASSUME JobsInv, [Next]_vars PROVE JobsInv'
  OBVIOUS
<1>1. CASE RenderStep
  BY <1>1, RenderStepJobs, HistoryInvInductive DEF JobsInv
<1>2. CASE \E c \in Channels : LoginStep(c)
  BY <1>2, LoginStepJobs, HistoryInvInductive DEF JobsInv
<1>3. CASE \E c \in Channels : CloseStep(c) \/ PeerStep(c)
  BY <1>3, PeerStepJobs, HistoryInvInductive DEF JobsInv
<1>4. CASE /\ \/ CaptureLive \/ SetMidSession \/ CaptureNone \/ QueueGate \/ CheckLoginTimeout \/ RequestStop
              \/ AConnects \/ ADisconnects \/ RelayRead \/ RelayForward \/ UNCHANGED vars
           /\ ~RenderStep
           /\ \A c \in Channels : ~LoginStep(c)
  <2>1. UNCHANGED jobsState
    BY <1>4 DEF jobsState, CaptureLive, SetMidSession, CaptureNone, QueueGate, CheckLoginTimeout, RequestStop,
       AConnects, ADisconnects, RelayRead, RelayForward, vars, serverVars, jobVars, historyVars, renderVars,
       bVars
  <2> QED
    BY <1>4, <2>1, SameJobs, HistoryInvInductive DEF JobsInv, LoginStep
<1> QED
  BY <1>1, <1>2, <1>3, <1>4 DEF Next, ControllerStep

-----------------------------------------------------------------------------
\* The counters of A's two threads.
Worlds ==
  /\ applied <= sent
  /\ \A i \in DOMAIN renderQueue : renderQueue[i].kind = "delta" => renderQueue[i].number <= sent
  /\ connection <= connections /\ targetConnection <= connections
  /\ \A c \in Channels :
       /\ jobConnection[c] <= connections
       /\ pc[c] \in {"enqueue", "waiting"} => jobConnection[c] # 0
       /\ snapshot[c] <= sent
       /\ boundary[c] <= Upto

WorldsInv == JobsInv /\ Worlds

LEMMA InitWorlds == Init => Worlds
<1> SUFFICES ASSUME Init PROVE Worlds
  OBVIOUS
<1>1. /\ applied = sent /\ sent \in Nat /\ renderQueue = <<>> /\ connection = connections
      /\ connections \in Nat /\ targetConnection = 0
      /\ \A c \in Channels : jobConnection[c] = 0 /\ pc[c] = "idle" /\ snapshot[c] = 0 /\ boundary[c] = -1
  BY DEF Init, NotYet
<1>2. Upto = sent
  BY DEF Init, Upto, Free, ANetty
<1> QED
  BY <1>1, <1>2 DEF Worlds

LEMMA WorldTypes ==
  ASSUME TypedInv
  PROVE  /\ sent \in Nat /\ applied \in Nat /\ connection \in Nat /\ connections \in Nat
         /\ targetConnection \in Nat /\ Upto \in Nat /\ Upto <= sent
         /\ jobConnection \in [Channels -> Nat] /\ snapshot \in [Channels -> Nat]
         /\ boundary \in [Channels -> Int]
<1>1. /\ sent \in Nat /\ applied \in Nat /\ connection \in Nat /\ connections \in Nat
      /\ targetConnection \in Nat /\ (dispatch = ANetty => sent >= 1)
  BY SessionBoundsAreNat DEF TypedInv, Typed, Numbers, Counted
<1>2. jobConnection \in [Channels -> Nat] /\ snapshot \in [Channels -> Nat] /\ boundary \in [Channels -> Int]
  BY SessionBoundsAreNat DEF TypedInv, Typed, PerJob, NotYet
<1> QED
  BY <1>1, <1>2 DEF Upto

LEMMA WorldTypesNext ==
  ASSUME TypedInv'
  PROVE  /\ sent' \in Nat /\ connections' \in Nat /\ connection' \in Nat /\ Upto' \in Nat
         /\ snapshot' \in [Channels -> Nat] /\ boundary' \in [Channels -> Int]
<1>1. /\ sent' \in Nat /\ connection' \in Nat /\ connections' \in Nat
      /\ (dispatch' = ANetty => sent' >= 1)
  BY SessionBoundsAreNat DEF TypedInv, Typed, Numbers, Counted
<1>2. snapshot' \in [Channels -> Nat] /\ boundary' \in [Channels -> Int]
  BY SessionBoundsAreNat DEF TypedInv, Typed, PerJob, NotYet
<1>3. CASE dispatch' = ANetty
  <2>1. Upto' = sent' - 1
    BY <1>3 DEF Upto
  <2>2. sent' \in Nat /\ sent' >= 1
    BY <1>1, <1>3
  <2>3. \A n \in Nat : n >= 1 => n - 1 \in Nat
    OBVIOUS
  <2>4. sent' - 1 \in Nat
    BY <2>2, <2>3, Zenon
  <2> QED
    BY <1>1, <1>2, <2>1, <2>4
<1>4. CASE dispatch' # ANetty
  <2>1. Upto' = sent'
    BY <1>4 DEF Upto
  <2> QED
    BY <1>1, <1>2, <2>1
<1> QED
  BY <1>3, <1>4

\* Nothing is unsent, and A's Netty thread takes the lock with a new delta.
LEMMA Progress ==
  ASSUME TypedInv, [Next]_vars
  PROVE  /\ sent' >= sent /\ connections' >= connections /\ Upto' >= Upto
         /\ dispatch # ANetty /\ dispatch' = ANetty => sent' = sent + 1
<1> USE WorldTypes
<1> DEFINE Goal == /\ sent' >= sent /\ connections' >= connections /\ Upto' >= Upto
                   /\ dispatch # ANetty /\ dispatch' = ANetty => sent' = sent + 1
<1>1. CASE UNCHANGED <<sent, connections, dispatch>>
  BY <1>1 DEF Upto
<1>2. CASE AConnects
  BY <1>2 DEF AConnects, Upto
<1>3. CASE RelayRead
  BY <1>3 DEF RelayRead, Upto
<1>4. CASE RelayForward
  <2>1. dispatch' # ANetty /\ UNCHANGED <<sent, connections>>
    BY <1>4 DEF RelayForward, Free, ANetty, aVars
  <2> QED
    BY <2>1 DEF Upto
<1>5. ASSUME NEW c \in Channels, ChannelInactive(c) \/ ReleaseSlot(c)
      PROVE  Goal
  <2>1. UNCHANGED <<sent, connections>> /\ (UNCHANGED dispatch \/ (dispatch # ANetty /\ dispatch' # ANetty))
    BY <1>5, HoldersDiffer DEF ChannelInactive, ReleaseSlot, DispatchFree, Free, ANetty, aVars
  <2> QED
    BY <2>1 DEF Upto
<1>6. CASE \/ CaptureLive \/ SetMidSession \/ CaptureNone \/ QueueGate \/ CheckLoginTimeout \/ RequestStop
           \/ ADisconnects \/ RenderStep
  BY <1>1, <1>6 DEF CaptureLive, SetMidSession, CaptureNone, QueueGate, CheckLoginTimeout, RequestStop,
     ADisconnects, RenderStep, RenderDelta, RenderGate, RunSnapshot, BeginSnapshot, CaptureNow, aVars
<1>7. ASSUME NEW c \in Channels, LoginStep(c) \/ PeerStep(c)
      PROVE  Goal
  BY <1>1, <1>7 DEF LoginStep, PeerStep, CheckOwner, CompleteLogin, BeginSync,
     BeginSyncFails, EnqueueSnapshot, CaptureReturns, WriteSnapshot, SendSelfInfo, FinishSync,
     EnterPlay, ReleaseGate, Accept, PeerCloses, StatusIntention, StatusQueryFails,
     LoginIntention, ReadHello, ClientPacket, aVars
<1>8. CASE UNCHANGED vars
  BY <1>1, <1>8 DEF vars, aVars
<1> QED
  BY <1>2, <1>3, <1>4, <1>5, <1>6, <1>7, <1>8 DEF Next, ControllerStep, CloseStep

\* The tasks of A's render thread only name deltas that were read.
LEMMA QueueStep ==
  ASSUME [Next]_vars
  PROVE  \/ renderQueue' = renderQueue
         \/ renderQueue # <<>> /\ renderQueue' = Tail(renderQueue)
         \/ renderQueue' = Append(renderQueue, [kind |-> "gate"])
         \/ \E c \in Channels : renderQueue' = Append(renderQueue, [kind |-> "snapshot", channel |-> c])
         \/ /\ RelayRead
            /\ renderQueue' =
                 Append(renderQueue, [kind |-> "delta", number |-> sent', connection |-> connection])
<1>1. CASE QueueGate
  BY <1>1 DEF QueueGate
<1>2. CASE RelayRead
  BY <1>2 DEF RelayRead
<1>3. CASE RenderStep
  BY <1>3 DEF RenderStep, RenderDelta, RenderGate, RunSnapshot, BeginSnapshot, CaptureNow, NextTask, RenderIdle
<1>4. ASSUME NEW c \in Channels, EnqueueSnapshot(c)
      PROVE  \/ renderQueue' = renderQueue
             \/ renderQueue' = Append(renderQueue, [kind |-> "snapshot", channel |-> c])
  BY <1>4 DEF EnqueueSnapshot
<1>5. CASE \/ CaptureLive \/ SetMidSession \/ CaptureNone \/ CheckLoginTimeout \/ RequestStop
           \/ AConnects \/ ADisconnects \/ RelayForward
  BY <1>5 DEF CaptureLive, SetMidSession, CaptureNone, CheckLoginTimeout, RequestStop,
     AConnects, ADisconnects, RelayForward, renderVars
<1>6. ASSUME NEW c \in Channels, LoginStep(c) \/ CloseStep(c) \/ PeerStep(c), ~EnqueueSnapshot(c)
      PROVE  renderQueue' = renderQueue
  BY <1>6 DEF LoginStep, CloseStep, PeerStep, CheckOwner, CompleteLogin, BeginSync,
     BeginSyncFails, CaptureReturns, WriteSnapshot, SendSelfInfo, FinishSync, EnterPlay,
     ReleaseGate, ChannelInactive, ReleaseSlot, Accept, PeerCloses, StatusIntention,
     StatusQueryFails, LoginIntention, ReadHello, ClientPacket, renderVars
<1>7. CASE UNCHANGED vars
  BY <1>7 DEF vars, renderVars
<1> QED
  BY <1>1, <1>2, <1>3, <1>4, <1>5, <1>6, <1>7 DEF Next, ControllerStep

\* What one step does to A's connection and world and to the jobs' copies of them.
Restarted == pendingPackets' = <<>> /\ dispatch' = Free

LEMMA WorldStep ==
  ASSUME TypedInv, [Next]_vars
  PROVE  /\ connection' \in {connection, 0} \/ (AConnects /\ connection' = connections + 1)
         /\ \/ applied' = applied
            \/ applied' = sent /\ AConnects /\ connection' = connections + 1
            \/ RenderDelta /\ applied' = Head(renderQueue).number
         /\ targetConnection' \in {targetConnection, connection', 0}
         /\ \/ jobConnection' = jobConnection
            \/ Restarted /\ \E c \in Channels :
                 BeginSync(c) /\ jobConnection' = [jobConnection EXCEPT ![c] = targetConnection]
         /\ \/ boundary' = boundary
            \/ dispatch = Free /\ boundary' = [boundary EXCEPT ![clientChannel] = sent]
         /\ \/ snapshot' = snapshot
            \/ CaptureNow /\ snapshot' = [snapshot EXCEPT ![renderJob.channel] = applied]
<1> DEFINE Same == UNCHANGED <<connection, applied, targetConnection, jobConnection, boundary, snapshot>>
<1>1. CASE CaptureLive \/ AConnects \/ ADisconnects
  BY <1>1 DEF CaptureLive, AConnects, ADisconnects, jobVars, historyVars, serverVars
<1>2. CASE RenderDelta
  BY <1>2 DEF RenderDelta, jobVars, historyVars, serverVars
<1>3. CASE BeginSnapshot
  BY <1>3 DEF BeginSnapshot, JobEnds, DispatchFree, aVars
<1>4. CASE CaptureNow
  BY <1>4 DEF CaptureNow, JobEnds, aVars, serverVars, historyVars
<1>5. ASSUME NEW c \in Channels, BeginSync(c)
      PROVE  /\ UNCHANGED <<connection, applied, targetConnection, boundary, snapshot>> /\ Restarted
             /\ jobConnection' = [jobConnection EXCEPT ![c] = targetConnection]
  BY <1>5 DEF BeginSync, DispatchFree, Restarted, aVars, historyVars
<1>6. ASSUME NEW c \in Channels, ReleaseSlot(c)
      PROVE  /\ UNCHANGED <<applied, jobConnection, boundary, snapshot>>
             /\ connection' \in {connection, 0} /\ targetConnection' \in {targetConnection, 0}
  BY <1>6 DEF ReleaseSlot, jobVars, historyVars
<1>7. CASE \/ SetMidSession \/ CaptureNone \/ QueueGate \/ CheckLoginTimeout \/ RequestStop
           \/ RelayRead \/ RelayForward \/ RenderGate \/ RunSnapshot
  <2>1. Same
    BY <1>7 DEF SetMidSession, CaptureNone, QueueGate, CheckLoginTimeout, RequestStop, RelayRead, RelayForward,
       RenderGate, RunSnapshot, aVars, serverVars, jobVars, historyVars
  <2> QED
    BY <2>1
<1>8. ASSUME NEW c \in Channels, LoginStep(c) \/ CloseStep(c) \/ PeerStep(c), ~BeginSync(c), ~ReleaseSlot(c)
      PROVE  Same
  BY <1>8 DEF LoginStep, CloseStep, PeerStep, CheckOwner, CompleteLogin,
     BeginSyncFails, EnqueueSnapshot, CaptureReturns, WriteSnapshot, SendSelfInfo, FinishSync, EnterPlay,
     ReleaseGate, ChannelInactive, Accept, PeerCloses, StatusIntention,
     StatusQueryFails, LoginIntention, ReadHello, ClientPacket, aVars, serverVars, jobVars, historyVars
<1>9. CASE UNCHANGED vars
  BY <1>9 DEF vars, aVars, serverVars, jobVars, historyVars
<1> QED
  BY <1>1, <1>2, <1>3, <1>4, <1>5, <1>6, <1>7, <1>8, <1>9 DEF Next, ControllerStep, RenderStep

LEMMA QueueWorlds ==
  ASSUME WorldsInv, [Next]_vars
  PROVE  \A i \in DOMAIN renderQueue' : renderQueue'[i].kind = "delta" => renderQueue'[i].number <= sent'
<1>1. renderQueue \in Seq(Tasks) /\ TypedInv
  BY DEF WorldsInv, JobsInv, HistoryInv, TypedInv, Typed, Queued
<1>2. Len(renderQueue) \in Nat /\ DOMAIN renderQueue = 1..Len(renderQueue)
  BY <1>1, LenProperties
<1>3. sent \in Nat /\ sent' \in Nat /\ sent' >= sent /\ TypedInv'
  BY <1>1, Progress, TypedInvInductive, WorldTypes, WorldTypesNext
<1>4. \A i \in DOMAIN renderQueue : renderQueue[i].kind = "delta" =>
        renderQueue[i].number \in Nat /\ renderQueue[i].number <= sent
  <2>1. ASSUME NEW i \in DOMAIN renderQueue, renderQueue[i].kind = "delta"
        PROVE  renderQueue[i].number \in Nat
    <3>1. renderQueue[i] \in Tasks
      BY <1>1, <1>2, <2>1, ElementOfSeq
    <3> QED
      BY <2>1, <3>1, SessionBoundsAreNat DEF Tasks
  <2> QED
    BY <2>1 DEF WorldsInv, Worlds
<1>5. ASSUME NEW task, renderQueue' = Append(renderQueue, task),
             task.kind = "delta" => task.number <= sent'
      PROVE  \A i \in DOMAIN renderQueue' : renderQueue'[i].kind = "delta" => renderQueue'[i].number <= sent'
  <2>1. /\ DOMAIN renderQueue' = 1..Len(renderQueue) + 1
        /\ \A i \in 1..Len(renderQueue) + 1 :
             renderQueue'[i] = IF i = Len(renderQueue) + 1 THEN task ELSE renderQueue[i]
    BY <1>1, <1>2, <1>5
  <2> QED
    BY <1>2, <1>3, <1>4, <1>5, <2>1
<1>6. CASE renderQueue # <<>> /\ renderQueue' = Tail(renderQueue)
  <2>1. /\ DOMAIN renderQueue' = 1..Len(renderQueue) - 1
        /\ \A i \in 1..Len(renderQueue) - 1 : renderQueue'[i] = renderQueue[i + 1]
    BY <1>1, <1>2, <1>6
  <2> QED
    BY <1>2, <1>3, <1>4, <2>1
<1>7. CASE renderQueue' = renderQueue
  BY <1>3, <1>4, <1>7
<1>8. CASE renderQueue' = Append(renderQueue, [kind |-> "gate"])
  BY <1>5, <1>8
<1>9. ASSUME NEW c \in Channels, renderQueue' = Append(renderQueue, [kind |-> "snapshot", channel |-> c])
      PROVE  \A i \in DOMAIN renderQueue' : renderQueue'[i].kind = "delta" => renderQueue'[i].number <= sent'
  BY <1>5, <1>9
<1>10. CASE renderQueue' = Append(renderQueue, [kind |-> "delta", number |-> sent', connection |-> connection])
  BY <1>3, <1>5, <1>10
<1> QED
  BY <1>6, <1>7, <1>8, <1>9, <1>10, QueueStep

LEMMA WorldsKept ==
  ASSUME WorldsInv, [Next]_vars
  PROVE  Worlds'
<1>1. TypedInv /\ TypedInv' /\ Worlds
  BY TypedInvInductive DEF WorldsInv, JobsInv, HistoryInv
<1>2. /\ sent \in Nat /\ applied \in Nat /\ connection \in Nat /\ connections \in Nat
      /\ targetConnection \in Nat /\ Upto \in Nat /\ Upto <= sent
      /\ jobConnection \in [Channels -> Nat] /\ snapshot \in [Channels -> Nat]
      /\ boundary \in [Channels -> Int]
  BY <1>1, WorldTypes
<1>3. /\ sent' \in Nat /\ connections' \in Nat /\ Upto' \in Nat /\ connection' \in Nat
      /\ snapshot' \in [Channels -> Nat] /\ boundary' \in [Channels -> Int]
  BY <1>1, WorldTypesNext
<1>4. sent' >= sent /\ connections' >= connections /\ Upto' >= Upto
  BY <1>1, Progress
<1>5. applied' <= sent'
  <2>1. ASSUME RenderDelta
        PROVE  Head(renderQueue).number \in Nat /\ Head(renderQueue).number <= sent
    <3>1. renderQueue \in Seq(Tasks) /\ renderQueue # <<>> /\ Head(renderQueue).kind = "delta"
      BY <1>1, <2>1 DEF RenderDelta, NextTask, RenderIdle, TypedInv, Typed, Queued
    <3>2. 1 \in DOMAIN renderQueue /\ Head(renderQueue) = renderQueue[1] /\ renderQueue[1] \in Tasks
      BY <3>1
    <3> QED
      BY <1>1, <3>1, <3>2, SessionBoundsAreNat DEF Worlds, Tasks
  <2> QED
    BY <1>1, <1>2, <1>3, <1>4, <2>1, WorldStep DEF Worlds
<1>6. connection' <= connections' /\ targetConnection' <= connections'
  <2>1. AConnects => connections' = connections + 1
    BY DEF AConnects
  <2>2. connection' <= connections'
    BY <1>1, <1>2, <1>3, <1>4, <2>1, WorldStep DEF Worlds
  <2> QED
    BY <1>1, <1>2, <1>3, <1>4, <2>2, WorldStep DEF Worlds
<1>7. ASSUME NEW c \in Channels
      PROVE  jobConnection'[c] <= connections' /\ snapshot'[c] <= sent' /\ boundary'[c] <= Upto'
  <2>1. jobConnection'[c] \in {jobConnection[c], targetConnection}
    BY <1>1, <1>2, WorldStep
  <2>2. snapshot'[c] \in {snapshot[c], applied}
    BY <1>1, <1>2, WorldStep
  <2>3. boundary'[c] = boundary[c] \/ (boundary'[c] = sent /\ Upto = sent)
    BY <1>1, <1>2, WorldStep DEF Upto, Free, ANetty
  <2> QED
    BY <1>1, <1>2, <1>3, <1>4, <2>1, <2>2, <2>3 DEF Worlds
<1>8. ASSUME NEW c \in Channels, pc'[c] \in {"enqueue", "waiting"}
      PROVE  jobConnection'[c] # 0
  <2>1. pc \in [Channels -> {"idle"} \cup LoginSteps]
    BY <1>1 DEF TypedInv, FullInv, SlotInv, Shape
  <2>2. ASSUME NEW d \in Channels, BeginSync(d)
        PROVE  jobConnection'[c] # 0
    BY <1>1, <1>2, <1>8, <2>1, <2>2 DEF BeginSync, Goto, Worlds
  <2>3. ASSUME \A d \in Channels : ~BeginSync(d)
        PROVE  pc[c] \in {"enqueue", "waiting"}
    <3>1. CASE UNCHANGED pc
      BY <1>8, <3>1
    <3>2. ASSUME NEW d \in Channels, LoginStep(d) \/ CloseStep(d) \/ PeerStep(d)
          PROVE  pc[c] \in {"enqueue", "waiting"}
      BY <1>8, <2>1, <2>3, <3>2 DEF LoginStep, CloseStep, PeerStep, CheckOwner, CompleteLogin,
         BeginSyncFails, EnqueueSnapshot, CaptureReturns, WriteSnapshot, SyncFails, SendSelfInfo, FinishSync,
         EnterPlay, ReleaseGate, ChannelInactive, ReleaseSlot, Accept, PeerCloses, StatusIntention,
         StatusQueryFails, LoginIntention, ReadHello, ClientPacket, Goto, bVars
    <3>3. CASE \/ CaptureLive \/ SetMidSession \/ CaptureNone \/ QueueGate \/ CheckLoginTimeout \/ RequestStop
               \/ AConnects \/ ADisconnects \/ RelayRead \/ RelayForward \/ RenderStep \/ UNCHANGED vars
      BY <3>1, <3>3 DEF CaptureLive, SetMidSession, CaptureNone, QueueGate, CheckLoginTimeout, RequestStop,
         AConnects, ADisconnects, RelayRead, RelayForward, RenderStep, RenderDelta, RenderGate, RunSnapshot,
         BeginSnapshot, CaptureNow, vars, bVars
    <3> QED
      BY <3>2, <3>3 DEF Next, ControllerStep
  <2> QED
    BY <1>1, <1>2, <2>2, <2>3, WorldStep DEF Worlds
<1> QED
  BY <1>5, <1>6, <1>7, <1>8, QueueWorlds DEF Worlds

LEMMA WorldsInvInductive == WorldsInv /\ [Next]_vars => WorldsInv'
BY JobsInvInductive, WorldsKept DEF WorldsInv

-----------------------------------------------------------------------------
\* What is still to come is later than what the snapshot has.
Later(n) == \A i \in DOMAIN pendingPackets : pendingPackets[i] > n
InFlightLater(n) == dispatch = ANetty => sent > n

Boundary ==
  \A c \in Channels :
    /\ (/\ renderJob.step = "capture" /\ renderJob.channel = c /\ job[c] = "running"
        /\ handoff = "Capturing" /\ connection = jobConnection[c])
         => Later(applied) /\ InFlightLater(applied)
    /\ clientChannel = c /\ job[c] = "done" /\ handoff = "Capturing"
         => Later(snapshot[c]) /\ InFlightLater(snapshot[c])
    /\ HasSnapshot(c) => InFlightLater(snapshot[c])

BoundaryInv == WorldsInv /\ Boundary /\ NoDuplicateDelta

LEMMA InitBoundary == Init => Boundary /\ NoDuplicateDelta
<1> SUFFICES ASSUME Init PROVE Boundary /\ NoDuplicateDelta
  OBVIOUS
<1>1. /\ handoff = "Idle" /\ \A c \in Channels : stream[c] = <<>>
  BY DEF Init
<1>2. \A c \in Channels : ~HasSnapshot(c)
  BY <1>1 DEF HasSnapshot
<1> QED
  BY <1>1, <1>2 DEF Boundary, NoDuplicateDelta

LEMMA InFlightStays ==
  ASSUME TypedInv, [Next]_vars, NEW n \in Nat, n <= sent, InFlightLater(n)
  PROVE  InFlightLater(n)'
<1>1. sent \in Nat /\ sent' \in Nat
  BY TypedInvInductive, WorldTypes, WorldTypesNext
<1>2. sent' >= sent /\ (dispatch # ANetty /\ dispatch' = ANetty => sent' = sent + 1)
  BY Progress
<1> QED
  BY <1>1, <1>2 DEF InFlightLater

LEMMA LaterStays ==
  ASSUME TypedInv, [Next]_vars, NEW n \in Nat, Later(n), InFlightLater(n)
  PROVE  Later(n)'
<1>1. pendingPackets \in Seq(1..MaxDeltas) /\ Len(pendingPackets) \in Nat
  BY LenProperties DEF TypedInv, Typed, Buffered
<1>2. CASE pendingPackets' = pendingPackets
  BY <1>2 DEF Later
<1>3. CASE pendingPackets' = <<>>
  BY <1>3 DEF Later
<1>4. CASE RelayForward /\ pendingPackets' = Append(pendingPackets, sent)
  <2>1. sent > n
    BY <1>4 DEF RelayForward, InFlightLater
  <2>2. /\ DOMAIN pendingPackets = 1..Len(pendingPackets)
        /\ DOMAIN pendingPackets' = 1..Len(pendingPackets) + 1
        /\ \A i \in 1..Len(pendingPackets) + 1 :
             pendingPackets'[i] = IF i = Len(pendingPackets) + 1 THEN sent ELSE pendingPackets[i]
    BY <1>1, <1>4
  <2> QED
    BY <1>1, <2>1, <2>2 DEF Later
<1> QED
  BY <1>2, <1>3, <1>4, BufferStep

LEMMA RestartedLater ==
  ASSUME Restarted, NEW n
  PROVE  Later(n)' /\ InFlightLater(n)'
BY DEF Restarted, Later, InFlightLater, Free, ANetty

\* How a step can bring about the conditions of Boundary.
LEMMA BoundaryStep ==
  ASSUME JobsInv, [Next]_vars
  PROVE  /\ handoff' = "Capturing" => handoff = "Capturing" \/ Restarted
         /\ renderJob'.step = "capture" => renderJob' = renderJob \/ Restarted
         /\ \A c \in Channels :
              /\ job'[c] = "running" => job[c] = "running" \/ renderJob'.step = "boundary"
              /\ job'[c] = "done" => job[c] = "done" \/
                   /\ CaptureNow /\ renderJob.channel = c /\ job[c] = "running"
                   /\ connection = jobConnection[c] /\ snapshot'[c] = applied
              /\ clientChannel' = c => clientChannel = c \/ protocol[c] # "PLAY"
<1> DEFINE Goal ==
         /\ handoff' = "Capturing" => handoff = "Capturing" \/ Restarted
         /\ renderJob'.step = "capture" => renderJob' = renderJob \/ Restarted
         /\ \A c \in Channels :
              /\ job'[c] = "running" => job[c] = "running" \/ renderJob'.step = "boundary"
              /\ job'[c] = "done" => job[c] = "done" \/
                   /\ CaptureNow /\ renderJob.channel = c /\ job[c] = "running"
                   /\ connection = jobConnection[c] /\ snapshot'[c] = applied
              /\ clientChannel' = c => clientChannel = c \/ protocol[c] # "PLAY"
<1>1. /\ job \in [Channels -> {"none", "queued", "running", "done", "failed", "cancelled"}]
      /\ snapshot \in [Channels -> 0..MaxDeltas] /\ pc \in [Channels -> {"idle"} \cup LoginSteps]
      /\ renderJob \in [step : {"idle", "boundary", "capture"}, channel : Channels \cup {NoChannel}]
      /\ Jobs
  BY DEF JobsInv, HistoryInv, TypedInv, FullInv, SlotInv, Shape, Typed, PerJob, Queued
<1>2. ASSUME handoff' = "Capturing" => handoff = "Capturing", UNCHANGED <<renderJob, job>>,
             clientChannel' \in {clientChannel, NoChannel}
      PROVE  Goal
  BY <1>2, NoChannelIsNone
<1>3. CASE \/ CaptureLive \/ SetMidSession \/ CaptureNone \/ QueueGate \/ CheckLoginTimeout \/ RequestStop
           \/ AConnects \/ ADisconnects \/ RelayRead \/ RelayForward \/ RenderDelta \/ RenderGate
  BY <1>2, <1>3 DEF CaptureLive, SetMidSession, CaptureNone, QueueGate, CheckLoginTimeout, GiveUpLogin,
     RequestStop, AConnects, ADisconnects, RelayRead, RelayForward, ForwardToB, Buffer, WriteLive, RenderDelta,
     RenderGate, serverVars, renderVars, jobVars
<1>4. CASE RunSnapshot
  <2>1. /\ UNCHANGED <<handoff, clientChannel>>
        /\ \/ UNCHANGED <<job, renderJob>>
           \/ LET c == Head(renderQueue).channel
              IN /\ job' = [job EXCEPT ![c] = "running"]
                 /\ renderJob' = [step |-> "boundary", channel |-> c]
    BY <1>4 DEF RunSnapshot, serverVars
  <2> QED
    BY <1>1, <2>1
<1>5. CASE BeginSnapshot
  <2>1. UNCHANGED <<handoff, clientChannel>>
    BY <1>5 DEF BeginSnapshot
  <2>2. CASE ~stopping /\ handoff = "Capturing"
    <3>1. Restarted /\ UNCHANGED job
      BY <1>5, <2>2 DEF BeginSnapshot, Restarted, DispatchFree
    <3> QED
      BY <2>1, <3>1
  <2>3. CASE ~(~stopping /\ handoff = "Capturing")
    <3>1. /\ renderJob' = NoJob
          /\ job' = [job EXCEPT ![renderJob.channel] = IF @ = "running" THEN "failed" ELSE @]
      BY <1>5, <2>3 DEF BeginSnapshot, JobEnds
    <3> QED
      BY <1>1, <2>1, <3>1 DEF NoJob
  <2> QED
    BY <2>2, <2>3
<1>6. CASE CaptureNow
  <2>1. /\ UNCHANGED <<handoff, clientChannel>> /\ renderJob' = NoJob
        /\ LET c == renderJob.channel
           IN \/ /\ connection = jobConnection[c] /\ snapshot' = [snapshot EXCEPT ![c] = applied]
                 /\ job' = [job EXCEPT ![c] = IF @ = "running" THEN "done" ELSE @]
              \/ job' = [job EXCEPT ![c] = IF @ = "running" THEN "failed" ELSE @]
    BY <1>6 DEF CaptureNow, JobEnds, serverVars
  <2> QED
    BY <1>1, <1>6, <2>1 DEF NoJob
<1>7. ASSUME NEW d \in Channels, BeginSync(d)
      PROVE  Goal
  <2>1. Restarted /\ UNCHANGED <<job, renderJob, clientChannel>>
    BY <1>7 DEF BeginSync, Restarted, DispatchFree, renderVars
  <2> QED
    BY <2>1
<1>8. ASSUME NEW d \in Channels, EnqueueSnapshot(d) \/ CaptureReturns(d)
      PROVE  Goal
  <2>1. /\ UNCHANGED <<handoff, clientChannel, renderJob>>
        /\ \/ UNCHANGED job
           \/ \E s \in {"queued", "cancelled"} : job' = [job EXCEPT ![d] = s]
    BY <1>8 DEF EnqueueSnapshot, CaptureReturns, serverVars, renderVars
  <2> QED
    BY <1>1, <2>1
<1>9. ASSUME NEW d \in Channels, LoginIntention(d)
      PROVE  Goal
  <2>1. /\ UNCHANGED <<handoff, job, renderJob>> /\ protocol[d] = "HANDSHAKING"
        /\ clientChannel' \in {clientChannel, d}
    BY <1>9 DEF LoginIntention, renderVars, jobVars
  <2> QED
    BY <2>1
<1>10. ASSUME NEW d \in Channels, LoginStep(d) \/ CloseStep(d) \/ PeerStep(d), ~BeginSync(d),
              ~EnqueueSnapshot(d), ~CaptureReturns(d), ~LoginIntention(d)
       PROVE  Goal
  <2>1. /\ handoff' = "Capturing" => handoff = "Capturing"
        /\ UNCHANGED <<renderJob, job>> /\ clientChannel' \in {clientChannel, NoChannel}
    BY <1>10 DEF LoginStep, CloseStep, PeerStep, CheckOwner, CompleteLogin,
       BeginSyncFails, WriteSnapshot, SendSelfInfo, FinishSync, GiveUpLogin, EnterPlay,
       ReleaseGate, ChannelInactive, ReleaseSlot, Accept, PeerCloses, StatusIntention,
       StatusQueryFails, ReadHello, ClientPacket, Acknowledged, ConsumesAck, serverVars, renderVars, jobVars
  <2> QED
    BY <1>2, <2>1
<1>11. CASE UNCHANGED vars
  BY <1>2, <1>11 DEF vars, serverVars, renderVars, jobVars
<1> QED
  BY <1>3, <1>4, <1>5, <1>6, <1>7, <1>8, <1>9, <1>10, <1>11 DEF Next, ControllerStep, RenderStep

\* A finished job's snapshot is not taken again.
LEMMA SnapshotFixed ==
  ASSUME JobsInv, [Next]_vars, NEW c \in Channels, job[c] = "done"
  PROVE  snapshot'[c] = snapshot[c]
<1>1. CASE CaptureNow /\ snapshot' = [snapshot EXCEPT ![renderJob.channel] = applied]
  <2>1. renderJob.channel # c
    BY <1>1 DEF CaptureNow, JobsInv, Jobs
  <2> QED
    BY <1>1, <2>1 DEF JobsInv, HistoryInv, TypedInv, Typed, PerJob
<1> QED
  BY <1>1, WorldStep DEF JobsInv, HistoryInv

LEMMA BoundaryKept ==
  ASSUME BoundaryInv, [Next]_vars
  PROVE  Boundary'
<1>1. /\ TypedInv /\ JobsInv /\ Jobs /\ Worlds /\ Boundary /\ LoginOrder
      /\ sent \in Nat /\ applied \in Nat /\ snapshot \in [Channels -> Nat] /\ jobConnection \in [Channels -> Nat]
      /\ connections \in Nat
  BY WorldTypes DEF BoundaryInv, WorldsInv, JobsInv, HistoryInv, TypedInv, FullInv, SlotInv
<1>2. \A n \in Nat : n <= sent /\ Later(n) /\ InFlightLater(n) => Later(n)' /\ InFlightLater(n)'
  BY <1>1, LaterStays, InFlightStays
<1>3. ASSUME NEW c \in Channels, renderJob'.step = "capture", renderJob'.channel = c, job'[c] = "running",
             handoff' = "Capturing", connection' = jobConnection'[c], ~Restarted
      PROVE  Later(applied)' /\ InFlightLater(applied)'
  <2>1. handoff = "Capturing" /\ renderJob' = renderJob /\ job[c] = "running"
    BY <1>1, <1>3, BoundaryStep
  <2>2. pc[c] = "waiting" /\ jobConnection[c] # 0 /\ jobConnection[c] <= connections
    BY <1>1, <2>1 DEF Jobs, Worlds
  <2>3. jobConnection' = jobConnection
    BY <1>1, <1>3, WorldStep
  <2>4. connection' = connection
    BY <1>1, <1>3, <2>2, <2>3, WorldStep
  <2>5. applied' = applied
    <3>1. ~RenderDelta
      BY <1>3, <2>1 DEF RenderDelta, NextTask, RenderIdle
    <3>2. connection' # connections + 1
      BY <1>1, <1>3, <2>2, <2>3
    <3> QED
      BY <1>1, <3>1, <3>2, WorldStep
  <2>6. Later(applied) /\ InFlightLater(applied) /\ applied <= sent
    BY <1>1, <1>3, <2>1, <2>3, <2>4 DEF Boundary, Worlds
  <2>7. \A n \in Nat : n = applied' => Later(n)' /\ InFlightLater(n)'
    BY <1>1, <1>2, <2>5, <2>6
  <2> QED
    BY <1>1, <2>5, <2>7 DEF Later, InFlightLater
<1>4. ASSUME NEW c \in Channels, clientChannel' = c, job'[c] = "done", handoff' = "Capturing", ~Restarted
      PROVE  Later(snapshot[c])' /\ InFlightLater(snapshot[c])'
  <2>1. handoff = "Capturing"
    BY <1>1, <1>4, BoundaryStep
  <2>2. job[c] # "none"
    BY <1>1, <1>4, BoundaryStep
  <2>3. clientChannel = c
    BY <1>1, <1>4, <2>2, BoundaryStep DEF Jobs
  <2>4. PICK n \in Nat : n = snapshot'[c] /\ n <= sent /\ Later(n) /\ InFlightLater(n)
    <3>1. CASE job[c] = "done"
      BY <1>1, <2>1, <2>3, <3>1, SnapshotFixed DEF Boundary, Worlds
    <3>2. CASE /\ CaptureNow /\ renderJob.channel = c /\ job[c] = "running"
               /\ connection = jobConnection[c] /\ snapshot'[c] = applied
      BY <1>1, <2>1, <3>2 DEF Boundary, Worlds, CaptureNow
    <3> QED
      BY <1>1, <1>4, <3>1, <3>2, BoundaryStep
  <2>5. Later(n)' /\ InFlightLater(n)'
    BY <1>2, <2>4
  <2> QED
    BY <2>4, <2>5 DEF Later, InFlightLater
<1>5. ASSUME NEW c \in Channels, HasSnapshot(c)'
      PROVE  InFlightLater(snapshot[c])'
  <2>1. CASE WriteSnapshot(c)
    <3>1. dispatch' # ANetty
      BY <2>1 DEF WriteSnapshot, DispatchFree, Free, ANetty
    <3> QED
      BY <3>1 DEF InFlightLater
  <2>2. CASE HasSnapshot(c)
    <3>1. snapshot'[c] = snapshot[c] /\ snapshot[c] \in Nat /\ snapshot[c] <= sent /\ InFlightLater(snapshot[c])
      BY <1>1, <2>2, SnapshotFixed DEF Jobs, Boundary, Worlds
    <3>2. \A n \in Nat : n = snapshot[c] => InFlightLater(n)'
      BY <1>1, <3>1, InFlightStays
    <3> QED
      BY <3>1, <3>2 DEF InFlightLater
  <2> QED
    BY <1>1, <1>5, <2>1, <2>2, SnapshotOrigin
<1> QED
  BY <1>3, <1>4, <1>5, RestartedLater DEF Boundary

\* A delta that is later than the snapshot may follow it.
LEMMA DeltasMayFollow ==
  ASSUME NEW s \in Seq(Items), Len(s) >= 1, NEW k \in Nat, NEW numbers \in Seq(1..MaxDeltas),
         s[1] = <<"snapshot", k>>, \A i \in 2..Len(s) : s[i][1] = "delta" /\ s[i][2] > k,
         \A i \in DOMAIN numbers : numbers[i] > k,
         NEW t, t = s \o Live(numbers)
  PROVE  t[1] = <<"snapshot", k>> /\ \A i \in 2..Len(t) : t[i][1] = "delta" /\ t[i][2] > k
<1>1. Len(numbers) \in Nat /\ DOMAIN numbers = 1..Len(numbers) /\ Len(s) \in Nat
  BY LenProperties
<1>2. PICK l \in Seq(Items) : l = Live(numbers)
  BY LiveTyped
<1>3. Len(l) = Len(numbers) /\ \A i \in 1..Len(numbers) : l[i] = <<"delta", numbers[i]>>
  BY <1>2, LiveTyped DEF Live
<1>4. /\ Len(t) = Len(s) + Len(l)
      /\ \A i \in 1..Len(s) + Len(l) : t[i] = IF i <= Len(s) THEN s[i] ELSE l[i - Len(s)]
  BY <1>2, ConcatProperties
<1>5. t[1] = <<"snapshot", k>>
  BY <1>1, <1>3, <1>4
<1>6. ASSUME NEW i \in 2..Len(s) + Len(numbers)
      PROVE  t[i][1] = "delta" /\ t[i][2] > k
  <2>1. CASE i <= Len(s)
    BY <1>1, <1>3, <1>4, <2>1
  <2>2. CASE ~(i <= Len(s))
    <3>1. i - Len(s) \in 1..Len(numbers) /\ i \in 1..Len(s) + Len(numbers)
      BY <1>1, <2>2
    <3>2. t[i] = <<"delta", numbers[i - Len(s)]>>
      BY <1>3, <1>4, <2>2, <3>1
    <3>3. numbers[i - Len(s)] > k
      BY <1>1, <3>1
    <3> QED
      BY <3>2, <3>3
  <2> QED
    BY <2>1, <2>2
<1> QED
  BY <1>3, <1>4, <1>5, <1>6

LEMMA NoDuplicateKept ==
  ASSUME BoundaryInv, [Next]_vars
  PROVE  NoDuplicateDelta'
<1> SUFFICES ASSUME NEW c \in Channels, HasSnapshot(c)'
             PROVE  /\ stream'[c][1] = <<"snapshot", snapshot'[c]>>
                    /\ \A i \in 2..Len(stream'[c]) :
                         stream'[c][i][1] = "delta" /\ stream'[c][i][2] > snapshot'[c]
  BY DEF NoDuplicateDelta
<1> DEFINE Ordered == /\ stream'[c][1] = <<"snapshot", snapshot'[c]>>
                      /\ \A i \in 2..Len(stream'[c]) :
                           stream'[c][i][1] = "delta" /\ stream'[c][i][2] > snapshot'[c]
<1>1. /\ TypedInv /\ JobsInv /\ Jobs /\ Boundary /\ LoginOrder /\ NoDuplicateDelta
      /\ snapshot \in [Channels -> Nat] /\ stream \in [Channels -> Seq(Items)]
  BY WorldTypes
     DEF BoundaryInv, WorldsInv, JobsInv, HistoryInv, TypedInv, FullInv, SlotInv, Typed, Streams
<1>2. CASE WriteSnapshot(c)
  <2>1. job[c] = "done" /\ stream[c] = <<>>
    BY <1>1, <1>2 DEF WriteSnapshot, Jobs
  <2>2. snapshot'[c] = snapshot[c]
    BY <1>1, <2>1, SnapshotFixed
  <2>3. stream'[c] = <<>> \/ stream'[c] = <<<<"snapshot", snapshot[c]>>>>
    BY <1>1, <1>2, <2>1 DEF WriteSnapshot, Written
  <2>4. stream'[c] # <<>>
    BY DEF HasSnapshot
  <2> QED
    BY <2>2, <2>3, <2>4
<1>3. CASE ~WriteSnapshot(c)
  <2>1. HasSnapshot(c)
    BY <1>1, <1>3, SnapshotOrigin
  <2>2. snapshot'[c] = snapshot[c] /\ job[c] = "done" /\ InFlightLater(snapshot[c])
    BY <1>1, <2>1, SnapshotFixed DEF Jobs, Boundary
  <2>3. /\ stream[c][1] = <<"snapshot", snapshot[c]>>
        /\ \A i \in 2..Len(stream[c]) : stream[c][i][1] = "delta" /\ stream[c][i][2] > snapshot[c]
    BY <1>1, <2>1 DEF NoDuplicateDelta
  <2>4. stream[c] \in Seq(Items) /\ Len(stream[c]) >= 1
    <3>1. stream[c] \in Seq(Items) /\ Len(stream[c]) \in Nat /\ DOMAIN stream[c] = 1..Len(stream[c])
      BY <1>1, LenProperties
    <3> QED
      BY <2>1, <3>1 DEF HasSnapshot
  <2>5. ASSUME NEW numbers \in Seq(1..MaxDeltas), \A i \in DOMAIN numbers : numbers[i] > snapshot[c],
               stream'[c] = stream[c] \o Live(numbers)
        PROVE  Ordered
    <3>1. PICK k \in Nat : k = snapshot[c]
      BY <1>1
    <3>2. PICK s \in Seq(Items) : s = stream[c]
      BY <2>4
    <3>3. /\ Len(s) >= 1 /\ s[1] = <<"snapshot", k>>
          /\ \A i \in 2..Len(s) : s[i][1] = "delta" /\ s[i][2] > k
          /\ \A i \in DOMAIN numbers : numbers[i] > k
      BY <2>3, <2>4, <2>5, <3>1, <3>2
    <3>4. /\ stream'[c][1] = <<"snapshot", k>>
          /\ \A i \in 2..Len(stream'[c]) : stream'[c][i][1] = "delta" /\ stream'[c][i][2] > k
      <4>1. \A t : t = s \o Live(numbers) =>
              t[1] = <<"snapshot", k>> /\ \A i \in 2..Len(t) : t[i][1] = "delta" /\ t[i][2] > k
        BY <3>3, DeltasMayFollow
      <4> QED
        BY <2>5, <3>2, <4>1
    <3> QED
      BY <2>2, <3>1, <3>4
  <2>6. CASE RelayForward /\ stream'[c] = stream[c] \o Live(<<sent>>)
    <3>1. <<sent>> \in Seq(1..MaxDeltas) /\ sent > snapshot[c]
      BY <1>1, <2>2, <2>6, SentTyped DEF RelayForward, InFlightLater
    <3>2. \A i \in DOMAIN <<sent>> : <<sent>>[i] > snapshot[c]
      BY <3>1
    <3> QED
      BY <2>5, <2>6, <3>1, <3>2
  <2>7. ASSUME FinishSync(c), NEW n \in 0..Len(pendingPackets),
               stream'[c] = stream[c] \o Live(SubSeq(pendingPackets, 1, n))
        PROVE  Ordered
    <3>1. clientChannel = c
      BY <1>1, <2>7 DEF FinishSync, LoginOrder
    <3>2. Later(snapshot[c])
      <4>1. CASE pendingPackets = <<>>
        BY <4>1 DEF Later
      <4>2. CASE handoff = "Capturing"
        BY <1>1, <2>2, <3>1, <4>2 DEF Boundary
      <4> QED
        BY <1>1, <4>1, <4>2 DEF JobsInv, HistoryInv, TypedInv, FullInv, BufferOwned
    <3>3. /\ SubSeq(pendingPackets, 1, n) \in Seq(1..MaxDeltas)
          /\ Len(SubSeq(pendingPackets, 1, n)) = n
          /\ \A i \in 1..n : SubSeq(pendingPackets, 1, n)[i] = pendingPackets[i]
      BY <1>1, BufferedTyped
    <3>4. /\ DOMAIN SubSeq(pendingPackets, 1, n) = 1..n /\ Len(pendingPackets) \in Nat
          /\ DOMAIN pendingPackets = 1..Len(pendingPackets)
      BY <1>1, <3>3, LenProperties DEF TypedInv, Typed, Buffered
    <3>5. \A i \in DOMAIN SubSeq(pendingPackets, 1, n) : SubSeq(pendingPackets, 1, n)[i] > snapshot[c]
      BY <3>2, <3>3, <3>4 DEF Later
    <3> QED
      BY <2>5, <2>7, <3>3, <3>5
  <2>8. CASE stream'[c] = stream[c]
    BY <2>2, <2>3, <2>8
  <2> QED
    BY <1>1, <1>3, <2>6, <2>7, <2>8, StreamOf
<1> QED
  BY <1>2, <1>3

LEMMA BoundaryInvInductive == BoundaryInv /\ [Next]_vars => BoundaryInv'
BY WorldsInvInductive, BoundaryKept, NoDuplicateKept DEF BoundaryInv

LEMMA BoundaryInvHolds == Spec => []BoundaryInv
<1>1. Init => BoundaryInv
  BY InitSlotInv, InitFull, InitTyped, InitHistory, InitJobs, InitWorlds, InitBoundary
     DEF BoundaryInv, WorldsInv, JobsInv, HistoryInv, TypedInv, FullInv
<1> QED
  BY <1>1, BoundaryInvInductive, PTL DEF Spec

\* No delta that its snapshot has reaches a B, in front of the snapshot or behind
\* it, however far A's render thread lags behind its Netty thread, for any number
\* of B channels, deltas and connections (relay_handler.cpp:73-74).
THEOREM SnapshotIsNewest == Spec => []NoDuplicateDelta
<1>1. BoundaryInv => NoDuplicateDelta
  BY DEF BoundaryInv
<1> QED
  BY <1>1, BoundaryInvHolds, PTL

-----------------------------------------------------------------------------
\* What keeps the mirror complete: A's connection has the relay, and a B that
\* waits for its snapshot has nothing else.
Relayed == (midSession \/ startup = "attached") /\ connection # 0 /\ ~stopping => relayed

Waiting ==
  /\ \A c \in Channels : chan[c] = "none" => protocol[c] = "HANDSHAKING"
  /\ clientState = "Syncing" => handoff \in {"Idle", "Capturing", "Failed"}
  /\ \A c \in Channels : clientChannel = c /\ clientState = "Syncing" => stream[c] = Led(c)

MirrorInv == BoundaryInv /\ Relayed /\ Waiting /\ MirrorComplete

LEMMA InitMirror == Init => Relayed /\ Waiting /\ MirrorComplete
<1> SUFFICES ASSUME Init PROVE Relayed /\ Waiting /\ MirrorComplete
  OBVIOUS
<1>1. /\ midSession = FALSE /\ startup = "capture" /\ clientState = "AwaitHandshake" /\ handoff = "Idle"
      /\ \A c \in Channels : protocol[c] = "HANDSHAKING"
  BY DEF Init
<1> QED
  BY <1>1 DEF Relayed, Waiting, MirrorComplete

LEMMA RelayedKept ==
  ASSUME Relayed, [Next]_vars
  PROVE  Relayed'
<1>1. ASSUME UNCHANGED <<stopping, midSession, startup, connection, relayed>>
      PROVE  Relayed'
  BY <1>1 DEF Relayed
<1>2. CASE CaptureLive
  BY <1>2, Zenon DEF CaptureLive, Relayed
<1>3. CASE SetMidSession
  BY <1>3 DEF SetMidSession, Relayed, aVars
<1>4. CASE CaptureNone \/ QueueGate
  BY <1>4 DEF CaptureNone, QueueGate, Relayed, serverVars, aVars
<1>5. CASE RequestStop
  BY <1>5, Zenon DEF RequestStop, Relayed
<1>6. CASE AConnects
  BY <1>6, Zenon DEF AConnects, Relayed
<1>7. CASE ADisconnects
  BY <1>7, Zenon DEF ADisconnects, Relayed
<1>8. ASSUME NEW c \in Channels, ReleaseSlot(c)
      PROVE  Relayed'
  <2>1. /\ UNCHANGED <<stopping, midSession, startup>>
        /\ \/ UNCHANGED <<connection, relayed>>
           \/ relayed' = (relayed /\ connection' # 0) /\ connection' \in {connection, 0}
    BY <1>8, Zenon DEF ReleaseSlot
  <2> QED
    BY <2>1, Zenon DEF Relayed
<1>9. CASE CheckLoginTimeout \/ RelayRead \/ RelayForward \/ RenderStep
  BY <1>1, <1>9 DEF CheckLoginTimeout, RelayRead, RelayForward, RenderStep, RenderDelta, RenderGate,
     RunSnapshot, BeginSnapshot, CaptureNow, serverVars, aVars
<1>10. ASSUME NEW c \in Channels, LoginStep(c) \/ CloseStep(c) \/ PeerStep(c), ~ReleaseSlot(c)
       PROVE  Relayed'
  BY <1>1, <1>10 DEF LoginStep, CloseStep, PeerStep, CheckOwner, CompleteLogin, BeginSync,
     BeginSyncFails, EnqueueSnapshot, CaptureReturns, WriteSnapshot, SendSelfInfo, FinishSync,
     EnterPlay, ReleaseGate, ChannelInactive, Accept, PeerCloses, StatusIntention,
     StatusQueryFails, LoginIntention, ReadHello, ClientPacket, serverVars, aVars
<1>11. CASE UNCHANGED vars
  BY <1>1, <1>11 DEF vars, serverVars, aVars
<1> QED
  BY <1>2, <1>3, <1>4, <1>5, <1>6, <1>7, <1>8, <1>9, <1>10, <1>11 DEF Next, ControllerStep

\* Only the write of the snapshot changes what a stream begins with.
LEMMA LedKept ==
  ASSUME JobsInv, [Next]_vars, NEW c \in Channels, ~WriteSnapshot(c)
  PROVE  Led(c)' = Led(c)
<1>1. HasSnapshot(c)' <=> HasSnapshot(c)
  BY SnapshotStays, SnapshotOrigin DEF JobsInv, HistoryInv
<1>2. HasSnapshot(c) => snapshot'[c] = snapshot[c]
  BY SnapshotFixed DEF JobsInv, Jobs
<1> QED
  BY <1>1, <1>2 DEF Led

LEMMA SnapshotWritten ==
  ASSUME JobsInv, [Next]_vars, NEW c \in Channels, WriteSnapshot(c), handoff' # "Failed"
  PROVE  /\ stream[c] = <<>> /\ Led(c) = <<>> /\ pendingPackets' = pendingPackets /\ Upto' = Upto
         /\ Led(c)' = <<<<"snapshot", snapshot[c]>>>> /\ stream'[c] = Led(c)'
<1>1. /\ pc[c] = "write" /\ stream[c] = <<>> /\ job[c] = "done" /\ chan[c] # "closed"
      /\ stream \in [Channels -> Seq(Items)]
  BY DEF WriteSnapshot, JobsInv, Jobs, HistoryInv, LoginHistory, TypedInv, Typed, Streams
<1>2. /\ stream' = Written(c, <<<<"snapshot", snapshot[c]>>>>)
      /\ UNCHANGED <<pendingPackets, dispatch, sent, snapshot>>
  BY DEF WriteSnapshot, aVars, jobVars
<1>3. stream'[c] = <<<<"snapshot", snapshot[c]>>>>
  BY <1>1, <1>2 DEF Written
<1>4. HasSnapshot(c)' /\ ~HasSnapshot(c)
  BY <1>1, <1>3 DEF HasSnapshot
<1> QED
  BY <1>1, <1>2, <1>3, <1>4 DEF Led, Upto

LEMMA WaitingKept ==
  ASSUME BoundaryInv, Waiting, [Next]_vars
  PROVE  Waiting'
<1>1. /\ JobsInv /\ Jobs /\ LoginOrder /\ LoginHistory /\ Shape /\ SlotAgreesWithState
      /\ stream \in [Channels -> Seq(Items)]
      /\ chan \in [Channels -> {"none", "open", "closing", "closed"}]
  BY DEF BoundaryInv, WorldsInv, JobsInv, HistoryInv, TypedInv, FullInv, SlotInv, Typed, Streams
<1>2. \A c \in Channels : ~WriteSnapshot(c) => Led(c)' = Led(c)
  BY <1>1, LedKept
<1>3. ASSUME NEW c \in Channels, chan'[c] = "none"
      PROVE  protocol'[c] = "HANDSHAKING"
  <2>1. chan[c] = "none"
    <3>1. \A S : Closed(S)[c] = "none" => chan[c] = "none"
      BY <1>1 DEF Closed
    <3> QED
      BY <1>1, <1>3, <3>1, ChanStep DEF Opened
  <2>2. protocol[c] = "HANDSHAKING"
    BY <2>1 DEF Waiting
  <2>3. CASE UNCHANGED protocol
    BY <2>2, <2>3
  <2>4. ASSUME NEW d \in Channels, StatusIntention(d) \/ LoginIntention(d)
        PROVE  protocol'[c] = "HANDSHAKING"
    <3>1. chan[d] # "none" /\ \E p \in {"STATUS", "LOGIN"} : protocol' = [protocol EXCEPT ![d] = p]
      BY <2>4 DEF StatusIntention, LoginIntention, Readable
    <3> QED
      BY <2>1, <2>2, <3>1
  <2>5. ASSUME NEW d \in Channels, CompleteLogin(d)
        PROVE  protocol'[c] = "HANDSHAKING"
    <3>1. protocol[d] = "LOGIN" /\ protocol' = [protocol EXCEPT ![d] = "PLAY"]
      BY <1>1, <2>5 DEF CompleteLogin, Jobs
    <3> QED
      BY <2>2, <3>1
  <2>6. ASSUME NEW d \in Channels, LoginStep(d) \/ CloseStep(d) \/ PeerStep(d),
               ~StatusIntention(d), ~LoginIntention(d), ~CompleteLogin(d)
        PROVE  UNCHANGED protocol
    BY <2>6 DEF LoginStep, CloseStep, PeerStep, CheckOwner, BeginSync,
       BeginSyncFails, EnqueueSnapshot, CaptureReturns, WriteSnapshot, SendSelfInfo, FinishSync,
       EnterPlay, ReleaseGate, ChannelInactive, ReleaseSlot, Accept, PeerCloses,
       StatusQueryFails, ReadHello, ClientPacket, bVars
  <2>7. CASE \/ CaptureLive \/ SetMidSession \/ CaptureNone \/ QueueGate \/ CheckLoginTimeout \/ RequestStop
             \/ AConnects \/ ADisconnects \/ RelayRead \/ RelayForward \/ RenderStep \/ UNCHANGED vars
    BY <2>3, <2>7 DEF CaptureLive, SetMidSession, CaptureNone, QueueGate, CheckLoginTimeout, RequestStop,
       AConnects, ADisconnects, RelayRead, RelayForward, RenderStep, RenderDelta, RenderGate, RunSnapshot,
       BeginSnapshot, CaptureNow, vars, bVars
  <2> QED
    BY <2>3, <2>4, <2>5, <2>6, <2>7 DEF Next, ControllerStep
\* The occupant that waits for its snapshot.
<1>4. ASSUME clientState' = "Syncing"
      PROVE  \/ \E c \in Channels : BeginSync(c)
             \/ /\ clientState = "Syncing" /\ clientChannel' = clientChannel
                /\ handoff' \in {handoff, "Idle", "Failed"} \/ (handoff = "AwaitingAck" /\ handoff' = "Active")
  <2>1. CASE \/ CaptureLive \/ SetMidSession \/ CaptureNone \/ QueueGate \/ CheckLoginTimeout \/ RequestStop
             \/ AConnects \/ ADisconnects \/ RelayRead \/ RelayForward \/ RenderStep \/ UNCHANGED vars
    BY <1>4, <2>1 DEF CaptureLive, SetMidSession, CaptureNone, QueueGate, CheckLoginTimeout, GiveUpLogin,
       RequestStop, AConnects, ADisconnects, RelayRead, RelayForward, ForwardToB, Buffer, WriteLive, RenderStep,
       RenderDelta, RenderGate, RunSnapshot, BeginSnapshot, CaptureNow, vars, serverVars
  <2>2. ASSUME NEW d \in Channels, LoginStep(d), ~BeginSync(d)
        PROVE  /\ clientState = "Syncing" /\ clientChannel' = clientChannel
               /\ handoff' \in {handoff, "Idle", "Failed"}
    BY <1>4, <2>2 DEF LoginStep, CheckOwner, CompleteLogin,
       BeginSyncFails, EnqueueSnapshot, CaptureReturns, WriteSnapshot, SendSelfInfo, FinishSync, GiveUpLogin,
       EnterPlay, ReleaseGate, serverVars
  <2>3. ASSUME NEW d \in Channels, CloseStep(d) \/ PeerStep(d)
        PROVE  /\ clientState = "Syncing" /\ clientChannel' = clientChannel
               /\ handoff' \in {handoff, "Idle", "Failed"} \/ (handoff = "AwaitingAck" /\ handoff' = "Active")
    BY <1>4, <2>3 DEF CloseStep, PeerStep, ChannelInactive, ReleaseSlot, Accept, PeerCloses, StatusIntention,
       StatusQueryFails, LoginIntention, ReadHello, ClientPacket, Acknowledged, ConsumesAck, serverVars
  <2> QED
    BY <2>1, <2>2, <2>3 DEF Next, ControllerStep
<1>5. clientState' = "Syncing" => handoff' \in {"Idle", "Capturing", "Failed"}
  BY <1>4 DEF Waiting, BeginSync
<1>6. ASSUME NEW c \in Channels, clientChannel' = c, clientState' = "Syncing"
      PROVE  stream'[c] = Led(c)'
  <2>1. ASSUME NEW d \in Channels, BeginSync(d)
        PROVE  stream'[c] = Led(c)'
    <3>1. /\ pc[d] = "begin" /\ stream' = stream /\ clientChannel' = clientChannel
          /\ \A e \in Channels : ~WriteSnapshot(e)
      BY <1>1, <2>1 DEF BeginSync, WriteSnapshot, LoginOrder
    <3>2. d = c /\ stream[c] = <<>>
      BY <1>1, <1>6, <2>1, <3>1 DEF LoginOrder, Jobs
    <3>3. Led(c) = <<>>
      BY <3>2 DEF Led, HasSnapshot
    <3> QED
      BY <1>2, <3>1, <3>2, <3>3
  <2>2. ASSUME clientState = "Syncing", clientChannel = c
        PROVE  stream'[c] = Led(c)'
    <3>1. stream[c] = Led(c)
      BY <2>2 DEF Waiting
    <3>2. CASE WriteSnapshot(c)
      <4>1. CASE handoff' # "Failed"
        BY <1>1, <3>2, <4>1, SnapshotWritten
      <4>2. CASE handoff' = "Failed"
        <5>1. stream' = stream /\ snapshot' = snapshot
          BY <3>2, <4>2 DEF WriteSnapshot, jobVars, MaySendSnapshot
        <5> QED
          BY <3>1, <5>1 DEF Led, HasSnapshot
      <4> QED
        BY <4>1, <4>2
    <3>3. CASE ~WriteSnapshot(c)
      <4>1. stream'[c] = stream[c]
        <5>1. CASE FinishSync(c)
          BY <1>6, <2>2, <5>1 DEF FinishSync
        <5> QED
          BY <1>1, <2>2, <3>3, <5>1, StreamOf DEF JobsInv, HistoryInv
      <4> QED
        BY <1>2, <3>1, <3>3, <4>1
    <3> QED
      BY <3>2, <3>3
  <2> QED
    BY <1>4, <1>6, <2>1, <2>2
<1> QED
  BY <1>3, <1>5, <1>6 DEF Waiting

\* The deltas after b up to u.
Run(b, u) == [i \in 1..(u - b) |-> b + i]

LEMMA RunTyped ==
  ASSUME NEW b \in Nat, NEW u \in Nat, b <= u, u <= MaxDeltas
  PROVE  Run(b, u) \in Seq(1..MaxDeltas) /\ Len(Run(b, u)) = u - b
<1>1. u - b \in Nat /\ \A i \in 1..(u - b) : b + i \in 1..MaxDeltas
  BY SessionBoundsAreNat
<1> QED
  BY <1>1 DEF Run

LEMMA RunGrows ==
  ASSUME NEW b \in Nat, NEW u \in Nat, b <= u, u + 1 <= MaxDeltas
  PROVE  Run(b, u + 1) = Append(Run(b, u), u + 1)
<1>1. PICK v \in 1..MaxDeltas : v = u + 1
  BY SessionBoundsAreNat
<1>2. b <= v /\ u <= MaxDeltas /\ v \in Nat
  BY <1>1, SessionBoundsAreNat
<1>3. PICK r \in Seq(1..MaxDeltas) : r = Run(b, u) /\ Len(r) = u - b
  BY <1>2, RunTyped
<1>4. PICK t \in Seq(1..MaxDeltas) : t = Run(b, v) /\ Len(t) = v - b
  BY <1>1, <1>2, RunTyped
<1>5. PICK s \in Seq(1..MaxDeltas) : s = Append(r, v)
  <2>1. r \in Seq(1..MaxDeltas) /\ v \in 1..MaxDeltas
    OBVIOUS
  <2>2. Append(r, v) \in Seq(1..MaxDeltas)
    BY <2>1, AppendProperties, Zenon
  <2> QED
    BY <2>2, Zenon
<1>6. /\ Len(s) = Len(r) + 1
      /\ \A i \in 1..Len(r) + 1 : s[i] = IF i = Len(r) + 1 THEN v ELSE r[i]
  BY <1>5
<1>7. Len(r) + 1 = v - b /\ \A i \in 1..v - b : i # v - b => i \in 1..u - b
  BY <1>1, <1>3
<1>8. \A i \in 1..u - b : r[i] = b + i
  BY <1>3 DEF Run
<1>9. \A i \in 1..v - b : t[i] = b + i
  BY <1>4 DEF Run
<1>10. \A i \in 1..Len(t) : t[i] = s[i]
  <2>1. ASSUME NEW i \in 1..v - b
        PROVE  t[i] = s[i]
    <3>1. CASE i = v - b
      BY <1>1, <1>6, <1>7, <1>9, <2>1, <3>1
    <3>2. CASE i # v - b
      BY <1>6, <1>7, <1>8, <1>9, <2>1, <3>2
    <3> QED
      BY <3>1, <3>2
  <2> QED
    BY <1>4, <2>1
<1>11. t = s
  BY <1>4, <1>6, <1>7, <1>10, SeqEqual
<1> QED
  BY <1>1, <1>3, <1>4, <1>5, <1>11

LEMMA LiveAppend ==
  ASSUME NEW numbers \in Seq(1..MaxDeltas), NEW n \in 1..MaxDeltas
  PROVE  Live(Append(numbers, n)) = Live(numbers) \o Live(<<n>>)
<1>1. Append(numbers, n) \in Seq(1..MaxDeltas) /\ <<n>> \in Seq(1..MaxDeltas)
  OBVIOUS
<1>2. Len(numbers) \in Nat
  BY LenProperties
<1>3. /\ Len(Append(numbers, n)) = Len(numbers) + 1
      /\ \A i \in 1..Len(numbers) + 1 :
           Append(numbers, n)[i] = IF i = Len(numbers) + 1 THEN n ELSE numbers[i]
  BY <1>2
<1>4. PICK s \in Seq(Items) : s = Live(Append(numbers, n))
  BY <1>1, LiveTyped
<1>5. PICK t \in Seq(Items) : t = Live(numbers)
  BY LiveTyped
<1>6. PICK l \in Seq(Items) : l = Live(<<n>>)
  BY <1>1, LiveTyped
<1>7. /\ Len(s) = Len(numbers) + 1 /\ Len(t) = Len(numbers) /\ Len(l) = 1
      /\ \A i \in 1..Len(numbers) + 1 : s[i] = <<"delta", Append(numbers, n)[i]>>
      /\ \A i \in 1..Len(numbers) : t[i] = <<"delta", numbers[i]>>
      /\ l[1] = <<"delta", n>>
  <2>1. Len(s) = Len(numbers) + 1 /\ Len(t) = Len(numbers) /\ Len(l) = 1
    BY <1>1, <1>3, <1>4, <1>5, <1>6, LiveTyped
  <2> QED
    BY <1>3, <1>4, <1>5, <1>6, <2>1 DEF Live
<1>8. /\ t \o l \in Seq(Items) /\ Len(t \o l) = Len(t) + Len(l)
      /\ \A i \in 1..Len(t) + Len(l) : (t \o l)[i] = IF i <= Len(t) THEN t[i] ELSE l[i - Len(t)]
  BY ConcatProperties
<1>9. \A i \in 1..Len(s) : s[i] = (t \o l)[i]
  <2>1. ASSUME NEW i \in 1..Len(numbers)
        PROVE  s[i] = (t \o l)[i]
    <3>1. i \in 1..Len(numbers) + 1 /\ i # Len(numbers) + 1 /\ i <= Len(t) /\ i \in 1..Len(t) + Len(l)
      BY <1>2, <1>7
    <3> QED
      BY <1>3, <1>7, <1>8, <3>1
  <2>2. s[Len(numbers) + 1] = (t \o l)[Len(numbers) + 1]
    <3>1. /\ Len(numbers) + 1 \in 1..Len(numbers) + 1 /\ ~(Len(numbers) + 1 <= Len(t))
          /\ Len(numbers) + 1 \in 1..Len(t) + Len(l) /\ Len(numbers) + 1 - Len(t) = 1
      BY <1>2, <1>7
    <3> QED
      BY <1>3, <1>7, <1>8, <3>1
  <2>3. \A i \in 1..Len(s) : i \in 1..Len(numbers) \/ i = Len(numbers) + 1
    BY <1>2, <1>7
  <2> QED
    BY <2>1, <2>2, <2>3
<1>10. s = t \o l
  BY <1>7, <1>8, <1>9, SeqEqual
<1> QED
  BY <1>4, <1>5, <1>6, <1>10

LEMMA ItemsAssociate == \A s, t, u \in Seq(Items) : (s \o t) \o u = s \o (t \o u)
BY ConcatAssociative

\* The buffer and the stream grow by the delta that A's server sent.
LEMMA MirrorGrows ==
  ASSUME NEW s \in Seq(Items), NEW lead \in Seq(Items), NEW p \in Seq(1..MaxDeltas),
         NEW b \in Nat, NEW u \in Nat, b <= u, u + 1 <= MaxDeltas,
         s \o Live(p) = lead \o Live(Run(b, u))
  PROVE  /\ s \o Live(Append(p, u + 1)) = lead \o Live(Run(b, u + 1))
         /\ p = <<>> => (s \o Live(<<u + 1>>)) \o Live(p) = lead \o Live(Run(b, u + 1))
<1>1. PICK n \in 1..MaxDeltas : n = u + 1
  OBVIOUS
<1>2. PICK r \in Seq(1..MaxDeltas) : r = Run(b, u)
  <2>1. u <= MaxDeltas
    BY SessionBoundsAreNat
  <2> QED
    BY <2>1, RunTyped
<1>3. Live(p) \in Seq(Items) /\ Live(r) \in Seq(Items) /\ Live(<<n>>) \in Seq(Items)
  <2>1. <<n>> \in Seq(1..MaxDeltas)
    OBVIOUS
  <2> QED
    BY <2>1, LiveTyped
<1>4. Live(Append(p, n)) = Live(p) \o Live(<<n>>) /\ Live(Append(r, n)) = Live(r) \o Live(<<n>>)
  BY LiveAppend
<1>5. Run(b, u + 1) = Append(r, n)
  BY <1>1, <1>2, RunGrows
<1>6. s \o (Live(p) \o Live(<<n>>)) = (s \o Live(p)) \o Live(<<n>>)
  BY <1>3, ItemsAssociate
<1>7. lead \o (Live(r) \o Live(<<n>>)) = (lead \o Live(r)) \o Live(<<n>>)
  BY <1>3, ItemsAssociate
<1>8. s \o Live(Append(p, n)) = lead \o Live(Append(r, n))
  BY <1>2, <1>4, <1>6, <1>7
<1>9. ASSUME p = <<>>
      PROVE  (s \o Live(<<n>>)) \o Live(p) = lead \o Live(Append(r, n))
  <2>1. Live(p) = <<>>
    BY <1>9 DEF Live
  <2>2. (s \o Live(<<n>>)) \o Live(p) = s \o Live(<<n>>)
    <3>1. s \o Live(<<n>>) \in Seq(Items)
      BY <1>3
    <3> QED
      BY <2>1, <3>1, ConcatEmptySeq
  <2>3. s = lead \o Live(r)
    BY <1>2, <2>1, ConcatEmptySeq
  <2> QED
    BY <1>4, <1>7, <2>2, <2>3
<1> QED
  BY <1>1, <1>5, <1>8, <1>9

\* The steps that touch what the mirror consists of.
Running == {"Capturing", "AwaitingAck", "Active"}

BoundaryTaken == BeginSnapshot /\ ~stopping /\ handoff = "Capturing"

LEMMA MirrorStep ==
  ASSUME [Next]_vars
  PROVE  /\ stopping => stopping'
         /\ handoff' \in Running => handoff \in Running \/ \E d \in Channels : BeginSync(d)
         /\ boundary' = boundary \/ BoundaryTaken
         /\ \/ RelayForward \/ RelayRead \/ BoundaryTaken
            \/ \E d \in Channels : WriteSnapshot(d) \/ FinishSync(d) \/ BeginSync(d)
            \/ /\ UNCHANGED <<stream, sent>>
               /\ dispatch' = dispatch \/ (dispatch # ANetty /\ dispatch' # ANetty)
               /\ pendingPackets' = pendingPackets \/ handoff' = "Idle"
<1> DEFINE Quiet == /\ UNCHANGED <<stream, sent, boundary>>
                    /\ dispatch' = dispatch \/ (dispatch # ANetty /\ dispatch' # ANetty)
                    /\ pendingPackets' = pendingPackets \/ handoff' = "Idle"
           Calm == /\ stopping => stopping'
                   /\ handoff' \in Running => handoff \in Running
<1> USE DEF Running
<1>1. CASE RelayForward \/ RelayRead
  <2>1. Calm /\ boundary' = boundary
    BY <1>1 DEF RelayForward, RelayRead, ForwardToB, Buffer, WriteLive, serverVars, historyVars
  <2> QED
    BY <1>1, <2>1
<1>2. CASE BeginSnapshot
  <2>1. Calm
    BY <1>2 DEF BeginSnapshot
  <2>2. CASE ~BoundaryTaken
    <3>1. Quiet
      BY <1>2, <2>2 DEF BeginSnapshot, BoundaryTaken, JobEnds, aVars, bVars
    <3> QED
      BY <2>1, <3>1
  <2> QED
    BY <2>1, <2>2
<1>3. CASE \/ CaptureLive \/ SetMidSession \/ CaptureNone \/ QueueGate \/ CheckLoginTimeout \/ RequestStop
           \/ AConnects \/ ADisconnects \/ RenderDelta \/ RenderGate \/ RunSnapshot \/ CaptureNow
           \/ UNCHANGED vars
  <2>1. Calm /\ Quiet
    BY <1>3 DEF CaptureLive, SetMidSession, CaptureNone, QueueGate, CheckLoginTimeout, GiveUpLogin, RequestStop,
       AConnects, ADisconnects, RenderDelta, RenderGate, RunSnapshot, CaptureNow, vars, aVars, bVars,
       serverVars, historyVars
  <2> QED
    BY <2>1
<1>4. ASSUME NEW d \in Channels, WriteSnapshot(d) \/ FinishSync(d) \/ BeginSync(d)
      PROVE  /\ boundary' = boundary /\ (stopping => stopping')
             /\ handoff' \in Running => handoff \in Running \/ BeginSync(d)
  BY <1>4 DEF WriteSnapshot, FinishSync, GiveUpLogin, MaySendSnapshot, BeginSync, historyVars
<1>5. ASSUME NEW d \in Channels, CloseStep(d)
      PROVE  Calm /\ Quiet
  BY <1>5, HoldersDiffer DEF CloseStep, ChannelInactive, ReleaseSlot, DispatchFree, Free, ANetty, aVars, bVars,
     serverVars, historyVars
<1>6. ASSUME NEW d \in Channels, LoginStep(d) \/ PeerStep(d), ~WriteSnapshot(d), ~FinishSync(d), ~BeginSync(d)
      PROVE  Calm /\ Quiet
  BY <1>6 DEF LoginStep, PeerStep, CheckOwner, CompleteLogin,
     BeginSyncFails, EnqueueSnapshot, CaptureReturns, SendSelfInfo, EnterPlay, ReleaseGate, Accept,
     PeerCloses, StatusIntention, StatusQueryFails, LoginIntention, ReadHello, ClientPacket, Acknowledged,
     ConsumesAck, aVars, bVars, serverVars, historyVars
<1> QED
  BY <1>1, <1>2, <1>3, <1>4, <1>5, <1>6 DEF Next, ControllerStep, RenderStep

LEMMA MirrorKept ==
  ASSUME MirrorInv, [Next]_vars
  PROVE  MirrorComplete'
<1> SUFFICES ASSUME NEW c \in Channels,
                    clientChannel' = c, boundary'[c] # NotYet, chan'[c] = "open", ~stopping',
                    handoff' \in Running
             PROVE  stream'[c] \o Live(pendingPackets') = Led(c)' \o Live(Run(boundary'[c], Upto'))
  BY DEF MirrorComplete, From, Run, Live, Led, HasSnapshot, Running
<1> DEFINE Goal == stream'[c] \o Live(pendingPackets') = Led(c)' \o Live(Run(boundary'[c], Upto'))
<1>1. /\ TypedInv /\ JobsInv /\ Jobs /\ Worlds /\ LoginOrder /\ LoginHistory
      /\ Shape /\ SlotAgreesWithState /\ HandoffOwned /\ FailureIsFinal /\ BufferOwned
      /\ Relayed /\ Waiting /\ MirrorComplete
  BY DEF MirrorInv, BoundaryInv, WorldsInv, JobsInv, HistoryInv, TypedInv, FullInv, SlotInv
<1>2. /\ stream \in [Channels -> Seq(Items)] /\ pendingPackets \in Seq(1..MaxDeltas)
      /\ chan \in [Channels -> {"none", "open", "closing", "closed"}]
      /\ boundary \in [Channels -> NotYet..MaxDeltas] /\ snapshot \in [Channels -> 0..MaxDeltas]
      /\ sent \in 0..MaxDeltas /\ Upto \in Nat /\ Upto <= sent
      /\ pc \in [Channels -> {"idle"} \cup LoginSteps]
  BY <1>1, WorldTypes DEF Typed, Streams, Buffered, PerJob, Numbers, TypedInv, Shape
<1>3. ~WriteSnapshot(c) => Led(c)' = Led(c)
  BY <1>1, LedKept
\* The boundary is taken: nothing is buffered, and nothing written behind it yet.
<1>4. CASE BoundaryTaken
  <2>1. /\ dispatch = Free /\ handoff = "Capturing" /\ pendingPackets' = <<>>
        /\ boundary' = [boundary EXCEPT ![clientChannel] = sent]
        /\ UNCHANGED <<clientChannel, clientState, dispatch, stream, sent, pc>>
    BY <1>4 DEF BoundaryTaken, BeginSnapshot, DispatchFree, JobEnds, aVars, bVars
  <2>2. clientState = "Syncing"
    BY <1>1, <2>1, HoldersDiffer DEF HandoffOwned, FailureIsFinal
  <2>3. stream[c] = Led(c) /\ clientChannel = c
    BY <1>1, <2>1, <2>2 DEF Waiting
  <2>4. ~WriteSnapshot(c)
    <3>1. WriteSnapshot(c) => pc[c] = "write" /\ \E step \in {"selfInfo", "idle"} : pc' = [pc EXCEPT ![c] = step]
      BY DEF WriteSnapshot, SyncFails, Goto
    <3> QED
      BY <1>2, <2>1, <3>1
  <2>5. Upto' = sent /\ boundary'[c] = sent
    BY <1>2, <2>1, <2>3 DEF Upto, Free, ANetty
  <2>6. Live(Run(sent, sent)) = <<>> /\ Live(<<>>) = <<>>
    BY <1>2 DEF Live, Run
  <2> QED
    BY <1>3, <2>1, <2>3, <2>4, <2>5, <2>6
<1>5. CASE ~BoundaryTaken
  <2>1. boundary' = boundary /\ ~stopping
    BY <1>5, MirrorStep
  <2>2. boundary[c] \in 0..MaxDeltas /\ boundary[c] <= Upto /\ loginMid[c] /\ protocol[c] = "PLAY"
    <3>1. boundary[c] # NotYet
      BY <2>1
    <3> QED
      BY <1>1, <1>2, <3>1 DEF Jobs, Worlds, NotYet
  <2>3. clientChannel = c /\ clientState \in SynchedStates
    BY <1>1, <2>1, <2>2, BoundaryStep DEF Jobs
  <2>4. chan[c] = "open"
    <3>1. chan[c] # "none"
      BY <1>1, <2>2 DEF Waiting
    <3>2. \A S : Closed(S)[c] = "open" => chan[c] = "open"
      BY <1>2 DEF Closed
    <3> QED
      BY <1>2, <3>1, <3>2, ChanStep DEF Opened
  <2>5. \A d \in Channels : ~BeginSync(d)
    BY <1>1, <2>3 DEF BeginSync, LoginOrder, SynchedStates
  <2>6. handoff \in Running
    BY <2>5, MirrorStep
  <2>7. stream[c] \o Live(pendingPackets) = Led(c) \o Live(Run(boundary[c], Upto))
    BY <1>1, <2>1, <2>3, <2>4, <2>6 DEF MirrorComplete, From, Run, Running
  <2>8. Led(c) \in Seq(Items) /\ stream[c] \in Seq(Items)
    BY <1>1, <1>2, SnapshotTyped DEF Led
  <2>9. CASE WriteSnapshot(c)
    <3>1. /\ stream[c] = <<>> /\ Led(c) = <<>> /\ pendingPackets' = pendingPackets /\ Upto' = Upto
          /\ stream'[c] = Led(c)'
      BY <1>1, <2>9, SnapshotWritten DEF Running
    <3>2. Live(pendingPackets) \in Seq(Items) /\ Live(Run(boundary[c], Upto)) \in Seq(Items)
      <4>1. boundary[c] \in Nat /\ Upto \in Nat /\ boundary[c] <= Upto /\ Upto <= MaxDeltas
        BY <1>2, <2>2, SessionBoundsAreNat
      <4>2. Run(boundary[c], Upto) \in Seq(1..MaxDeltas)
        BY <4>1, RunTyped
      <4> QED
        BY <1>2, <4>2, LiveTyped
    <3>3. Live(pendingPackets) = Live(Run(boundary[c], Upto))
      BY <2>7, <3>1, <3>2, ConcatEmptySeq
    <3> QED
      BY <2>1, <3>1, <3>3
  <2>10. CASE ~WriteSnapshot(c) /\ RelayRead
    <3>1. /\ connection # 0 /\ sent' = sent + 1 /\ dispatch # ANetty
          /\ UNCHANGED <<stream, pendingPackets>>
          /\ dispatch' = ANetty \/ ~relayed \/ stopping
      BY <2>10 DEF RelayRead, serverVars, bVars
    <3>2. relayed
      BY <1>1, <2>1, <2>2, <3>1 DEF LoginHistory, Relayed
    <3>3. Upto' = Upto
      BY <1>2, <2>1, <3>1, <3>2 DEF Upto
    <3> QED
      BY <1>3, <2>1, <2>7, <2>10, <3>1, <3>3
  <2>11. CASE ~WriteSnapshot(c) /\ RelayForward
    <3>1. /\ dispatch = ANetty /\ dispatch' = Free /\ sent' = sent /\ ForwardToB(sent)
      BY <2>11 DEF RelayForward, aVars
    <3>2. PICK u \in Nat : u = Upto /\ u + 1 = sent /\ Upto' = u + 1
      BY <1>2, <3>1 DEF Upto, Free, ANetty
    <3>3. Led(c)' = Led(c) /\ boundary[c] \in Nat /\ boundary[c] <= u /\ u + 1 <= MaxDeltas
      BY <1>2, <1>3, <2>2, <2>11, <3>2
    <3>4. \/ stream'[c] = stream[c] /\ pendingPackets' = Append(pendingPackets, u + 1)
          \/ /\ stream'[c] = stream[c] \o Live(<<u + 1>>)
             /\ pendingPackets = <<>> /\ pendingPackets' = pendingPackets
      <4>1. Receives /\ clientChannel # NoChannel
        BY <2>1, <2>3, NoChannelIsNone DEF Receives, SynchedStates
      <4>2. CASE clientState = "Syncing"
        <5>1. handoff = "Capturing"
          BY <1>1, <2>6, <4>2 DEF Waiting, Running
        <5>2. Buffer(sent)
          BY <3>1, <4>1, <4>2, <5>1 DEF ForwardToB
        <5> QED
          BY <3>2, <5>2 DEF Buffer, Running
      <4>3. CASE clientState # "Syncing"
        <5>1. WriteLive(sent)
          BY <3>1, <4>1, <4>3 DEF ForwardToB
        <5>2. pendingPackets = <<>>
          BY <1>1, <2>3, <4>3 DEF BufferOwned, FailureIsFinal, SynchedStates
        <5>3. Closed({c})[c] # "open"
          BY <1>2 DEF Closed
        <5>4. stream' = Written(c, Live(<<sent>>)) /\ pendingPackets' = pendingPackets
          BY <2>3, <5>1, <5>3 DEF WriteLive
        <5> QED
          BY <1>2, <2>4, <3>2, <5>2, <5>4 DEF Written
      <4> QED
        BY <4>2, <4>3
    <3>5. /\ stream[c] \o Live(Append(pendingPackets, u + 1)) = Led(c) \o Live(Run(boundary[c], u + 1))
          /\ pendingPackets = <<>> =>
               (stream[c] \o Live(<<u + 1>>)) \o Live(pendingPackets) = Led(c) \o Live(Run(boundary[c], u + 1))
      <4>1. PICK s \in Seq(Items) : s = stream[c]
        BY <2>8
      <4>2. PICK lead \in Seq(Items) : lead = Led(c)
        BY <2>8
      <4>3. PICK b \in Nat : b = boundary[c]
        BY <3>3
      <4>4. PICK p \in Seq(1..MaxDeltas) : p = pendingPackets
        BY <1>2
      <4>5. b <= u /\ u + 1 <= MaxDeltas /\ s \o Live(p) = lead \o Live(Run(b, u))
        BY <2>7, <3>2, <3>3, <4>1, <4>2, <4>3, <4>4
      <4>6. /\ s \o Live(Append(p, u + 1)) = lead \o Live(Run(b, u + 1))
            /\ p = <<>> => (s \o Live(<<u + 1>>)) \o Live(p) = lead \o Live(Run(b, u + 1))
        BY <4>5, MirrorGrows, ZenonT(30)
      <4> QED
        BY <4>1, <4>2, <4>3, <4>4, <4>6
    <3> QED
      BY <2>1, <3>2, <3>3, <3>4, <3>5
  <2>12. CASE ~WriteSnapshot(c) /\ FinishSync(c)
    <3>1. /\ pendingPackets' = <<>> /\ UNCHANGED <<sent, dispatch>>
          /\ \E n \in 0..Len(pendingPackets) :
               /\ stream' = Written(c, Live(SubSeq(pendingPackets, 1, n)))
               /\ chan' = IF n < Len(pendingPackets) THEN Closed({c}) ELSE chan
      BY <2>1, <2>12 DEF FinishSync, GiveUpLogin, Running, aVars
    <3>2. Closed({c})[c] # "open"
      BY <1>2 DEF Closed
    <3>3. Len(pendingPackets) \in Nat /\ SubSeq(pendingPackets, 1, Len(pendingPackets)) = pendingPackets
      BY <1>2, LenProperties, SubSeqFull
    <3>4. stream' = Written(c, Live(pendingPackets))
      <4>1. PICK n \in 0..Len(pendingPackets) :
              /\ stream' = Written(c, Live(SubSeq(pendingPackets, 1, n)))
              /\ chan' = IF n < Len(pendingPackets) THEN Closed({c}) ELSE chan
        BY <3>1
      <4>2. ~(n < Len(pendingPackets))
        BY <3>2, <4>1
      <4>3. PICK k \in Nat : k = Len(pendingPackets)
        BY <3>3, Zenon
      <4>4. n \in 0..k /\ ~(n < k)
        BY <4>2, <4>3, Zenon
      <4>5. n = k
        BY <4>4
      <4> QED
        BY <3>3, <4>1, <4>3, <4>5
    <3>5. stream'[c] = stream[c] \o Live(pendingPackets)
      BY <1>2, <2>4, <3>4 DEF Written
    <3>6. Live(<<>>) = <<>> /\ Upto' = Upto
      BY <3>1 DEF Live, Upto
    <3>7. stream[c] \o Live(pendingPackets) \in Seq(Items)
      BY <1>2, <2>8, LiveTyped, ConcatProperties
    <3>8. stream'[c] \o <<>> = stream'[c]
      BY <3>5, <3>7, ConcatEmptySeq
    <3> QED
      BY <1>3, <2>1, <2>7, <2>12, <3>1, <3>5, <3>6, <3>8
  <2>13. CASE /\ ~WriteSnapshot(c) /\ UNCHANGED <<stream, sent>>
              /\ dispatch' = dispatch \/ (dispatch # ANetty /\ dispatch' # ANetty)
              /\ pendingPackets' = pendingPackets \/ handoff' = "Idle"
    <3>1. Upto' = Upto /\ pendingPackets' = pendingPackets
      BY <2>13 DEF Upto, Running
    <3> QED
      BY <1>3, <2>1, <2>7, <2>13, <3>1
  <2>14. \A d \in Channels : WriteSnapshot(d) \/ FinishSync(d) => d = c
    BY <1>1, <2>3 DEF WriteSnapshot, FinishSync, LoginOrder
  <2> QED
    BY <1>5, <2>5, <2>9, <2>10, <2>11, <2>12, <2>13, <2>14, MirrorStep
<1> QED
  BY <1>4, <1>5

LEMMA MirrorInvHolds == Spec => []MirrorInv
<1>1. Init => MirrorInv
  BY InitSlotInv, InitFull, InitTyped, InitHistory, InitJobs, InitWorlds, InitBoundary, InitMirror
     DEF MirrorInv, BoundaryInv, WorldsInv, JobsInv, HistoryInv, TypedInv, FullInv
<1>2. MirrorInv /\ [Next]_vars => MirrorInv'
  BY BoundaryInvInductive, RelayedKept, WaitingKept, MirrorKept DEF MirrorInv
<1> QED
  BY <1>1, <1>2, PTL DEF Spec

\* From its boundary on a B gets every delta of A's server, once and in order,
\* whatever the size of the buffer and however many B channels come and go
\* (architecture.md:41, login.cpp:333-348, forwarding.cpp:399-438).
THEOREM MirrorIsComplete == Spec => []MirrorComplete
<1>1. MirrorInv => MirrorComplete
  BY DEF MirrorInv
<1> QED
  BY <1>1, MirrorInvHolds, PTL
=============================================================================
