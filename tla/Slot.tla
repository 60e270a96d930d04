-------------------------------- MODULE Slot --------------------------------
(***************************************************************************)
(* What the proxy promises about its only B: the slot has one occupant at  *)
(* a time, the occupant goes through the login in order, nobody else moves *)
(* it on, and it is free again only as a whole.  ProxySession implements   *)
(* this with clientChannel and clientState of native/server/state.h, which *)
(* two mutexes, the event loops of several channels and the controller's   *)
(* timeout read and write at different times.                              *)
(***************************************************************************)
CONSTANTS Channels, NoChannel

VARIABLES occupant, phase

slotVars == <<occupant, phase>>

Init == occupant = NoChannel /\ phase = "AwaitHandshake"

\* A login intention takes a free slot.
Claim ==
  /\ occupant = NoChannel
  /\ occupant' \in Channels
  /\ phase' = "AwaitLogin"

\* The occupant goes on; a B without a running game to catch up with has
\* control at once, any other after its snapshot and its acknowledgement.
Follows(from, to) ==
  <<from, to>> \in {<<"AwaitLogin", "Play">>, <<"AwaitLogin", "Syncing">>,
                    <<"Syncing", "AwaitReady">>, <<"AwaitReady", "Play">>}

Advance ==
  /\ occupant # NoChannel
  /\ Follows(phase, phase')
  /\ UNCHANGED occupant

\* The occupant's channel is gone.
Vacate ==
  /\ occupant # NoChannel
  /\ occupant' = NoChannel
  /\ phase' = "AwaitHandshake"

Next == Claim \/ Advance \/ Vacate

Spec == Init /\ [][Next]_slotVars
=============================================================================
