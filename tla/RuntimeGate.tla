---------------------------- MODULE RuntimeGate ----------------------------
(***************************************************************************)
(* The admission gate of native/runtime_gate.h.  Every native entry point  *)
(* (Netty callbacks, the render-thread snapshot, the class-load hook)      *)
(* constructs a RuntimeCallback; the controller closes the gate and waits  *)
(* for the callbacks already inside before it tears the session down.      *)
(*                                                                         *)
(* Each method holds the gate's mutex from its first to its last line, so  *)
(* each is one action.  stopFor releases the mutex while it waits and is   *)
(* three: the call, the wake-up with the predicate true, and the timeout.  *)
(***************************************************************************)
EXTENDS Integers, FiniteSets

CONSTANT Callbacks   \* the RuntimeCallback objects that may exist at once

ASSUME CallbacksFinite == IsFiniteSet(Callbacks)

VARIABLES
  enabled,    \* enabled_
  inFlight,   \* inFlight_
  entered,    \* the callbacks whose entered_ is true and that still exist
  stopper     \* the controller's last call of stopFor: "idle" since start(),
              \* "waiting" inside it, "drained" or "timedOut" by its result

gateVars == <<enabled, inFlight, entered, stopper>>

StopperStates == {"idle", "waiting", "drained", "timedOut"}

GateTypeOK ==
  /\ enabled \in BOOLEAN
  /\ inFlight \in Nat
  /\ entered \in SUBSET Callbacks
  /\ stopper \in StopperStates

GateInit ==
  /\ enabled = FALSE
  /\ inFlight = 0
  /\ entered = {}
  /\ stopper = "idle"

-----------------------------------------------------------------------------
\* A callback is constructed while the gate is open.  A refused one changes
\* nothing and its entry point returns at once.
Enter(c) ==
  /\ c \in Callbacks \ entered
  /\ enabled
  /\ entered' = entered \cup {c}
  /\ inFlight' = inFlight + 1
  /\ UNCHANGED <<enabled, stopper>>

\* ~RuntimeCallback: only an entered one leaves.
Leave(c) ==
  /\ c \in entered
  /\ entered' = entered \ {c}
  /\ inFlight' = inFlight - 1
  /\ UNCHANGED <<enabled, stopper>>

Start ==
  /\ stopper # "waiting"
  /\ enabled' = TRUE
  /\ stopper' = "idle"
  /\ UNCHANGED <<inFlight, entered>>

DrainedAtOnce == TRUE   \* mutant: stopFor does not wait

\* What stopFor's wait_for returns when it looks at its predicate.
Drained == inFlight = 0

StopFor ==
  /\ stopper # "waiting"
  /\ enabled' = FALSE
  /\ stopper' = IF Drained THEN "drained" ELSE "waiting"
  /\ UNCHANGED <<inFlight, entered>>

StopForWakes ==
  /\ stopper = "waiting"
  /\ Drained
  /\ stopper' = "drained"
  /\ UNCHANGED <<enabled, inFlight, entered>>

\* wait_for returns the predicate at the deadline: false only if still busy.
StopForTimesOut ==
  /\ stopper = "waiting"
  /\ ~Drained
  /\ stopper' = "timedOut"
  /\ UNCHANGED <<enabled, inFlight, entered>>

GateNext ==
  \/ \E c \in Callbacks : Enter(c) \/ Leave(c)
  \/ Start \/ StopFor \/ StopForWakes \/ StopForTimesOut

GateSpec == GateInit /\ [][GateNext]_gateVars

-----------------------------------------------------------------------------
\* Once stopFor has returned true, and until the next start(), no callback
\* that passed the gate is still running ("waits for callbacks already using
\* session state", runtime_gate.h:7).
DrainedIsQuiet == stopper = "drained" => entered = {}

\* The counter is exactly the number of callbacks inside, so the unsigned
\* decrement in leave() never wraps.
InFlightExact == inFlight = Cardinality(entered)
=============================================================================
