---------------------------- MODULE MCTeamState ----------------------------
(***************************************************************************)
(* TeamState for TLC: names and teams are interchangeable (A's and B's     *)
(* names are variables), so the run uses their symmetry.                   *)
(***************************************************************************)
EXTENDS TeamState, TLC

Symmetry == Permutations(Players) \cup Permutations(Teams)
=============================================================================
