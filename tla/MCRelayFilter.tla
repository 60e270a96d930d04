--------------------------- MODULE MCRelayFilter ---------------------------
(***************************************************************************)
(* RelayFilter for TLC: which packets there are.                           *)
(***************************************************************************)
EXTENDS RelayFilter, TLC

CONSTANTS AMove, AKeepAlive, BMove1, BMove2, BKeepAlive

AAll == {AMove, AKeepAlive}
BAll == {BMove1, BMove2, BKeepAlive}

KindOf == [p \in Packets |-> IF p \in {AKeepAlive, BKeepAlive} THEN "game owned by A" ELSE "game"]

Symmetry == Permutations(Connections) \cup Permutations({BMove1, BMove2})
=============================================================================
