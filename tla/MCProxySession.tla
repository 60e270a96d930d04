--------------------------- MODULE MCProxySession ---------------------------
(***************************************************************************)
(* ProxySession for TLC: the B channels are interchangeable (no action and *)
(* no safety property names one), so the safety run uses their symmetry.   *)
(***************************************************************************)
EXTENDS ProxySession, TLC

Symmetry == Permutations(Channels)

\* Two live deltas behind the join packet, or a second connection of A.
ThreeDeltasOrTwoConnections == connections <= 1 \/ sent <= 2
=============================================================================
