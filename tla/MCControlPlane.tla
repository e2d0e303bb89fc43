--------------------------- MODULE MCControlPlane ---------------------------
(* The instances of the control plane's TLC runs.                          *)
EXTENDS ControlPlane, TLC

CONSTANTS r1, r2, hA, hB, p1, c1, c2

Symmetry == Permutations(RouteIds) \cup Permutations(Hosts) \cup Permutations(Handlers)
=============================================================================
