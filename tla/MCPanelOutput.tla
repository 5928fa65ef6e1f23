---------------------------- MODULE MCPanelOutput ----------------------------
(* Model values for the instances of PanelOutput that TLC checks. *)
EXTENDS PanelOutput, TLC

CONSTANTS c1, c2

Symmetry == Permutations({c1, c2})
=============================================================================
