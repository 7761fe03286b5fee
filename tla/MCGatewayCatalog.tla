--------------------------- MODULE MCGatewayCatalog ---------------------------
(* Model-checking instances of GatewayCatalog. *)
EXTENDS GatewayCatalog, TLC

Symmetry == Permutations(Calls) \cup Permutations(Scopes) \cup Permutations(Paths)
=============================================================================
