----------------------- MODULE MCGatewayCatalogService -----------------------
(* Model-checking instances of GatewayCatalogService. *)
EXTENDS GatewayCatalogService, TLC

Symmetry == Permutations(Requests) \cup Permutations(Keys)
=============================================================================
