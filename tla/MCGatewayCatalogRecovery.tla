----------------------- MODULE MCGatewayCatalogRecovery ----------------------
(* The model-checking instance of GatewayCatalogRecovery: two joiners are    *)
(* enough for a round that is left by one of them and for two rounds whose   *)
(* ends overlap.                                                             *)
EXTENDS GatewayCatalogRecovery, TLC
=============================================================================
