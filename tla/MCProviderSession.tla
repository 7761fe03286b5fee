------------------------- MODULE MCProviderSession -------------------------
(* A session and its successor, two calls of the host and a command. *)
EXTENDS ProviderSession, TLC
CONSTANTS k1, k2, c1, c2, m1
Symmetry == Permutations(Keys) \union Permutations(Calls)
=============================================================================
