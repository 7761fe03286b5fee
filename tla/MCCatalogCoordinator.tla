------------------------- MODULE MCCatalogCoordinator -------------------------
(* Model-checking instances of CatalogCoordinator. *)
EXTENDS CatalogCoordinator, TLC

\* The requests are interchangeable (no liveness is checked with this).
RequestSymmetry == Permutations(Requests)
Symmetry == Permutations(Requests) \cup Permutations(Signals)

\* What a job was before it was finalized, and what a settled call asked for,
\* is never looked at again: states that differ only there behave alike.
LiveView ==
  <<st, [r \in Requests |-> IF st[r] = "waiting" THEN want[r] ELSE "normal"],
    [j \in Requests |-> IF final[j] THEN <<>> ELSE <<kind[j], runKind[j], gen[j]>>],
    waiters, final, runner, slotVars, generation, providerVars,
    abortedSignals, getters, counterVars>>
=============================================================================
