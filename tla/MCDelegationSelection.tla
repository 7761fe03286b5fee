------------------------- MODULE MCDelegationSelection -------------------------
EXTENDS DelegationSelection
CONSTANTS t1, m1, m2, luna, classifier
\* No scope, or one that leaves out the reviewer.
SmallScopes == {{}, {m1}}
=============================================================================
