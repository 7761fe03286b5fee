CONSTANTS
  Nobody = Nobody
  Joiners = {j1, j2}
  MaxAttempts = 3
SPECIFICATION FairSpec
INVARIANTS RoundInv
PROPERTIES RoundSteps EveryJoinSettles
CHECK_DEADLOCK FALSE
