SPECIFICATION FairSpec
CONSTANT Size = 3
INVARIANTS SuccessIsWhole NothingGoesOn CauseIsTrue
PROPERTY EveryPutReturns
CHECK_DEADLOCK FALSE
