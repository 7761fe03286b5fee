SPECIFICATION Spec
CONSTANTS
  c1 = c1
  c2 = c2
  c3 = c3
  Calls = {c1, c2}
  Parts = {1, 2}
  Workers = 3
  MaxVersion = 2
  MaxKey = 2
INVARIANTS LockCoversWork WholeMeansOneVersion SingleIsSentOnce
PROPERTY AnswersArePromises
SYMMETRY Symmetry
CHECK_DEADLOCK FALSE
