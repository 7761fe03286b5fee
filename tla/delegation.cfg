SPECIFICATION FairSpec
CONSTANTS
  t1 = t1
  m1 = m1
  m2 = m2
  luna = luna
  classifier = classifier
  None = None
  Calls = {t1}
  Native = classifier
  Chats = {luna}
  Rows = {m1, m2}
  Astra = m2
  Scopes <- SmallScopes
  MaxEpoch = 1
INVARIANTS AccountInv
PROPERTIES NothingInVain ChosenByTheRules EverySelectionEnds
CHECK_DEADLOCK FALSE
