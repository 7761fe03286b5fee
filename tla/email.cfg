SPECIFICATION FairSpec
CONSTANTS
  m1 = m1
  m2 = m2
  m3 = m3
  m4 = m4
  A = A
  B = B
  Mails = {m1, m2, m4}
  Outlets = {A, B}
  OutletOf <- TwoOutlets
  Files <- TwoFiles
  Replies = {m4}
  Stuck = {m1}
  Outcomes = {"success", "failed", "unknown"}
  None = None
INVARIANTS NotSentMeansNotSent OneSendPerOutlet
PROPERTIES EverySendReturns
CHECK_DEADLOCK FALSE
