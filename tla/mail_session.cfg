SPECIFICATION FairSpec
CONSTANTS
  body = body
  again = again
  save = save
  write = write
  A = A
  k1 = k1
  k2 = k2
  k3 = k3
  Reqs = {body, again, save, write}
  Accounts = {A}
  Keys = {k1, k2, k3}
  Account <- OneAccount
  Kind <- Kinds
  Parts <- PartLists
  Refresh = {again}
  Contents <- Some
  MaxEntryBytes = 2
  MaxBytes = 2
  MaxWrites = 1
INVARIANTS CacheAddsUp LineIsHeldAlone NothingStaleIsServed OutcomesAreTrue
PROPERTIES KeepsTheLine EveryCallSettles
CHECK_DEADLOCK FALSE
