SPECIFICATION FairSpec
CONSTANTS
  t1 = t1
  t2 = t2
  r1 = r1
  r2 = r2
  i1 = i1
  i2 = i2
  c1 = c1
  c2 = c2
  Threads <- TwoThreads
  Runtimes <- TwoRuntimes
  Ids <- TwoIds
  ContextObjects <- TwoContexts
  None = None
  RuntimeMayFail = TRUE
  ContextMayFail = TRUE
INVARIANTS
  TypeOK
  ContextIsOfItsRuntime
  EntriesAreUsable
  ContextsAreNotShared
  OneGlobal
PROPERTIES
  UnusedRuntimeIsFreed
  GcCollectsForOneThread
CHECK_DEADLOCK FALSE
