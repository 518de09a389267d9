CONSTANTS
  Objects = {r1, r2}
  Cells = {o1, o2, o3}
  Dates = {}
  c1 = c1  c2 = c2  t1 = t1  t2 = t2
  Calls = {c1, c2}
  Threads = {t1, t2}
  ThreadOf <- TwoThreads
  Failures = {"respond", "define", "wrap"}
  SelfConverting = TRUE
  Preemptible = FALSE
  None = None
SPECIFICATION Spec
CHECK_DEADLOCK FALSE
INVARIANTS CachedHitIsLive IndexIsExact PinnedByAProxy
PROPERTY OnlyTwinsLoseObjects
