CONSTANTS
  Objects = {r1}
  Cells = {o1, o2}
  Dates = {r1}
  c1 = c1  c2 = c2  t1 = t1  t2 = t2
  Calls = {c1, c2}
  Threads = {t1}
  ThreadOf <- OneThread
  Failures = {}
  SelfConverting = FALSE
  Preemptible = FALSE
  None = None
SPECIFICATION Spec
SYMMETRY Addresses
CHECK_DEADLOCK FALSE
INVARIANTS CachedHitIsLive

