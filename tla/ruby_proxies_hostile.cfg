CONSTANTS
  Values = {v1, v2}
  Proxies = {p1, p2, p3}
  Substitutes = {s1}
  c1 = c1  c2 = c2  t1 = t1  t2 = t2
  Calls = {c1, c2}
  Threads = {t1, t2}
  ThreadOf <- TwoThreads
  OutOfMemory = TRUE
  None = None
SPECIFICATION Spec
SYMMETRY Addresses
CHECK_DEADLOCK FALSE
INVARIANTS 
  IndexIsExact
  ProxyPinsValue
  RootsAreAllocated

