CONSTANTS
  Values = {v1, v2}
  Proxies = {p1, p2}
  Substitutes = {}
  c1 = c1  c2 = c2  t1 = t1  t2 = t2
  Calls = {c1, c2}
  Threads = {t1}
  ThreadOf <- OneThread
  OutOfMemory = FALSE
  None = None
SPECIFICATION Spec
SYMMETRY Addresses
CHECK_DEADLOCK FALSE
INVARIANTS 
  TypeOK
  OneProxyPerValue
  FreedRuntimeIsForgotten
  AnswerIsAllocated
PROPERTY ImplementsIdentity
