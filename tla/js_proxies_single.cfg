CONSTANTS
  Objects = {r1, r2}
  Cells = {o1, o2, o3}
  Dates = {r2}
  c1 = c1  c2 = c2  t1 = t1  t2 = t2
  Calls = {c1, c2}
  Threads = {t1}
  ThreadOf <- OneThread
  Failures = {"respond"}
  SelfConverting = FALSE
  Preemptible = TRUE
  None = None
SPECIFICATION Spec
SYMMETRY Addresses
CHECK_DEADLOCK FALSE
INVARIANTS 
  TypeOK
  PrivateIsLive
  OneProxyPerObject
PROPERTY ImplementsIdentity
