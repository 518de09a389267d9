SPECIFICATION Spec
CONSTANTS
  c1 = c1
  c2 = c2
  d1 = d1
  d2 = d2
  d3 = d3
  Contexts <- TwoContexts
  Debuggers <- ThreeDebuggers
  None = None
INVARIANTS
  LastDebuggerIsCalled
  HookedDebuggerIsAlive
CHECK_DEADLOCK FALSE
