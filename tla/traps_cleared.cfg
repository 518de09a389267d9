SPECIFICATION Spec
CONSTANTS
  Scripts = {s1, s2}
  Blocks = {b1, b2}
  Lines <- ThreeLines
  LineNumberToPC <- SharedInstruction
  MaxNest = 2
  BlocksAreKept = FALSE
  None = None
SYMMETRY Alike
PROPERTY TrapsAreCleared
