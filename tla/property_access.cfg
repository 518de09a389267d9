SPECIFICATION Spec
CONSTANTS
  v1 = v1
  v2 = v2
  Values <- TwoValues
  SetterFails = TRUE
INVARIANTS
  RubyWins
  ResolvedHasAReason
  AssignedIsRead
