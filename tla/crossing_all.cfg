SPECIFICATION FairSpec
CONSTANTS
  MaxDepth = 3
  MaxTears = 0
  RubyEntries <- RubyMethods
  ScriptEntries <- ScriptHandlers
INVARIANTS
  TypeOK
  RootsBalanced
  CapacityHolds
  FailureIsTested
  NoJumpOverScript
PROPERTY ControlComesBack
