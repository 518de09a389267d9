SPECIFICATION Spec
CONSTANTS
  MaxDepth = 2
  MaxTears = 1
  RubyEntries <- RubyMethods
  ScriptEntries <- ScriptHandlers
INVARIANT HeldIsRegistered
