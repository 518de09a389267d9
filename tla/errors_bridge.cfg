SPECIFICATION FairSpec
CONSTANTS
  e1 = e1
  e2 = e2
  Errors <- TwoErrors
  MaxChain = 4
  Unpropagated = TRUE
  ThrowsNull = TRUE
INVARIANTS
  TypeOK
  PendingIsInFlight
PROPERTIES
  ImplementsDelivery
  ErrorsArrive
