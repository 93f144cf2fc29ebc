SPECIFICATION Spec
CHECK_DEADLOCK FALSE
SYMMETRY Threads
CONSTANTS
  o1 = o1
  o2 = o2
  h1 = h1
  h2 = h2
  Owners <- MCOwners
  Handlers <- MCHandlers
  Kinds <- MCKinds
  MaxGeneration = 2
  MaxSignals = 4
INVARIANTS
    TakesAreFaithful
PROPERTIES
    NoStaleSignal
    ImplementsQueue
