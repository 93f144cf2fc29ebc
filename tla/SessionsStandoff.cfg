SPECIFICATION Spec
CONSTANTS
  K = 2
  S = 3
  Casts <- StandoffCasts
  Preliminary <- StandoffFirst
  Layouts <- StandoffLayouts
  MaxPasses = 3
  Timeouts = FALSE
  MaxCrashes = 0
INVARIANTS
    DeadAreSettledFirst
