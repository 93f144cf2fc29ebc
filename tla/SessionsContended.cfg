SPECIFICATION FairSpec
CONSTANTS
  K = 3
  S = 4
  Casts <- ContendedCasts
  Preliminary <- ContendedFirst
  Layouts <- ContendedLayouts
  MaxPasses = 2
  Timeouts = TRUE
  MaxCrashes = 1
INVARIANTS
    NoStalePlan
    WaitsInOrder
    OnlyTheDeadAreRecovered
PROPERTIES
    EverySessionEnds
