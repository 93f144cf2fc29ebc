SPECIFICATION FairSpec
CHECK_DEADLOCK FALSE
CONSTANTS
  N = 4
  Op <- KeptOp
  AutoLinks <- LastOfFour
  Inside <- KeptInside
  KeepMounts = TRUE
  HandleBound = TRUE
  MaxCrashes = 2
  MaxFaults = 1
  MaxMeddling = 1
INVARIANTS
    KeptMeansWhole
PROPERTIES
    KeepsOwnershipPromise
    OperatorCanRetire
