SPECIFICATION Spec
CHECK_DEADLOCK FALSE
CONSTANTS
  N = 3
  Op <- StagedOp
  AutoLinks <- LastOfThree
  Inside <- StagedInside
  KeepMounts = FALSE
  HandleBound = FALSE
  MaxCrashes = 2
  MaxFaults = 1
  MaxMeddling = 2
INVARIANTS
    OwnedStaysRecorded
    AbsenceIsNotProof
    ChildRunsUnderSupervision
    LeavesNothingBehind
PROPERTIES
    OnlyOwnEntriesRemoved
