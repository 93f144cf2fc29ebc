SPECIFICATION FairSpec
CHECK_DEADLOCK FALSE
CONSTANTS
  ConfirmPolls = 2
  RecheckPolls = 1
  MaxSignals = 3
  MaxFaults = 1
INVARIANTS
    PermitMeansDead
    NeverSignalsAStranger
    DoubtIsNeverErased
    SuccessIsWhole
    NeverPanics
PROPERTIES
    TwoSignalsEndIt
    RootExitEndsIt
