\* One byte is all an agent may print; one call of the observer fails, and two of the probe,
\* beside which two other things happen.
CONSTANTS
    Limit = 1
    MaxFaults = 1
    MaxFailures = 2
    MaxMeddling = 2
SPECIFICATION MCSpec
CHECK_DEADLOCK FALSE
INVARIANTS
    AnswerIsTrue
    KillsOnlyItsOwn
    LeftoversAreReported
PROPERTIES
    ObservationEnds
