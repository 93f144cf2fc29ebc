CONSTANTS
    Missing = Missing
    Torn = Torn
    Documents <- MCDocuments
    Opened <- MCOpened
    Stored <- MCStored
    Statuses = {"completed"}
    Marks = {"applied"}
    Causes <- MCCauses
    MaxSaves = 2
    MaxLines = 12
    MaxConfig = 1
SPECIFICATION Spec
INVARIANT
    CrashKeepsAVersion
PROPERTIES
    ImplementsAtomicJournal
    WhatIsSavedLoads
    DamageIsNeverActedOn
    ScansReadVersions
CHECK_DEADLOCK FALSE
