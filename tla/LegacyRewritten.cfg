CONSTANTS
    Missing = Missing
    Torn = Torn
    Documents <- MCDocuments
    Opened <- MCOpened
    Stored <- MCLegacy
    Statuses = {"completed"}
    Marks = {"applied"}
    Causes <- MCCauses
    MaxSaves = 2
    MaxLines = 12
    MaxConfig = 1
SPECIFICATION Spec
INVARIANT
    LegacyStaysReadable
CHECK_DEADLOCK FALSE
