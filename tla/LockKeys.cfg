CONSTANTS
    Session <- MCSession
    Casts <- MCCasts
    Layouts <- MCLayouts
    SessionBase <- MCSessionBase
SPECIFICATION Spec
CHECK_DEADLOCK FALSE
INVARIANTS
    EveryOwnedPathIsCovered
    UsersOfAStoreContend
