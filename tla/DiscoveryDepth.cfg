\* The chain of four directories, with room for all of them: only the depth ends the walk.
CONSTANTS
    Directory <- MCDirectory
    Root = 1
    NoDirectory = 0
    Layouts <- MCLayouts
    SkillFiles <- MCSkillFiles
    MaxDiscoveryDepth = 2
    MaxDiscoveryDirectories = 4
    MaxDiscoveryEntries = 8
SPECIFICATION InventorySpec
INVARIANT
    InventoryIsComplete
CHECK_DEADLOCK FALSE
