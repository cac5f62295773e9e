CONSTANTS
    Absent = Absent
    Torn = Torn
    Garbled = Garbled
    Refused = Refused
    Blank = Blank
    Defs <- MCDefs
    Clean <- MCClean
    Binaries <- MCBinaries
    Admins = {root1, root2}
    Inputs <- MCInputs
    InitDisk <- MCInitDisk
    MaxCommands = 2
    MayFail = TRUE
    Agent = "bot"
SPECIFICATION Spec
CHECK_DEADLOCK FALSE
INVARIANTS
    FilesConsistent
    RemovalNarrows
PROPERTIES
    SurfaceFollowsPolicy
