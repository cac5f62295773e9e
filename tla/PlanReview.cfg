SPECIFICATION ReviewSpec
CONSTANTS
    Conflict = Conflict
    NoCommand = NoCommand
    Builtin = Builtin
    NoImpact = NoImpact
    NoPlan = NoPlan
    SystemMode = TRUE
    MaxApplies = 3
    Bundled <- mcBundled
    Bounds <- mcBounds
    HomeDir <- mcHomeDir
    Proposals <- mcProposals
    AppsDirs <- mcAppsDirs
    InitTargets <- mcInitTargets
    Hidden <- mcHidden
CHECK_DEADLOCK TRUE
INVARIANTS
    NamespaceSound
    WalkNamesStranded
PROPERTIES
    GrantsShown
    SecretsOutOfReach
    PlanIsWhatApplies
