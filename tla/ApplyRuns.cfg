CONSTANTS
    Proposals <- SomeProposals
    InitFiles <- AllDisks
    Blocked <- BlockedProposals
    High <- HighProposals
    BadVerbs <- MCBadVerbs
    BypassBlocks = FALSE
    MaxRuns = 2
    None = None
SPECIFICATION TwoRunsSpec
CHECK_DEADLOCK FALSE
INVARIANTS
    AllOrNothing
    LeavesUsable
    OnlyGatedChanges
