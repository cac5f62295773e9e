CONSTANTS
    Absent = Absent
    Torn = Torn
    Garbled = Garbled
    Refused = Refused
    Blank = Blank
    None = None
    Nothing = Nothing
    Defs = {}
    Clean <- Identity
    Binaries <- MCBinaries
    Jobs = {j1, j2}
    Mixes <- MCMixes
    InitContent <- MCInitContent
    InitCmds <- MCInitCmds
    NewCmds <- MCNewCmds
    Privs <- MCPrivs
    Malformed = {"bad"}
    Under <- MCUnder
    Loose <- MCLoose
    PkgFiles <- MCPkgFiles
    Brew = "/home/brew"
    DirOrder <- MCDirOrder
    Contents = {"good", "forged", "other"}
    TeamOf <- MCTeamOf
    Signed = {"good", "other"}
    Pids = {2}
    Calls = {c1, c2}
    Traffic <- MCTraffic
    InitTargets <- MCInitTargets
    NewTargets <- MCNewTargets
    KeyFiles <- MCKeyFiles
    CredFile <- MCCredFile
    BadValues = {"bad"}
    Artifacts = {"img"}
    Allowed <- MCAllowed
    Platforms = {"", "arm", "amd"}
    UserKeys = {"k1", "k2"}
    NoPub = {"k1"}
    Hosts <- MCHosts
    MaxPolls = 2
SPECIFICATION Spec
CHECK_DEADLOCK FALSE
INVARIANTS
    SystemGated
    RemoteGated
    AnswersAreHonest
PROPERTIES
    SsmEnds
