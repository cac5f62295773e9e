CONSTANTS
    a1 = a1
    a2 = a2
    notes = notes
    Agents = {a1, a2}
    Verbs = {notes}
    FolderVerbs = {notes}
    MailVerbs = {}
    AlwaysOn = {}
    LocalOnly = {}
    Calls = {q1, q2}
    CallInputs <- Dispatched
    SavedFiles = {"policy"}
    AuditMayFail = FALSE
    Sessions = {s1}
    MaxSessions = 1
    WireRequests <- AnyIdentity
SPECIFICATION MCFairSpec
CHECK_DEADLOCK FALSE
INVARIANTS
    DelegationIsDenyOnly
    AtMostOneLateDispatch
    ServingIsListed
PROPERTIES
    SessionsEnd
