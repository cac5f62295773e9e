CONSTANTS
    a1 = a1
    mail = mail
    own = own
    inspect = inspect
    Agents = {a1}
    Verbs = {mail, own}
    FolderVerbs = {mail}
    MailVerbs = {mail}
    AlwaysOn = {mail}
    LocalOnly = {inspect}
    Calls = {q1}
    CallInputs <- RaceInputs
    SavedFiles = {"enabled", "agents", "protected", "policy"}
    AuditMayFail = TRUE
SPECIFICATION Spec
CHECK_DEADLOCK FALSE
INVARIANTS
    ExecutedWasAuthorized
    AttenuationNarrows
    NeverActsUnlogged
