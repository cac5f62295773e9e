CONSTANTS
    None = None
    Cleared = Cleared
    Tenants = {"A", "B", "C"}
    Roles = {"developer", "it", "engineer"}
    SharedRoles = {"developer", "engineer"}
    Processes = {"router", "console"}
    Callers = {rc, t1, t2}
    Tabs = {t1, t2}
    HomeOf <- MCHomeOf
    Admins = {a1, a2}
    AdminRequests <- MCAdminRequests
    WebRequests <- MCWebRequests
    InitKeys <- MCInitKeys
    InitCodes <- MCInitCodes
    InitTenants <- MCInitTenants
    MaxRows = 2
    TTL = 1
    MaxQuery = 1
    MaxTime = 4
    SessionMaxAge = 2
    Retention = 1
    Bounds <- MCBounds
SYMMETRY Interchangeable
SPECIFICATION Spec
CHECK_DEADLOCK FALSE
INVARIANTS
    KeysHold
    TenantIsolation
    LogoutSticks
    RetentionHolds
