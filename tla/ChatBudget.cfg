CONSTANTS
    t1 = t1
    nova = nova
    opus = opus
    off = off
    foreign = foreign
    Tenants = {t1}
    Requests = {r1, r2}
    Inputs <- SpendInputs
    Catalog <- MCCatalog
    ForeignModel = foreign
    DefaultModel = nova
    EnabledModels = {nova, opus}
    PremiumModels = {opus}
    AllowPremium = FALSE
    InPrice <- MCInPrice
    OutPrice <- MCOutPrice
    FallbackTokens = 2
    TokenCeiling = 2
    ReportedTokens = 2
    BudgetCaps = {1, 3}
    ReservationTTL = 0
    MaxTime = 1
    MaxMonth = 1
SPECIFICATION Spec
CHECK_DEADLOCK FALSE
SYMMETRY RequestSymmetry
INVARIANTS
    CapHolds
    NeverDoubleCounted
PROPERTY
    DenialsJustified
