CONSTANTS
    t1 = t1
    nova = nova
    opus = opus
    off = off
    foreign = foreign
    Tenants = {t1}
    Requests = {r1, r2}
    Inputs <- GovernanceInputs
    Catalog <- MCCatalog
    ForeignModel = foreign
    DefaultModel = opus
    EnabledModels = {nova, opus}
    PremiumModels = {opus}
    AllowPremium = FALSE
    InPrice <- MCInPrice
    OutPrice <- MCOutPrice
    FallbackTokens = 2
    TokenCeiling = 2
    ReportedTokens = 1
    BudgetCaps = {3}
    ReservationTTL = 1
    MaxTime = 0
    MaxMonth = 0
SPECIFICATION FairSpec
CHECK_DEADLOCK FALSE
INVARIANTS
    EgressGoverned
    ReceiptsTruthful
    SuccessIsAccounted
PROPERTIES
    RequestsSettle
