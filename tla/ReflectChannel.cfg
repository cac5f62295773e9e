CONSTANTS
    MaxConnects = 2
    MaxCalls = 3
    MaxNonces = 2
SPECIFICATION ChannelSpec
CHECK_DEADLOCK FALSE
INVARIANTS
    ExchangeIsExact
    NonceNeverReused
