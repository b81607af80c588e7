SPECIFICATION FairSpec
CONSTANTS
    phone = phone
    tablet = tablet
    f1 = f1
    f2 = f2
    a1 = a1
    a2 = a2
    h1 = h1
    h2 = h2
    None = None
    Device = {phone, tablet}
    Platform <- Platforms
    Token = {f1, f2, a1, a2}
    TokenProvider <- Issuers
    Handler = {h1, h2}
    Fault = {"db", "redis", "provider", "lost", "oauth", "drop"}
    Requests <- Mixed
    MaxCalls = 2
    MaxTokens = 2
    MaxDeaths = 1
    MaxAges = 1
    MaxWindows = 1
CHECK_DEADLOCK FALSE
INVARIANTS TypeOK WakeCoalesced FailedWakeForgotten
PROPERTY EveryCallAnswered
