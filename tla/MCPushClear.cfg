SPECIFICATION MCSpec
CONSTANTS
    phone = phone
    tablet = tablet
    f1 = f1
    f2 = f2
    a1 = a1
    a2 = a2
    h1 = h1
    h2 = h2
    None = None
    Device = {phone, tablet}
    Platform <- Platforms
    Token = {f1, f2, a1, a2}
    TokenProvider <- Issuers
    Handler = {h1, h2}
    Fault = {}
    Requests <- Wakes
    MaxCalls = 1
    MaxTokens = 2
    MaxDeaths = 1
    MaxAges = 0
    MaxWindows = 0
SYMMETRY Symmetry
CHECK_DEADLOCK FALSE
INVARIANT ClearsDeadToken
