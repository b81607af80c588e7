SPECIFICATION MCSpec
CONSTANTS
    d1 = d1
    d2 = d2
    d3 = d3
    p1 = p1
    p2 = p2
    h1 = h1
    h2 = h2
    None = None
    Device = {d1, d2, d3}
    Pair = {p1, p2}
    EndA <- Star
    EndB <- StarTips
    Handler = {h1, h2}
    Fault = {"notify", "db", "write", "notice", "crash"}
    Scenarios <- Calls
SYMMETRY Symmetry
CHECK_DEADLOCK FALSE
INVARIANTS TypeOK StaleCacheIsNotified RemovalReachesPeer HeldIsComplete
