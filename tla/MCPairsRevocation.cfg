SPECIFICATION MCSpec
CONSTANTS
    d1 = d1
    d2 = d2
    d3 = d3
    p1 = p1
    p2 = p2
    h1 = h1
    h2 = h2
    None = None
    Device = {d1, d2, d3}
    Pair = {p1, p2}
    EndA <- Star
    EndB <- StarTips
    Handler = {h1, h2}
    Fault = {}
    Scenarios <- Removal
SYMMETRY Symmetry
CHECK_DEADLOCK FALSE
INVARIANT RevocationReachesPeer
