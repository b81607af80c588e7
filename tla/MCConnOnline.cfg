SPECIFICATION MCSpec
CONSTANTS
    c1 = c1
    c2 = c2
    d1 = d1
    i1 = i1
    i2 = i2
    None = None
    Device <- Devices
    Instance = {i1}
    Conn <- Conns2
    Home <- Twins
    Owner <- Owner2
    Pair = {}
    FrameLen = {}
    Traffic <- Replaces2
    MaxQueuedBytes = 2
    Fault = {}
    ClientEnd = {1}
    Budgets <- Calm
INVARIANTS
    ServingIsOnline
CHECK_DEADLOCK FALSE
