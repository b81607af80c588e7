SPECIFICATION MCSpec
CONSTANTS
    c1 = c1
    c2 = c2
    d1 = d1
    i1 = i1
    i2 = i2
    None = None
    Device <- Devices
    Instance = {i1}
    Conn <- Conns2
    Home <- Twins
    Owner <- Owner2
    Pair = {}
    FrameLen = {2}
    Traffic <- Mixed2
    MaxQueuedBytes = 2
    Fault = {"timeout", "redis", "load", "tell"}
    ClientEnd = {1, 4411}
    Budgets <- LossOrRestart
INVARIANTS
    StaleIsTold
    ConnTypeOK
    TypeOK
    Reachable
    ChannelsMatch
PROPERTIES
    HubSpec
CHECK_DEADLOCK FALSE
