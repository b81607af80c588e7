SPECIFICATION FairSpec
CONSTANTS
    c1 = c1
    c2 = c2
    d1 = d1
    i1 = i1
    i2 = i2
    None = None
    Device <- Devices
    Instance <- Instances
    Conn <- Conns2
    Home <- Home2
    Owner <- Owner2
    Pair = {}
    FrameLen = {}
    Traffic <- Replaces2
    MaxQueuedBytes = 2
    Fault = {"redis"}
    ClientEnd = {1}
    Budgets <- OneLoss
PROPERTIES
    Settles
CHECK_DEADLOCK FALSE
