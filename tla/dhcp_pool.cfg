SPECIFICATION Spec
CONSTANTS
    StartIp = 1
    EndIp = 2
    ServerIp = 9
    MaxLeases = 2
    Static <- OneStatic
    ZeroMac = zero
    OfferTime = 1
    ConflictTime = 1
    DeclineTime = 1
    MinLease = 1
    MaxLease = 1
    Clients = {}
    Others = {o1, o2, o3}
    Asks = {0}
    DiscoverTimeout = 1
    DiscoverRetries = 2
    TryAgain = 1
    Low = 1
    ProbeTime = 0
    ReleaseOnQuit = TRUE
    MaxSignals = 0
    o1 = o1
    o2 = o2
    o3 = o3
INVARIANTS OneLeaseEach Exclusive
PROPERTIES NeverTaken ConflictKept
SYMMETRY Interchangeable
CHECK_DEADLOCK FALSE
