SPECIFICATION FairSpec
CONSTANTS
    StartIp = 1
    EndIp = 1
    ServerIp = 9
    MaxLeases = 1
    Static <- NoStatic
    ZeroMac = zero
    OfferTime = 1
    ConflictTime = 1
    DeclineTime = 1
    MinLease = 2
    MaxLease = 7
    Clients = {c1}
    Others = {o1}
    Asks = {1}
    DiscoverTimeout = 2
    DiscoverRetries = 2
    TryAgain = 1
    Low = 2
    ProbeTime = 1
    ReleaseOnQuit = TRUE
    MaxSignals = 2
    o1 = o1
    o2 = o2
    o3 = o3
INVARIANTS DhcpInv HeldIsReserved Exclusive
PROPERTY LeasesEnd
CHECK_DEADLOCK FALSE
