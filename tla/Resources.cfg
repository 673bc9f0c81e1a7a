SPECIFICATION MCSpec
CONSTANTS
    Producers = {p1, p2}
    Msgs = {m1, m2}
    Cap = 2
    MaxPush = 3
    Keys = {k1, k2}
    MaxIdle = 1
    MaxInFlight = 2
    MaxOpen = 3
    MaxDepth = 2
    MaxShutdown = 1
    MaxQueue = 2
    MaxRequests = 4
    MaxSends = 2
    Fds = {f1, f2, f3}
    WakeFd = wake
    None = None
    MaxRefused = 2
    Socks = {s1, s2}
    MaxAddrs = 2
    MaxCalls = 3
    FirstChunk = 4
    DefaultChunk = 8
    MaxChunk = 8
    MinAlign = 2
    MaxAlign = 4
    Sizes = {0, 3, 5}
    Aligns = {1, 8}
    MaxBlocks = 3
    MaxAllocs = 3
    MaxNextCap = 24
CHECK_DEADLOCK FALSE
INVARIANTS
    NoLostWakeup PoolIsExact RequestsAreKept SlotsAgree FdsAreOwned AllocsAreDisjoint
PROPERTIES
    ImplementsFifo AcceptedIsDelivered TimedCallsReturn
