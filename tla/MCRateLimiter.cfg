SPECIFICATION Spec
CONSTANTS
    Ips = {ip1, ip2}
    Tokens = {t1}
    MaxRequests = 2
    WindowSeconds = 1
    TicksPerSecond = 2
    MaxClock = 5
SYMMETRY Symmetry
INVARIANTS
    AnonNeverLimited
    SlidingWindowBound
    RetryAfterSuffices
    RetryAfterTight
PROPERTIES
    StoreSwept
    ClientsIsolated
    ImplementsSlidingWindow
