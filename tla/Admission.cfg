SPECIFICATION FairSpec
CONSTANTS
    Tasks = {t1, t2, t3}
    Ips = {i1, i2}
    Admin = admin
    Accounts = {a1, a2}
    Connections = 2
    PerIp = 1
    Management = 1
    Handshakes = 1
    Slots = 1
    Concurrency = 1
    Waiting = 1
    IpLimit = 2
    AccountLimit = 1
    Window = 2
    Capacity = 1
    SweepEvery = 2
INVARIANTS Bounded AllReturned RateBound
PROPERTIES ShutdownEnds
