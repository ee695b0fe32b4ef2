SPECIFICATION Spec
CONSTANTS
    Conns = {c1, c2}
    NULL = NULL
    Hosts = {"address", "name"}
    Cached = TRUE
    DeepSleep = TRUE
    KeepAlive = 2
    SendTimeout = 2
    ReconnectTimeout = 1
    MaxQueue = 2
    MaxInFlight = 2
    MaxWifi = 2
INVARIANTS
    NoDangling
    SendsOnlyWhenUp
