SPECIFICATION Spec
CONSTANTS
    Conns = {c1, c2}
    NULL = NULL
    Hosts = {"name"}
    Cached = TRUE
    DeepSleep = FALSE
    KeepAlive = 1
    SendTimeout = 2
    ReconnectTimeout = 1
    MaxQueue = 2
    MaxInFlight = 1
    MaxWifi = 1
PROPERTIES
    ConnectingEnds
