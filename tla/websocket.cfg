SPECIFICATION Spec
CONSTANTS
    c1 = c1
    c2 = c2
    c3 = c3
    Conns = {c1, c2, c3}
    MaxConn = 3
    MaxSocks = 3
    Streams <- MCStreams
    MaxPacket = 9
    MaxBroadcasts = 1
    LenMod = 1024
    NULL = NULL
INVARIANTS Delivered SocketList
CHECK_DEADLOCK FALSE
