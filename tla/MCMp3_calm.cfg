\* The user waits for threads to start and to end, tracks are long, the
\* server stays and sends.
CONSTANTS
    Threads = {t1, t2, t3, t4}
    Sockets = {s1}
    NoSocket = NoSocket
    MaxTracks = 2
    MaxPlaylists = 1
    Buttons = {"play", "stop", "pause", "loop", "next", "prev", "station"}
    Impatient = FALSE
    TracksEnd = FALSE
    HangsUp = FALSE
    RunsOut = FALSE
SPECIFICATION StreamingSpec
INVARIANTS TypeOK StatusHasOwner OnePlayer NoConcurrentSocketCalls NetWaitedFor SocketClosedOnce
PROPERTY StopReturns
CHECK_DEADLOCK FALSE
