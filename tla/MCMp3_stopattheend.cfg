\* A track ends while it is being stopped.
CONSTANTS
    Threads = {t1, t2}
    Sockets = {s1}
    NoSocket = NoSocket
    MaxTracks = 1
    MaxPlaylists = 1
    Buttons = {"play", "stop"}
    Impatient = FALSE
    TracksEnd = TRUE
    HangsUp = FALSE
    RunsOut = TRUE
SPECIFICATION FairSpec
PROPERTY StopReturns
CHECK_DEADLOCK FALSE
