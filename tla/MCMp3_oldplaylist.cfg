\* Play, stop, and play another file.
CONSTANTS
    Threads = {t1, t2, t3}
    Sockets = {s1}
    NoSocket = NoSocket
    MaxTracks = 1
    MaxPlaylists = 2
    Buttons = {"play", "stop"}
    Impatient = FALSE
    TracksEnd = FALSE
    HangsUp = FALSE
    RunsOut = FALSE
SPECIFICATION Spec
INVARIANT PlaysCurrentPlaylist
CHECK_DEADLOCK FALSE
