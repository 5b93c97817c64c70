\* Any user, any file, any server: threads that must come to their end.
CONSTANTS
    Threads = {t1, t2}
    Sockets = {s1}
    NoSocket = NoSocket
    MaxTracks = 1
    MaxPlaylists = 1
    Buttons = {"play", "replay", "stop", "pause", "bookmark"}
    Impatient = TRUE
    TracksEnd = TRUE
    HangsUp = TRUE
    RunsOut = TRUE
SPECIFICATION FairSpec
PROPERTIES StopHeardWhileDecoding 
CHECK_DEADLOCK FALSE
