\* The components end: a download returns, the clock's bound is reached.
CONSTANTS
    Workers = {gui, playback, stream, net}
    Block = 4
    BufSize = 8
    Top = 20
    Buffers = {0, 1, 3}
    RecvLengths = {1, 4, 5, 6, 7, 10}
    MaxCalls = 2
    LineSize = 6
    LineLengths = {1, 2, 4, 5}
    MaxCommands = 3
    Slots = {c1, c2}
    Arguments <- TheArguments
    Stored <- TheStored
    Directories <- TheDirectories
    c1 = c1
    c2 = c2
    NumDraw = 2
    StationLists <- TheStationLists
    BookmarkFiles <- TheBookmarkFiles
    MaxFile = 3
    MaxBody = 5
    MaxSegment = 6
    Tick = 2
    Ring = 2
    FrameLengths <- TheFrameLengths
    Volumes = {0, 2}
    MaxSamples = 5
    Tracks <- MusicFiles
    Period = 4
    MaxTicks = 14
SPECIFICATION Spec
INVARIANT TypeOK
PROPERTIES  ReadyWorkerExecutes SocketDataWhole TextsRight FtpRequestsMeant StationsMeant
CHECK_DEADLOCK FALSE
