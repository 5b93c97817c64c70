CONSTANTS
    Slots = {c1, c2}
    Sockets = {1, 2, 3, 4}
    NoSocket = NoSocket
    MaxAttempts = 0
    Anonymous = TRUE
    Limited = {c2}
    LimitedCommands = {"user", "pasv", "stor"}
    Rude = {c2}
    MaxLost = 0
SPECIFICATION Spec
INVARIANTS TypeOK SocketsOwned TransferAskedFor ListSound
PROPERTIES EndsWhatWasAsked ImplementsSessions
CHECK_DEADLOCK FALSE
