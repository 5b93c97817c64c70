CONSTANTS
    Slots = {c1, c2}
    Sockets = {1, 2, 3, 4}
    NoSocket = NoSocket
    MaxAttempts = 0
    Anonymous = TRUE
    Limited = {c2}
    LimitedCommands = {"user", "pasv", "stor"}
    Rude = {c1}
    MaxLost = 1
SPECIFICATION Spec
PROPERTIES ConnectionKept
CHECK_DEADLOCK FALSE
