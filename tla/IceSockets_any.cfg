SPECIFICATION Spec
CONSTANTS
    SlotMax = 2
    QueueMax = 1
    Wanted <- RelayThenHost
    Descriptors = {fd1, fd2}
    NoSocket = NoSocket
SYMMETRY SocketNumbers
INVARIANTS
    TypeOK
    NoSocketLost
CHECK_DEADLOCK FALSE
