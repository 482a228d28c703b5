CONSTANTS
    Objects = {o1, o2}
    AvailablePorts = 2
    MaxFds = 2
    QueueCapacity = 2
    MaxPayloadBytes = 1
    MaxRequests = 3
    Absent = Absent
SYMMETRY Symmetry
SPECIFICATION Spec
INVARIANTS
    SocketsOwned
    DpdkOwned
    NoUseAfterClose
    QueuedSentInOrder
