SPECIFICATION Spec
CONSTANTS
    m1 = m1
    b1 = b1
    Values <- MCValues
    Fragments <- MCFragments
    Nothing = Nothing
    IdWrap = 10
    PacketWrap = 6
    SendSize = 2
    ReceiveSize = 2
    SentSize = 2
    MaxPerPacket = 2
    Lifetime = 2
    MaxIdle = 1
\* A connection in error ends.
CHECK_DEADLOCK FALSE
INVARIANTS
    TypeOK
    QueuesInWindow
    BlockIsOldest
    DesyncOnlyIfBehind
PROPERTY IsQueue
