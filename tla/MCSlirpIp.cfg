SPECIFICATION Spec
CONSTANTS
    large = large
    small = small
    ping = ping
    Datagram = {large, small, ping}
    Info <- MCInfo
    FragTtl = 1
    FragLen = 1
    Slot = {s1, s2}
    NoSocket = NoSocket
    Greedy = 3
    Served = 1
    QueueLimit = 1
    Buffers = 1
    Times = 1
INVARIANTS
    Reassembled
    SessionOrder
    AnswersFromAsked
PROPERTIES
    NothingStays
