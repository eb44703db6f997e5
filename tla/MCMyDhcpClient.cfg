SPECIFICATION FairSpec
CONSTANTS
    a1 = a1
    a2 = a2
    Addr = {a1, a2}
    NoAddr = NoAddr
    TtlModulus = 65536
    Client = {c1}
    MessageTimeout = 2
    Datagram <- Paths
    MaxAlarm = 2
PROPERTIES
    ProlongedByAckOnly
    ReleaseEndsUse
    ForwardOnly
    WaitingEnds
    UseEnds
    StopsOnSignal
