SPECIFICATION FairSpec
CONSTANTS
    a1 = a1
    a2 = a2
    Addr = {a1}
    NoAddr = NoAddr
    TtlModulus = 65536
    Endpoint = {e1, e2}
    Nobody = Nobody
    Config <- OneAddress
    ConfigTtl <- EdgeTtl
    MessageTimeout = 2
    Datagram <- Polite
    MaxAlarm = 1
PROPERTIES
    WaitingEnds
    LeaseEnds
    StopDrains
