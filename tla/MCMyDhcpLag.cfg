SPECIFICATION FairSpec
CONSTANTS
    a1 = a1
    a2 = a2
    Addr = {a1, a2}
    NoAddr = NoAddr
    TtlModulus = 65536
    Client = {c1}
    Server = Server
    Config <- TwoAddresses
    ConfigTtl <- LongTtl
    MessageTimeout = 5
    MaxAlarm = 1
    MaxAge = 1
    Duplicates = TRUE
INVARIANTS
    UseIsBacked
PROPERTIES
    AddressReturns
