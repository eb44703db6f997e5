SPECIFICATION Spec
CONSTANTS
    a1 = a1
    a2 = a2
    Addr = {a1}
    NoAddr = NoAddr
    TtlModulus = 65536
    Client = {c1, c2}
    Server = Server
    Config <- OneAddress
    ConfigTtl <- ShortTtl
    MessageTimeout = 2
    MaxAlarm = 0
    MaxAge = 1
    Duplicates = FALSE
SYMMETRY Symmetry
INVARIANTS
    ServerSurvives
