SPECIFICATION Spec
CONSTANTS
    a1 = a1
    a2 = a2
    Addr = {a1, a2}
    NoAddr = NoAddr
    TtlModulus = 65536
    Endpoint = {e1, e2, e3}
    Nobody = Nobody
    Config <- TwoAddresses
    ConfigTtl <- GoodTtl
    MessageTimeout = 1
    Datagram <- Paths
    MaxAlarm = 1
SYMMETRY Symmetry
INVARIANTS
    TypeOK
    PoolPartition
    LeaseWithinMax
    GrantIsBacked
    RefusedOnlyWhenFull
PROPERTIES
    ForwardOnly
    ImplementsLease
