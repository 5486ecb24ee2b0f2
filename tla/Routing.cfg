SPECIFICATION RoutingSpec
CONSTANTS
    Task = {t1, t2}
    None = None
    Endpoints <- Answered
    Addresses <- Known
    DefaultPort = 5432
    CacheTtls = {0, 1, 3}
    MokaTtl = 2
    DnsTimeout = 1
    DnsTtls = {1, 2}
    MaxTime = 5
SYMMETRY Symmetry
CHECK_DEADLOCK FALSE
INVARIANTS
    OnlyValidated
    DialsChecked
    BoundedStaleness
