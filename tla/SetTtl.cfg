SPECIFICATION RoutingSpec
CONSTANTS
    Task = {t1}
    None = None
    Endpoints <- Answered
    Addresses <- Known
    DefaultPort = 5432
    CacheTtls = {1}
    MokaTtl = 2
    DnsTimeout = 1
    DnsTtls = {1, 2}
    MaxTime = 5
CHECK_DEADLOCK FALSE
PROPERTIES
    SetTtlApplies
