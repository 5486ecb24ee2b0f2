SPECIFICATION ProcessSpec
CONSTANTS
    MaxPackets = 2
    Sockmap = TRUE
    Own = Own
    Other = Other
    None = None
    Session = {s1, s2}
    Id = {i1, i2}
    Nobody = Nobody
    Incoming = {q1, q2}
    PoolSize = 1
    Request = {r1, r2}
    Size = 1
    Nothing = Nothing
    Unavailable = Unavailable
INVARIANTS
    InOrder
    
    DialsOwnBackend
    NothingLeft
    ResponseIsOwn
    Accounted
    TypeOK
    PermitsConserved
    PooledWithinSize
    ClientExclusive
    OwnResponse
PROPERTIES
    ReaderEnds
    SessionEnds
    Answered
    RequestEnds
