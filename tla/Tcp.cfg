SPECIFICATION FairSpec
CONSTANTS
    Session = {s1, s2}
    Fd = {f1, f2, f3}
    None = None
    TlsPort = TRUE
    SockmapLoaded = TRUE
INVARIANTS
    TypeOK
    ExclusiveBackend
    EntriesHaveOwner
    KernelJoinsOwnPair
PROPERTIES
    SessionEnds
