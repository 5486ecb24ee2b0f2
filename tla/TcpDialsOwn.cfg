SPECIFICATION Spec
CONSTANTS
    Session = {s1, s2}
    Fd = {f1, f2}
    None = None
    TlsPort = FALSE
    SockmapLoaded = FALSE
SYMMETRY Symmetry
INVARIANTS
    DialsOwnBackend
