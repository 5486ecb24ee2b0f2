SPECIFICATION FairServerSpec
CONSTANTS
    Body <- Texts
    ReadSize = 4
    Length = {1, 6, 7}
    Capacity = 6
    Client = {c1}
    Requester = c1
    Followed <- Requested
    None = None
    Environment <- Environments
    Cpus = 1
    Slots = 2
    MaxErrors = 1
INVARIANTS
    NeverPanics
