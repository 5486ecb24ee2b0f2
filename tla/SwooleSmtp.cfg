SPECIFICATION FairSpec
CONSTANTS
    MaxPackets = 3
    Coalesce = TRUE
    Split = TRUE
INVARIANTS
    ModeAgreement
    OwnReply
    NothingLeft
PROPERTIES
    SessionEnds
