SPECIFICATION FairSpec
CONSTANTS
    MaxLines = 4
    Split = TRUE
INVARIANTS
    ModeAgreement
    OwnReply
PROPERTIES
    ReplyRelayed
    SessionEnds
