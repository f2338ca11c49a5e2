SPECIFICATION FairSpec
CONSTANTS
    c1 = c1
    c2 = c2
    c3 = c3
    Connection = {c1, c2, c3}
    Other = Other
    None = None
    StreamMayFail = TRUE
INVARIANTS
    OneUser
    RecordingHasClient
    StopsOwnRecording
    StreamIsLive
PROPERTIES
    DisconnectCompletes
CHECK_DEADLOCK FALSE
