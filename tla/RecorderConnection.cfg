SPECIFICATION FairSpec
CONSTANTS
    MaxSockets = 2
    MaxDials = 2
    maxReconnectAttempts = 2
INVARIANTS
    ConnectedHasSocket
    NoOrphanSocket
PROPERTIES
    ConnectSettles
CHECK_DEADLOCK FALSE
