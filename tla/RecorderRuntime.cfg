SPECIFICATION FairSpec
CONSTANTS
    MaxSessions = 2
    MaxStarts = 1
    MaxUp = 2
    MaxDown = 2
INVARIANTS
    PageIsRight
    OneOperation
PROPERTIES
    StopSettles
CHECK_DEADLOCK FALSE
