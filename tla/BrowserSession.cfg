SPECIFICATION TabSpec
CONSTANTS
    Username = {u1, u2}
    MaxWorkspaces = 2
    MaxCalls = 2
    MaxBegun = 3
    MaxFaults = 2
SYMMETRY MCSymmetry
INVARIANTS
    OwnWorkspace
    OthersHidden
PROPERTIES
    KeepsLiveWorkspace
CHECK_DEADLOCK FALSE
