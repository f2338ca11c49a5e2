SPECIFICATION EditorSpec
CONSTANTS
    n1 = n1
    n2 = n2
    a = a
    b = b
    Node = {n1, n2}
    Str = {a, b}
    TypedStr = {b}
    Recorded <- MCRecorded
    Null = Null
    MaxUserEdits = 2
    MaxCalls = 2
    MaxFaults = 1
INVARIANTS
    ViewIsCurrent
PROPERTIES
    SavesWhatIsShown
    DeletesWhatWasClicked
CHECK_DEADLOCK FALSE
