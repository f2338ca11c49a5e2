SPECIFICATION Spec
CONSTANTS
    Recorded <- MCRecorded
    Width = 3
    Shown = {2, 4}
    Typed = {4}
    MaxInputs = 2
    MaxOpens = 2
    Null = Null
    Nodes <- MCNodes
    NoText = ""
    MaxChanges = 2
    MaxShows = 2
    MaxForms = 2
    MaxTouches = 2
PROPERTIES
    BoxInside
    UneditedIsKept
    LabelsAgree
CHECK_DEADLOCK FALSE
