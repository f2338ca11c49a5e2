SPECIFICATION Spec
CONSTANTS
    Recording = {r1, r2}
    MaxCalls = 2
    MaxBegun = 2
    MaxBoots = 1
    MaxExpiries = 1
SYMMETRY MCSymmetry
INVARIANTS
    PageAgrees
    
PROPERTIES
    SavesWhereRead
CHECK_DEADLOCK FALSE
