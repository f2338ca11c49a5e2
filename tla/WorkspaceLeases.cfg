SPECIFICATION Spec
CONSTANTS
    Workspace = {w1, w2, w3}
    User = {u1}
    Anonymous = anonymous
    Recording = {x1, x2}
    Serial = {}
    DeviceSession = {}
    Runtime = {}
    None = None
    WorkspaceIdle = 2
    DeviceIdle = 1
    RuntimeLease = 0
SYMMETRY Symmetry
INVARIANTS
    NoOrphanLease
    LeaseWithinIdleWindow
PROPERTIES
    ImplementsRecordingLock
