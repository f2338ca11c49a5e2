SPECIFICATION FairSpec
CONSTANTS
    Workspace = {w1, w2}
    User = {u1}
    Anonymous = anonymous
    Recording = {x1}
    Serial = {s1}
    DeviceSession = {d1, d2}
    Runtime = {r1}
    None = None
    WorkspaceIdle = 2
    DeviceIdle = 1
    RuntimeLease = 0
INVARIANT NoDanglingSession OneSessionPerSerial
PROPERTY ExpiredIsCollected ExpiredStaysExpired
