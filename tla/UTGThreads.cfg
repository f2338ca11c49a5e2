SPECIFICATION Spec
CONSTANTS
    d1 = d1
    d2 = d2
    d3 = d3
    loop = loop
    worker = worker
    None = None
    Dataset <- ThreeDatasets
    Existing <- OneDataset
    Fresh <- FreshDataset
    Thread <- LoopAndWorker
    Operations <- ReadAndRecord
    MaxCacheSize = 1
    TTLPasses = TRUE
    SaveMayFail = TRUE
    MaxEdits = 2
    MaxLoads = 3
INVARIANTS
    NoLostUpdate
    CacheIsCurrent
PROPERTIES
    EvictionWaits
CHECK_DEADLOCK FALSE
