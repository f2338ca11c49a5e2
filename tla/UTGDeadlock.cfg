SPECIFICATION FairSpec
CONSTANTS
    d1 = d1
    d2 = d2
    d3 = d3
    loop = loop
    worker = worker
    None = None
    Dataset <- OneDataset
    Existing <- OneDataset
    Fresh <- NoDataset
    Thread <- LoopAndWorker
    Operations <- ReadBesideEdit
    MaxCacheSize = 1
    TTLPasses = FALSE
    SaveMayFail = FALSE
    MaxEdits = 1
    MaxLoads = 2
PROPERTIES
    EvictionEnds
CHECK_DEADLOCK FALSE
