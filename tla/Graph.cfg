CONSTANTS
    Layers = 2
    Embd = 2
    QEmbd = 2
    KvEmbd = 1
    Ff = 3
    Vocab = 5
    Ctx = 3
    MapSpans = 2
    ClassMin = 2
    ClassGrain = 8
    MAX_CACHED_GRAPHS = 2
    CaptureWarmup = 2
    MaxForwards = 5
    Confs <- MCConfs
    Shapes <- MCShapes
SPECIFICATION Spec
INVARIANTS ReadsAreCurrent EveryCopyAwaited PoolIsResident
PROPERTY RemapAllocatesNothing
