CONSTANTS
    kSizeMod = 1024
    kMinChunkSize = 32
    kMaxSmallBinSize = 48
    kSmallBinBase = 2
    kLargeBinBase = 2
    kLargeBinsFirstCount = 2
    kLargeBinsFirstStep = 32
    kMmapThreshold = 64
    kBrkSize = 96
    kMaxSize = 512
    kFastMax = 40
    kFastConsolidate = 64
    kFastBinsCount = 1
    kBinsCount = 6
    kHeapLimit = 18
    Requests = {40}
    ClientWords = {}
    Regions = {}
    Null = Null
SPECIFICATION MisuseSpec
INVARIANT OrdinaryDoubleFreeAborts
CHECK_DEADLOCK FALSE
