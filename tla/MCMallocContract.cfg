CONSTANTS
    kSizeMod = 1024
    kMinChunkSize = 32
    kMaxSmallBinSize = 48
    kSmallBinBase = 2
    kLargeBinBase = 2
    kLargeBinsFirstCount = 2
    kLargeBinsFirstStep = 32
    kMmapThreshold = 64
    kBrkSize = 64
    kMaxSize = 256
    kFastMax = 40
    kFastConsolidate = 64
    kFastBinsCount = 1
    kBinsCount = 5
    kHeapLimit = 7
    Requests = {20, 56, 72}
    ClientWords <- MCClientWords
    Regions = {r1}
    Null = Null
SPECIFICATION Spec
INVARIANT NeverAborts
PROPERTY KeepsContract
