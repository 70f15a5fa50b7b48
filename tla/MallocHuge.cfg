\* Blocks just below and far above kMaxSize, which in the code is 1 GB.
CONSTANTS
    kSizeMod = 1024
    kMinChunkSize = 32
    kMaxSmallBinSize = 48
    kSmallBinBase = 2
    kLargeBinBase = 2
    kLargeBinsFirstCount = 2
    kLargeBinsFirstStep = 32
    kMmapThreshold = 64
    kBrkSize = 64
    kMaxSize = 128
    kFastMax = 40
    kFastConsolidate = 64
    kFastBinsCount = 1
    kBinsCount = 5
    kHeapLimit = 7
    Requests = {20, 100, 130}
    ClientWords = {}
    Regions = {r1}
    Null = Null
SPECIFICATION Spec
INVARIANT NeverAborts
