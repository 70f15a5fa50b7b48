CONSTANTS
    kSizeMod = 1024
    kMinChunkSize = 32
    kMaxSmallBinSize = 48
    kSmallBinBase = 2
    kLargeBinBase = 2
    kLargeBinsFirstCount = 2
    kLargeBinsFirstStep = 32
    kMmapThreshold = 64
    kBrkSize = 96
    kMaxSize = 256
    kFastMax = 40
    kFastConsolidate = 64
    kFastBinsCount = 1
    kBinsCount = 5
    kHeapLimit = 12
    Requests = {20, 28, 56, 72}
    ClientWords <- MCClientWords
    Regions = {}
    Null = Null
    Junk = Junk
SPECIFICATION ListedSpec
VIEW ListedView
INVARIANT ListsAreTheBins
PROPERTY FreeOfFreeAborts
CHECK_DEADLOCK FALSE
