\* The constants of malloc/main.cpp.  kSizeMod stands for 2^64: the walk needs
\* an end, and 720896 lies above the last range (which ends at 699392 bytes).
CONSTANTS
    kSizeMod = 720896
    kMinChunkSize = 32
    kMaxSmallBinSize = 1024
    kSmallBinBase = 2
    kLargeBinBase = 63
    kLargeBinsFirstCount = 32
    kLargeBinsFirstStep = 64
    kBinsCount = 126
    FineUpTo = 12288
    WalkStep = 8

SPECIFICATION Spec
INVARIANT BinIndexCountsClasses
PROPERTY BinIndexMonotone
CHECK_DEADLOCK FALSE
