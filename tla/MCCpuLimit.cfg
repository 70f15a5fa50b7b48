CONSTANTS
    Targets = {1, 2}
    kPeriod = 2
    Budget = 2
    FirstTicks = {1}
    MaxTicks = 3
    MaxSignals = 2
    MaxSetBacks = 1
SPECIFICATION Spec
INVARIANT TypeOK
INVARIANT StoppedIsRecorded
INVARIANT RecordedIsStopped
INVARIANT NobodyRunsOverBudget
INVARIANT LeavesNobodyStopped
PROPERTY ResumedOnlyAtPeriodEnd
PROPERTY StoppedIsResumed
PROPERTY EndsWithTargets
