CONSTANTS
    Targets = {1, 2}
    kPeriod = 2
    Budget = 2
    FirstTicks = {1}
    MaxTicks = 3
    MaxSignals = 2
    MaxSetBacks = 0
SPECIFICATION Spec
INVARIANT QuitResumesAll
