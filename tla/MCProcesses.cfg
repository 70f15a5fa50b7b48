CONSTANTS
    Pids = {1, 2, 3, 4, 5}
    Initial = 1
    Names = {"target", "other"}
    MaxTicks = 2
    MaxEvents = 2
    kMaxPrintedRows = 2
    MaxRefreshes = 2
    exec_name = "target"
SPECIFICATION Spec
INVARIANT ShownIsUsed
INVARIANT ShowsTheBusiest
INVARIANT FindsTheSteady
INVARIANT RecursionEnds
CHECK_DEADLOCK FALSE
