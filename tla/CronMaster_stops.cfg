\* A reload of the registry against the master thread, nothing failing.
SPECIFICATION MCFairSpec
CONSTANTS
    Dbs = {d1}
    Jobs = {j1}
    Workers = {w1}
    Loaders = {l1}
    Editors = {}
    Runner = runner
    None = None
    MaxSlots = 1
    Day = 2
    MaxTime = 3
    Faults = {}
    Calls = {1}
    CreateTimes = {2}
    WriteTimes = {}
PROPERTIES
    RunnerKeepsChecking
CHECK_DEADLOCK FALSE
