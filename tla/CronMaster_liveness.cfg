\* One slot for a job that repeats and another that does not; no reload.
SPECIFICATION MCFairSpec
CONSTANTS
    Dbs = {d1}
    Jobs = {j1, j2}
    Workers = {w1}
    Loaders = {}
    Editors = {e1}
    Runner = runner
    None = None
    MaxSlots = 1
    Day = 2
    MaxTime = 3
    Faults = {}
    Calls = {0, 1}
    CreateTimes = {2, 3}
    WriteTimes = {}
PROPERTIES
    RunnerKeepsChecking
    SlotsNotWasted
