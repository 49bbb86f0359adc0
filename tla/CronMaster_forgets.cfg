SPECIFICATION MCSpec
CONSTANTS
    Dbs = {d1}
    Jobs = {j1}
    Workers = {w1, w2}
    Loaders = {}
    Editors = {e1}
    Runner = runner
    None = None
    MaxSlots = 2
    Day = 2
    MaxTime = 3
    Faults = {}
    Calls = {0}
    CreateTimes = {2}
    WriteTimes = {}
INVARIANTS
    RepeatedJobsPlanned
