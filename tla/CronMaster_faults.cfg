\* One job, two slots, and everything that may fail but the lock of a job's row.
SPECIFICATION MCSpec
CONSTANTS
    Dbs = {d1}
    Jobs = {j1}
    Workers = {w1, w2}
    Loaders = {l1}
    Editors = {e1}
    Runner = runner
    None = None
    MaxSlots = 2
    Day = 2
    MaxTime = 3
    Faults = {"connect", "load", "finish", "callback", "edit"}
    Calls = {0}
    CreateTimes = {2}
    WriteTimes = {3}
SYMMETRY Symmetry
INVARIANTS
    TypeOK
    IndexMatchesHeap
    SlotsAccounted
    MethodsNeverOverlap
PROPERTIES
    WakeupsAreAlarms
\* The two locks can stop everything, and an exception the master thread.
CHECK_DEADLOCK FALSE
