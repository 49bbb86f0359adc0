\* Jobs, edits, a reload and a shortage of slots, in one database; registries
\* that do not get ready and methods that raise or give up their job's row.
SPECIFICATION MCSpec
CONSTANTS
    Dbs = {d1}
    Jobs = {j1, j2}
    Workers = {w1}
    Loaders = {l1}
    Editors = {e1}
    Runner = runner
    None = None
    MaxSlots = 1
    Day = 2
    MaxTime = 3
    Faults = {"load", "callback", "unlock"}
    Calls = {0}
    CreateTimes = {2, 3}
    WriteTimes = {3}
SYMMETRY Symmetry
INVARIANTS
    NewJobsPlanned
\* The two locks can stop everything (RunnerKeepsChecking, run cron_stops).
CHECK_DEADLOCK FALSE
