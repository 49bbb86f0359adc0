\* An RPC worker that prints reports and a process that polls for jobs; everything
\* may fail, once.
SPECIFICATION Spec
CONSTANTS
    Procs = {p1, p2}
    Crons = {p2}
    Reporters = {p1}
    None = None
    MaxCommits = 2
    MaxNumbers = 3
    MaxInstalls = 1
    MaxFailures = 1
INVARIANTS
    TypeOK
    ReadNumbersSettled
    ChangesAnnounced
