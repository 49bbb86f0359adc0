------------------------------ MODULE CronMaster ------------------------------
(***************************************************************************)
(* How openerp-server runs the jobs of ir.cron by itself: one master       *)
(* thread (openerp.cron.runner) wakes up for a database, takes up its due  *)
(* jobs, hands each to a thread of its own and plans the next wake-up.     *)
(* Other threads ask for wake-ups (a job that repeats, an RPC that edits a *)
(* job) or reload a database's registry (RegistryManager.new), which       *)
(* cancels the wake-up and asks for a new one.                             *)
(*                                                                         *)
(* Shared memory: the heap of wake-ups and its index, under _wakeups_lock; *)
(* the registries, under registries_lock; the count of free thread slots.  *)
(* Shared rows: ir_cron, locked one by one with FOR UPDATE NOWAIT.         *)
(*                                                                         *)
(* The clock counts in units of a job's interval.  It stands for a finer   *)
(* one: at 'now' = t the time is past t, so that a strict comparison of    *)
(* the code with a planned time is 'at or before' here.                    *)
(***************************************************************************)
EXTENDS Integers, FiniteSets

CONSTANTS
    Dbs,         \* database names
    Jobs,        \* ids of rows of ir_cron, never reused
    Workers,     \* identities of job threads; more of them than slots
    Loaders,     \* threads that call RegistryManager.new
    Editors,     \* RPC threads that create, write and unlink jobs
    Runner,      \* the master thread
    None,
    MaxSlots,    \* --max-cron-threads
    Day,         \* 24 hours
    MaxTime,     \* bound on the clock
    Faults       \* what may go wrong besides

\* "connect": no cursor to be had; "load": a registry fails before it is ready;
\* "finish": it fails after that; "callback": a job's method raises; "edit": an
\* edit of a job is undone; "unlock": a job's method commits, or is called again
\* after it raised (doall).
FaultKinds == {"connect", "load", "finish", "callback", "edit", "unlock"}

ASSUME CronAssumption ==
    /\ MaxSlots \in Nat \ {0} /\ Day \in Nat \ {0} /\ MaxTime \in Nat \ {0, 1}
    /\ Faults \subseteq FaultKinds
    /\ Runner \notin Loaders
    /\ IsFiniteSet(Workers)
    /\ Workers \cap Editors = {}
    /\ None \notin Dbs \cup Jobs \cup Workers \cup Loaders \cup Editors \cup {Runner}

VARIABLES
    now,         \* the clock
    row,         \* job -> its committed row of ir_cron
    rowLock,     \* job -> the transaction that locked its row
    heap,        \* _wakeups
    byDb,        \* _wakeup_by_db
    wakeLock,    \* owner of _wakeups_lock
    registry,    \* registries: "absent", "loading" (_init) or "ready"
    regLock,     \* owner of registries_lock
    slots,       \* _thread_slots
    pc,          \* runner and loaders: where they are
    db,          \* runner and loaders: the database they work for
    rnow,        \* the time the runner read before its query ('now')
    snap,        \* the rows its cursor shows
    todo,        \* due jobs the runner has not tried yet
    seen,        \* due jobs it tried ('jobs')
    wpc, wjob,   \* job threads: where they are, the job
    wold,        \* the row as the runner read it, with the time it did
    epc, ejob,   \* editors: where they are, the job
    spawned      \* jobs ever handed to a thread (history)

rows     == <<row, rowLock>>
wakeups  == <<heap, byDb>>
regs     == <<registry, regLock>>
pass     == <<rnow, snap, todo, seen>>
workers  == <<wpc, wjob, wold>>
editors  == <<epc, ejob>>
vars == <<now, rows, wakeups, wakeLock, regs, slots, pc, db, pass, workers,
          editors, spawned>>

Threads == Loaders \cup {Runner}

WakeUpNow == 1                  \* earlier than any time of the clock
Times     == 2 .. MaxTime
Planned   == 2 .. (MaxTime + 1)     \* the last run may plan one beyond
WakeTimes == {WakeUpNow} \cup 2 .. (MaxTime + Day)

\* numbercall: how often the method is still to be called; -1 is no limit.
Rows == [db : Dbs, state : {"active", "inactive", "unlinked"},
         nextcall : Planned, numbercall : {-1, 0, 1, 2}]

Wakeups == [time : WakeTimes, db : Dbs, canceled : BOOLEAN]

ASSUME CronNull == None \notin Rows \cup Wakeups \cup WakeTimes

RunnerPcs == {"asleep", "loop", "getpool", "select", "query", "spawn", "doze", "dead"}
LoaderPcs == {"idle", "new", "delete", "cancel", "load", "schedule"}
\* "open" and "stale" call the method without a lock on the job's row, which
\* nobody changed, or somebody did, since the transaction began.
WorkerPcs == {"idle", "run", "ran", "open", "stale", "rolledback", "waiting",
              "wake", "commit", "release"}

TypeOK ==
    /\ now \in Times
    /\ row \in [Jobs -> Rows \cup {None}]
    /\ rowLock \in [Jobs -> Workers \cup Editors \cup {None}]
    /\ heap \subseteq Wakeups
    /\ byDb \in [Dbs -> Wakeups \cup {None}]
    /\ wakeLock \in {None, Runner}
    /\ registry \in [Dbs -> {"absent", "loading", "ready"}]
    /\ regLock \in Threads \cup {None}
    /\ slots \in 0 .. MaxSlots
    /\ pc \in [Threads -> RunnerPcs \cup LoaderPcs]
    /\ db \in [Threads -> Dbs \cup {None}]
    /\ rnow \in Times \cup {None}
    /\ snap \in [Jobs -> Rows \cup {None}] \cup {None}
    /\ todo \subseteq Jobs /\ seen \subseteq Jobs /\ spawned \subseteq Jobs
    /\ wpc \in [Workers -> WorkerPcs]
    /\ wjob \in [Workers -> Jobs \cup {None}]
    /\ wold \in [Workers -> [row : Rows, time : Times] \cup {None}]
    /\ epc \in [Editors -> {"idle", "locked", "wake"}]
    /\ ejob \in [Editors -> Jobs \cup {None}]

Active(r) == r # None /\ r.state = "active" /\ r.numbercall # 0

\* start_master_thread, databases preloaded: each has its first wake-up.
Init ==
    /\ now = 2
    /\ row = [j \in Jobs |-> None]
    /\ rowLock = [j \in Jobs |-> None]
    /\ byDb = [d \in Dbs |-> [time |-> WakeUpNow, db |-> d, canceled |-> FALSE]]
    /\ heap = {byDb[d] : d \in Dbs}
    /\ wakeLock = None
    /\ registry = [d \in Dbs |-> "ready"]
    /\ regLock = None
    /\ slots = MaxSlots
    /\ pc = [t \in Threads |-> IF t = Runner THEN "asleep" ELSE "idle"]
    /\ db = [t \in Threads |-> None]
    /\ rnow = None /\ snap = None /\ todo = {} /\ seen = {}
    /\ wpc = [w \in Workers |-> "idle"]
    /\ wjob = [w \in Workers |-> None]
    /\ wold = [w \in Workers |-> None]
    /\ epc = [e \in Editors |-> "idle"]
    /\ ejob = [e \in Editors |-> None]
    /\ spawned = {}

-----------------------------------------------------------------------------
(* openerp.cron: the heap of wake-ups. *)

\* The lock is re-entrant.
CanLock(lock, t) == lock \in {None, t}

Goto(t, place) == pc' = [pc EXCEPT ![t] = place]

Live(d) == byDb[d] # None /\ ~byDb[d].canceled

\* The task of database d, if it is still to come, is canceled in place.
Canceled(task) == [task EXCEPT !.canceled = TRUE]
HeapWithout(d) ==
    IF Live(d) THEN (heap \ {byDb[d]}) \cup {Canceled(byDb[d])} ELSE heap

Cancel(d) ==
    /\ heap' = HeapWithout(d)
    /\ byDb' = IF Live(d) THEN [byDb EXCEPT ![d] = Canceled(@)] ELSE byDb

\* Variant: the task of before stays in the heap uncanceled.
PushWakeup(time, d) ==
    IF Live(d) /\ time > byDb[d].time THEN UNCHANGED wakeups
    ELSE LET task == [time |-> time, db |-> d, canceled |-> FALSE] IN
         /\ heap' = heap \cup {task}
         /\ byDb' = [byDb EXCEPT ![d] = task]

\* Variant: a wake-up that is planned stays, though it be the later one.
KeepPlanned(time, d) ==
    IF Live(d) THEN UNCHANGED wakeups
    ELSE LET task == [time |-> time, db |-> d, canceled |-> FALSE] IN
         /\ heap' = HeapWithout(d) \cup {task}
         /\ byDb' = [byDb EXCEPT ![d] = task]

\* Variant: of two wake-ups the one that was asked for last stays.
LatestStays(time, d) ==
    LET task == [time |-> time, db |-> d, canceled |-> FALSE] IN
    /\ heap' = HeapWithout(d) \cup {task}
    /\ byDb' = [byDb EXCEPT ![d] = task]

\* schedule_wakeup: of two wake-ups the earlier one stays.
ScheduleWakeup(time, d) ==
    IF Live(d) /\ time > byDb[d].time THEN UNCHANGED wakeups
    ELSE LET task == [time |-> time, db |-> d, canceled |-> FALSE] IN
         /\ heap' = HeapWithout(d) \cup {task}
         /\ byDb' = [byDb EXCEPT ![d] = task]

-----------------------------------------------------------------------------
(* The master thread: runner_body. *)

\* Whatever the time it chose to sleep, the thread awakes and takes the lock.
Awake ==
    /\ pc[Runner] = "asleep"
    /\ CanLock(wakeLock, Runner)
    /\ wakeLock' = Runner
    /\ Goto(Runner, "loop")
    /\ UNCHANGED <<now, rows, wakeups, regs, slots, db, pass, workers, editors, spawned>>

First(task) == task \in heap /\ \A t \in heap : task.time <= t.time

\* Variant: the loop does not ask for a free thread slot.
DueIgnoringSlots(task) == First(task) /\ task.time <= now
DueWakeup(task) == First(task) /\ task.time <= now /\ slots > 0

PopCanceled(task) ==
    /\ pc[Runner] = "loop"
    /\ DueWakeup(task) /\ task.canceled
    /\ heap' = heap \ {task}
    /\ UNCHANGED <<now, rows, byDb, wakeLock, regs, slots, pc, db, pass, workers,
                   editors, spawned>>

PopWakeup(task) ==
    /\ pc[Runner] = "loop"
    /\ DueWakeup(task) /\ ~task.canceled
    /\ heap' = heap \ {task}
    /\ byDb' = [byDb EXCEPT ![task.db] = None]
    /\ db' = [db EXCEPT ![Runner] = task.db]
    /\ Goto(Runner, "getpool")
    /\ UNCHANGED <<now, rows, wakeLock, regs, slots, pass, workers, editors, spawned>>

\* RegistryManager.get: an absent registry is loaded; one that is being
\* loaded by another thread has _init set, and the wake-up is dropped.
GetPool ==
    /\ pc[Runner] = "getpool"
    /\ Goto(Runner, CASE registry[db[Runner]] = "absent"  -> "new"
                      [] registry[db[Runner]] = "loading" -> "loop"
                      [] registry[db[Runner]] = "ready"   -> "select")
    /\ UNCHANGED <<now, rows, wakeups, wakeLock, regs, slots, db, pass, workers,
                   editors, spawned>>

\* An exception that leaves runner_body ends the thread; 'with' frees the lock.
RunnerDies ==
    /\ pc' = [pc EXCEPT ![Runner] = "dead"]
    /\ wakeLock' = None

\* No cursor for _run_jobs_multithread, which opens it outside its try block.
NoCursor ==
    /\ "connect" \in Faults
    /\ pc[Runner] = "select"
    /\ RunnerDies
    /\ UNCHANGED <<now, rows, wakeups, regs, slots, db, pass, workers, editors, spawned>>

\* datetime.now() comes before the query, which asks the database for its time.
ReadClock ==
    /\ pc[Runner] = "select"
    /\ rnow' = now
    /\ Goto(Runner, "query")
    /\ UNCHANGED <<now, rows, wakeups, wakeLock, regs, slots, db, snap, todo, seen, workers,
                   editors, spawned>>

\* The due jobs, and the snapshot both queries of the pass are answered from.
SelectJobs ==
    /\ pc[Runner] = "query"
    /\ snap' = row
    /\ todo' = {j \in Jobs : Active(row[j]) /\ row[j].db = db[Runner]
                                            /\ row[j].nextcall <= now}
    /\ seen' = {}
    /\ Goto(Runner, "spawn")
    /\ UNCHANGED <<now, rows, wakeups, wakeLock, regs, slots, db, rnow, workers, editors,
                   spawned>>

EndPass == rnow' = None /\ snap' = None /\ todo' = {} /\ seen' = {}

\* Variant: the lock goes with the cursor that took it.
LockOfLookup(j, w) == None

\* The row is locked as it is now, but run as it was read: an unlinked job is
\* run as well, its SELECT ... FOR UPDATE locks nothing and does not fail.
LockOf(j, w) == IF row[j].state = "unlinked" THEN None ELSE w

TakeJob(j, w) ==
    /\ pc[Runner] = "spawn"
    /\ j \in todo /\ slots > 0
    /\ rowLock[j] = None
    /\ wpc[w] = "idle"
    /\ rowLock' = [rowLock EXCEPT ![j] = LockOf(j, w)]
    /\ wpc' = [wpc EXCEPT ![w] = "run"]
    /\ wjob' = [wjob EXCEPT ![w] = j]
    /\ wold' = [wold EXCEPT ![w] = [row |-> snap[j], time |-> rnow]]
    /\ slots' = slots - 1
    /\ todo' = todo \ {j} /\ seen' = seen \cup {j}
    /\ spawned' = spawned \cup {j}
    /\ UNCHANGED <<now, row, wakeups, wakeLock, regs, pc, db, rnow, snap, editors>>

\* 55P03: somebody else has the row.
SkipJob(j) ==
    /\ pc[Runner] = "spawn"
    /\ j \in todo /\ slots > 0
    /\ rowLock[j] # None
    /\ todo' = todo \ {j} /\ seen' = seen \cup {j}
    /\ UNCHANGED <<now, rows, wakeups, wakeLock, regs, slots, pc, db, rnow, snap, workers,
                   editors, spawned>>

\* No cursor for a job: the exception is logged and nothing is planned.
NoTaskCursor ==
    /\ "connect" \in Faults
    /\ pc[Runner] = "spawn"
    /\ todo # {} /\ slots > 0
    /\ Goto(Runner, "loop")
    /\ EndPass
    /\ UNCHANGED <<now, rows, wakeups, wakeLock, regs, slots, db, workers, editors,
                   spawned>>

\* Variant: the jobs left for lack of a slot are taken for processed ones.
LeftOutOfPlan == {j \in Jobs : Active(snap[j]) /\ snap[j].db = db[Runner]
                                 /\ j \notin seen \cup todo}

\* Jobs the next wake-up is for: active ones that this pass did not try.
ToPlan == {j \in Jobs : Active(snap[j]) /\ snap[j].db = db[Runner]
                          /\ j \notin seen}

\* min(nextcall), or in a day.
PlanNext ==
    /\ pc[Runner] = "spawn"
    /\ todo = {} \/ slots = 0
    /\ \/ ToPlan = {} /\ ScheduleWakeup(now + Day, db[Runner])
       \/ \E j \in ToPlan :
             /\ \A k \in ToPlan : snap[j].nextcall <= snap[k].nextcall
             /\ ScheduleWakeup(snap[j].nextcall, db[Runner])
    /\ Goto(Runner, "loop")
    /\ EndPass
    /\ UNCHANGED <<now, rows, wakeLock, regs, slots, db, workers, editors, spawned>>

LeaveLoop ==
    /\ pc[Runner] = "loop"
    /\ ~\E task \in heap : DueWakeup(task)
    /\ wakeLock' = None
    /\ db' = [db EXCEPT ![Runner] = None]
    /\ Goto(Runner, "doze")
    /\ UNCHANGED <<now, rows, wakeups, regs, slots, pass, workers, editors, spawned>>

\* The lock again, to see how long to sleep: at most a minute.
Doze ==
    /\ pc[Runner] = "doze"
    /\ CanLock(wakeLock, Runner)
    /\ Goto(Runner, "asleep")
    /\ UNCHANGED <<now, rows, wakeups, wakeLock, regs, slots, db, pass, workers,
                   editors, spawned>>

-----------------------------------------------------------------------------
(* RegistryManager.new, by a loader or by the master thread itself. *)

Reload(t, d) ==
    /\ t \in Loaders
    /\ pc[t] = "idle"
    /\ db' = [db EXCEPT ![t] = d]
    /\ Goto(t, "new")
    /\ UNCHANGED <<now, rows, wakeups, wakeLock, regs, slots, pass, workers, editors, spawned>>

LockRegistries(t) ==
    /\ pc[t] = "new"
    /\ CanLock(regLock, t)
    /\ regLock' = t
    /\ Goto(t, "delete")
    /\ UNCHANGED <<now, rows, wakeups, wakeLock, registry, slots, db, pass, workers,
                   editors, spawned>>

\* delete: the registry goes first, its wake-up is canceled after that.
DeleteRegistry(t) ==
    /\ pc[t] = "delete"
    /\ IF registry[db[t]] = "absent"
       THEN /\ registry' = [registry EXCEPT ![db[t]] = "loading"]
            /\ Goto(t, "load")
       ELSE /\ registry' = [registry EXCEPT ![db[t]] = "absent"]
            /\ Goto(t, "cancel")
    /\ UNCHANGED <<now, rows, wakeups, wakeLock, regLock, slots, db, pass, workers,
                   editors, spawned>>

CancelWakeup(t) ==
    /\ pc[t] = "cancel"
    /\ CanLock(wakeLock, t)
    /\ Cancel(db[t])
    /\ registry' = [registry EXCEPT ![db[t]] = "loading"]
    /\ Goto(t, "load")
    /\ UNCHANGED <<now, rows, wakeLock, regLock, slots, db, pass, workers, editors, spawned>>

LoadModules(t) ==
    /\ pc[t] = "load"
    /\ registry' = [registry EXCEPT ![db[t]] = "ready"]
    /\ regLock' = None
    /\ Goto(t, "schedule")
    /\ UNCHANGED <<now, rows, wakeups, wakeLock, slots, db, pass, workers, editors, spawned>>

\* What the exception of a failed load leaves behind.
GiveUp(t) ==
    /\ regLock' = None
    /\ IF t = Runner
       THEN RunnerDies /\ UNCHANGED db
       ELSE Goto(t, "idle") /\ db' = [db EXCEPT ![t] = None] /\ UNCHANGED wakeLock

\* A module that does not load leaves no registry.  An exception after that (a
\* cursor, signaling, do_parent_store) leaves one that stays "loading".  One after
\* do_parent_store cleared _init (the reports, the commit) leaves it "ready", its
\* wake-up canceled, and nobody asks for another.
LoadFails(t) ==
    /\ pc[t] = "load"
    /\ \/ "load" \in Faults /\ registry' = [registry EXCEPT ![db[t]] = "absent"]
       \/ "load" \in Faults /\ UNCHANGED registry
       \/ "finish" \in Faults /\ registry' = [registry EXCEPT ![db[t]] = "ready"]
    /\ GiveUp(t)
    /\ UNCHANGED <<now, rows, wakeups, slots, pass, workers, editors, spawned>>

\* Registry(db_name) opens a cursor before anything is deleted.
ConnectFails(t) ==
    /\ "connect" \in Faults
    /\ pc[t] = "delete"
    /\ GiveUp(t)
    /\ UNCHANGED <<now, rows, wakeups, registry, slots, pass, workers, editors, spawned>>

\* schedule_cron_jobs, after registries_lock was given up.
ScheduleCronJobs(t) ==
    /\ pc[t] = "schedule"
    /\ CanLock(wakeLock, t)
    /\ ScheduleWakeup(WakeUpNow, db[t])
    /\ IF t = Runner
       THEN Goto(t, "select") /\ UNCHANGED db
       ELSE Goto(t, "idle") /\ db' = [db EXCEPT ![t] = None]
    /\ UNCHANGED <<now, rows, wakeLock, regs, slots, pass, workers, editors, spawned>>

-----------------------------------------------------------------------------
(* The thread of a job: ir_cron._run_job. *)

\* The calls of the loop over the occurrences missed; the row it computes.
Missed(old) ==
    LET n == IF old.time < old.row.nextcall THEN 0
             ELSE old.time - old.row.nextcall + 1 IN
    IF old.row.numbercall > 0 /\ old.row.numbercall < n THEN old.row.numbercall ELSE n
CountedDown(old) == old.row.numbercall - Missed(old)   \* variant: -1 counts, too
Left(old) ==
    IF old.row.numbercall > 0 THEN old.row.numbercall - Missed(old)
                              ELSE old.row.numbercall
NextCall(old) ==
    old.row.nextcall + Missed(old) - (IF Left(old) = 0 THEN 1 ELSE 0)

\* UPDATE ir_cron SET nextcall, numbercall[, active] WHERE id
Updated(r, old) ==
    [r EXCEPT !.nextcall = NextCall(old), !.numbercall = Left(old),
              !.state = IF Left(old) = 0 THEN "inactive" ELSE @]

Callback(w) ==
    /\ wpc[w] = "run"
    /\ wpc' = [wpc EXCEPT ![w] = "ran"]
    /\ UNCHANGED <<now, rows, wakeups, wakeLock, regs, slots, pc, db, pass, wjob, wold,
                   editors, spawned>>

\* Who waits for the row of j tries it again.
Retrying(j) ==
    [v \in Workers |-> IF wjob[v] = j /\ wpc[v] = "waiting" THEN "rolledback" ELSE wpc[v]]

\* Who waits for the row of j, or reads it as it was, has lost it to a change.
Overtaken(j) ==
    [v \in Workers |-> IF wjob[v] # j THEN wpc[v]
                       ELSE CASE wpc[v] = "waiting" -> "release"
                              [] wpc[v] = "open"    -> "stale"
                              [] OTHER              -> wpc[v]]

Unlocked(j, t) == IF rowLock[j] = t THEN [rowLock EXCEPT ![j] = None] ELSE rowLock

\* The thread's transaction ends with the row as it was: who waits tries again.
LoseRow(w, place) ==
    LET j == wjob[w] IN
    /\ rowLock' = Unlocked(j, w)
    /\ wpc' = [(IF rowLock[j] = w THEN Retrying(j) ELSE wpc)
                  EXCEPT ![w] = place]

\* _handle_callback_exception rolls back, and the row's lock is gone.
CallbackFails(w) ==
    /\ "callback" \in Faults
    /\ wpc[w] \in {"run", "open", "stale"}
    /\ Missed(wold[w]) > 0
    /\ LoseRow(w, "rolledback")
    /\ UNCHANGED <<now, row, wakeups, wakeLock, regs, slots, pc, db, pass, wjob, wold,
                   editors, spawned>>

\* A method that commits before it is through, or that is called for the next
\* missed time after it raised, goes on without the lock.
CallbackUnlocks(w) ==
    /\ "unlock" \in Faults
    /\ wpc[w] \in {"run", "open", "stale"}
    /\ Missed(wold[w]) > 0
    /\ LoseRow(w, "open")
    /\ UNCHANGED <<now, row, wakeups, wakeLock, regs, slots, pc, db, pass, wjob, wold,
                   editors, spawned>>

\* The UPDATE has the row, or takes it; then the wake-up is asked for.
UpdateJob(w) ==
    LET j == wjob[w] IN
    /\ \/ wpc[w] = "ran" /\ UNCHANGED rowLock
       \/ /\ wpc[w] \in {"rolledback", "open"} /\ rowLock[j] = None
          /\ rowLock' = [rowLock EXCEPT ![j] = LockOf(j, w)]
    /\ wpc' = [wpc EXCEPT ![w] = IF Left(wold[w]) # 0 THEN "wake" ELSE "commit"]
    /\ UNCHANGED <<now, row, wakeups, wakeLock, regs, slots, pc, db, pass, wjob, wold,
                   editors, spawned>>

WaitForRow(w) ==
    /\ wpc[w] \in {"rolledback", "open"}
    /\ rowLock[wjob[w]] # None
    /\ wpc' = [wpc EXCEPT ![w] = "waiting"]
    /\ UNCHANGED <<now, rows, wakeups, wakeLock, regs, slots, pc, db, pass, wjob, wold,
                   editors, spawned>>

\* A row that somebody changed in the meantime is not to be updated.
UpdateFails(w) ==
    /\ wpc[w] = "stale"
    /\ wpc' = [wpc EXCEPT ![w] = "release"]
    /\ UNCHANGED <<now, rows, wakeups, wakeLock, regs, slots, pc, db, pass, wjob, wold,
                   editors, spawned>>

Reschedule(w) ==
    /\ wpc[w] = "wake"
    /\ CanLock(wakeLock, w)
    /\ ScheduleWakeup(NextCall(wold[w]), wold[w].row.db)
    /\ wpc' = [wpc EXCEPT ![w] = "commit"]
    /\ UNCHANGED <<now, rows, wakeLock, regs, slots, pc, db, pass, wjob, wold, editors,
                   spawned>>

\* Who waited for the row finds it changed: its UPDATE fails, nothing is
\* committed, and its finally clause gives the slot back.
CommitJob(w) ==
    LET j == wjob[w] IN
    /\ wpc[w] = "commit"
    /\ row' = [row EXCEPT ![j] = IF rowLock[j] = w THEN Updated(@, wold[w]) ELSE @]
    /\ rowLock' = Unlocked(j, w)
    /\ wpc' = [(IF rowLock[j] = w THEN Overtaken(j) ELSE wpc)
                  EXCEPT ![w] = "release"]
    /\ UNCHANGED <<now, wakeups, wakeLock, regs, slots, pc, db, pass, wjob, wold, editors,
                   spawned>>

\* Variant: the slot is given back on the way without exceptions only.
ReleaseUnlessFailed(w) ==
    /\ wpc[w] = "release"
    /\ slots' = IF row[wjob[w]].state = "unlinked" THEN slots ELSE slots + 1
    /\ wpc' = [wpc EXCEPT ![w] = "idle"]
    /\ wjob' = [wjob EXCEPT ![w] = None]
    /\ wold' = [wold EXCEPT ![w] = None]
    /\ UNCHANGED <<now, rows, wakeups, wakeLock, regs, pc, db, pass, editors, spawned>>

ReleaseSlot(w) ==
    /\ wpc[w] = "release"
    /\ slots' = slots + 1
    /\ wpc' = [wpc EXCEPT ![w] = "idle"]
    /\ wjob' = [wjob EXCEPT ![w] = None]
    /\ wold' = [wold EXCEPT ![w] = None]
    /\ UNCHANGED <<now, rows, wakeups, wakeLock, regs, pc, db, pass, editors, spawned>>

-----------------------------------------------------------------------------
(* RPCs that edit jobs: ir_cron.create, write and unlink. *)

\* update_running_cron commits first and asks for the wake-up after that.
CreateJob(e, j, r) ==
    /\ epc[e] = "idle"
    /\ row[j] = None
    /\ r.state = "active" /\ r.numbercall # 0
    /\ row' = [row EXCEPT ![j] = r]
    /\ epc' = [epc EXCEPT ![e] = "wake"]
    /\ ejob' = [ejob EXCEPT ![e] = j]
    /\ UNCHANGED <<now, rowLock, wakeups, wakeLock, regs, slots, pc, db, pass, workers,
                   spawned>>

\* _try_lock; when it fails, the user is told so and nothing happens.
TryLock(e, j) ==
    /\ epc[e] = "idle"
    /\ row[j] # None
    /\ row[j].state # "unlinked"
    /\ rowLock[j] = None
    /\ rowLock' = [rowLock EXCEPT ![j] = e]
    /\ epc' = [epc EXCEPT ![e] = "locked"]
    /\ ejob' = [ejob EXCEPT ![e] = j]
    /\ UNCHANGED <<now, row, wakeups, wakeLock, regs, slots, pc, db, pass, workers, spawned>>

\* The committed edit; a job's UPDATE that waited for the row fails.
CommitEdit(e, r) ==
    /\ row' = [row EXCEPT ![ejob[e]] = r]
    /\ rowLock' = Unlocked(ejob[e], e)
    /\ wpc' = Overtaken(ejob[e])
    /\ epc' = [epc EXCEPT ![e] = "wake"]
    /\ UNCHANGED <<now, wakeups, wakeLock, regs, slots, pc, db, pass, wjob, wold, ejob,
                   spawned>>

Write(e, nextcall) ==
    /\ epc[e] = "locked"
    /\ CommitEdit(e, [row[ejob[e]] EXCEPT !.nextcall = nextcall])

Unlink(e) ==
    /\ epc[e] = "locked"
    /\ CommitEdit(e, [row[ejob[e]] EXCEPT !.state = "unlinked"])

\* The edit fails after _try_lock (_check_args, a right missing): rolled back.
EditFails(e) ==
    /\ "edit" \in Faults
    /\ epc[e] = "locked"
    /\ rowLock' = Unlocked(ejob[e], e)
    /\ wpc' = Retrying(ejob[e])
    /\ epc' = [epc EXCEPT ![e] = "idle"]
    /\ ejob' = [ejob EXCEPT ![e] = None]
    /\ UNCHANGED <<now, row, wakeups, wakeLock, regs, slots, pc, db, pass, wjob, wold,
                   spawned>>

UpdateRunningCron(e) ==
    /\ epc[e] = "wake"
    /\ CanLock(wakeLock, e)
    /\ ScheduleWakeup(WakeUpNow, row[ejob[e]].db)
    /\ epc' = [epc EXCEPT ![e] = "idle"]
    /\ ejob' = [ejob EXCEPT ![e] = None]
    /\ UNCHANGED <<now, rows, wakeLock, regs, slots, pc, db, pass, workers, spawned>>

-----------------------------------------------------------------------------
Tick ==
    /\ now < MaxTime
    /\ now' = now + 1
    /\ UNCHANGED <<rows, wakeups, wakeLock, regs, slots, pc, db, pass, workers, editors,
                   spawned>>

RunnerStep ==
    \/ \E task \in heap : PopCanceled(task) \/ PopWakeup(task)
    \/ Awake \/ GetPool \/ ReadClock \/ SelectJobs \/ PlanNext \/ LeaveLoop \/ Doze
    \/ \E j \in Jobs : SkipJob(j) \/ \E w \in Workers : TakeJob(j, w)

LoadStep(t) ==
    \/ LockRegistries(t) \/ DeleteRegistry(t) \/ CancelWakeup(t)
    \/ LoadModules(t) \/ ScheduleCronJobs(t)

WorkerStep(w) ==
    \/ Callback(w) \/ UpdateJob(w) \/ WaitForRow(w) \/ UpdateFails(w)
    \/ Reschedule(w) \/ CommitJob(w) \/ ReleaseSlot(w)

EditStep(e) ==
    \/ \E time \in Times : Write(e, time)
    \/ Unlink(e)
    \/ UpdateRunningCron(e)

Fault ==
    \/ NoCursor \/ NoTaskCursor
    \/ \E t \in Threads : LoadFails(t) \/ ConnectFails(t)
    \/ \E w \in Workers : CallbackFails(w) \/ CallbackUnlocks(w)
    \/ \E e \in Editors : EditFails(e)

Next ==
    \/ Tick
    \/ RunnerStep
    \/ \E t \in Threads : LoadStep(t) \/ \E d \in Dbs : Reload(t, d)
    \/ \E w \in Workers : WorkerStep(w)
    \/ \E e \in Editors : \/ EditStep(e)
                          \/ \E j \in Jobs : TryLock(e, j)
                          \/ \E j \in Jobs, r \in Rows : CreateJob(e, j, r)
    \/ Fault

Spec == Init /\ [][Next]_vars

(* Threads run.  A thread that waits for _wakeups_lock gets it: the master   *)
(* thread leaves it alone for a second at least each time it sleeps.         *)
Fairness ==
    /\ WF_vars(Tick)
    /\ WF_vars(RunnerStep \/ LoadStep(Runner))
    /\ \A t \in Loaders : WF_vars(LoadStep(t))
    /\ \A w \in Workers : WF_vars(WorkerStep(w)) /\ SF_vars(Reschedule(w))
    /\ \A e \in Editors : WF_vars(EditStep(e)) /\ SF_vars(UpdateRunningCron(e))

FairSpec == Spec /\ Fairness
=============================================================================
