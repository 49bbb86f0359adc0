--------------------------- MODULE CronMasterProps ---------------------------
(***************************************************************************)
(* What is checked of CronMaster.                                          *)
(***************************************************************************)
EXTENDS CronMaster

-----------------------------------------------------------------------------
(* Safety. *)

\* The index of the wake-ups and the heap agree: a database has at most one
\* wake-up that is not canceled, and it is the one _wakeup_by_db names.  So
\* 'del _wakeup_by_db[db_name]' in the runner cannot fail, and canceling by way
\* of the index (cron.py, cancel) never leaves a wake-up behind.
IndexMatchesHeap ==
    \A d \in Dbs : {t \in heap : t.db = d /\ ~t.canceled} =
                       IF Live(d) THEN {byDb[d]} ELSE {}

\* Every thread slot is free or held by a job thread that will give it back,
\* whatever becomes of the job: its method raises, its row is deleted while it
\* runs, or its UPDATE loses against another transaction (_run_job's finally).
SlotsAccounted ==
    slots + Cardinality({w \in Workers : wpc[w] # "idle"}) = MaxSlots

\* Nobody is about to run job j, to edit it, to reload its registry or to
\* process its database.
Unattended(j) ==
    /\ pc[Runner] \in {"asleep", "doze"}
    /\ \A w \in Workers : wjob[w] # j
    /\ \A e \in Editors : ejob[e] # j
    /\ \A t \in Loaders : db[t] # row[j].db

\* The master thread will wake up for job j's database in time for the job.
HasWakeup(j) == Live(row[j].db) /\ byDb[row[j].db].time <= row[j].nextcall

\* A job that was never started yet is not forgotten: whatever passes, other
\* jobs, edits, reloads and shortages of slots there were, its database has a
\* wake-up no later than the job.
NewJobsPlanned ==
    \A j \in Jobs \ spawned :
        Active(row[j]) /\ registry[row[j].db] = "ready" /\ Unattended(j) => HasWakeup(j)

\* "Another process/thread is already busy executing job" (_run_jobs_multithread):
\* no two threads are at work on one job's method, or hold what it did before
\* they write the row, though a pass goes by rows it read before it locks them.
AtWork(w) == wpc[w] \in {"run", "ran", "open", "stale"}
MethodsNeverOverlap ==
    \A v, w \in Workers : v # w /\ wjob[v] = wjob[w] => ~(AtWork(v) /\ AtWork(w))

-----------------------------------------------------------------------------
(* Refinement. *)

\* The alarm of a database is its wake-up, if that is still to come.
Alarm == [d \in Dbs |-> IF Live(d) THEN byDb[d].time ELSE None]
Ready == {d \in Dbs : registry[d] = "ready"}

Alarms == INSTANCE CronAlarms WITH AlarmTimes <- WakeTimes, alarm <- Alarm, loaded <- Ready

\* The heap with its canceled entries, the index and the locks are one alarm per
\* database to everybody who uses them (openerp.cron).
WakeupsAreAlarms == Alarms!AlarmSpec

-----------------------------------------------------------------------------
(* Liveness. *)

\* "Neverending function that checks every 60 seconds the next database
\* wake-up" (cron.py, runner): the master thread always gets back to sleep.
RunnerKeepsChecking == []<>(pc[Runner] = "asleep")

\* While every slot is free, a job whose time has come does not wait for ever:
\* some job is handed to a thread, or this one is unlinked or moved.  Which one
\* a pass takes is up to 'order by priority' (ir_cron._run_jobs_multithread): a
\* job that repeats faster than it runs may keep the others from a single slot.
Overdue(j) == Active(row[j]) /\ row[j].nextcall <= now
NoThread == \A w \in Workers : wpc[w] = "idle"
SlotsNotWasted ==
    \A j \in Jobs : (Overdue(j) /\ j \notin spawned /\ NoThread)
                        ~> (~Overdue(j) \/ ~NoThread)

-----------------------------------------------------------------------------
(* What the repository says and the code does not do. *)

\* "Reschedule our own main cron thread if necessary.  This is really needed if
\* this job runs longer than its rescheduling period" (ir_cron._run_job): a job
\* that repeats has a wake-up when its run is over.
RepeatedJobsPlanned ==
    \A j \in Jobs :
        Active(row[j]) /\ registry[row[j].db] = "ready" /\ Unattended(j) => HasWakeup(j)
=============================================================================
