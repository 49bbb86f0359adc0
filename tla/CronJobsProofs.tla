---------------------------- MODULE CronJobsProofs ----------------------------
(***************************************************************************)
(* More proofs about CronMaster, on top of its inductive invariant: that   *)
(* no job's method runs twice at a time, that no job is forgotten before   *)
(* its first run, and that the heap of wake-ups with its index is one      *)
(* alarm per database.                                                     *)
(***************************************************************************)
EXTENDS CronMasterProofs

-----------------------------------------------------------------------------
(* Locks of rows: who calls a job's method holds the job's row, or the job   *)
(* was unlinked between the query and the lock and no other thread will get  *)
(* it.                                                                       *)

HasRow(w) == wpc[w] \in {"run", "ran"}

LockInv ==
    /\ \A j \in Jobs : rowLock[j] # None => row[j] # None /\ row[j].state # "unlinked"
    /\ \A e \in Editors : epc[e] = "locked" => rowLock[ejob[e]] = e
    /\ \A w \in Workers : HasRow(w) =>
          \/ rowLock[wjob[w]] = w
          \/ row[wjob[w]].state = "unlinked" /\ wjob[w] \notin todo
    /\ \A v, w \in Workers :
          v # w /\ wjob[v] = wjob[w] => ~(HasRow(v) /\ HasRow(w))
    /\ "unlock" \notin Faults => \A w \in Workers : wpc[w] \notin {"open", "stale"}

\* Steps that leave rows, their locks, job threads and editors alone.
LEMMA FrameLockInv ==
    LockInv /\ UNCHANGED <<row, rowLock, wpc, wjob, epc, ejob>> /\ todo' \subseteq todo
        => LockInv'
  BY DEF LockInv, HasRow

\* A job thread goes on and holds no row it did not hold.
LEMMA WorkerGoesOn ==
    ASSUME IInv, LockInv, NEW w \in Workers, NEW place \in WorkerPcs,
           wpc' = [wpc EXCEPT ![w] = place],
           place = "ran" => wpc[w] = "run",
           place \notin {"run", "open", "stale"},
           UNCHANGED <<row, rowLock, wjob, epc, ejob, todo>>
    PROVE  LockInv'
  <1>1. \A v \in Workers : (HasRow(v))' => HasRow(v)
    BY DEF HasRow, IInv, WorkerInv
  <1>2. "unlock" \notin Faults => \A v \in Workers : wpc'[v] \notin {"open", "stale"}
    BY DEF LockInv, IInv, WorkerInv
  <1> HIDE DEF HasRow
  <1> QED BY <1>1, <1>2 DEF LockInv

\* Whoever gives a row up leaves the locks of the others in place.
LEMMA RowGivenUp ==
    ASSUME IInv, LockInv, NEW j \in Jobs, NEW t \in Workers \cup Editors,
           rowLock' = Unlocked(j, t), wjob' = wjob, todo' = todo,
           row' \in [Jobs -> Rows \cup {None}],
           \A k \in Jobs \ {j} : row'[k] = row[k],
           rowLock[j] # t => row'[j] = row[j],
           row[j] # None => row'[j] # None,
           \A v \in Workers : (HasRow(v))' => HasRow(v) /\ v # t,
           \A e \in Editors : epc'[e] = "locked" =>
               epc[e] = "locked" /\ ejob'[e] = ejob[e] /\ e # t,
           "unlock" \notin Faults => \A v \in Workers : wpc'[v] \notin {"open", "stale"}
    PROVE  LockInv'
  <1> USE DEF IInv
  <1>1. /\ rowLock'[j] \in {rowLock[j], None} /\ (rowLock[j] = t => rowLock'[j] = None)
        /\ rowLock[j] # t => rowLock'[j] = rowLock[j]
        /\ \A k \in Jobs \ {j} : rowLock'[k] = rowLock[k]
    BY DEF RowInv, Unlocked
  <1>2. \A k \in Jobs : rowLock'[k] # None => row'[k] # None /\ row'[k].state # "unlinked"
    <2> SUFFICES ASSUME NEW k \in Jobs, rowLock'[k] # None
                 PROVE  row'[k] # None /\ row'[k].state # "unlinked"
      OBVIOUS
    <2>1. rowLock'[k] = rowLock[k] /\ row'[k] = row[k]
      BY <1>1
    <2> QED BY <2>1 DEF LockInv
  <1>3. \A e \in Editors : epc'[e] = "locked" => rowLock'[ejob'[e]] = e
    <2> SUFFICES ASSUME NEW e \in Editors, epc'[e] = "locked"
                 PROVE  rowLock'[ejob'[e]] = e
      OBVIOUS
    <2>1. epc[e] = "locked" /\ ejob'[e] = ejob[e] /\ e # t /\ ejob[e] \in Jobs
          /\ rowLock[ejob[e]] = e
      BY DEF LockInv, EditorInv
    <2> QED BY <1>1, <2>1
  <1>4. ASSUME NEW v \in Workers, (HasRow(v))'
        PROVE  \/ rowLock'[wjob'[v]] = v
               \/ row'[wjob'[v]].state = "unlinked" /\ wjob'[v] \notin todo'
    <2>1. HasRow(v) /\ v # t /\ wjob'[v] = wjob[v]
      BY <1>4
    <2>2. wjob[v] \in Jobs
      BY <2>1 DEF HasRow, WorkerInv
    <2>3. CASE rowLock[wjob[v]] = v
      BY <1>1, <2>1, <2>2, <2>3
    <2>4. CASE row[wjob[v]].state = "unlinked" /\ wjob[v] \notin todo
      <3>1. rowLock[wjob[v]] = None
        BY <2>2, <2>4 DEF LockInv
      <3>2. t # None
        BY CronAssumption
      <3>3. row'[wjob[v]] = row[wjob[v]]
        BY <2>2, <3>1, <3>2
      <3> QED BY <2>1, <2>4, <3>3
    <2> QED BY <2>1, <2>3, <2>4 DEF LockInv
  <1>5. \A v, w \in Workers :
           v # w /\ wjob'[v] = wjob'[w] => ~((HasRow(v))' /\ (HasRow(w))')
    <2> HIDE DEF HasRow
    <2> QED BY DEF LockInv
  <1> HIDE DEF HasRow
  <1> QED BY <1>2, <1>3, <1>4, <1>5 DEF LockInv

\* A job thread's transaction ends with the row as it was.
LEMMA LoseRowLockInv ==
    ASSUME IInv, LockInv, NEW w \in Workers, CallbackFails(w) \/ CallbackUnlocks(w)
    PROVE  LockInv'
  <1>1. PICK place \in {"rolledback", "open"} :
           /\ LoseRow(w, place)
           /\ place = "open" => "unlock" \in Faults
    BY DEF CallbackFails, CallbackUnlocks
  <1>2. /\ wpc[w] # "idle"
        /\ UNCHANGED <<row, wjob, todo, epc, ejob>>
    BY DEF CallbackFails, CallbackUnlocks, pass, editors
  <1>3. wjob[w] \in Jobs
    BY <1>2 DEF IInv, WorkerInv
  <1>4. rowLock' = Unlocked(wjob[w], w)
    BY <1>1 DEF LoseRow
  <1>5. \A v \in Workers : \/ wpc'[v] = wpc[v] /\ v # w
                           \/ wpc'[v] = "rolledback"
                           \/ wpc'[v] = "open" /\ "unlock" \in Faults
    BY <1>1 DEF LoseRow, Retrying, IInv, WorkerInv
  <1>6. \A v \in Workers : (HasRow(v))' => HasRow(v) /\ v # w
    BY <1>5 DEF HasRow
  <1>7. "unlock" \notin Faults => \A v \in Workers : wpc'[v] \notin {"open", "stale"}
    BY <1>5 DEF LockInv
  <1>8. \A e \in Editors : epc'[e] = "locked" =>
            epc[e] = "locked" /\ ejob'[e] = ejob[e] /\ e # w
    BY <1>2, CronAssumption
  <1>9. row' \in [Jobs -> Rows \cup {None}]
    BY <1>2 DEF IInv, RowInv
  <1> QED BY <1>2, <1>3, <1>4, <1>6, <1>7, <1>8, <1>9, RowGivenUp

\* Who lost the row to a change did not hold it.
LEMMA OvertakenHoldNoRow ==
    ASSUME IInv, LockInv, NEW j \in Jobs, NEW v \in Workers
    PROVE  /\ Overtaken(j)[v] \in {"run", "ran"} => wpc[v] = Overtaken(j)[v]
           /\ "unlock" \notin Faults => Overtaken(j)[v] \notin {"open", "stale"}
  BY DEF IInv, WorkerInv, Overtaken, LockInv

LEMMA CommitJobLockInv ==
    ASSUME IInv, IInv', LockInv, NEW w \in Workers, CommitJob(w)
    PROVE  LockInv'
  <1> DEFINE j == wjob[w]
             places == IF rowLock[j] = w THEN Overtaken(j) ELSE wpc
  <1>1. /\ wpc[w] = "commit" /\ j \in Jobs /\ row[j] # None
        /\ UNCHANGED <<wjob, todo, epc, ejob>>
    BY DEF CommitJob, pass, editors, IInv, WorkerInv
  <1>2. /\ row' = [row EXCEPT ![j] = IF rowLock[j] = w THEN Updated(@, wold[w]) ELSE @]
        /\ rowLock' = Unlocked(j, w)
        /\ wpc' = [places EXCEPT ![w] = "release"]
    BY DEF CommitJob
  <1>3. /\ row' \in [Jobs -> Rows \cup {None}]
        /\ \A k \in Jobs \ {j} : row'[k] = row[k]
        /\ rowLock[j] # w => row'[j] = row[j]
    BY <1>1, <1>2 DEF IInv, RowInv
  <1>4. row'[j] # None
    <2>1. wpc'[w] = "release"
      BY <1>2 DEF IInv, WorkerInv, Overtaken
    <2> QED BY <1>1, <2>1 DEF IInv, WorkerInv
  <1>5. /\ places \in [Workers -> WorkerPcs]
        /\ \A v \in Workers :
              /\ places[v] \in {"run", "ran"} => wpc[v] = places[v]
              /\ "unlock" \notin Faults => places[v] \notin {"open", "stale"}
    BY <1>1, WaitersStayBusy, OvertakenHoldNoRow DEF IInv, WorkerInv, LockInv
  <1> HIDE DEF places
  <1>6. /\ \A v \in Workers : (HasRow(v))' => HasRow(v) /\ v # w
        /\ "unlock" \notin Faults => \A v \in Workers : wpc'[v] \notin {"open", "stale"}
    BY <1>2, <1>5 DEF HasRow
  <1>7. \A e \in Editors : epc'[e] = "locked" =>
            epc[e] = "locked" /\ ejob'[e] = ejob[e] /\ e # w
    BY <1>1, CronAssumption
  <1> QED BY <1>1, <1>2, <1>3, <1>4, <1>6, <1>7, RowGivenUp

\* A committed edit; the row it writes may be an unlinked one.
LEMMA CommitEditLockInv ==
    ASSUME IInv, LockInv, NEW e \in Editors, epc[e] = "locked", NEW r \in Rows,
           CommitEdit(e, r)
    PROVE  LockInv'
  <1> DEFINE j == ejob[e]
  <1>1. j \in Jobs /\ rowLock[j] = e
    BY DEF IInv, EditorInv, LockInv
  <1>2. UNCHANGED <<wjob, todo, ejob>>
    BY DEF CommitEdit, pass
  <1>3. /\ row' = [row EXCEPT ![j] = r]
        /\ rowLock' = Unlocked(j, e)
        /\ wpc' = Overtaken(j)
        /\ epc' = [epc EXCEPT ![e] = "wake"]
    BY DEF CommitEdit
  <1>4. /\ row' \in [Jobs -> Rows \cup {None}]
        /\ \A k \in Jobs \ {j} : row'[k] = row[k]
        /\ row[j] # None => row'[j] # None
    BY <1>1, <1>3, RewrittenRow DEF IInv, RowInv
  <1>5. /\ \A v \in Workers : (HasRow(v))' => HasRow(v) /\ v # e
        /\ "unlock" \notin Faults => \A v \in Workers : wpc'[v] \notin {"open", "stale"}
    BY <1>1, <1>3, OvertakenHoldNoRow, CronAssumption DEF HasRow
  <1>6. \A f \in Editors : epc'[f] = "locked" =>
            epc[f] = "locked" /\ ejob'[f] = ejob[f] /\ f # e
    BY <1>2, <1>3 DEF IInv, EditorInv
  <1> QED BY <1>1, <1>2, <1>3, <1>4, <1>5, <1>6, RowGivenUp

\* An edit that is undone.
LEMMA EditFailsLockInv ==
    ASSUME IInv, LockInv, NEW e \in Editors, EditFails(e)
    PROVE  LockInv'
  <1> DEFINE j == ejob[e]
  <1>1. epc[e] = "locked" /\ j \in Jobs /\ rowLock[j] = e
    BY DEF EditFails, IInv, EditorInv, LockInv
  <1>2. UNCHANGED <<row, wjob, todo>>
    BY DEF EditFails, pass
  <1>3. /\ rowLock' = Unlocked(j, e)
        /\ wpc' = Retrying(j)
        /\ epc' = [epc EXCEPT ![e] = "idle"]
        /\ ejob' = [ejob EXCEPT ![e] = None]
    BY DEF EditFails
  <1>4. row' \in [Jobs -> Rows \cup {None}]
    BY <1>2 DEF IInv, RowInv
  <1>5. /\ \A v \in Workers : (HasRow(v))' => HasRow(v) /\ v # e
        /\ "unlock" \notin Faults => \A v \in Workers : wpc'[v] \notin {"open", "stale"}
    BY <1>3, CronAssumption DEF HasRow, Retrying, LockInv, IInv, WorkerInv
  <1>6. \A f \in Editors : epc'[f] = "locked" =>
            epc[f] = "locked" /\ ejob'[f] = ejob[f] /\ f # e
    BY <1>3 DEF IInv, EditorInv
  <1> QED BY <1>1, <1>2, <1>3, <1>4, <1>5, <1>6, RowGivenUp

\* A due job goes to a thread that gets its row, or finds it unlinked.
LEMMA TakeJobLockInv ==
    ASSUME IInv, LockInv, NEW j \in Jobs, NEW w \in Workers, TakeJob(j, w)
    PROVE  LockInv'
  <1> USE DEF IInv
  <1>1. /\ rowLock[j] = None /\ j \in todo /\ row[j] # None /\ wpc[w] = "idle"
        /\ rowLock' = [rowLock EXCEPT ![j] = LockOf(j, w)]
        /\ wpc' = [wpc EXCEPT ![w] = "run"]
        /\ wjob' = [wjob EXCEPT ![w] = j]
        /\ todo' = todo \ {j}
        /\ UNCHANGED <<row, epc, ejob>>
    BY DEF TakeJob, PassInv, editors
  <1>2. /\ rowLock'[j] = IF row[j].state = "unlinked" THEN None ELSE w
        /\ \A k \in Jobs \ {j} : rowLock'[k] = rowLock[k]
    BY <1>1 DEF LockOf, RowInv
  <1>3. /\ wpc'[w] = "run" /\ wjob'[w] = j
        /\ \A v \in Workers \ {w} : wpc'[v] = wpc[v] /\ wjob'[v] = wjob[v]
    BY <1>1 DEF WorkerInv
  <1>4. \A v \in Workers \ {w} : HasRow(v) => wjob[v] \in Jobs \ {j}
    <2> SUFFICES ASSUME NEW v \in Workers \ {w}, HasRow(v)
                 PROVE  wjob[v] \in Jobs /\ wjob[v] # j
      OBVIOUS
    <2>1. wjob[v] \in Jobs
      BY DEF HasRow, WorkerInv
    <2>2. rowLock[wjob[v]] = v \/ wjob[v] \notin todo
      BY DEF LockInv
    <2>3. v # None
      BY CronAssumption
    <2> QED BY <1>1, <2>1, <2>2, <2>3
  <1>5. \A k \in Jobs : rowLock'[k] # None => row'[k] # None /\ row'[k].state # "unlinked"
    BY <1>1, <1>2 DEF LockInv
  <1>6. \A e \in Editors : epc'[e] = "locked" => rowLock'[ejob'[e]] = e
    <2> SUFFICES ASSUME NEW e \in Editors, epc[e] = "locked"
                 PROVE  rowLock'[ejob[e]] = e
      BY <1>1
    <2>1. ejob[e] \in Jobs /\ rowLock[ejob[e]] = e /\ e # None
      BY CronAssumption DEF EditorInv, LockInv
    <2> QED BY <1>1, <1>2, <2>1
  <1>7. ASSUME NEW v \in Workers, (HasRow(v))'
        PROVE  \/ rowLock'[wjob'[v]] = v
               \/ row'[wjob'[v]].state = "unlinked" /\ wjob'[v] \notin todo'
    <2>1. CASE v = w
      BY <1>1, <1>2, <1>3, <2>1
    <2>2. CASE v # w
      <3>1. HasRow(v) /\ wjob'[v] = wjob[v] /\ wjob[v] \in Jobs \ {j}
        BY <1>3, <1>4, <1>7, <2>2 DEF HasRow
      <3>2. \/ rowLock[wjob[v]] = v
            \/ row[wjob[v]].state = "unlinked" /\ wjob[v] \notin todo
        BY <3>1 DEF LockInv
      <3> QED BY <1>1, <1>2, <3>1, <3>2
    <2> QED BY <2>1, <2>2
  <1>8. ASSUME NEW u \in Workers, NEW v \in Workers, u # v, wjob'[u] = wjob'[v]
        PROVE  ~((HasRow(u))' /\ (HasRow(v))')
    <2>1. CASE u # w /\ v # w
      BY <1>3, <1>8, <2>1 DEF LockInv, HasRow
    <2>2. CASE u = w \/ v = w
      BY <1>3, <1>4, <1>8, <2>2 DEF HasRow
    <2> QED BY <2>1, <2>2
  <1>9. "unlock" \notin Faults => \A v \in Workers : wpc'[v] \notin {"open", "stale"}
    BY <1>3 DEF LockInv
  <1> HIDE DEF HasRow
  <1> QED BY <1>5, <1>6, <1>7, <1>8, <1>9 DEF LockInv

\* An UPDATE takes the row if nobody has it, or goes on with the lock it has.
LEMMA UpdateJobLockInv ==
    ASSUME IInv, LockInv, NEW w \in Workers, UpdateJob(w)
    PROVE  LockInv'
  <1> USE DEF IInv
  <1> DEFINE j == wjob[w]
  <1>1. /\ j \in Jobs /\ row[j] # None
        /\ UNCHANGED <<row, wjob, epc, ejob, todo>>
        /\ \A v \in Workers : wpc'[v] # wpc[v] => v = w /\ wpc'[v] \in {"wake", "commit"}
    BY DEF UpdateJob, WorkerInv, pass, editors
  <1>2. /\ \A k \in Jobs \ {j} : rowLock'[k] = rowLock[k]
        /\ \/ rowLock'[j] = rowLock[j]
           \/ /\ rowLock[j] = None
              /\ rowLock'[j] # None => row[j].state # "unlinked"
    BY <1>1 DEF UpdateJob, LockOf, RowInv
  <1>3. /\ \A v \in Workers : (HasRow(v))' => HasRow(v)
        /\ "unlock" \notin Faults => \A v \in Workers : wpc'[v] \notin {"open", "stale"}
    BY <1>1 DEF HasRow, LockInv
  <1>4. \A k \in Jobs : rowLock'[k] # None => row'[k] # None /\ row'[k].state # "unlinked"
    BY <1>1, <1>2 DEF LockInv
  <1>5. \A k \in Jobs : rowLock[k] # None => rowLock'[k] = rowLock[k]
    BY <1>2
  <1>6. \A e \in Editors : epc'[e] = "locked" => rowLock'[ejob'[e]] = e
    BY <1>1, <1>5, CronAssumption DEF LockInv, EditorInv
  <1>7. ASSUME NEW v \in Workers, (HasRow(v))'
        PROVE  \/ rowLock'[wjob'[v]] = v
               \/ row'[wjob'[v]].state = "unlinked" /\ wjob'[v] \notin todo'
    <2>1. wjob[v] \in Jobs /\ v # None /\ HasRow(v)
      BY <1>3, <1>7, CronAssumption DEF HasRow, WorkerInv
    <2> QED BY <1>1, <1>5, <2>1 DEF LockInv
  <1>8. \A u, v \in Workers :
           u # v /\ wjob'[u] = wjob'[v] => ~((HasRow(u))' /\ (HasRow(v))')
    <2> HIDE DEF HasRow
    <2> QED BY <1>1, <1>3 DEF LockInv
  <1> HIDE DEF HasRow
  <1> QED BY <1>3, <1>4, <1>6, <1>7, <1>8 DEF LockInv

LEMMA NextLockInv == IInv /\ IInv' /\ LockInv /\ [Next]_vars => LockInv'
<1> SUFFICES ASSUME IInv, IInv', LockInv, [Next]_vars PROVE LockInv'
  OBVIOUS
<1>1. ASSUME \/ Tick \/ Awake \/ GetPool \/ NoCursor \/ ReadClock \/ NoTaskCursor
             \/ PlanNext \/ LeaveLoop \/ Doze
             \/ \E task \in heap : PopCanceled(task) \/ PopWakeup(task)
             \/ \E j \in Jobs : SkipJob(j)
      PROVE  LockInv'
  <2>1. UNCHANGED <<row, rowLock, wpc, wjob, epc, ejob>> /\ todo' \subseteq todo
    BY <1>1 DEF Tick, Awake, GetPool, NoCursor, ReadClock, NoTaskCursor, PlanNext,
           LeaveLoop, Doze, PopCanceled, PopWakeup, SkipJob, EndPass, rows, workers,
           editors, pass
  <2> QED BY <2>1, FrameLockInv
<1>2. ASSUME NEW t \in Threads,
             \/ LoadStep(t) \/ LoadFails(t) \/ ConnectFails(t)
             \/ \E d \in Dbs : Reload(t, d)
      PROVE  LockInv'
  <2>1. UNCHANGED <<row, rowLock, wpc, wjob, epc, ejob>> /\ todo' \subseteq todo
    BY <1>2 DEF LoadStep, LoadFails, ConnectFails, Reload, LockRegistries,
           DeleteRegistry, CancelWakeup, LoadModules, ScheduleCronJobs, rows, workers,
           editors, pass
  <2> QED BY <2>1, FrameLockInv
<1>3. CASE SelectJobs
  <2>1. UNCHANGED <<row, rowLock, wpc, wjob, epc, ejob>>
    BY <1>3 DEF SelectJobs, rows, workers, editors
  <2>2. \A j \in todo' : row[j].state # "unlinked"
    BY <1>3 DEF SelectJobs, Active
  <2> QED BY <2>1, <2>2 DEF LockInv, HasRow
<1>4. ASSUME NEW j \in Jobs, NEW w \in Workers, TakeJob(j, w) PROVE LockInv'
  BY <1>4, TakeJobLockInv
<1>5. ASSUME NEW w \in Workers,
             Callback(w) \/ WaitForRow(w) \/ UpdateFails(w) \/ Reschedule(w)
      PROVE  LockInv'
  <2>1. UNCHANGED <<row, rowLock, wjob, epc, ejob, todo>>
    BY <1>5 DEF Callback, WaitForRow, UpdateFails, Reschedule, rows, editors, pass
  <2>2. \E place \in {"ran", "waiting", "release", "commit"} :
           /\ wpc' = [wpc EXCEPT ![w] = place]
           /\ place = "ran" => wpc[w] = "run"
    BY <1>5 DEF Callback, WaitForRow, UpdateFails, Reschedule
  <2>3. {"ran", "waiting", "release", "commit"} \subseteq WorkerPcs \ {"run", "open", "stale"}
    BY DEF WorkerPcs
  <2> QED BY <2>1, <2>2, <2>3, WorkerGoesOn
<1>6. ASSUME NEW w \in Workers, UpdateJob(w) PROVE LockInv'
  BY <1>6, UpdateJobLockInv
<1>7. ASSUME NEW w \in Workers, CallbackFails(w) \/ CallbackUnlocks(w) PROVE LockInv'
  BY <1>7, LoseRowLockInv
<1>8. ASSUME NEW w \in Workers, CommitJob(w) PROVE LockInv'
  BY <1>8, CommitJobLockInv
<1>9. ASSUME NEW w \in Workers, ReleaseSlot(w) PROVE LockInv'
  <2>1. /\ UNCHANGED <<row, rowLock, epc, ejob, todo>>
        /\ wpc' = [wpc EXCEPT ![w] = "idle"]
        /\ wjob' = [wjob EXCEPT ![w] = None]
    BY <1>9 DEF ReleaseSlot, rows, editors, pass
  <2>2. /\ \A v \in Workers : (HasRow(v))' => HasRow(v) /\ wjob'[v] = wjob[v]
        /\ "unlock" \notin Faults => \A v \in Workers : wpc'[v] \notin {"open", "stale"}
    BY <2>1 DEF HasRow, LockInv, IInv, WorkerInv
  <2> HIDE DEF HasRow
  <2> QED BY <2>1, <2>2 DEF LockInv
<1>10. ASSUME NEW e \in Editors, NEW j \in Jobs, NEW r \in Rows, CreateJob(e, j, r)
       PROVE  LockInv'
  <2>1. /\ row[j] = None /\ row' = [row EXCEPT ![j] = r]
        /\ epc' = [epc EXCEPT ![e] = "wake"] /\ ejob' = [ejob EXCEPT ![e] = j]
        /\ UNCHANGED <<rowLock, wpc, wjob, todo>>
    BY <1>10 DEF CreateJob, workers, pass
  <2>2. \A k \in Jobs : row[k] # None => row'[k] = row[k]
    BY <2>1 DEF IInv, RowInv
  <2>3. \A f \in Editors : epc'[f] = "locked" => epc[f] = "locked" /\ ejob'[f] = ejob[f]
    BY <2>1 DEF IInv, EditorInv
  <2>4. \A w \in Workers : HasRow(w) => wjob[w] \in Jobs /\ row'[wjob[w]] = row[wjob[w]]
    BY <2>2 DEF HasRow, IInv, WorkerInv
  <2>5. \A w \in Workers : (HasRow(w))' <=> HasRow(w)
    BY <2>1 DEF HasRow
  <2> HIDE DEF HasRow
  <2> QED BY <2>1, <2>2, <2>3, <2>4, <2>5 DEF LockInv
<1>11. ASSUME NEW e \in Editors, NEW j \in Jobs, TryLock(e, j) PROVE LockInv'
  <2>1. /\ row[j] # None /\ row[j].state # "unlinked" /\ rowLock[j] = None
        /\ epc[e] = "idle" /\ rowLock' = [rowLock EXCEPT ![j] = e]
        /\ epc' = [epc EXCEPT ![e] = "locked"] /\ ejob' = [ejob EXCEPT ![e] = j]
        /\ UNCHANGED <<row, wpc, wjob, todo>>
    BY <1>11 DEF TryLock, workers, pass
  <2>2. /\ rowLock'[j] = e
        /\ \A k \in Jobs : rowLock[k] # None => rowLock'[k] = rowLock[k]
        /\ \A k \in Jobs \ {j} : rowLock'[k] = rowLock[k]
    BY <2>1 DEF IInv, RowInv
  <2>3. \A f \in Editors : epc'[f] = "locked" => rowLock'[ejob'[f]] = f
    <3>1. ASSUME NEW f \in Editors \ {e}, epc'[f] = "locked"
          PROVE  rowLock'[ejob'[f]] = f
      <4>1. epc[f] = "locked" /\ ejob'[f] = ejob[f]
        BY <2>1, <3>1 DEF IInv, EditorInv
      <4>2. ejob[f] \in Jobs /\ rowLock[ejob[f]] = f /\ f # None
        BY <4>1, CronAssumption DEF IInv, EditorInv, LockInv
      <4> QED BY <2>2, <4>1, <4>2
    <3>2. ejob'[e] = j
      BY <2>1 DEF IInv, EditorInv
    <3> QED BY <2>2, <3>1, <3>2
  <2>4. \A w \in Workers : HasRow(w) => wjob[w] \in Jobs /\ w # None
    BY CronAssumption DEF HasRow, IInv, WorkerInv
  <2>5. \A w \in Workers : (HasRow(w))' <=> HasRow(w)
    BY <2>1 DEF HasRow
  <2> HIDE DEF HasRow
  <2> QED BY <2>1, <2>2, <2>3, <2>4, <2>5 DEF LockInv
<1>12. ASSUME NEW e \in Editors, NEW time \in Times, Write(e, time) PROVE LockInv'
  <2>1. /\ epc[e] = "locked"
        /\ CommitEdit(e, [row[ejob[e]] EXCEPT !.nextcall = time])
    BY <1>12 DEF Write
  <2>2. row[ejob[e]] \in Rows
    BY <2>1 DEF IInv, EditorInv, RowInv
  <2>3. [row[ejob[e]] EXCEPT !.nextcall = time] \in Rows
    <3>1. time \in Planned
      BY CronAssumption DEF Times, Planned
    <3> QED BY <2>2, <3>1 DEF Rows
  <2> QED BY <2>1, <2>3, CommitEditLockInv
<1>13. ASSUME NEW e \in Editors, Unlink(e) PROVE LockInv'
  <2>1. /\ epc[e] = "locked"
        /\ CommitEdit(e, [row[ejob[e]] EXCEPT !.state = "unlinked"])
    BY <1>13 DEF Unlink
  <2>2. row[ejob[e]] \in Rows
    BY <2>1 DEF IInv, EditorInv, RowInv
  <2>3. [row[ejob[e]] EXCEPT !.state = "unlinked"] \in Rows
    BY <2>2 DEF Rows
  <2> QED BY <2>1, <2>3, CommitEditLockInv
<1>14. ASSUME NEW e \in Editors, EditFails(e) PROVE LockInv'
  BY <1>14, EditFailsLockInv
<1>15. ASSUME NEW e \in Editors, UpdateRunningCron(e) PROVE LockInv'
  <2>1. /\ epc[e] = "wake"
        /\ epc' = [epc EXCEPT ![e] = "idle"] /\ ejob' = [ejob EXCEPT ![e] = None]
        /\ UNCHANGED <<row, rowLock, wpc, wjob, todo>>
    BY <1>15 DEF UpdateRunningCron, rows, workers, pass
  <2>2. \A f \in Editors : epc'[f] = "locked" => epc[f] = "locked" /\ ejob'[f] = ejob[f]
    BY <2>1 DEF IInv, EditorInv
  <2> QED BY <2>1, <2>2 DEF LockInv, HasRow
<1>16. CASE UNCHANGED vars
  BY <1>16, FrameLockInv DEF vars, rows, pass, workers, editors
<1> QED
  BY <1>1, <1>2, <1>3, <1>4, <1>5, <1>6, <1>7, <1>8, <1>9, <1>10, <1>11, <1>12,
    <1>13, <1>14, <1>15, <1>16
  DEF Next, RunnerStep, WorkerStep, EditStep, Fault

LEMMA InitLockInv == Init => LockInv
  BY DEF Init, LockInv, HasRow

LEMMA LocksInductive == Spec => [](IInv /\ LockInv)
  <1>1. Spec => []IInv
    BY Inductive
  <1>2. Init => LockInv
    BY InitLockInv
  <1>3. IInv /\ IInv' /\ LockInv /\ [Next]_vars => LockInv'
    BY NextLockInv
  <1> QED BY <1>1, <1>2, <1>3, PTL DEF Spec

\* No two threads are at work on a job's method, however stale the rows a pass
\* went by, if methods keep the lock (ir_cron._run_jobs_multithread).
THEOREM NoMethodTwice == "unlock" \notin Faults => (Spec => []MethodsNeverOverlap)
  <1> SUFFICES ASSUME "unlock" \notin Faults PROVE Spec => []MethodsNeverOverlap
    OBVIOUS
  <1>1. LockInv => MethodsNeverOverlap
    BY DEF LockInv, HasRow, MethodsNeverOverlap, AtWork
  <1> QED BY LocksInductive, <1>1, PTL

-----------------------------------------------------------------------------
(* Wake-ups. *)

LEMMA TimesAreNumbers == WakeTimes \subseteq Int /\ Planned \subseteq WakeTimes
  BY CronAssumption DEF WakeTimes, WakeUpNow, Planned

\* After schedule_wakeup the database has the earlier of the two wake-ups, the
\* one it had and the one asked for; the other databases have theirs.
LEMMA Scheduled ==
    ASSUME HeapInv, NEW time \in WakeTimes, NEW d \in Dbs, ScheduleWakeup(time, d)
    PROVE  /\ (Live(d))'
           /\ byDb'[d].time = IF Live(d) /\ byDb[d].time < time THEN byDb[d].time ELSE time
           /\ \A e \in Dbs \ {d} : byDb'[e] = byDb[e]
           /\ byDb' \in [Dbs -> Wakeups \cup {None}]
  <1>1. CASE Live(d) /\ time > byDb[d].time
    <2>1. byDb' = byDb
      BY <1>1 DEF ScheduleWakeup, wakeups
    <2>2. byDb[d].time \in Int /\ time \in Int
      BY <1>1, TimesAreNumbers DEF HeapInv, Live, Wakeups
    <2> QED BY <1>1, <2>1, <2>2 DEF Live, HeapInv
  <1>2. CASE ~(Live(d) /\ time > byDb[d].time)
    <2> DEFINE task == [time |-> time, db |-> d, canceled |-> FALSE]
    <2>1. byDb' = [byDb EXCEPT ![d] = task]
      BY <1>2 DEF ScheduleWakeup
    <2>2. task \in Wakeups /\ task.time = time /\ ~task.canceled /\ task # None
      <3>1. task \in Wakeups /\ task.time = time /\ ~task.canceled
        BY DEF Wakeups
      <3> HIDE DEF task
      <3> QED BY <3>1, NullIsNothing
    <2> HIDE DEF task
    <2>3. byDb'[d] = task /\ \A e \in Dbs \ {d} : byDb'[e] = byDb[e]
      BY <2>1 DEF HeapInv
    <2>4. Live(d) => byDb[d].time \in Int /\ time \in Int /\ ~(byDb[d].time < time)
      BY <1>2, TimesAreNumbers DEF HeapInv, Live, Wakeups
    <2>5. byDb' \in [Dbs -> Wakeups \cup {None}]
      BY <2>1, <2>2 DEF HeapInv
    <2> QED BY <2>2, <2>3, <2>4, <2>5 DEF Live
  <1> QED BY <1>1, <1>2

-----------------------------------------------------------------------------
(* No job is forgotten: a job that was never started is expected by somebody. *)

HasEditor(j) == \E e \in Editors : epc[e] # "idle" /\ ejob[e] = j

\* The registry of the job's database is not there, or just came back and will
\* have its database woken up for.
Reloaded(j) ==
    \/ registry[row[j].db] # "ready"
    \/ \E t \in Threads : pc[t] = "schedule" /\ db[t] = row[j].db

\* The master thread has taken the database's wake-up, and its pass will see the
\* job, or has read it and not tried it yet.
InPass(j) ==
    /\ db[Runner] = row[j].db
    /\ \/ pc[Runner] \in {"getpool", "select", "query"}
       \/ pc[Runner] = "spawn" /\ j \notin seen /\ snap[j] = row[j]

Expected(j) == HasWakeup(j) \/ HasEditor(j) \/ Reloaded(j) \/ InPass(j)

NobodyForgotten == \A j \in Jobs \ spawned : Active(row[j]) => Expected(j)

\* Whoever has the row of a job that was never started is an editor.
SpawnInv ==
    /\ \A w \in Workers : wjob[w] # None => wjob[w] \in spawned
    /\ \A j \in Jobs \ spawned : rowLock[j] # None =>
          \E e \in Editors : epc[e] = "locked" /\ ejob[e] = j /\ rowLock[j] = e

\* A step that changes nothing the job is expected by.
LEMMA StillExpected ==
    ASSUME NEW j \in Jobs, Expected(j), row'[j] = row[j],
           UNCHANGED <<byDb, epc, ejob, registry, pc, db, snap, seen>>
    PROVE  Expected(j)'
  BY DEF Expected, HasWakeup, HasEditor, Reloaded, InPass, Live

\* A wake-up somebody asks for is no reason to forget a job.
LEMMA StillHasWakeup ==
    ASSUME IInv, NEW j \in Jobs, Active(row[j]), HasWakeup(j), row'[j] = row[j],
           NEW time \in WakeTimes, NEW d \in Dbs, ScheduleWakeup(time, d)
    PROVE  HasWakeup(j)'
  <1>1. row[j] \in Rows /\ row[j].db \in Dbs /\ row[j].nextcall \in Int
    BY TimesAreNumbers DEF IInv, RowInv, Active, Rows
  <1>2. CASE row[j].db # d
    BY <1>1, <1>2, Scheduled DEF HasWakeup, Live, IInv
  <1>3. CASE row[j].db = d
    <2>1. byDb[d].time \in Int /\ byDb[d].time <= row[j].nextcall /\ Live(d) /\ time \in Int
      BY <1>3, TimesAreNumbers DEF HasWakeup, Live, IInv, HeapInv, Wakeups
    <2>2. (Live(d))' /\ byDb'[d].time = IF byDb[d].time < time THEN byDb[d].time ELSE time
      BY <2>1, Scheduled DEF IInv
    <2>3. byDb'[d].time <= row[j].nextcall
      BY <1>1, <2>1, <2>2
    <2> QED BY <1>3, <2>2, <2>3 DEF HasWakeup, Live
  <1> QED BY <1>2, <1>3

\* A wake-up asked for no later than the job comes no later than the job.
LEMMA WakeupForJob ==
    ASSUME IInv, NEW j \in Jobs, Active(row[j]), row'[j] = row[j],
           NEW time \in WakeTimes, time <= row[j].nextcall,
           ScheduleWakeup(time, row[j].db)
    PROVE  HasWakeup(j)'
  <1> DEFINE d == row[j].db
  <1>1. d \in Dbs /\ row[j].nextcall \in Int
    BY TimesAreNumbers DEF IInv, RowInv, Active, Rows
  <1>2. /\ (Live(d))'
        /\ byDb'[d].time = IF Live(d) /\ byDb[d].time < time THEN byDb[d].time ELSE time
    BY <1>1, Scheduled DEF IInv
  <1>3. time \in Int /\ (Live(d) => byDb[d].time \in Int)
    BY <1>1, TimesAreNumbers DEF IInv, HeapInv, Live, Wakeups
  <1>4. byDb'[d].time <= row[j].nextcall
    BY <1>1, <1>2, <1>3
  <1> QED BY <1>2, <1>4 DEF HasWakeup, Live

LEMMA NowIsInTime ==
    ASSUME IInv, NEW j \in Jobs, Active(row[j])
    PROVE  row[j] \in Rows /\ WakeUpNow \in WakeTimes /\ WakeUpNow <= row[j].nextcall
  <1>1. row[j] \in Rows /\ row[j].nextcall \in Planned
    BY DEF IInv, RowInv, Active, Rows
  <1> QED BY <1>1, TimesOfWakeups, CronAssumption DEF Planned, WakeUpNow

-----------------------------------------------------------------------------
(* The steps of the master thread, for one job. *)

\* A step that moves the master thread about, outside of a pass.
LEMMA RunnerMoves ==
    ASSUME IInv, NEW j \in Jobs, Expected(j), Awake \/ LeaveLoop \/ Doze
    PROVE  Expected(j)'
  <1>1. /\ pc[Runner] \in {"asleep", "loop", "doze"}
        /\ \A t \in Threads \ {Runner} : pc'[t] = pc[t] /\ db'[t] = db[t]
        /\ UNCHANGED <<row, byDb, epc, ejob, registry>>
    BY DEF Awake, LeaveLoop, Doze, Goto, rows, wakeups, regs, editors, IInv, ThreadInv,
           Threads
  <1>2. Runner \in Threads
    BY DEF Threads
  <1>3. HasWakeup(j) => HasWakeup(j)'
    BY <1>1 DEF HasWakeup, Live
  <1>4. HasEditor(j) => HasEditor(j)'
    BY <1>1 DEF HasEditor
  <1>5. Reloaded(j) => Reloaded(j)'
    BY <1>1 DEF Reloaded
  <1>6. ~InPass(j)
    BY <1>1 DEF InPass
  <1> QED BY <1>3, <1>4, <1>5, <1>6 DEF Expected

\* The wake-up is taken: the pass it is for is under way.
LEMMA PopWakeupExpected ==
    ASSUME IInv, NEW j \in Jobs, Active(row[j]), Expected(j),
           NEW task \in heap, PopWakeup(task)
    PROVE  Expected(j)'
  <1>1. /\ pc[Runner] = "loop"
        /\ byDb' = [byDb EXCEPT ![task.db] = None]
        /\ db' = [db EXCEPT ![Runner] = task.db]
        /\ pc' = [pc EXCEPT ![Runner] = "getpool"]
        /\ UNCHANGED <<row, epc, ejob, registry>>
    BY DEF PopWakeup, Goto, rows, regs, editors
  <1>2. /\ pc'[Runner] = "getpool" /\ db'[Runner] = task.db
        /\ \A t \in Threads \ {Runner} : pc'[t] = pc[t] /\ db'[t] = db[t]
    BY <1>1 DEF IInv, ThreadInv, Threads
  <1>3. CASE row[j].db = task.db
    BY <1>1, <1>2, <1>3 DEF InPass, Expected
  <1>4. CASE row[j].db # task.db
    <2>1. HasWakeup(j) => HasWakeup(j)'
      BY <1>1, <1>4 DEF HasWakeup, Live, IInv, HeapInv, RowInv, Active, Rows
    <2>2. HasEditor(j) => HasEditor(j)'
      BY <1>1 DEF HasEditor
    <2>3. Reloaded(j) => Reloaded(j)'
      BY <1>1, <1>2 DEF Reloaded
    <2>4. ~InPass(j)
      BY <1>1 DEF InPass
    <2> QED BY <2>1, <2>2, <2>3, <2>4 DEF Expected
  <1> QED BY <1>3, <1>4

\* A wake-up is dropped only when somebody else is loading the registry.
LEMMA PassGoesOn ==
    ASSUME IInv, NEW j \in Jobs, Expected(j), GetPool \/ ReadClock \/ SelectJobs
    PROVE  Expected(j)'
  <1>1. /\ pc[Runner] \in {"getpool", "select", "query"}
        /\ \A t \in Threads \ {Runner} : pc'[t] = pc[t]
        /\ UNCHANGED <<row, byDb, epc, ejob, registry, db>>
    BY DEF GetPool, ReadClock, SelectJobs, Goto, rows, wakeups, regs, editors, IInv,
           ThreadInv, Threads
  <1>2. HasWakeup(j) => HasWakeup(j)'
    BY <1>1 DEF HasWakeup, Live
  <1>3. HasEditor(j) => HasEditor(j)'
    BY <1>1 DEF HasEditor
  <1>4. Reloaded(j) => Reloaded(j)'
    BY <1>1 DEF Reloaded, Threads
  <1>5. InPass(j) => InPass(j)' \/ Reloaded(j)'
    <2>1. CASE GetPool
      BY <1>1, <2>1 DEF GetPool, Goto, InPass, Reloaded, IInv, ThreadInv, Threads
    <2>2. CASE ReadClock
      BY <1>1, <2>2 DEF ReadClock, Goto, InPass, IInv, ThreadInv, Threads
    <2>3. CASE SelectJobs
      BY <1>1, <2>3 DEF SelectJobs, Goto, InPass, IInv, ThreadInv, Threads
    <2> QED BY <2>1, <2>2, <2>3
  <1> QED BY <1>2, <1>3, <1>4, <1>5 DEF Expected

\* A job that is tried is started, or an editor has its row.
LEMMA TriedExpected ==
    ASSUME SpawnInv, NEW j \in Jobs \ spawned', Expected(j), NEW k \in Jobs,
           SkipJob(k) \/ \E w \in Workers : TakeJob(k, w)
    PROVE  Expected(j)'
  <1>1. /\ seen' = seen \cup {k} /\ spawned \subseteq spawned'
        /\ j = k => rowLock[j] # None
        /\ UNCHANGED <<row, byDb, epc, ejob, registry, pc, db, snap>>
    BY DEF SkipJob, TakeJob, rows, wakeups, regs, editors
  <1>2. CASE j = k
    <2>1. HasEditor(j)
      BY <1>1, <1>2 DEF SpawnInv, HasEditor
    <2> QED BY <1>1, <2>1 DEF HasEditor, Expected
  <1>3. CASE j # k
    BY <1>1, <1>3 DEF Expected, HasWakeup, HasEditor, Reloaded, InPass, Live
  <1> QED BY <1>2, <1>3

\* The pass plans the next wake-up for the earliest job it leaves.
LEMMA PlanNextExpected ==
    ASSUME IInv, NEW j \in Jobs, Active(row[j]), Expected(j), PlanNext
    PROVE  Expected(j)'
  <1>1. /\ pc[Runner] = "spawn" /\ pc' = [pc EXCEPT ![Runner] = "loop"]
        /\ UNCHANGED <<row, epc, ejob, registry, db>>
    BY DEF PlanNext, Goto, rows, regs, editors
  <1>2. db[Runner] \in Dbs /\ now \in Times /\ snap \in [Jobs -> Rows \cup {None}]
        /\ row[j] \in Rows
    BY <1>1 DEF IInv, RowInv, ThreadInv, PassInv, Threads, Active
  <1>3. now + Day \in WakeTimes
    BY <1>2, TimesOfWakeups
  <1>4. \A k \in ToPlan : snap[k].nextcall \in WakeTimes
    BY <1>2, TimesAreNumbers DEF ToPlan, Active, Rows
  <1>5. HasWakeup(j) => HasWakeup(j)'
    BY <1>1, <1>2, <1>3, <1>4, StillHasWakeup DEF PlanNext
  <1>6. HasEditor(j) => HasEditor(j)'
    BY <1>1 DEF HasEditor
  <1>7. Reloaded(j) => Reloaded(j)'
    BY <1>1 DEF Reloaded, IInv, ThreadInv
  <1>8. InPass(j) => HasWakeup(j)'
    <2> SUFFICES ASSUME InPass(j) PROVE HasWakeup(j)'
      OBVIOUS
    <2>1. snap[j] = row[j] /\ row[j].db = db[Runner] /\ j \in ToPlan
      BY <1>1 DEF InPass, ToPlan
    <2>2. PICK k \in ToPlan : /\ snap[k].nextcall <= snap[j].nextcall
                              /\ ScheduleWakeup(snap[k].nextcall, db[Runner])
      BY <2>1 DEF PlanNext
    <2> QED BY <1>1, <1>4, <2>1, <2>2, WakeupForJob
  <1> QED BY <1>5, <1>6, <1>7, <1>8 DEF Expected

-----------------------------------------------------------------------------
(* The steps of who loads a registry, for one job. *)

\* On the way to a registry's deletion, and back from a load that failed before
\* the registry was ready.
LEMMA LoaderMoves ==
    ASSUME "finish" \notin Faults, IInv, NEW j \in Jobs, Active(row[j]), Expected(j), NEW t \in Threads,
           \/ LockRegistries(t) \/ DeleteRegistry(t) \/ LoadFails(t)
           \/ \E d \in Dbs : Reload(t, d)
    PROVE  Expected(j)'
  <1>1. /\ pc[t] \in {"idle", "new", "delete", "load"}
        /\ pc[t] = "idle" => t # Runner
        /\ \A u \in Threads \ {t} : pc'[u] = pc[u] /\ db'[u] = db[u]
        /\ UNCHANGED <<row, byDb, epc, ejob, snap, seen>>
    BY CronAssumption DEF LockRegistries, DeleteRegistry, LoadFails, GiveUp, RunnerDies,
           Reload, Goto, rows, wakeups, pass, editors, IInv, ThreadInv
  <1>2. \A d \in Dbs : registry'[d] = "ready" => registry[d] = "ready"
    BY DEF LockRegistries, DeleteRegistry, LoadFails, Reload, regs, IInv, ThreadInv
  <1>3. HasWakeup(j) => HasWakeup(j)'
    BY <1>1 DEF HasWakeup, Live
  <1>4. HasEditor(j) => HasEditor(j)'
    BY <1>1 DEF HasEditor
  <1>5. registry[row[j].db] # "ready" => registry'[row[j].db] # "ready"
    <2>1. row[j].db \in Dbs
      BY DEF IInv, RowInv, Active, Rows
    <2> QED BY <1>2, <2>1
  <1>6. Reloaded(j) => Reloaded(j)'
    BY <1>1, <1>5 DEF Reloaded
  <1>7. InPass(j) => InPass(j)'
    BY <1>1 DEF InPass, Threads
  <1> QED BY <1>3, <1>4, <1>6, <1>7 DEF Expected

\* Between deletion and loading the registry is not ready; after it, the thread
\* that loaded it asks for the wake-up.
LEMMA ReloadExpected ==
    ASSUME IInv, NEW j \in Jobs, Active(row[j]), Expected(j), NEW t \in Threads,
           CancelWakeup(t) \/ LoadModules(t)
    PROVE  Expected(j)'
  <1>1. /\ pc[t] \in {"cancel", "load"} /\ db[t] \in Dbs
        /\ \A u \in Threads \ {t} : pc'[u] = pc[u]
        /\ pc'[t] = IF pc[t] = "cancel" THEN "load" ELSE "schedule"
        /\ \A d \in Dbs \ {db[t]} : byDb'[d] = byDb[d] /\ registry'[d] = registry[d]
        /\ pc[t] = "cancel" => registry'[db[t]] = "loading"
        /\ UNCHANGED <<row, db, epc, ejob, snap, seen>>
    BY DEF CancelWakeup, LoadModules, Cancel, Goto, rows, wakeups, pass, editors, IInv,
           ThreadInv, HeapInv
  <1>2. row[j].db \in Dbs
    BY DEF IInv, RowInv, Active, Rows
  <1>3. CASE row[j].db = db[t]
    BY <1>1, <1>3 DEF Reloaded, Expected
  <1>4. CASE row[j].db # db[t]
    <2>1. HasWakeup(j) => HasWakeup(j)'
      BY <1>1, <1>2, <1>4 DEF HasWakeup, Live
    <2>2. HasEditor(j) => HasEditor(j)'
      BY <1>1 DEF HasEditor
    <2>3. Reloaded(j) => Reloaded(j)'
      BY <1>1, <1>2, <1>4 DEF Reloaded
    <2>4. InPass(j) => InPass(j)'
      BY <1>1 DEF InPass, Threads
    <2> QED BY <2>1, <2>2, <2>3, <2>4 DEF Expected
  <1> QED BY <1>3, <1>4

LEMMA ScheduleCronJobsExpected ==
    ASSUME IInv, NEW j \in Jobs, Active(row[j]), Expected(j), NEW t \in Threads,
           ScheduleCronJobs(t)
    PROVE  Expected(j)'
  <1>1. /\ pc[t] = "schedule" /\ db[t] \in Dbs /\ ScheduleWakeup(WakeUpNow, db[t])
        /\ \A u \in Threads \ {t} : pc'[u] = pc[u] /\ db'[u] = db[u]
        /\ UNCHANGED <<row, registry, epc, ejob, snap, seen>>
    BY DEF ScheduleCronJobs, Goto, rows, regs, pass, editors, IInv, ThreadInv
  <1>2. HasWakeup(j) => HasWakeup(j)'
    BY <1>1, NowIsInTime, StillHasWakeup
  <1>3. HasEditor(j) => HasEditor(j)'
    BY <1>1 DEF HasEditor
  <1>4. Reloaded(j) => Reloaded(j)' \/ HasWakeup(j)'
    <2>1. CASE row[j].db = db[t]
      BY <1>1, <2>1, NowIsInTime, WakeupForJob
    <2>2. CASE row[j].db # db[t]
      BY <1>1, <2>2 DEF Reloaded
    <2> QED BY <2>1, <2>2
  <1>5. InPass(j) => InPass(j)'
    BY <1>1 DEF InPass, Threads
  <1> QED BY <1>2, <1>3, <1>4, <1>5 DEF Expected

-----------------------------------------------------------------------------
(* The steps of job threads and editors, for one job. *)

LEMMA RescheduleExpected ==
    ASSUME IInv, NEW j \in Jobs, Active(row[j]), Expected(j), NEW w \in Workers,
           Reschedule(w)
    PROVE  Expected(j)'
  <1>1. /\ UNCHANGED <<row, registry, pc, db, snap, seen, epc, ejob>>
        /\ ScheduleWakeup(NextCall(wold[w]), wold[w].row.db)
    BY DEF Reschedule, rows, regs, pass, editors
  <1>2. wold[w] \in Runs /\ wold[w].row.numbercall # 0 /\ wold[w].row \in Rows
    BY DEF IInv, WorkerInv, Reschedule, Runs
  <1>3. NextCall(wold[w]) \in WakeTimes /\ wold[w].row.db \in Dbs
    BY <1>2, UpdatedRow, TimesOfWakeups DEF Rows
  <1>4. HasWakeup(j) => HasWakeup(j)'
    BY <1>1, <1>3, StillHasWakeup
  <1> QED BY <1>1, <1>4 DEF Expected, HasEditor, Reloaded, InPass

\* An editor is at the job until it has asked for the job's wake-up.
LEMMA UpdateRunningCronExpected ==
    ASSUME IInv, NEW j \in Jobs, Active(row[j]), Expected(j), NEW e \in Editors,
           UpdateRunningCron(e)
    PROVE  Expected(j)'
  <1>1. /\ UNCHANGED <<row, registry, pc, db, snap, seen>>
        /\ epc[e] = "wake" /\ ScheduleWakeup(WakeUpNow, row[ejob[e]].db)
        /\ \A f \in Editors \ {e} : epc'[f] = epc[f] /\ ejob'[f] = ejob[f]
    BY DEF UpdateRunningCron, rows, regs, pass, IInv, EditorInv
  <1>2. ejob[e] \in Jobs /\ row[ejob[e]] \in Rows /\ row[ejob[e]].db \in Dbs
    BY <1>1 DEF IInv, EditorInv, RowInv, Rows
  <1>3. HasWakeup(j) => HasWakeup(j)'
    BY <1>1, <1>2, NowIsInTime, StillHasWakeup
  <1>4. HasEditor(j) => HasEditor(j)' \/ HasWakeup(j)'
    <2>1. CASE ejob[e] = j
      BY <1>1, <2>1, NowIsInTime, WakeupForJob
    <2>2. CASE ejob[e] # j
      BY <1>1, <2>2 DEF HasEditor
    <2> QED BY <2>1, <2>2
  <1> QED BY <1>1, <1>3, <1>4 DEF Expected, Reloaded, InPass

\* An editor that takes up a job, or commits what it did to it, is at the job.
LEMMA EditorComes ==
    ASSUME IInv, NEW j \in Jobs, row[j] # None => (Active(row[j]) => Expected(j)),
           Active(row'[j]), NEW e \in Editors,
           \/ \E k \in Jobs, r \in Rows : CreateJob(e, k, r)
           \/ \E k \in Jobs : TryLock(e, k)
           \/ \E r \in Rows : epc[e] = "locked" /\ CommitEdit(e, r)
    PROVE  Expected(j)'
  <1>1. /\ UNCHANGED <<byDb, registry, pc, db, snap, seen>>
        /\ epc'[e] # "idle" /\ ejob'[e] \in Jobs
        /\ epc[e] # "idle" => ejob'[e] = ejob[e]
        /\ \A f \in Editors \ {e} : epc'[f] = epc[f] /\ ejob'[f] = ejob[f]
        /\ \A k \in Jobs \ {ejob'[e]} : row'[k] = row[k]
    BY DEF CreateJob, TryLock, CommitEdit, wakeups, regs, pass, IInv, EditorInv, RowInv
  <1>2. CASE ejob'[e] = j
    BY <1>1, <1>2 DEF Expected, HasEditor
  <1>3. CASE ejob'[e] # j
    <2>1. row'[j] = row[j] /\ Expected(j)
      BY <1>1, <1>3 DEF Active
    <2>2. HasEditor(j) => HasEditor(j)'
      BY <1>1, <1>3 DEF HasEditor
    <2> QED BY <1>1, <2>1, <2>2 DEF Expected, HasWakeup, Live, Reloaded, InPass
  <1> QED BY <1>2, <1>3

-----------------------------------------------------------------------------
(* Who has the row of a job that was never started. *)

LEMMA FrameSpawnInv ==
    SpawnInv /\ UNCHANGED <<rowLock, wjob, epc, ejob, spawned>> => SpawnInv'
  BY DEF SpawnInv

LEMMA NextSpawnInv == IInv /\ SpawnInv /\ [Next]_vars => SpawnInv'
<1> SUFFICES ASSUME IInv, SpawnInv, [Next]_vars PROVE SpawnInv'
  OBVIOUS
<1>1. ASSUME \/ Tick \/ Awake \/ GetPool \/ NoCursor \/ ReadClock \/ SelectJobs
             \/ NoTaskCursor \/ PlanNext \/ LeaveLoop \/ Doze
             \/ \E task \in heap : PopCanceled(task) \/ PopWakeup(task)
             \/ \E j \in Jobs : SkipJob(j)
      PROVE  SpawnInv'
  <2>1. UNCHANGED <<rowLock, wjob, epc, ejob, spawned>>
    BY <1>1 DEF Tick, Awake, GetPool, NoCursor, ReadClock, SelectJobs, NoTaskCursor,
           PlanNext, LeaveLoop, Doze, PopCanceled, PopWakeup, SkipJob, rows, workers,
           editors
  <2> QED BY <2>1, FrameSpawnInv
<1>2. ASSUME NEW t \in Threads,
             \/ LoadStep(t) \/ LoadFails(t) \/ ConnectFails(t)
             \/ \E d \in Dbs : Reload(t, d)
      PROVE  SpawnInv'
  <2>1. UNCHANGED <<rowLock, wjob, epc, ejob, spawned>>
    BY <1>2 DEF LoadStep, LoadFails, ConnectFails, Reload, LockRegistries,
           DeleteRegistry, CancelWakeup, LoadModules, ScheduleCronJobs, rows, workers,
           editors
  <2> QED BY <2>1, FrameSpawnInv
<1>3. ASSUME NEW j \in Jobs, NEW w \in Workers, TakeJob(j, w) PROVE SpawnInv'
  <2>1. /\ spawned' = spawned \cup {j}
        /\ \A v \in Workers : wjob'[v] \in {wjob[v], j}
        /\ \A k \in Jobs \ {j} : rowLock'[k] = rowLock[k]
        /\ UNCHANGED <<epc, ejob>>
    BY <1>3 DEF TakeJob, editors, IInv, RowInv, WorkerInv
  <2> QED BY <2>1 DEF SpawnInv
<1>4. ASSUME NEW w \in Workers,
             \/ WorkerStep(w) \/ CallbackFails(w) \/ CallbackUnlocks(w)
      PROVE  SpawnInv'
  <2>1. /\ UNCHANGED <<epc, ejob, spawned>>
        /\ \A v \in Workers : wjob'[v] \in {wjob[v], None}
    BY <1>4 DEF WorkerStep, Callback, UpdateJob, WaitForRow, UpdateFails, Reschedule,
           CommitJob, ReleaseSlot, CallbackFails, CallbackUnlocks, editors, IInv,
           WorkerInv
  <2>2. \A k \in Jobs \ spawned : rowLock'[k] \in {rowLock[k], None}
    <3>1. CASE UpdateJob(w)
      <4>1. wjob[w] \in Jobs /\ wjob[w] # None
        BY <3>1, CronAssumption DEF UpdateJob, IInv, WorkerInv
      <4>2. wjob[w] \in spawned
        BY <4>1 DEF SpawnInv
      <4> QED BY <3>1, <4>1, <4>2 DEF UpdateJob, IInv, RowInv
    <3>2. CASE ~UpdateJob(w)
      <4>1. rowLock' \in {rowLock, Unlocked(wjob[w], w)}
        BY <1>4, <3>2 DEF WorkerStep, Callback, WaitForRow, UpdateFails, Reschedule,
               CommitJob, ReleaseSlot, CallbackFails, CallbackUnlocks, LoseRow, rows
      <4> QED BY <4>1 DEF Unlocked, IInv, RowInv
    <3> QED BY <3>1, <3>2
  <2> QED BY <2>1, <2>2 DEF SpawnInv
<1>5. ASSUME NEW e \in Editors,
             \/ \E j \in Jobs, r \in Rows : CreateJob(e, j, r)
             \/ \E j \in Jobs : TryLock(e, j)
             \/ EditStep(e) \/ EditFails(e)
      PROVE  SpawnInv'
  <2>1. /\ UNCHANGED <<wjob, spawned>>
        /\ \A f \in Editors \ {e} : epc'[f] = epc[f] /\ ejob'[f] = ejob[f]
    BY <1>5 DEF CreateJob, TryLock, EditStep, Write, Unlink, CommitEdit,
           UpdateRunningCron, EditFails, workers, IInv, EditorInv
  <2>2. ASSUME NEW k \in Jobs \ spawned, rowLock'[k] # None
        PROVE  \E f \in Editors : epc'[f] = "locked" /\ ejob'[f] = k /\ rowLock'[k] = f
    <3>1. \/ rowLock'[k] = rowLock[k] /\ (ejob[e] = k /\ epc[e] = "locked" => rowLock[k] # e)
          \/ epc'[e] = "locked" /\ ejob'[e] = k /\ rowLock'[k] = e
      <4>1. CASE \E j \in Jobs, r \in Rows : CreateJob(e, j, r)
        BY <4>1 DEF CreateJob
      <4>2. CASE \E j \in Jobs : TryLock(e, j)
        BY <4>2 DEF TryLock, IInv, EditorInv, RowInv
      <4>3. CASE UpdateRunningCron(e)
        BY <4>3 DEF UpdateRunningCron, rows
      <4>4. CASE rowLock' = Unlocked(ejob[e], e) /\ epc[e] = "locked"
        BY <2>2, <4>4 DEF Unlocked, IInv, EditorInv, RowInv
      <4> QED BY <1>5, <4>1, <4>2, <4>3, <4>4 DEF EditStep, Write, Unlink, CommitEdit,
                 EditFails
    <3> QED BY <2>1, <2>2, <3>1 DEF SpawnInv
  <2> QED BY <2>1, <2>2 DEF SpawnInv
<1>6. CASE UNCHANGED vars
  BY <1>6, FrameSpawnInv DEF vars, rows, workers, editors
<1> QED
  BY <1>1, <1>2, <1>3, <1>4, <1>5, <1>6
  DEF Next, RunnerStep, Fault

-----------------------------------------------------------------------------
(* Nobody is forgotten. *)

LEMMA NextNobodyForgotten ==
    ASSUME Faults \cap {"connect", "edit", "finish"} = {},
           IInv, SpawnInv, NobodyForgotten, [Next]_vars
    PROVE  NobodyForgotten'
<1> SUFFICES ASSUME NEW j \in Jobs \ spawned', Active(row'[j])
             PROVE  Expected(j)'
  BY DEF NobodyForgotten
<1>0. j \in Jobs \ spawned /\ (Active(row[j]) => Expected(j))
  <2>1. spawned \subseteq spawned'
    BY DEF Next, RunnerStep, LoadStep, WorkerStep, EditStep, Fault, Tick, PopCanceled,
           PopWakeup, Awake, GetPool, ReadClock, SelectJobs, PlanNext, LeaveLoop, Doze,
           SkipJob, TakeJob, LockRegistries, DeleteRegistry, CancelWakeup, LoadModules,
           ScheduleCronJobs, Reload, Callback, UpdateJob, WaitForRow, UpdateFails,
           Reschedule, CommitJob, ReleaseSlot, Write, Unlink, CommitEdit,
           UpdateRunningCron, TryLock, CreateJob, NoCursor, NoTaskCursor, LoadFails,
           ConnectFails, CallbackFails, CallbackUnlocks, EditFails, vars
  <2> QED BY <2>1 DEF NobodyForgotten
<1>1. ASSUME NEW e \in Editors,
             \/ \E k \in Jobs, r \in Rows : CreateJob(e, k, r)
             \/ \E k \in Jobs : TryLock(e, k)
             \/ \E time \in Times : Write(e, time)
             \/ Unlink(e)
      PROVE  Expected(j)'
  <2>1. ASSUME Unlink(e) \/ \E time \in Times : Write(e, time)
        PROVE  \E r \in Rows : epc[e] = "locked" /\ CommitEdit(e, r)
    <3>1. /\ epc[e] = "locked"
          /\ \/ CommitEdit(e, [row[ejob[e]] EXCEPT !.state = "unlinked"])
             \/ \E time \in Times : CommitEdit(e, [row[ejob[e]] EXCEPT !.nextcall = time])
      BY <2>1 DEF Unlink, Write
    <3>2. row[ejob[e]] \in Rows
      BY <3>1 DEF IInv, EditorInv, RowInv
    <3>3. Times \subseteq Planned
      BY CronAssumption DEF Times, Planned
    <3>4. /\ [row[ejob[e]] EXCEPT !.state = "unlinked"] \in Rows
          /\ \A time \in Times : [row[ejob[e]] EXCEPT !.nextcall = time] \in Rows
      BY <3>2, <3>3 DEF Rows
    <3> QED BY <3>1, <3>4
  <2> QED BY <1>0, <1>1, <2>1, EditorComes
<1>2. ASSUME NEW w \in Workers, CommitJob(w)
      PROVE  Expected(j)'
  <2>1. wjob[w] # j
    BY <1>0, <1>2, CronAssumption DEF SpawnInv
  <2>2. /\ row'[j] = row[j]
        /\ UNCHANGED <<byDb, epc, ejob, registry, pc, db, snap, seen>>
    BY <1>2, <2>1 DEF CommitJob, IInv, RowInv, wakeups, regs, pass, editors
  <2> QED BY <1>0, <2>2, StillExpected
<1> SUFFICES ASSUME row' = row, Active(row[j]), Expected(j)
             PROVE  Expected(j)'
  <2>1. ASSUME row' # row
        PROVE  Expected(j)'
    <3>1. \/ \E w \in Workers : CommitJob(w)
          \/ \E e \in Editors : \/ \E k \in Jobs, r \in Rows : CreateJob(e, k, r)
                                \/ Unlink(e) \/ \E time \in Times : Write(e, time)
      BY <2>1 DEF Next, RunnerStep, LoadStep, WorkerStep, EditStep, Fault, Tick,
           PopCanceled, PopWakeup, Awake, GetPool, ReadClock, SelectJobs, PlanNext,
           LeaveLoop, Doze, SkipJob, TakeJob, LockRegistries, DeleteRegistry,
           CancelWakeup, LoadModules, ScheduleCronJobs, Reload, Callback, UpdateJob,
           WaitForRow, UpdateFails, Reschedule, ReleaseSlot, UpdateRunningCron, TryLock,
           NoCursor, NoTaskCursor, LoadFails, ConnectFails, CallbackFails,
           CallbackUnlocks, EditFails, vars, rows
    <3> QED BY <1>1, <1>2, <3>1
  <2> QED BY <1>0, <2>1
<1>3. ASSUME \/ Tick \/ UNCHANGED vars
             \/ \E task \in heap : PopCanceled(task)
             \/ \E w \in Workers :
                   \/ Callback(w) \/ UpdateJob(w) \/ WaitForRow(w) \/ UpdateFails(w)
                   \/ ReleaseSlot(w) \/ CallbackFails(w) \/ CallbackUnlocks(w)
      PROVE  Expected(j)'
  <2>1. UNCHANGED <<byDb, epc, ejob, registry, pc, db, snap, seen>>
    BY <1>3 DEF Tick, vars, PopCanceled, Callback, UpdateJob, WaitForRow, UpdateFails,
           ReleaseSlot, CallbackFails, CallbackUnlocks, wakeups, regs, pass, editors
  <2> QED BY <2>1, StillExpected
<1>4. CASE Awake \/ LeaveLoop \/ Doze
  BY <1>4, RunnerMoves
<1>5. ASSUME NEW task \in heap, PopWakeup(task) PROVE Expected(j)'
  BY <1>5, PopWakeupExpected
<1>6. CASE GetPool \/ ReadClock \/ SelectJobs
  BY <1>6, PassGoesOn
<1>7. ASSUME NEW k \in Jobs, SkipJob(k) \/ \E w \in Workers : TakeJob(k, w)
      PROVE  Expected(j)'
  BY <1>7, TriedExpected
<1>8. CASE PlanNext
  BY <1>8, PlanNextExpected
<1>9. ASSUME NEW t \in Threads, LoadStep(t) \/ LoadFails(t) \/ \E d \in Dbs : Reload(t, d)
      PROVE  Expected(j)'
  BY <1>9, LoaderMoves, ReloadExpected, ScheduleCronJobsExpected DEF LoadStep
<1>10. ASSUME NEW w \in Workers, Reschedule(w) PROVE Expected(j)'
  BY <1>10, RescheduleExpected
<1>11. ASSUME NEW e \in Editors, UpdateRunningCron(e) PROVE Expected(j)'
  BY <1>11, UpdateRunningCronExpected
<1>12. ~(NoCursor \/ NoTaskCursor \/ \E t \in Threads : ConnectFails(t))
       /\ ~\E e \in Editors : EditFails(e)
  BY DEF NoCursor, NoTaskCursor, ConnectFails, EditFails
<1> QED
  BY <1>1, <1>2, <1>3, <1>4, <1>5, <1>6, <1>7, <1>8, <1>9, <1>10, <1>11, <1>12
  DEF Next, RunnerStep, WorkerStep, EditStep, Fault

LEMMA InitPlan == Init => SpawnInv /\ NobodyForgotten
  BY DEF Init, SpawnInv, NobodyForgotten, Active

\* A job that was never started has a wake-up in time, whatever other jobs, edits,
\* reloads, shortages of slots, registries that did not get ready and failing
\* methods there were, as long as every cursor is had, every edit is committed and
\* no registry fails after it is ready: for the three faults left out, see
\* NoTaskCursor, EditFails and LoadFails.
THEOREM NewJobsArePlanned ==
    Faults \cap {"connect", "edit", "finish"} = {} => (Spec => []NewJobsPlanned)
  <1> SUFFICES ASSUME Faults \cap {"connect", "edit", "finish"} = {}
               PROVE  Spec => []NewJobsPlanned
    OBVIOUS
  <1> DEFINE PlanInv == IInv /\ SpawnInv /\ NobodyForgotten
  <1>1. Init => SpawnInv /\ NobodyForgotten
    BY InitPlan
  <1>2. IInv /\ SpawnInv /\ [Next]_vars => SpawnInv'
    BY NextSpawnInv
  <1>3. IInv /\ SpawnInv /\ NobodyForgotten /\ [Next]_vars => NobodyForgotten'
    BY NextNobodyForgotten
  <1>4. IInv /\ NobodyForgotten => NewJobsPlanned
    <2> SUFFICES ASSUME IInv, NobodyForgotten, NEW j \in Jobs \ spawned,
                        Active(row[j]), registry[row[j].db] = "ready", Unattended(j)
                 PROVE  HasWakeup(j)
      BY DEF NewJobsPlanned
    <2>1. Expected(j)
      BY DEF NobodyForgotten
    <2>2. ~HasEditor(j)
      BY DEF HasEditor, Unattended
    <2>3. ~Reloaded(j) /\ ~InPass(j)
      BY DEF Reloaded, InPass, Unattended, Threads
    <2> QED BY <2>1, <2>2, <2>3 DEF Expected
  <1>5. Spec => []IInv
    BY Inductive
  <1> QED BY <1>1, <1>2, <1>3, <1>4, <1>5, PTL DEF Spec

-----------------------------------------------------------------------------
(* Wake-ups are alarms. *)

\* The lock on the registries is held from before the deletion until after the
\* load, and the registry that was deleted stays away in the meantime.
RegInv ==
    /\ \A t \in Threads : pc[t] \in {"delete", "cancel", "load"} => regLock = t
    /\ \A t \in Threads : pc[t] = "cancel" => registry[db[t]] # "ready"

\* Threads that stay out of the registries.
LEMMA FrameRegInv ==
    ASSUME RegInv, UNCHANGED <<registry, regLock>>,
           \A t \in Threads : \/ pc'[t] = pc[t] /\ db'[t] = db[t]
                              \/ pc'[t] \notin {"delete", "cancel", "load"}
    PROVE  RegInv'
  BY DEF RegInv

LEMMA NextRegInv == IInv /\ RegInv /\ [Next]_vars => RegInv'
<1> SUFFICES ASSUME IInv, RegInv, [Next]_vars PROVE RegInv'
  OBVIOUS
<1> USE DEF IInv, ThreadInv
<1>1. ASSUME \/ Tick \/ UNCHANGED vars
             \/ \E task \in heap : PopCanceled(task)
             \/ \E j \in Jobs : SkipJob(j) \/ \E w \in Workers : TakeJob(j, w)
             \/ \E w \in Workers :
                   WorkerStep(w) \/ CallbackFails(w) \/ CallbackUnlocks(w)
             \/ \E e \in Editors :
                   \/ EditStep(e) \/ EditFails(e)
                   \/ \E j \in Jobs : TryLock(e, j)
                   \/ \E j \in Jobs, r \in Rows : CreateJob(e, j, r)
      PROVE  RegInv'
  <2>1. UNCHANGED <<registry, regLock, pc, db>>
    BY <1>1 DEF Tick, vars, PopCanceled, SkipJob, TakeJob, WorkerStep, Callback,
           UpdateJob, WaitForRow, UpdateFails, Reschedule, CommitJob, ReleaseSlot,
           CallbackFails, CallbackUnlocks, EditStep, Write, Unlink, CommitEdit,
           UpdateRunningCron, EditFails, TryLock, CreateJob, regs
  <2> QED BY <2>1, FrameRegInv
<1>2. ASSUME \/ Awake \/ GetPool \/ NoCursor \/ ReadClock \/ SelectJobs \/ NoTaskCursor
             \/ PlanNext \/ LeaveLoop \/ Doze
             \/ \E task \in heap : PopWakeup(task)
      PROVE  RegInv'
  <2>1. UNCHANGED <<registry, regLock>>
    BY <1>2 DEF Awake, GetPool, NoCursor, ReadClock, SelectJobs, NoTaskCursor, PlanNext,
           LeaveLoop, Doze, PopWakeup, regs
  <2>2. \A t \in Threads \ {Runner} : pc'[t] = pc[t] /\ db'[t] = db[t]
    BY <1>2 DEF Awake, GetPool, NoCursor, ReadClock, SelectJobs, NoTaskCursor, PlanNext,
           LeaveLoop, Doze, PopWakeup, Goto, RunnerDies
  <2>3. pc'[Runner] \notin {"delete", "cancel", "load"}
    <3>1. Runner \in Threads
      BY DEF Threads
    <3>2. CASE GetPool
      <4>1. db[Runner] \in Dbs /\ registry[db[Runner]] \in {"absent", "loading", "ready"}
        BY <3>1, <3>2 DEF GetPool
      <4> QED BY <3>1, <3>2, <4>1 DEF GetPool, Goto
    <3>3. CASE ~GetPool
      BY <1>2, <3>1, <3>3 DEF Awake, NoCursor, ReadClock, SelectJobs, NoTaskCursor,
             PlanNext, LeaveLoop, Doze, PopWakeup, Goto, RunnerDies
    <3> QED BY <3>2, <3>3
  <2> QED BY <2>1, <2>2, <2>3, FrameRegInv
<1>3. ASSUME NEW t \in Threads, ScheduleCronJobs(t) \/ \E d \in Dbs : Reload(t, d)
      PROVE  RegInv'
  <2>1. /\ UNCHANGED <<registry, regLock>>
        /\ pc'[t] \notin {"delete", "cancel", "load"}
        /\ \A u \in Threads \ {t} : pc'[u] = pc[u] /\ db'[u] = db[u]
    BY <1>3 DEF ScheduleCronJobs, Reload, Goto, regs
  <2> QED BY <2>1, FrameRegInv
<1>4. ASSUME NEW t \in Threads, LockRegistries(t)
      PROVE  RegInv'
  <2>1. /\ regLock \in {None, t} /\ regLock' = t /\ pc'[t] = "delete"
        /\ \A u \in Threads \ {t} : pc'[u] = pc[u]
        /\ UNCHANGED <<registry, db>>
    BY <1>4 DEF LockRegistries, Goto, CanLock
  <2>2. \A u \in Threads \ {t} : pc[u] \notin {"delete", "cancel", "load"}
    BY <2>1, CronAssumption DEF RegInv, Threads
  <2> QED BY <2>1, <2>2 DEF RegInv
<1>5. ASSUME NEW t \in Threads, pc[t] \in {"delete", "cancel", "load"},
             \/ DeleteRegistry(t) \/ CancelWakeup(t) \/ LoadModules(t)
             \/ LoadFails(t) \/ ConnectFails(t)
      PROVE  RegInv'
  <2>1. \A u \in Threads \ {t} :
           pc[u] \notin {"delete", "cancel", "load"} /\ pc'[u] = pc[u]
    BY <1>5 DEF RegInv, DeleteRegistry, CancelWakeup, LoadModules, LoadFails,
           ConnectFails, GiveUp, RunnerDies, Goto
  <2>2. pc'[t] \in {"cancel", "load"} => regLock' = t
    BY <1>5 DEF RegInv, DeleteRegistry, CancelWakeup, LoadModules, LoadFails,
           ConnectFails, GiveUp, RunnerDies, Goto
  <2>3. pc'[t] # "delete"
    BY <1>5 DEF DeleteRegistry, CancelWakeup, LoadModules, LoadFails,
           ConnectFails, GiveUp, RunnerDies, Goto
  <2>4. pc'[t] = "cancel" => registry'[db'[t]] # "ready"
    BY <1>5 DEF DeleteRegistry, CancelWakeup, LoadModules, LoadFails,
           ConnectFails, GiveUp, RunnerDies, Goto
  <2> QED BY <2>1, <2>2, <2>3, <2>4 DEF RegInv
<1>6. ASSUME NEW t \in Threads,
             \/ DeleteRegistry(t) \/ CancelWakeup(t) \/ LoadModules(t)
             \/ LoadFails(t) \/ ConnectFails(t)
      PROVE  pc[t] \in {"delete", "cancel", "load"}
  BY <1>6 DEF DeleteRegistry, CancelWakeup, LoadModules, LoadFails, ConnectFails
<1> QED
  BY <1>1, <1>2, <1>3, <1>4, <1>5, <1>6 DEF Next, RunnerStep, LoadStep, Fault

LEMMA InitRegInv == Init => RegInv
  BY DEF Init, RegInv, Threads

LEMMA NoTimeIsNone == \A t \in WakeTimes : t # None
  BY CronNull

LEMMA InitAlarms == Init => Alarms!AlarmInit
  <1> SUFFICES ASSUME Init PROVE Alarms!AlarmInit
    OBVIOUS
  <1>1. Alarm \in [Dbs -> WakeTimes \cup {None}]
    BY InitIInv DEF Alarm, Live, IInv, HeapInv, Wakeups
  <1>2. Ready = Dbs
    BY DEF Init, Ready
  <1> QED BY <1>1, <1>2 DEF Alarms!AlarmInit

\* A database's alarm is none, or a time.
LEMMA AlarmTimes ==
    ASSUME IInv, NEW d \in Dbs
    PROVE  /\ Alarm[d] = IF Live(d) THEN byDb[d].time ELSE None
           /\ Live(d) => byDb[d].time \in WakeTimes /\ byDb[d].time \in Int
           /\ Alarm[d] # None <=> Live(d)
  <1>1. Live(d) => byDb[d].time \in WakeTimes
    BY DEF IInv, HeapInv, Live, Wakeups
  <1> QED BY <1>1, TimesAreNumbers, NoTimeIsNone DEF Alarm

\* A wake-up that is asked for.
LEMMA AskMaps ==
    ASSUME IInv, NEW time \in WakeTimes, NEW d \in Dbs, ScheduleWakeup(time, d),
           UNCHANGED <<now, registry>>
    PROVE  Alarms!Ask(d, time)
  <1>1. /\ (Live(d))'
        /\ byDb'[d].time = IF Live(d) /\ byDb[d].time < time THEN byDb[d].time ELSE time
        /\ \A e \in Dbs \ {d} : byDb'[e] = byDb[e]
    BY Scheduled DEF IInv
  <1>2. Alarm'[d] = byDb'[d].time /\ \A e \in Dbs \ {d} : Alarm'[e] = Alarm[e]
    BY <1>1 DEF Alarm, Live
  <1>3. Alarm' = [Alarm EXCEPT ![d] = byDb'[d].time]
    BY <1>2 DEF Alarm
  <1>4. Ready' = Ready
    BY DEF Ready
  <1>5. time \in Int /\ (Live(d) => byDb[d].time \in Int)
        /\ (Live(d) => Alarm[d] = byDb[d].time) /\ (Alarm[d] # None <=> Live(d))
    BY AlarmTimes, TimesAreNumbers
  <1>6. CASE Live(d) /\ byDb[d].time < time
    <2>1. Alarm' = Alarm
      BY <1>1, <1>3, <1>5, <1>6 DEF Alarm
    <2> QED BY <2>1, <1>4, <1>5, <1>6 DEF Alarms!Ask
  <1>7. CASE ~(Live(d) /\ byDb[d].time < time)
    <2>1. Alarm' = [Alarm EXCEPT ![d] = time]
      BY <1>1, <1>3, <1>7
    <2>2. Alarm[d] = None \/ time <= Alarm[d]
      BY <1>5, <1>7
    <2> QED BY <2>1, <2>2, <1>4 DEF Alarms!Ask
  <1> QED BY <1>6, <1>7

\* Of the entries of the heap the master thread takes the first; those that are
\* canceled are nobody's alarm.
LEMMA RingMaps ==
    ASSUME IInv, NEW task \in heap, PopWakeup(task)
    PROVE  task.db \in Dbs /\ Alarms!Ring(task.db)
  <1> DEFINE d == task.db
  <1>1. /\ First(task) /\ task.time <= now /\ ~task.canceled
        /\ byDb' = [byDb EXCEPT ![d] = None]
        /\ UNCHANGED <<now, registry>>
    BY DEF PopWakeup, DueWakeup, regs
  <1>2. task \in Wakeups /\ d \in Dbs
    BY DEF IInv, HeapInv, Wakeups
  <1>3. Live(d) /\ byDb[d] = task
    BY <1>1, <1>2 DEF IInv, HeapInv, IndexMatchesHeap
  <1>4. Alarm[d] = task.time /\ Alarm[d] # None
    BY <1>2, <1>3, AlarmTimes
  <1>5. ASSUME NEW e \in Dbs, Alarm[e] # None
        PROVE  Alarm[d] <= Alarm[e]
    <2>1. Live(e) /\ Alarm[e] = byDb[e].time
      BY <1>5, AlarmTimes
    <2>2. byDb[e] \in heap
      BY <2>1 DEF IInv, HeapInv, IndexMatchesHeap
    <2> QED BY <1>1, <1>4, <2>1, <2>2 DEF First
  <1>6. Alarm' = [Alarm EXCEPT ![d] = None]
    <2>1. byDb'[d] = None /\ \A e \in Dbs \ {d} : byDb'[e] = byDb[e]
      BY <1>1, <1>2 DEF IInv, HeapInv
    <2> QED BY <2>1 DEF Alarm, Live
  <1>7. Ready' = Ready
    BY <1>1 DEF Ready
  <1> QED BY <1>1, <1>2, <1>4, <1>5, <1>6, <1>7 DEF Alarms!Ring

\* cancel, by way of the index, for a registry that is not there.
LEMMA DropMaps ==
    ASSUME IInv, RegInv, NEW t \in Threads, CancelWakeup(t)
    PROVE  db[t] \in Dbs /\ Alarms!Drop(db[t])
  <1>1. /\ pc[t] = "cancel" /\ Cancel(db[t]) /\ now' = now
        /\ registry' = [registry EXCEPT ![db[t]] = "loading"]
    BY DEF CancelWakeup
  <1>2. PICK d \in Dbs : d = db[t]
    BY <1>1 DEF IInv, ThreadInv
  <1>3. /\ registry[d] # "ready" /\ registry'[d] = "loading"
        /\ \A e \in Dbs \ {d} : registry'[e] = registry[e]
    BY <1>1, <1>2 DEF IInv, ThreadInv, RegInv
  <1>4. d \notin Ready /\ Ready' = Ready
    BY <1>3 DEF Ready
  <1>5. ~(Live(d))' /\ \A e \in Dbs \ {d} : byDb'[e] = byDb[e]
    <2>1. CASE ~Live(d)
      BY <1>1, <1>2, <2>1 DEF Cancel, Live
    <2>2. CASE Live(d)
      <3>1. byDb' = [byDb EXCEPT ![d] = Canceled(byDb[d])]
        BY <1>1, <1>2, <2>2 DEF Cancel
      <3>2. Canceled(byDb[d]).canceled
        BY <2>2 DEF Canceled, Live, IInv, HeapInv, Wakeups
      <3>3. byDb'[d] = Canceled(byDb[d]) /\ \A e \in Dbs \ {d} : byDb'[e] = byDb[e]
        BY <3>1 DEF IInv, HeapInv
      <3> QED BY <3>2, <3>3 DEF Live
    <2> QED BY <2>1, <2>2
  <1>6. Alarm' = [Alarm EXCEPT ![d] = None]
    BY <1>5 DEF Alarm, Live
  <1> QED BY <1>1, <1>2, <1>4, <1>6 DEF Alarms!Drop

LEMMA LoadMaps ==
    ASSUME IInv, NEW t \in Threads,
           DeleteRegistry(t) \/ LoadModules(t) \/ LoadFails(t)
    PROVE  db[t] \in Dbs /\ Alarms!Load(db[t])
  <1> DEFINE d == db[t]
  <1>1. /\ pc[t] \in {"delete", "load"}
        /\ UNCHANGED <<now, byDb>>
        /\ \A e \in Dbs \ {d} : registry'[e] = registry[e]
    BY DEF DeleteRegistry, LoadModules, LoadFails, wakeups, IInv, ThreadInv
  <1>2. d \in Dbs
    BY <1>1 DEF IInv, ThreadInv
  <1>3. Ready' \in {Ready \cup {d}, Ready \ {d}}
    BY <1>1, <1>2 DEF Ready
  <1>4. Alarm' = Alarm
    BY <1>1 DEF Alarm, Live
  <1> QED BY <1>1, <1>2, <1>3, <1>4 DEF Alarms!Load

\* Every step is one of alarms, or invisible to who uses them.
LEMMA AlarmStep ==
    IInv /\ RegInv /\ [Next]_vars => [Alarms!AlarmNext]_(Alarms!alarmVars)
<1> SUFFICES ASSUME IInv, RegInv, [Next]_vars
             PROVE  Alarms!AlarmNext \/ UNCHANGED Alarms!alarmVars
  OBVIOUS
<1>1. ASSUME UNCHANGED <<now, byDb, registry>>
      PROVE  UNCHANGED Alarms!alarmVars
  BY <1>1 DEF Alarms!alarmVars, Alarm, Live, Ready
<1>2. CASE Tick
  <2>1. now' = now + 1 /\ Alarm' = Alarm /\ Ready' = Ready
    BY <1>2 DEF Tick, wakeups, regs, Alarm, Live, Ready
  <2> QED BY <2>1 DEF Alarms!Pass, Alarms!AlarmNext
<1>3. ASSUME NEW task \in heap, PopWakeup(task) PROVE Alarms!AlarmNext
  BY <1>3, RingMaps DEF Alarms!AlarmNext
<1>4. ASSUME NEW t \in Threads, CancelWakeup(t) PROVE Alarms!AlarmNext
  BY <1>4, DropMaps DEF Alarms!AlarmNext
<1>5. ASSUME NEW t \in Threads, DeleteRegistry(t) \/ LoadModules(t) \/ LoadFails(t)
      PROVE  Alarms!AlarmNext
  BY <1>5, LoadMaps DEF Alarms!AlarmNext
<1>6. ASSUME NEW time \in WakeTimes, NEW d \in Dbs, ScheduleWakeup(time, d),
             UNCHANGED <<now, registry>>
      PROVE  Alarms!AlarmNext
  BY <1>6, AskMaps DEF Alarms!AlarmNext
<1>7. CASE PlanNext
  <2>1. db[Runner] \in Dbs /\ now \in Times /\ snap \in [Jobs -> Rows \cup {None}]
    BY <1>7 DEF IInv, RowInv, ThreadInv, PassInv, PlanNext, Threads
  <2>2. \A j \in ToPlan : snap[j].nextcall \in WakeTimes
    BY <2>1, TimesOfWakeups DEF ToPlan, Active, Rows
  <2>3. now + Day \in WakeTimes
    BY <2>1, TimesOfWakeups
  <2>4. /\ UNCHANGED <<now, registry>>
        /\ \/ ScheduleWakeup(now + Day, db[Runner])
           \/ \E j \in ToPlan : ScheduleWakeup(snap[j].nextcall, db[Runner])
    BY <1>7 DEF PlanNext, regs
  <2> QED BY <1>6, <2>1, <2>2, <2>3, <2>4
<1>8. ASSUME NEW t \in Threads, ScheduleCronJobs(t) PROVE Alarms!AlarmNext
  <2>1. db[t] \in Dbs /\ ScheduleWakeup(WakeUpNow, db[t]) /\ UNCHANGED <<now, registry>>
    BY <1>8 DEF IInv, ThreadInv, ScheduleCronJobs, regs
  <2> QED BY <1>6, <2>1, TimesOfWakeups
<1>9. ASSUME NEW w \in Workers, Reschedule(w) PROVE Alarms!AlarmNext
  <2>1. wold[w] \in Runs /\ wold[w].row.numbercall # 0 /\ wold[w].row \in Rows
    BY <1>9 DEF IInv, WorkerInv, Reschedule, Runs
  <2>2. NextCall(wold[w]) \in WakeTimes /\ wold[w].row.db \in Dbs
    BY <2>1, UpdatedRow, TimesOfWakeups DEF Rows
  <2>3. ScheduleWakeup(NextCall(wold[w]), wold[w].row.db) /\ UNCHANGED <<now, registry>>
    BY <1>9 DEF Reschedule, regs
  <2> QED BY <1>6, <2>2, <2>3
<1>10. ASSUME NEW e \in Editors, UpdateRunningCron(e) PROVE Alarms!AlarmNext
  <2>1. row[ejob[e]].db \in Dbs
    BY <1>10 DEF IInv, EditorInv, RowInv, Rows, UpdateRunningCron
  <2>2. ScheduleWakeup(WakeUpNow, row[ejob[e]].db) /\ UNCHANGED <<now, registry>>
    BY <1>10 DEF UpdateRunningCron, regs
  <2> QED BY <1>6, <2>1, <2>2, TimesOfWakeups
<1>11. ASSUME \/ UNCHANGED vars \/ Awake \/ GetPool \/ ReadClock \/ SelectJobs
              \/ LeaveLoop \/ Doze \/ NoCursor \/ NoTaskCursor
              \/ \E task \in heap : PopCanceled(task)
              \/ \E j \in Jobs : SkipJob(j) \/ \E w \in Workers : TakeJob(j, w)
              \/ \E t \in Threads : \/ LockRegistries(t) \/ ConnectFails(t)
                                    \/ \E d \in Dbs : Reload(t, d)
              \/ \E w \in Workers :
                    \/ Callback(w) \/ UpdateJob(w) \/ WaitForRow(w) \/ UpdateFails(w)
                    \/ CommitJob(w) \/ ReleaseSlot(w) \/ CallbackFails(w)
                    \/ CallbackUnlocks(w)
              \/ \E e \in Editors :
                    \/ EditFails(e) \/ Unlink(e) \/ \E time \in Times : Write(e, time)
                    \/ \E j \in Jobs : TryLock(e, j)
                    \/ \E j \in Jobs, r \in Rows : CreateJob(e, j, r)
       PROVE  UNCHANGED <<now, byDb, registry>>
  BY <1>11 DEF vars, Awake, GetPool, ReadClock, SelectJobs, LeaveLoop, Doze, NoCursor,
         NoTaskCursor, PopCanceled, SkipJob, TakeJob, LockRegistries, ConnectFails,
         Reload, Callback, UpdateJob, WaitForRow, UpdateFails, CommitJob, ReleaseSlot,
         CallbackFails, CallbackUnlocks, EditFails, Unlink, Write, CommitEdit, TryLock,
         CreateJob, wakeups, regs
<1> QED
  BY <1>1, <1>2, <1>3, <1>4, <1>5, <1>7, <1>8, <1>9, <1>10, <1>11
  DEF Next, RunnerStep, LoadStep, WorkerStep, EditStep, Fault

\* Heap, index, canceled entries and locks are one alarm per database: the earlier
\* of two that are asked for stays, the earliest rings first and not before its
\* time, and only an unloaded registry makes one go away.
THEOREM WakeupsImplementAlarms == Spec => WakeupsAreAlarms
  <1>1. Spec => [](IInv /\ RegInv)
    BY Inductive, InitRegInv, NextRegInv, PTL DEF Spec
  <1> QED BY <1>1, InitAlarms, AlarmStep, PTL DEF Spec, WakeupsAreAlarms, Alarms!AlarmSpec
=============================================================================
