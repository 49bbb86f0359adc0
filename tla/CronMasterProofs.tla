--------------------------- MODULE CronMasterProofs ---------------------------
(***************************************************************************)
(* Proofs about CronMaster, for any number of databases, jobs, threads and *)
(* slots, and with any of the faults.                                      *)
(***************************************************************************)
EXTENDS CronMasterProps, FiniteSetTheorems, TLAPS

-----------------------------------------------------------------------------
(* The inductive invariant: the type invariant with what a thread on its    *)
(* way knows, and the two properties.                                       *)

RowInv ==
    /\ now \in Times
    /\ row \in [Jobs -> Rows \cup {None}]
    /\ rowLock \in [Jobs -> Workers \cup Editors \cup {None}]

\* The index names the database's own task, the only one not canceled.
HeapInv ==
    /\ heap \subseteq Wakeups
    /\ byDb \in [Dbs -> Wakeups \cup {None}]
    /\ \A d \in Dbs : byDb[d] # None => byDb[d].db = d
    /\ IndexMatchesHeap

\* A thread that is at work has a database to work for.
ThreadInv ==
    /\ wakeLock \in {None, Runner}
    /\ registry \in [Dbs -> {"absent", "loading", "ready"}]
    /\ regLock \in Threads \cup {None}
    /\ pc \in [Threads -> RunnerPcs \cup LoaderPcs]
    /\ db \in [Threads -> Dbs \cup {None}]
    /\ \A t \in Threads :
          pc[t] \notin {"idle", "asleep", "loop", "doze", "dead"} => db[t] \in Dbs

\* What the runner knows in the middle of a pass.
PassInv ==
    /\ rnow \in Times \cup {None}
    /\ snap \in [Jobs -> Rows \cup {None}] \cup {None}
    /\ todo \subseteq Jobs /\ seen \subseteq Jobs /\ spawned \subseteq Jobs
    /\ pc[Runner] \in {"query", "spawn"} => rnow \in Times
    /\ pc[Runner] = "spawn" =>
          /\ snap \in [Jobs -> Rows \cup {None}]
          /\ \A j \in todo : Active(snap[j]) /\ row[j] # None

Runs == [row : Rows, time : Times]

\* A job thread has a job, and the row of it that the runner read.
WorkerInv ==
    /\ wpc \in [Workers -> WorkerPcs]
    /\ wjob \in [Workers -> Jobs \cup {None}]
    /\ wold \in [Workers -> Runs \cup {None}]
    /\ \A w \in Workers : wpc[w] # "idle" =>
          /\ wjob[w] \in Jobs
          /\ row[wjob[w]] # None
          /\ wold[w] \in Runs
          /\ wold[w].row.numbercall # 0

SlotInv ==
    /\ slots \in 0 .. MaxSlots
    /\ SlotsAccounted

EditorInv ==
    /\ epc \in [Editors -> {"idle", "locked", "wake"}]
    /\ ejob \in [Editors -> Jobs \cup {None}]
    /\ \A e \in Editors : epc[e] # "idle" =>
          ejob[e] \in Jobs /\ row[ejob[e]] # None

IInv ==
    /\ RowInv
    /\ HeapInv
    /\ ThreadInv
    /\ PassInv
    /\ WorkerInv
    /\ SlotInv
    /\ EditorInv

-----------------------------------------------------------------------------
(* What a step does not touch stays as it is. *)

LEMMA FrameRowInv == RowInv /\ UNCHANGED <<now, row, rowLock>> => RowInv'
  BY DEF RowInv

LEMMA FrameHeapInv == HeapInv /\ UNCHANGED <<heap, byDb>> => HeapInv'
  BY DEF HeapInv, IndexMatchesHeap, Live

LEMMA FrameThreadInv ==
    ThreadInv /\ UNCHANGED <<wakeLock, registry, regLock, pc, db>> => ThreadInv'
  BY DEF ThreadInv

LEMMA FramePassInv ==
    PassInv /\ UNCHANGED <<rnow, snap, todo, seen, spawned, pc, row>> => PassInv'
  BY DEF PassInv, Active

LEMMA FrameWorkerInv ==
    WorkerInv /\ UNCHANGED <<wpc, wjob, wold, row>> => WorkerInv'
  BY DEF WorkerInv

LEMMA FrameSlotInv == SlotInv /\ UNCHANGED <<slots, wpc>> => SlotInv'
  BY DEF SlotInv, SlotsAccounted

LEMMA FrameEditorInv == EditorInv /\ UNCHANGED <<epc, ejob, row>> => EditorInv'
  BY DEF EditorInv

-----------------------------------------------------------------------------
(* Operators. *)

\* Whatever a job's loop computes from the row that was read is a row again:
\* the count stays within its values, the plan at most one past the clock.
LEMMA UpdatedRow ==
    ASSUME NEW old \in Runs, old.row.numbercall # 0, NEW r \in Rows
    PROVE  /\ Left(old) \in {-1, 0, 1, 2}
           /\ NextCall(old) \in Planned
           /\ Updated(r, old) \in Rows
  <1> DEFINE n == old.row.numbercall
             c == old.row.nextcall
             t == old.time
  <1>1. n \in {-1, 1, 2} /\ c \in Planned /\ t \in Times
    BY DEF Runs, Rows
  <1>2. MaxTime \in Nat /\ MaxTime >= 2
    BY CronAssumption
  <1>3. Missed(old) \in Int /\ Missed(old) >= 0
        /\ (n > 0 => Missed(old) <= n)
        /\ (Missed(old) > 0 => c + Missed(old) <= t + 1)
    BY <1>1, <1>2, SMT DEF Missed, Planned, Times
  <1>4. Left(old) = IF n > 0 THEN n - Missed(old) ELSE n
    BY DEF Left
  <1>5. Left(old) \in {-1, 0, 1, 2} /\ (Left(old) = 0 => Missed(old) > 0)
    <2> HIDE DEF n
    <2> QED BY <1>1, <1>3, <1>4
  <1>6. NextCall(old) = c + Missed(old) - (IF Left(old) = 0 THEN 1 ELSE 0)
    BY DEF NextCall
  <1>7. NextCall(old) \in Planned
    <2> HIDE DEF c, t, n
    <2> QED BY <1>1, <1>2, <1>3, <1>5, <1>6 DEF Planned, Times
  <1>8. Updated(r, old) \in Rows
    BY <1>5, <1>7 DEF Updated, Rows
  <1> QED BY <1>5, <1>7, <1>8

\* None is neither a row nor a wake-up.
LEMMA NullIsNothing == \A x \in Rows \cup Wakeups : x # None
  <1>1. None \notin Rows \cup Wakeups
    BY CronNull
  <1> QED BY <1>1

\* Times a wake-up may be asked for.
LEMMA TimesOfWakeups ==
    /\ WakeUpNow \in WakeTimes
    /\ Planned \subseteq WakeTimes
    /\ \A t \in Times : t + Day \in WakeTimes
  BY CronAssumption DEF WakeUpNow, WakeTimes, Planned, Times

\* A wake-up that is planned takes the place of the one before it.
LEMMA ScheduleKeepsIndex ==
    ASSUME HeapInv, NEW time \in WakeTimes, NEW d \in Dbs, ScheduleWakeup(time, d)
    PROVE  HeapInv'
  <1>1. CASE UNCHANGED wakeups
    BY <1>1, FrameHeapInv DEF wakeups
  <1>2. CASE ~UNCHANGED wakeups
    <2> DEFINE task == [time |-> time, db |-> d, canceled |-> FALSE]
    <2>1. heap' = HeapWithout(d) \cup {task} /\ byDb' = [byDb EXCEPT ![d] = task]
      BY <1>2 DEF ScheduleWakeup
    <2>2. task \in Wakeups /\ task.db = d /\ ~task.canceled /\ task # None
      <3>1. task \in Wakeups /\ task.db = d /\ ~task.canceled
        BY DEF Wakeups
      <3> HIDE DEF task
      <3> QED BY <3>1, NullIsNothing
    <2>3. HeapWithout(d) \subseteq Wakeups
      BY DEF HeapInv, HeapWithout, Canceled, Live, Wakeups
    <2>4. \A t \in HeapWithout(d) : t.db = d => t.canceled
      BY DEF HeapInv, HeapWithout, Canceled, Live, Wakeups, IndexMatchesHeap
    <2>5. ASSUME NEW e \in Dbs \ {d}
          PROVE  {t \in HeapWithout(d) : t.db = e /\ ~t.canceled}
                     = {t \in heap : t.db = e /\ ~t.canceled}
      BY <2>5 DEF HeapInv, HeapWithout, Canceled, Live, Wakeups
    <2>6. byDb' \in [Dbs -> Wakeups \cup {None}] /\ byDb'[d] = task
          /\ \A e \in Dbs \ {d} : byDb'[e] = byDb[e]
      BY <2>1, <2>2 DEF HeapInv
    <2>7. ASSUME NEW e \in Dbs
          PROVE  {t \in heap' : t.db = e /\ ~t.canceled}
                     = IF byDb'[e] # None /\ ~byDb'[e].canceled THEN {byDb'[e]} ELSE {}
      <3> HIDE DEF task
      <3>1. CASE e = d
        BY <3>1, <2>1, <2>2, <2>4, <2>6
      <3>2. CASE e # d
        <4>1. {t \in heap' : t.db = e /\ ~t.canceled}
                  = {t \in HeapWithout(d) : t.db = e /\ ~t.canceled}
          BY <3>2, <2>1, <2>2
        <4> QED BY <4>1, <3>2, <2>5, <2>6 DEF HeapInv, IndexMatchesHeap, Live
      <3> QED BY <3>1, <3>2
    <2>8. heap' \subseteq Wakeups
      BY <2>1, <2>2, <2>3
    <2>9. \A e \in Dbs : byDb'[e] # None => byDb'[e].db = e
      BY <2>2, <2>6 DEF HeapInv
    <2> QED BY <2>6, <2>7, <2>8, <2>9 DEF HeapInv, IndexMatchesHeap, Live
  <1> QED BY <1>1, <1>2

\* Canceling by way of the index leaves no wake-up of the database behind.
LEMMA CancelKeepsIndex ==
    ASSUME HeapInv, NEW d \in Dbs, Cancel(d)
    PROVE  HeapInv'
  <1>1. CASE ~Live(d)
    BY <1>1, FrameHeapInv DEF Cancel, HeapWithout
  <1>2. CASE Live(d)
    <2> DEFINE task == byDb[d]
               gone == Canceled(byDb[d])
    <2>1. heap' = (heap \ {task}) \cup {gone} /\ byDb' = [byDb EXCEPT ![d] = gone]
      BY <1>2 DEF Cancel, HeapWithout
    <2>2. /\ task \in Wakeups /\ task.db = d
          /\ gone \in Wakeups /\ gone.db = d /\ gone.canceled
      BY <1>2 DEF HeapInv, Live, Wakeups, Canceled
    <2>3. \A t \in heap : t.db = d /\ ~t.canceled => t = task
      BY <1>2 DEF HeapInv, IndexMatchesHeap
    <2>4. byDb' \in [Dbs -> Wakeups \cup {None}] /\ byDb'[d] = gone
          /\ \A e \in Dbs \ {d} : byDb'[e] = byDb[e]
      BY <2>1, <2>2 DEF HeapInv
    <2>5. ASSUME NEW e \in Dbs
          PROVE  {t \in heap' : t.db = e /\ ~t.canceled}
                     = IF byDb'[e] # None /\ ~byDb'[e].canceled THEN {byDb'[e]} ELSE {}
      <3> HIDE DEF task, gone
      <3>1. CASE e = d
        BY <3>1, <2>1, <2>2, <2>3, <2>4
      <3>2. CASE e # d
        <4>1. {t \in heap' : t.db = e /\ ~t.canceled}
                  = {t \in heap : t.db = e /\ ~t.canceled}
          BY <3>2, <2>1, <2>2
        <4> QED BY <4>1, <3>2, <2>4 DEF HeapInv, IndexMatchesHeap, Live
      <3> QED BY <3>1, <3>2
    <2> QED BY <2>1, <2>2, <2>4, <2>5 DEF HeapInv, IndexMatchesHeap, Live
  <1> QED BY <1>1, <1>2

\* Who waits for a row is a job thread at work before and after.
LEMMA WaitersStayBusy ==
    ASSUME WorkerInv, NEW j \in Jobs
    PROVE  /\ Retrying(j) \in [Workers -> WorkerPcs]
           /\ Overtaken(j) \in [Workers -> WorkerPcs]
           /\ \A v \in Workers : /\ Retrying(j)[v] = "idle" <=> wpc[v] = "idle"
                                 /\ Overtaken(j)[v] = "idle" <=> wpc[v] = "idle"
  BY DEF WorkerInv, Retrying, Overtaken, WorkerPcs

\* A step after which the same threads are at work loses no slot.
LEMMA SameThreadsSameSlots ==
    ASSUME SlotInv, slots' = slots,
           \A w \in Workers : wpc'[w] = "idle" <=> wpc[w] = "idle"
    PROVE  SlotInv'
  <1>1. {w \in Workers : wpc'[w] # "idle"} = {w \in Workers : wpc[w] # "idle"}
    OBVIOUS
  <1> QED BY <1>1 DEF SlotInv, SlotsAccounted

\* A job thread that begins its work takes one slot, one that ends gives it back.
LEMMA TakenSlot ==
    ASSUME WorkerInv, SlotInv, NEW w \in Workers, NEW place \in WorkerPcs \ {"idle"},
           wpc[w] = "idle", slots > 0, slots' = slots - 1,
           wpc' = [wpc EXCEPT ![w] = place]
    PROVE  SlotInv'
  <1> DEFINE busy == {v \in Workers : wpc[v] # "idle"}
  <1>1. {v \in Workers : wpc'[v] # "idle"} = busy \cup {w}
    BY DEF WorkerInv
  <1>2. IsFiniteSet(busy) /\ w \notin busy
    BY CronAssumption, FS_Subset
  <1>3. Cardinality(busy \cup {w}) = Cardinality(busy) + 1 /\ Cardinality(busy) \in Nat
    BY <1>2, FS_AddElement, FS_CardinalityType
  <1>4. slots + Cardinality(busy) = MaxSlots /\ slots \in 0 .. MaxSlots /\ MaxSlots \in Nat
    BY CronAssumption DEF SlotInv, SlotsAccounted
  <1>5. slots' + Cardinality(busy \cup {w}) = MaxSlots /\ slots' \in 0 .. MaxSlots
    <2> HIDE DEF busy
    <2> QED BY <1>3, <1>4
  <1> QED BY <1>1, <1>5 DEF SlotInv, SlotsAccounted

LEMMA ReleasedSlot ==
    ASSUME WorkerInv, SlotInv, NEW w \in Workers,
           wpc[w] # "idle", slots' = slots + 1, wpc' = [wpc EXCEPT ![w] = "idle"]
    PROVE  SlotInv'
  <1> DEFINE busy == {v \in Workers : wpc[v] # "idle"}
  <1>1. {v \in Workers : wpc'[v] # "idle"} = busy \ {w}
    BY DEF WorkerInv
  <1>2. IsFiniteSet(busy) /\ w \in busy
    BY CronAssumption, FS_Subset
  <1>3. /\ Cardinality(busy \ {w}) = Cardinality(busy) - 1
        /\ Cardinality(busy \ {w}) \in Nat /\ Cardinality(busy) \in Nat
    BY <1>2, FS_RemoveElement, FS_CardinalityType
  <1>4. slots + Cardinality(busy) = MaxSlots /\ slots \in 0 .. MaxSlots /\ MaxSlots \in Nat
    BY CronAssumption DEF SlotInv, SlotsAccounted
  <1>5. slots' + Cardinality(busy \ {w}) = MaxSlots /\ slots' \in 0 .. MaxSlots
    <2> HIDE DEF busy
    <2> QED BY <1>3, <1>4
  <1> QED BY <1>1, <1>5 DEF SlotInv, SlotsAccounted

\* Rows are rewritten but never become absent, and the others stay.
LEMMA RewrittenRow ==
    ASSUME RowInv, NEW j \in Jobs, NEW r \in Rows, row' = [row EXCEPT ![j] = r]
    PROVE  /\ row' \in [Jobs -> Rows \cup {None}]
           /\ \A k \in Jobs : row[k] # None => row'[k] # None
  BY NullIsNothing DEF RowInv

\* Giving up or taking a row's lock.
LEMMA LockedRows ==
    ASSUME RowInv, NEW j \in Jobs, NEW t \in Workers \cup Editors
    PROVE  /\ Unlocked(j, t) \in [Jobs -> Workers \cup Editors \cup {None}]
           /\ [rowLock EXCEPT ![j] = t] \in [Jobs -> Workers \cup Editors \cup {None}]
           /\ [rowLock EXCEPT ![j] = LockOf(j, t)]
                 \in [Jobs -> Workers \cup Editors \cup {None}]
  BY DEF RowInv, Unlocked, LockOf

\* A committed edit, whatever row it writes.
LEMMA CommitEditIInv ==
    ASSUME IInv, NEW e \in Editors, epc[e] = "locked", NEW r \in Rows, CommitEdit(e, r)
    PROVE  IInv'
  <1>1. UNCHANGED << now, heap, byDb, wakeLock, registry, regLock, slots, pc, db,
                    rnow, snap, todo, seen, wjob, wold, ejob, spawned>>
    BY DEF CommitEdit, wakeups, regs, pass
  <1>2. /\ row' = [row EXCEPT ![ejob[e]] = r]
        /\ rowLock' = Unlocked(ejob[e], e)
        /\ wpc' = Overtaken(ejob[e])
        /\ epc' = [epc EXCEPT ![e] = "wake"]
    BY DEF CommitEdit
  <1>3. ejob[e] \in Jobs
    BY DEF IInv, EditorInv
  <1>4. /\ row' \in [Jobs -> Rows \cup {None}]
        /\ \A k \in Jobs : row[k] # None => row'[k] # None
    BY <1>2, <1>3, RewrittenRow DEF IInv
  <1>5. /\ wpc' \in [Workers -> WorkerPcs]
        /\ \A v \in Workers : wpc'[v] = "idle" <=> wpc[v] = "idle"
    BY <1>2, <1>3, WaitersStayBusy DEF IInv
  <1>6. RowInv'
    BY <1>1, <1>2, <1>3, <1>4, LockedRows DEF IInv, RowInv
  <1>7. PassInv'
    BY <1>1, <1>4 DEF IInv, PassInv
  <1>8. WorkerInv'
    BY <1>1, <1>4, <1>5 DEF IInv, WorkerInv
  <1>9. SlotInv'
    BY <1>1, <1>5, SameThreadsSameSlots DEF IInv
  <1>10. EditorInv'
    BY <1>1, <1>2, <1>3, <1>4 DEF IInv, EditorInv
  <1> QED BY <1>1, <1>6, <1>7, <1>8, <1>9, <1>10, FrameHeapInv, FrameThreadInv DEF IInv

\* A job thread's transaction ends with the row as it was.
LEMMA LoseRowIInv ==
    ASSUME IInv, NEW w \in Workers, wpc[w] # "idle",
           NEW place \in WorkerPcs \ {"idle"}, LoseRow(w, place),
           UNCHANGED <<now, row, wakeups, wakeLock, regs, slots, pc, db, pass, wjob,
                       wold, editors, spawned>>
    PROVE  IInv'
  <1> DEFINE j == wjob[w]
             places == IF rowLock[j] = w THEN Retrying(j) ELSE wpc
  <1>1. UNCHANGED << now, row, heap, byDb, wakeLock, registry, regLock, slots, pc,
                    db, rnow, snap, todo, seen, wjob, wold, epc, ejob, spawned>>
    BY DEF wakeups, regs, pass, editors
  <1>2. /\ rowLock' = Unlocked(j, w)
        /\ wpc' = [places EXCEPT ![w] = place]
    BY DEF LoseRow
  <1>3. j \in Jobs
    BY DEF IInv, WorkerInv
  <1>4. /\ places \in [Workers -> WorkerPcs]
        /\ \A v \in Workers : places[v] = "idle" <=> wpc[v] = "idle"
    BY <1>3, WaitersStayBusy DEF IInv, WorkerInv
  <1> HIDE DEF places
  <1>5. /\ wpc' \in [Workers -> WorkerPcs]
        /\ \A v \in Workers : wpc'[v] = "idle" <=> wpc[v] = "idle"
    BY <1>2, <1>4
  <1>6. RowInv'
    BY <1>1, <1>2, <1>3, LockedRows DEF IInv, RowInv
  <1>7. WorkerInv'
    BY <1>1, <1>5 DEF IInv, WorkerInv
  <1>8. SlotInv'
    BY <1>1, <1>5, SameThreadsSameSlots DEF IInv
  <1> QED BY <1>1, <1>6, <1>7, <1>8, FrameHeapInv, FrameThreadInv, FramePassInv,
            FrameEditorInv DEF IInv

-----------------------------------------------------------------------------
(* Induction. *)

LEMMA InitIInv == Init => IInv
  <1> SUFFICES ASSUME Init PROVE IInv
    OBVIOUS
  <1>0. MaxTime \in Nat /\ MaxTime >= 2 /\ 2 \in Times
    BY CronAssumption DEF Times
  <1>1. RowInv
    BY <1>0 DEF Init, RowInv
  <1>2. HeapInv
    <2>1. \A d \in Dbs : byDb[d] = [time |-> WakeUpNow, db |-> d, canceled |-> FALSE]
      BY DEF Init
    <2>2. \A d \in Dbs : byDb[d] \in Wakeups /\ byDb[d].db = d /\ ~byDb[d].canceled
                            /\ byDb[d] # None
      <3>1. \A d \in Dbs : byDb[d] \in Wakeups /\ byDb[d].db = d /\ ~byDb[d].canceled
        <4> TAKE d \in Dbs
        <4> DEFINE task == [time |-> WakeUpNow, db |-> d, canceled |-> FALSE]
        <4>1. task \in Wakeups /\ task.db = d /\ ~task.canceled
          BY TimesOfWakeups DEF Wakeups
        <4>2. byDb[d] = task
          BY <2>1
        <4> HIDE DEF task
        <4> QED BY <4>1, <4>2
      <3> QED BY <3>1, NullIsNothing
    <2>3. byDb \in [Dbs -> Wakeups \cup {None}]
      BY <2>2 DEF Init
    <2>4. heap = {byDb[d] : d \in Dbs}
      BY DEF Init
    <2>5. ASSUME NEW d \in Dbs
          PROVE  {t \in heap : t.db = d /\ ~t.canceled} = {byDb[d]}
      BY <2>2, <2>4
    <2> QED BY <2>2, <2>3, <2>4, <2>5 DEF HeapInv, IndexMatchesHeap, Live
  <1>3. ThreadInv
    BY DEF Init, ThreadInv, Threads, RunnerPcs, LoaderPcs
  <1>4. PassInv
    BY DEF Init, PassInv, Threads
  <1>5. WorkerInv
    BY DEF Init, WorkerInv, WorkerPcs
  <1>6. SlotInv
    <2>1. {w \in Workers : wpc[w] # "idle"} = {}
      BY DEF Init
    <2>2. Cardinality({w \in Workers : wpc[w] # "idle"}) = 0
      BY <2>1, FS_EmptySet
    <2>3. slots = MaxSlots /\ MaxSlots \in Nat
      BY CronAssumption DEF Init
    <2> QED BY <2>2, <2>3 DEF SlotInv, SlotsAccounted
  <1>7. EditorInv
    BY DEF Init, EditorInv
  <1> QED BY <1>1, <1>2, <1>3, <1>4, <1>5, <1>6, <1>7 DEF IInv

LEMMA NextIInv == IInv /\ [Next]_vars => IInv'
<1> SUFFICES ASSUME IInv, [Next]_vars PROVE IInv'
  OBVIOUS
<1>1. CASE Tick
  <2>1. UNCHANGED << row, rowLock, heap, byDb, wakeLock, registry, regLock,
                    slots, pc, db, rnow, snap, todo, seen, wpc, wjob, wold, epc,
                    ejob, spawned>>
    BY <1>1 DEF Tick, rows, wakeups, regs, pass, workers, editors
  <2>2. RowInv'
    BY <1>1, <2>1, CronAssumption DEF IInv, RowInv, Tick, Times
  <2> QED BY <2>1, <2>2, FrameHeapInv, FrameThreadInv, FramePassInv,
            FrameWorkerInv, FrameSlotInv, FrameEditorInv DEF IInv
<1>2. CASE Awake
  <2>1. UNCHANGED << now, row, rowLock, heap, byDb, registry, regLock, slots,
                    db, rnow, snap, todo, seen, wpc, wjob, wold, epc, ejob,
                    spawned>>
    BY <1>2 DEF Awake, rows, wakeups, regs, pass, workers, editors
  <2>2. ThreadInv'
    BY <1>2, <2>1 DEF IInv, ThreadInv, Threads, RunnerPcs, LoaderPcs, Goto,
                     Awake
  <2>3. PassInv'
    BY <1>2, <2>1 DEF IInv, PassInv, ThreadInv, Threads, Goto, Awake
  <2> QED BY <2>1, <2>2, <2>3, FrameRowInv, FrameHeapInv, FrameWorkerInv,
            FrameSlotInv, FrameEditorInv DEF IInv
<1>3. ASSUME NEW task \in heap, PopCanceled(task)
      PROVE  IInv'
  <2>1. UNCHANGED << now, row, rowLock, byDb, wakeLock, registry, regLock,
                    slots, pc, db, rnow, snap, todo, seen, wpc, wjob, wold, epc,
                    ejob, spawned>>
    BY <1>3 DEF PopCanceled, rows, wakeups, regs, pass, workers, editors
  <2>2. HeapInv'
    BY <1>3, <2>1 DEF IInv, HeapInv, PopCanceled, IndexMatchesHeap, Live
  <2> QED BY <2>1, <2>2, FrameRowInv, FrameThreadInv, FramePassInv,
            FrameWorkerInv, FrameSlotInv, FrameEditorInv DEF IInv
<1>4. ASSUME NEW task \in heap, PopWakeup(task)
      PROVE  IInv'
  <2>1. UNCHANGED << now, row, rowLock, wakeLock, registry, regLock, slots,
                    rnow, snap, todo, seen, wpc, wjob, wold, epc, ejob, spawned>>
    BY <1>4 DEF PopWakeup, rows, regs, pass, workers, editors
  <2>2. HeapInv'
    <3>1. task \in Wakeups /\ task.db \in Dbs /\ ~task.canceled
      BY <1>4 DEF IInv, HeapInv, PopWakeup, Wakeups
    <3>2. heap' = heap \ {task} /\ byDb' = [byDb EXCEPT ![task.db] = None]
      BY <1>4 DEF PopWakeup
    <3>3. {t \in heap : t.db = task.db /\ ~t.canceled} = {task}
      BY <3>1 DEF IInv, HeapInv, IndexMatchesHeap
    <3>4. ASSUME NEW e \in Dbs
          PROVE  {t \in heap' : t.db = e /\ ~t.canceled}
                     = IF byDb'[e] # None /\ ~byDb'[e].canceled THEN {byDb'[e]} ELSE {}
      <4>1. CASE e = task.db
        BY <4>1, <3>1, <3>2, <3>3 DEF IInv, HeapInv
      <4>2. CASE e # task.db
        <5>1. {t \in heap' : t.db = e /\ ~t.canceled} = {t \in heap : t.db = e /\ ~t.canceled}
          BY <4>2, <3>2
        <5>2. byDb'[e] = byDb[e]
          BY <4>2, <3>2 DEF IInv, HeapInv
        <5> QED BY <5>1, <5>2 DEF IInv, HeapInv, IndexMatchesHeap, Live
      <4> QED BY <4>1, <4>2
    <3>5. /\ byDb' \in [Dbs -> Wakeups \cup {None}]
          /\ \A e \in Dbs : byDb'[e] # None => byDb'[e].db = e
      BY <3>1, <3>2 DEF IInv, HeapInv
    <3> QED BY <3>2, <3>4, <3>5 DEF IInv, HeapInv, IndexMatchesHeap, Live
  <2>3. ThreadInv'
    BY <1>4, <2>1 DEF IInv, ThreadInv, Threads, RunnerPcs, LoaderPcs, Goto,
                     PopWakeup, HeapInv, Wakeups
  <2>4. PassInv'
    BY <1>4, <2>1 DEF IInv, PassInv, ThreadInv, Threads, Goto, PopWakeup
  <2> QED BY <2>1, <2>2, <2>3, <2>4, FrameRowInv, FrameWorkerInv, FrameSlotInv,
            FrameEditorInv DEF IInv
<1>5. CASE GetPool
  <2>1. UNCHANGED << now, row, rowLock, heap, byDb, wakeLock, registry, regLock,
                    slots, db, rnow, snap, todo, seen, wpc, wjob, wold, epc,
                    ejob, spawned>>
    BY <1>5 DEF GetPool, rows, wakeups, regs, pass, workers, editors
  <2>2. ThreadInv'
    BY <1>5, <2>1 DEF IInv, ThreadInv, Threads, RunnerPcs, LoaderPcs, Goto,
                     GetPool
  <2>3. PassInv'
    BY <1>5, <2>1 DEF IInv, PassInv, ThreadInv, Threads, Goto, GetPool
  <2> QED BY <2>1, <2>2, <2>3, FrameRowInv, FrameHeapInv, FrameWorkerInv,
            FrameSlotInv, FrameEditorInv DEF IInv
<1>6. CASE NoCursor
  <2>1. UNCHANGED << now, row, rowLock, heap, byDb, registry, regLock, slots,
                    db, rnow, snap, todo, seen, wpc, wjob, wold, epc, ejob,
                    spawned>>
    BY <1>6 DEF NoCursor, RunnerDies, rows, wakeups, regs, pass, workers,
               editors
  <2>2. ThreadInv'
    BY <1>6, <2>1 DEF IInv, ThreadInv, Threads, RunnerPcs, LoaderPcs, Goto,
                     NoCursor, RunnerDies
  <2>3. PassInv'
    BY <1>6, <2>1 DEF IInv, PassInv, ThreadInv, Threads, Goto, NoCursor,
                     RunnerDies
  <2> QED BY <2>1, <2>2, <2>3, FrameRowInv, FrameHeapInv, FrameWorkerInv,
            FrameSlotInv, FrameEditorInv DEF IInv
<1>7. CASE ReadClock
  <2>1. UNCHANGED << now, row, rowLock, heap, byDb, wakeLock, registry, regLock,
                    slots, db, snap, todo, seen, wpc, wjob, wold, epc, ejob,
                    spawned>>
    BY <1>7 DEF ReadClock, rows, wakeups, regs, pass, workers, editors
  <2>2. ThreadInv'
    BY <1>7, <2>1 DEF IInv, ThreadInv, Threads, RunnerPcs, LoaderPcs, Goto,
                     ReadClock
  <2>3. PassInv'
    BY <1>7, <2>1 DEF IInv, PassInv, ThreadInv, Threads, Goto, ReadClock, RowInv
  <2> QED BY <2>1, <2>2, <2>3, FrameRowInv, FrameHeapInv, FrameWorkerInv,
            FrameSlotInv, FrameEditorInv DEF IInv
<1>8. CASE SelectJobs
  <2>1. UNCHANGED << now, row, rowLock, heap, byDb, wakeLock, registry, regLock,
                    slots, db, rnow, wpc, wjob, wold, epc, ejob, spawned>>
    BY <1>8 DEF SelectJobs, rows, wakeups, regs, pass, workers, editors
  <2>2. ThreadInv'
    BY <1>8, <2>1 DEF IInv, ThreadInv, Threads, RunnerPcs, LoaderPcs, Goto,
                     SelectJobs
  <2>3. PassInv'
    BY <1>8, <2>1 DEF IInv, PassInv, ThreadInv, Threads, Goto, SelectJobs,
                     RowInv, Active
  <2> QED BY <2>1, <2>2, <2>3, FrameRowInv, FrameHeapInv, FrameWorkerInv,
            FrameSlotInv, FrameEditorInv DEF IInv
<1>9. ASSUME NEW j \in Jobs, NEW w \in Workers, TakeJob(j, w)
      PROVE  IInv'
  <2>1. UNCHANGED << now, row, heap, byDb, wakeLock, registry, regLock, pc, db,
                    rnow, snap, epc, ejob>>
    BY <1>9 DEF TakeJob, rows, wakeups, regs, pass, editors
  <2>2. RowInv'
    <3>1. rowLock' = [rowLock EXCEPT ![j] = LockOf(j, w)]
      BY <1>9 DEF TakeJob
    <3> QED BY <2>1, <3>1, LockedRows DEF IInv, RowInv
  <2>3. PassInv'
    BY <1>9, <2>1 DEF IInv, PassInv, ThreadInv, Threads, Goto, TakeJob
  <2>4. WorkerInv'
    <3>1. Active(snap[j]) /\ snap[j] \in Rows \cup {None} /\ row[j] # None /\ rnow \in Times
      BY <1>9 DEF IInv, PassInv, TakeJob
    <3>2. snap[j] \in Rows /\ snap[j].numbercall # 0
      BY <3>1 DEF Active
    <3> DEFINE run == [row |-> snap[j], time |-> rnow]
    <3>3. run \in Runs /\ run.row.numbercall # 0
      BY <3>1, <3>2 DEF Runs
    <3>4. /\ wpc' = [wpc EXCEPT ![w] = "run"]
          /\ wjob' = [wjob EXCEPT ![w] = j]
          /\ wold' = [wold EXCEPT ![w] = run]
      BY <1>9 DEF TakeJob
    <3> HIDE DEF run
    <3> QED BY <2>1, <3>1, <3>3, <3>4 DEF IInv, WorkerInv, WorkerPcs
  <2>5. SlotInv'
    <3>1. /\ wpc[w] = "idle" /\ slots > 0 /\ slots' = slots - 1
          /\ wpc' = [wpc EXCEPT ![w] = "run"]
      BY <1>9 DEF TakeJob
    <3>2. "run" \in WorkerPcs \ {"idle"}
      BY DEF WorkerPcs
    <3> QED BY <3>1, <3>2, TakenSlot DEF IInv
  <2> QED BY <2>1, <2>2, <2>3, <2>4, <2>5, FrameHeapInv, FrameThreadInv,
            FrameEditorInv DEF IInv
<1>10. ASSUME NEW j \in Jobs, SkipJob(j)
      PROVE  IInv'
  <2>1. UNCHANGED << now, row, rowLock, heap, byDb, wakeLock, registry, regLock,
                    slots, pc, db, rnow, snap, wpc, wjob, wold, epc, ejob,
                    spawned>>
    BY <1>10 DEF SkipJob, rows, wakeups, regs, pass, workers, editors
  <2>2. PassInv'
    BY <1>10, <2>1 DEF IInv, PassInv, ThreadInv, Threads, Goto, SkipJob
  <2> QED BY <2>1, <2>2, FrameRowInv, FrameHeapInv, FrameThreadInv,
            FrameWorkerInv, FrameSlotInv, FrameEditorInv DEF IInv
<1>11. CASE NoTaskCursor
  <2>1. UNCHANGED << now, row, rowLock, heap, byDb, wakeLock, registry, regLock,
                    slots, db, wpc, wjob, wold, epc, ejob, spawned>>
    BY <1>11 DEF NoTaskCursor, EndPass, rows, wakeups, regs, workers, editors
  <2>2. ThreadInv'
    BY <1>11, <2>1 DEF IInv, ThreadInv, Threads, RunnerPcs, LoaderPcs, Goto,
                      NoTaskCursor, EndPass
  <2>3. PassInv'
    BY <1>11, <2>1 DEF IInv, PassInv, ThreadInv, Threads, Goto, NoTaskCursor,
                      EndPass
  <2> QED BY <2>1, <2>2, <2>3, FrameRowInv, FrameHeapInv, FrameWorkerInv,
            FrameSlotInv, FrameEditorInv DEF IInv
<1>12. CASE PlanNext
  <2>1. UNCHANGED << now, row, rowLock, wakeLock, registry, regLock, slots, db,
                    wpc, wjob, wold, epc, ejob, spawned>>
    BY <1>12 DEF PlanNext, EndPass, rows, regs, workers, editors
  <2>2. HeapInv'
    <3>1. db[Runner] \in Dbs /\ now \in Times /\ snap \in [Jobs -> Rows \cup {None}]
      BY <1>12 DEF IInv, RowInv, ThreadInv, PassInv, PlanNext, Threads
    <3>2. CASE ScheduleWakeup(now + Day, db[Runner])
      <4>1. now + Day \in WakeTimes
        BY <3>1, TimesOfWakeups
      <4> QED BY <3>1, <3>2, <4>1, ScheduleKeepsIndex DEF IInv
    <3>3. ASSUME NEW j \in ToPlan, ScheduleWakeup(snap[j].nextcall, db[Runner])
          PROVE  HeapInv'
      <4>1. snap[j] \in Rows
        BY <3>1, <3>3 DEF ToPlan, Active
      <4>2. snap[j].nextcall \in WakeTimes
        BY <4>1, TimesOfWakeups DEF Rows
      <4> QED BY <3>1, <3>3, <4>2, ScheduleKeepsIndex DEF IInv
    <3> QED BY <1>12, <3>2, <3>3 DEF PlanNext
  <2>3. ThreadInv'
    BY <1>12, <2>1 DEF IInv, ThreadInv, Threads, RunnerPcs, LoaderPcs, Goto,
                      PlanNext, EndPass
  <2>4. PassInv'
    BY <1>12, <2>1 DEF IInv, PassInv, ThreadInv, Threads, Goto, PlanNext,
                      EndPass
  <2> QED BY <2>1, <2>2, <2>3, <2>4, FrameRowInv, FrameWorkerInv, FrameSlotInv,
            FrameEditorInv DEF IInv
<1>13. CASE LeaveLoop
  <2>1. UNCHANGED << now, row, rowLock, heap, byDb, registry, regLock, slots,
                    rnow, snap, todo, seen, wpc, wjob, wold, epc, ejob, spawned>>
    BY <1>13 DEF LeaveLoop, rows, wakeups, regs, pass, workers, editors
  <2>2. ThreadInv'
    BY <1>13, <2>1 DEF IInv, ThreadInv, Threads, RunnerPcs, LoaderPcs, Goto,
                      LeaveLoop
  <2>3. PassInv'
    BY <1>13, <2>1 DEF IInv, PassInv, ThreadInv, Threads, Goto, LeaveLoop
  <2> QED BY <2>1, <2>2, <2>3, FrameRowInv, FrameHeapInv, FrameWorkerInv,
            FrameSlotInv, FrameEditorInv DEF IInv
<1>14. CASE Doze
  <2>1. UNCHANGED << now, row, rowLock, heap, byDb, wakeLock, registry, regLock,
                    slots, db, rnow, snap, todo, seen, wpc, wjob, wold, epc,
                    ejob, spawned>>
    BY <1>14 DEF Doze, rows, wakeups, regs, pass, workers, editors
  <2>2. ThreadInv'
    BY <1>14, <2>1 DEF IInv, ThreadInv, Threads, RunnerPcs, LoaderPcs, Goto,
                      Doze
  <2>3. PassInv'
    BY <1>14, <2>1 DEF IInv, PassInv, ThreadInv, Threads, Goto, Doze
  <2> QED BY <2>1, <2>2, <2>3, FrameRowInv, FrameHeapInv, FrameWorkerInv,
            FrameSlotInv, FrameEditorInv DEF IInv
<1>15. ASSUME NEW t \in Threads, NEW d \in Dbs, Reload(t, d)
      PROVE  IInv'
  <2>1. UNCHANGED << now, row, rowLock, heap, byDb, wakeLock, registry, regLock,
                    slots, rnow, snap, todo, seen, wpc, wjob, wold, epc, ejob,
                    spawned>>
    BY <1>15 DEF Reload, rows, wakeups, regs, pass, workers, editors
  <2>2. ThreadInv'
    BY <1>15, <2>1 DEF IInv, ThreadInv, Threads, RunnerPcs, LoaderPcs, Goto,
                      Reload
  <2>3. PassInv'
    BY <1>15, <2>1 DEF IInv, PassInv, ThreadInv, Threads, Goto, Reload
  <2> QED BY <2>1, <2>2, <2>3, FrameRowInv, FrameHeapInv, FrameWorkerInv,
            FrameSlotInv, FrameEditorInv DEF IInv
<1>16. ASSUME NEW t \in Threads, LockRegistries(t)
      PROVE  IInv'
  <2>1. UNCHANGED << now, row, rowLock, heap, byDb, wakeLock, registry, slots,
                    db, rnow, snap, todo, seen, wpc, wjob, wold, epc, ejob,
                    spawned>>
    BY <1>16 DEF LockRegistries, rows, wakeups, regs, pass, workers, editors
  <2>2. ThreadInv'
    BY <1>16, <2>1 DEF IInv, ThreadInv, Threads, RunnerPcs, LoaderPcs, Goto,
                      LockRegistries
  <2>3. PassInv'
    BY <1>16, <2>1 DEF IInv, PassInv, ThreadInv, Threads, Goto, LockRegistries
  <2> QED BY <2>1, <2>2, <2>3, FrameRowInv, FrameHeapInv, FrameWorkerInv,
            FrameSlotInv, FrameEditorInv DEF IInv
<1>17. ASSUME NEW t \in Threads, DeleteRegistry(t)
      PROVE  IInv'
  <2>1. UNCHANGED << now, row, rowLock, heap, byDb, wakeLock, regLock, slots,
                    db, rnow, snap, todo, seen, wpc, wjob, wold, epc, ejob,
                    spawned>>
    BY <1>17 DEF DeleteRegistry, rows, wakeups, regs, pass, workers, editors
  <2>2. ThreadInv'
    BY <1>17, <2>1 DEF IInv, ThreadInv, Threads, RunnerPcs, LoaderPcs, Goto,
                      DeleteRegistry
  <2>3. PassInv'
    BY <1>17, <2>1 DEF IInv, PassInv, ThreadInv, Threads, Goto, DeleteRegistry
  <2> QED BY <2>1, <2>2, <2>3, FrameRowInv, FrameHeapInv, FrameWorkerInv,
            FrameSlotInv, FrameEditorInv DEF IInv
<1>18. ASSUME NEW t \in Threads, CancelWakeup(t)
      PROVE  IInv'
  <2>1. UNCHANGED << now, row, rowLock, wakeLock, regLock, slots, db, rnow,
                    snap, todo, seen, wpc, wjob, wold, epc, ejob, spawned>>
    BY <1>18 DEF CancelWakeup, rows, regs, pass, workers, editors
  <2>2. HeapInv'
    <3>1. db[t] \in Dbs /\ Cancel(db[t])
      BY <1>18 DEF IInv, ThreadInv, CancelWakeup
    <3> QED BY <3>1, CancelKeepsIndex DEF IInv
  <2>3. ThreadInv'
    BY <1>18, <2>1 DEF IInv, ThreadInv, Threads, RunnerPcs, LoaderPcs, Goto,
                      CancelWakeup
  <2>4. PassInv'
    BY <1>18, <2>1 DEF IInv, PassInv, ThreadInv, Threads, Goto, CancelWakeup
  <2> QED BY <2>1, <2>2, <2>3, <2>4, FrameRowInv, FrameWorkerInv, FrameSlotInv,
            FrameEditorInv DEF IInv
<1>19. ASSUME NEW t \in Threads, LoadModules(t)
      PROVE  IInv'
  <2>1. UNCHANGED << now, row, rowLock, heap, byDb, wakeLock, slots, db, rnow,
                    snap, todo, seen, wpc, wjob, wold, epc, ejob, spawned>>
    BY <1>19 DEF LoadModules, rows, wakeups, pass, workers, editors
  <2>2. ThreadInv'
    BY <1>19, <2>1 DEF IInv, ThreadInv, Threads, RunnerPcs, LoaderPcs, Goto,
                      LoadModules
  <2>3. PassInv'
    BY <1>19, <2>1 DEF IInv, PassInv, ThreadInv, Threads, Goto, LoadModules
  <2> QED BY <2>1, <2>2, <2>3, FrameRowInv, FrameHeapInv, FrameWorkerInv,
            FrameSlotInv, FrameEditorInv DEF IInv
<1>20. ASSUME NEW t \in Threads, LoadFails(t)
      PROVE  IInv'
  <2>1. UNCHANGED << now, row, rowLock, heap, byDb, slots, rnow, snap, todo,
                    seen, wpc, wjob, wold, epc, ejob, spawned>>
    BY <1>20 DEF LoadFails, GiveUp, RunnerDies, rows, wakeups, pass, workers,
                editors
  <2>2. ThreadInv'
    BY <1>20, <2>1 DEF IInv, ThreadInv, Threads, RunnerPcs, LoaderPcs, Goto,
                      LoadFails, GiveUp, RunnerDies
  <2>3. PassInv'
    BY <1>20, <2>1 DEF IInv, PassInv, ThreadInv, Threads, Goto, LoadFails,
                      GiveUp, RunnerDies
  <2> QED BY <2>1, <2>2, <2>3, FrameRowInv, FrameHeapInv, FrameWorkerInv,
            FrameSlotInv, FrameEditorInv DEF IInv
<1>21. ASSUME NEW t \in Threads, ConnectFails(t)
      PROVE  IInv'
  <2>1. UNCHANGED << now, row, rowLock, heap, byDb, registry, slots, rnow, snap,
                    todo, seen, wpc, wjob, wold, epc, ejob, spawned>>
    BY <1>21 DEF ConnectFails, GiveUp, RunnerDies, rows, wakeups, regs, pass,
                workers, editors
  <2>2. ThreadInv'
    BY <1>21, <2>1 DEF IInv, ThreadInv, Threads, RunnerPcs, LoaderPcs, Goto,
                      ConnectFails, GiveUp, RunnerDies
  <2>3. PassInv'
    BY <1>21, <2>1 DEF IInv, PassInv, ThreadInv, Threads, Goto, ConnectFails,
                      GiveUp, RunnerDies
  <2> QED BY <2>1, <2>2, <2>3, FrameRowInv, FrameHeapInv, FrameWorkerInv,
            FrameSlotInv, FrameEditorInv DEF IInv
<1>22. ASSUME NEW t \in Threads, ScheduleCronJobs(t)
      PROVE  IInv'
  <2>1. UNCHANGED << now, row, rowLock, wakeLock, registry, regLock, slots,
                    rnow, snap, todo, seen, wpc, wjob, wold, epc, ejob, spawned>>
    BY <1>22 DEF ScheduleCronJobs, rows, regs, pass, workers, editors
  <2>2. HeapInv'
    <3>1. db[t] \in Dbs /\ ScheduleWakeup(WakeUpNow, db[t])
      BY <1>22 DEF IInv, ThreadInv, ScheduleCronJobs
    <3> QED BY <3>1, TimesOfWakeups, ScheduleKeepsIndex DEF IInv
  <2>3. ThreadInv'
    BY <1>22, <2>1 DEF IInv, ThreadInv, Threads, RunnerPcs, LoaderPcs, Goto,
                      ScheduleCronJobs
  <2>4. PassInv'
    BY <1>22, <2>1 DEF IInv, PassInv, ThreadInv, Threads, Goto, ScheduleCronJobs
  <2> QED BY <2>1, <2>2, <2>3, <2>4, FrameRowInv, FrameWorkerInv, FrameSlotInv,
            FrameEditorInv DEF IInv
<1>23. ASSUME NEW w \in Workers, Callback(w)
      PROVE  IInv'
  <2>1. UNCHANGED << now, row, rowLock, heap, byDb, wakeLock, registry, regLock,
                    slots, pc, db, rnow, snap, todo, seen, wjob, wold, epc,
                    ejob, spawned>>
    BY <1>23 DEF Callback, rows, wakeups, regs, pass, workers, editors
  <2>2. WorkerInv'
    BY <1>23, <2>1 DEF IInv, WorkerInv, WorkerPcs, Runs, Callback
  <2>3. SlotInv'
    <3>1. \A v \in Workers : wpc'[v] = "idle" <=> wpc[v] = "idle"
      BY <1>23 DEF IInv, WorkerInv, Callback
    <3> QED BY <2>1, <3>1, SameThreadsSameSlots DEF IInv
  <2> QED BY <2>1, <2>2, <2>3, FrameRowInv, FrameHeapInv, FrameThreadInv,
            FramePassInv, FrameEditorInv DEF IInv
<1>24. ASSUME NEW w \in Workers, CallbackFails(w) \/ CallbackUnlocks(w)
      PROVE  IInv'
  <2>1. {"rolledback", "open"} \subseteq WorkerPcs \ {"idle"}
    BY DEF WorkerPcs
  <2>2. wpc[w] # "idle"
    BY <1>24 DEF CallbackFails, CallbackUnlocks
  <2>3. /\ \E place \in {"rolledback", "open"} : LoseRow(w, place)
        /\ UNCHANGED <<now, row, wakeups, wakeLock, regs, slots, pc, db, pass, wjob,
                       wold, editors, spawned>>
    BY <1>24 DEF CallbackFails, CallbackUnlocks
  <2> QED BY <2>1, <2>2, <2>3, LoseRowIInv
<1>25. ASSUME NEW w \in Workers, UpdateJob(w)
      PROVE  IInv'
  <2>1. UNCHANGED << now, row, heap, byDb, wakeLock, registry, regLock, slots,
                    pc, db, rnow, snap, todo, seen, wjob, wold, epc, ejob,
                    spawned>>
    BY <1>25 DEF UpdateJob, rows, wakeups, regs, pass, workers, editors
  <2>2. RowInv'
    <3>1. wjob[w] \in Jobs
      BY <1>25 DEF IInv, WorkerInv, UpdateJob
    <3>2. rowLock' \in {rowLock, [rowLock EXCEPT ![wjob[w]] = LockOf(wjob[w], w)]}
      BY <1>25 DEF UpdateJob
    <3> QED BY <2>1, <3>1, <3>2, LockedRows DEF IInv, RowInv
  <2>3. WorkerInv'
    BY <1>25, <2>1 DEF IInv, WorkerInv, WorkerPcs, Runs, UpdateJob
  <2>4. SlotInv'
    <3>1. \A v \in Workers : wpc'[v] = "idle" <=> wpc[v] = "idle"
      BY <1>25 DEF IInv, WorkerInv, UpdateJob
    <3> QED BY <2>1, <3>1, SameThreadsSameSlots DEF IInv
  <2> QED BY <2>1, <2>2, <2>3, <2>4, FrameHeapInv, FrameThreadInv, FramePassInv,
            FrameEditorInv DEF IInv
<1>26. ASSUME NEW w \in Workers, WaitForRow(w)
      PROVE  IInv'
  <2>1. UNCHANGED << now, row, rowLock, heap, byDb, wakeLock, registry, regLock,
                    slots, pc, db, rnow, snap, todo, seen, wjob, wold, epc,
                    ejob, spawned>>
    BY <1>26 DEF WaitForRow, rows, wakeups, regs, pass, workers, editors
  <2>2. WorkerInv'
    BY <1>26, <2>1 DEF IInv, WorkerInv, WorkerPcs, Runs, WaitForRow
  <2>3. SlotInv'
    <3>1. \A v \in Workers : wpc'[v] = "idle" <=> wpc[v] = "idle"
      BY <1>26 DEF IInv, WorkerInv, WaitForRow
    <3> QED BY <2>1, <3>1, SameThreadsSameSlots DEF IInv
  <2> QED BY <2>1, <2>2, <2>3, FrameRowInv, FrameHeapInv, FrameThreadInv,
            FramePassInv, FrameEditorInv DEF IInv
<1>27. ASSUME NEW w \in Workers, Reschedule(w)
      PROVE  IInv'
  <2>1. UNCHANGED << now, row, rowLock, wakeLock, registry, regLock, slots, pc,
                    db, rnow, snap, todo, seen, wjob, wold, epc, ejob, spawned>>
    BY <1>27 DEF Reschedule, rows, regs, pass, workers, editors
  <2>2. HeapInv'
    <3>1. wold[w] \in Runs /\ wold[w].row.numbercall # 0 /\ wold[w].row \in Rows
      BY <1>27 DEF IInv, WorkerInv, Reschedule, Runs
    <3>2. NextCall(wold[w]) \in WakeTimes
      BY <3>1, UpdatedRow, TimesOfWakeups
    <3>3. wold[w].row.db \in Dbs
      BY <3>1 DEF Rows
    <3> QED BY <1>27, <3>2, <3>3, ScheduleKeepsIndex DEF IInv, Reschedule
  <2>3. WorkerInv'
    BY <1>27, <2>1 DEF IInv, WorkerInv, WorkerPcs, Runs, Reschedule
  <2>4. SlotInv'
    <3>1. \A v \in Workers : wpc'[v] = "idle" <=> wpc[v] = "idle"
      BY <1>27 DEF IInv, WorkerInv, Reschedule
    <3> QED BY <2>1, <3>1, SameThreadsSameSlots DEF IInv
  <2> QED BY <2>1, <2>2, <2>3, <2>4, FrameRowInv, FrameThreadInv, FramePassInv,
            FrameEditorInv DEF IInv
<1>28. ASSUME NEW w \in Workers, CommitJob(w)
      PROVE  IInv'
  <2> DEFINE j == wjob[w]
             r == IF rowLock[j] = w THEN Updated(row[j], wold[w]) ELSE row[j]
             places == IF rowLock[j] = w THEN Overtaken(j) ELSE wpc
  <2>1. UNCHANGED << now, heap, byDb, wakeLock, registry, regLock, slots, pc, db,
                    rnow, snap, todo, seen, wjob, wold, epc, ejob, spawned>>
    BY <1>28 DEF CommitJob, wakeups, regs, pass, editors
  <2>2. j \in Jobs /\ row[j] \in Rows /\ wold[w] \in Runs /\ wold[w].row.numbercall # 0
    BY <1>28 DEF IInv, RowInv, WorkerInv, CommitJob
  <2>3. r \in Rows
    BY <2>2, UpdatedRow
  <2>4. /\ row' = [row EXCEPT ![j] = r]
        /\ rowLock' = Unlocked(j, w)
        /\ wpc[w] = "commit" /\ wpc' = [places EXCEPT ![w] = "release"]
    BY <1>28, <2>2 DEF IInv, RowInv, CommitJob
  <2>5. /\ places \in [Workers -> WorkerPcs] /\ "release" \in WorkerPcs
        /\ \A v \in Workers : places[v] = "idle" <=> wpc[v] = "idle"
    <3>1. "release" \in WorkerPcs
      BY DEF WorkerPcs
    <3> QED BY <2>2, <3>1, WaitersStayBusy DEF IInv, WorkerInv
  <2> HIDE DEF r, places
  <2>6. /\ row' \in [Jobs -> Rows \cup {None}]
        /\ \A k \in Jobs : row[k] # None => row'[k] # None
    BY <2>2, <2>3, <2>4, RewrittenRow DEF IInv
  <2>7. /\ wpc' \in [Workers -> WorkerPcs]
        /\ \A v \in Workers : wpc'[v] = "idle" <=> wpc[v] = "idle"
    BY <2>4, <2>5
  <2>8. rowLock' \in [Jobs -> Workers \cup Editors \cup {None}]
    BY <2>2, <2>4, LockedRows DEF IInv
  <2>9. RowInv'
    BY <2>1, <2>6, <2>8 DEF IInv, RowInv
  <2>10. PassInv'
    BY <2>1, <2>6 DEF IInv, PassInv
  <2>11. WorkerInv'
    BY <2>1, <2>6, <2>7 DEF IInv, WorkerInv
  <2>12. SlotInv'
    BY <2>1, <2>7, SameThreadsSameSlots DEF IInv
  <2>13. EditorInv'
    BY <2>1, <2>6 DEF IInv, EditorInv
  <2> QED BY <2>1, <2>9, <2>10, <2>11, <2>12, <2>13, FrameHeapInv, FrameThreadInv
          DEF IInv
<1>29. ASSUME NEW w \in Workers, ReleaseSlot(w)
      PROVE  IInv'
  <2>1. UNCHANGED << now, row, rowLock, heap, byDb, wakeLock, registry, regLock,
                    pc, db, rnow, snap, todo, seen, epc, ejob, spawned>>
    BY <1>29 DEF ReleaseSlot, rows, wakeups, regs, pass, editors
  <2>2. WorkerInv'
    BY <1>29, <2>1 DEF IInv, WorkerInv, WorkerPcs, Runs, ReleaseSlot
  <2>3. SlotInv'
    <3>1. /\ wpc[w] # "idle" /\ slots' = slots + 1
          /\ wpc' = [wpc EXCEPT ![w] = "idle"]
      BY <1>29 DEF ReleaseSlot
    <3> QED BY <3>1, ReleasedSlot DEF IInv
  <2> QED BY <2>1, <2>2, <2>3, FrameRowInv, FrameHeapInv, FrameThreadInv,
            FramePassInv, FrameEditorInv DEF IInv
<1>30. ASSUME NEW e \in Editors, NEW j \in Jobs, NEW r \in Rows, CreateJob(e, j, r)
      PROVE  IInv'
  <2>1. UNCHANGED << now, rowLock, heap, byDb, wakeLock, registry, regLock,
                    slots, pc, db, rnow, snap, todo, seen, wpc, wjob, wold,
                    spawned>>
    BY <1>30 DEF CreateJob, rows, wakeups, regs, pass, workers
  <2>2. RowInv'
    BY <1>30, <2>1 DEF IInv, RowInv, CreateJob
  <2>3. PassInv'
    BY <1>30, <2>1 DEF IInv, PassInv, ThreadInv, Threads, Goto, CreateJob
  <2>4. WorkerInv'
    BY <1>30, <2>1 DEF IInv, WorkerInv, WorkerPcs, Runs, CreateJob
  <2>5. EditorInv'
    BY <1>30, <2>1, NullIsNothing DEF IInv, EditorInv, CreateJob, RowInv
  <2> QED BY <2>1, <2>2, <2>3, <2>4, <2>5, FrameHeapInv, FrameThreadInv,
            FrameSlotInv DEF IInv
<1>31. ASSUME NEW e \in Editors, NEW j \in Jobs, TryLock(e, j)
      PROVE  IInv'
  <2>1. UNCHANGED << now, row, heap, byDb, wakeLock, registry, regLock, slots,
                    pc, db, rnow, snap, todo, seen, wpc, wjob, wold, spawned>>
    BY <1>31 DEF TryLock, rows, wakeups, regs, pass, workers
  <2>2. RowInv'
    BY <1>31, <2>1 DEF IInv, RowInv, TryLock
  <2>3. EditorInv'
    BY <1>31, <2>1 DEF IInv, EditorInv, TryLock
  <2> QED BY <2>1, <2>2, <2>3, FrameHeapInv, FrameThreadInv, FramePassInv,
            FrameWorkerInv, FrameSlotInv DEF IInv
<1>32. ASSUME NEW e \in Editors, NEW time \in Times, Write(e, time)
      PROVE  IInv'
  <2>1. /\ epc[e] = "locked"
        /\ CommitEdit(e, [row[ejob[e]] EXCEPT !.nextcall = time])
    BY <1>32 DEF Write
  <2>2. row[ejob[e]] \in Rows
    BY <2>1 DEF IInv, EditorInv, RowInv
  <2>3. [row[ejob[e]] EXCEPT !.nextcall = time] \in Rows
    <3>1. time \in Planned
      BY CronAssumption DEF Times, Planned
    <3> QED BY <2>2, <3>1 DEF Rows
  <2> QED BY <2>1, <2>3, CommitEditIInv
<1>33. ASSUME NEW e \in Editors, Unlink(e)
      PROVE  IInv'
  <2>1. /\ epc[e] = "locked"
        /\ CommitEdit(e, [row[ejob[e]] EXCEPT !.state = "unlinked"])
    BY <1>33 DEF Unlink
  <2>2. row[ejob[e]] \in Rows
    BY <2>1 DEF IInv, EditorInv, RowInv
  <2>3. [row[ejob[e]] EXCEPT !.state = "unlinked"] \in Rows
    BY <2>2 DEF Rows
  <2> QED BY <2>1, <2>3, CommitEditIInv
<1>34. ASSUME NEW e \in Editors, EditFails(e)
      PROVE  IInv'
  <2>1. UNCHANGED << now, row, heap, byDb, wakeLock, registry, regLock, slots, pc,
                    db, rnow, snap, todo, seen, wjob, wold, spawned>>
    BY <1>34 DEF EditFails, wakeups, regs, pass
  <2>2. /\ epc[e] = "locked"
        /\ rowLock' = Unlocked(ejob[e], e)
        /\ wpc' = Retrying(ejob[e])
        /\ epc' = [epc EXCEPT ![e] = "idle"] /\ ejob' = [ejob EXCEPT ![e] = None]
    BY <1>34 DEF EditFails
  <2>3. ejob[e] \in Jobs
    BY <2>2 DEF IInv, EditorInv
  <2>4. /\ wpc' \in [Workers -> WorkerPcs]
        /\ \A v \in Workers : wpc'[v] = "idle" <=> wpc[v] = "idle"
    BY <2>2, <2>3, WaitersStayBusy DEF IInv
  <2>5. RowInv'
    BY <2>1, <2>2, <2>3, LockedRows DEF IInv, RowInv
  <2>6. WorkerInv'
    BY <2>1, <2>4 DEF IInv, WorkerInv
  <2>7. SlotInv'
    BY <2>1, <2>4, SameThreadsSameSlots DEF IInv
  <2>8. EditorInv'
    BY <2>1, <2>2 DEF IInv, EditorInv
  <2> QED BY <2>1, <2>5, <2>6, <2>7, <2>8, FrameHeapInv, FrameThreadInv, FramePassInv
          DEF IInv
<1>35. ASSUME NEW e \in Editors, UpdateRunningCron(e)
      PROVE  IInv'
  <2>1. UNCHANGED << now, row, rowLock, wakeLock, registry, regLock, slots, pc,
                    db, rnow, snap, todo, seen, wpc, wjob, wold, spawned>>
    BY <1>35 DEF UpdateRunningCron, rows, regs, pass, workers
  <2>2. HeapInv'
    <3>1. ejob[e] \in Jobs /\ row[ejob[e]] \in Rows
      BY <1>35 DEF IInv, EditorInv, RowInv, UpdateRunningCron
    <3>2. row[ejob[e]].db \in Dbs
      BY <3>1 DEF Rows
    <3> QED BY <1>35, <3>2, TimesOfWakeups, ScheduleKeepsIndex DEF IInv, UpdateRunningCron
  <2>3. EditorInv'
    BY <1>35, <2>1 DEF IInv, EditorInv, UpdateRunningCron
  <2> QED BY <2>1, <2>2, <2>3, FrameRowInv, FrameThreadInv, FramePassInv,
            FrameWorkerInv, FrameSlotInv DEF IInv
<1>36. ASSUME NEW w \in Workers, UpdateFails(w)
      PROVE  IInv'
  <2>1. UNCHANGED << now, row, rowLock, heap, byDb, wakeLock, registry, regLock,
                    slots, pc, db, rnow, snap, todo, seen, wjob, wold, epc,
                    ejob, spawned>>
    BY <1>36 DEF UpdateFails, rows, wakeups, regs, pass, workers, editors
  <2>2. WorkerInv'
    BY <1>36, <2>1 DEF IInv, WorkerInv, WorkerPcs, Runs, UpdateFails
  <2>3. SlotInv'
    <3>1. \A v \in Workers : wpc'[v] = "idle" <=> wpc[v] = "idle"
      BY <1>36 DEF IInv, WorkerInv, UpdateFails
    <3> QED BY <2>1, <3>1, SameThreadsSameSlots DEF IInv
  <2> QED BY <2>1, <2>2, <2>3, FrameRowInv, FrameHeapInv, FrameThreadInv,
            FramePassInv, FrameEditorInv DEF IInv
<1>37. CASE UNCHANGED vars
  BY <1>37, FrameRowInv, FrameHeapInv, FrameThreadInv, FramePassInv,
    FrameWorkerInv, FrameSlotInv, FrameEditorInv
     DEF IInv, vars, rows, wakeups, regs, pass, workers, editors
<1> QED
  BY <1>1, <1>2, <1>3, <1>4, <1>5, <1>6, <1>7, <1>8, <1>9, <1>10, <1>11, <1>12,
    <1>13, <1>14, <1>15, <1>16, <1>17, <1>18, <1>19, <1>20, <1>21, <1>22, <1>23,
    <1>24, <1>25, <1>26, <1>27, <1>28, <1>29, <1>30, <1>31, <1>32, <1>33, <1>34,
    <1>35, <1>36, <1>37
  DEF Next, RunnerStep, LoadStep, WorkerStep, EditStep, Fault

THEOREM Inductive == Spec => []IInv
  BY InitIInv, NextIInv, PTL DEF Spec

-----------------------------------------------------------------------------
(* Results. *)

\* Rows, wake-ups, threads and slots keep their types; the count of free slots
\* never leaves 0 .. MaxSlots although it is read without its lock.
THEOREM TypeCorrect == Spec => []TypeOK
  <1>1. IInv => TypeOK
    BY DEF IInv, TypeOK, RowInv, HeapInv, ThreadInv, PassInv, WorkerInv, SlotInv,
           EditorInv, Runs
  <1> QED BY Inductive, <1>1, PTL

\* The heap of wake-ups and its index agree.
THEOREM IndexIsRight == Spec => []IndexMatchesHeap
  <1>1. IInv => IndexMatchesHeap
    BY DEF IInv, HeapInv
  <1> QED BY Inductive, <1>1, PTL

\* No thread slot is lost or invented.
THEOREM SlotsBalance == Spec => []SlotsAccounted
  <1>1. IInv => SlotsAccounted
    BY DEF IInv, SlotInv
  <1> QED BY Inductive, <1>1, PTL
=============================================================================
