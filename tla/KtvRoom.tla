------------------------------- MODULE KtvRoom -------------------------------
(***************************************************************************)
(* The rooms of openerp/addons/ktv_sale, operated by concurrent cashiers   *)
(* and emptied by concurrent ir.cron workers.                              *)
(*                                                                         *)
(* Every cashier request is one RPC: one database cursor at REPEATABLE     *)
(* READ (sql_db.Cursor), i.e. a snapshot taken by its first query, writes  *)
(* that lock the row until the end, and "first updater wins": a write to a *)
(* row somebody committed since the snapshot is an error, and the RPC is   *)
(* rolled back (osv.object_proxy.execute) and not retried.  ir.cron.create *)
(* commits in the middle of the RPC.                                       *)
(*                                                                         *)
(* A closing job is a row of ir_cron: a worker reads the due rows with one *)
(* cursor, locks one of them with another and writes the room with that.   *)
(*                                                                         *)
(* Variables that hold committed rows: room, sale, job.  What a running    *)
(* transaction wrote and did not commit is implied by its program counter. *)
(***************************************************************************)
EXTENDS KtvRoomTypes

CONSTANTS
    Cashiers,        \* RPC threads serving cashiers
    Workers,         \* threads or processes running jobs
    CallbackFaults,  \* whether a job's method may raise for its own reasons
    MaxCrashes       \* bound on process deaths

ASSUME RoomAssumption == CallbackFaults \in BOOLEAN /\ MaxCrashes \in Nat

VARIABLES
    now,       \* the clock
    room,      \* room -> row [state, bill, xmin]
    sale,      \* sale -> None, or the business document committed for it
    job,       \* sale -> its closing job: "none", "active" or "inactive"
    reply,     \* sale -> what its cashier was told
    issued,    \* bill numbers drawn from the sequence, never given back
    pc,        \* cashier -> where its RPC is
    req,       \* cashier -> the request it serves
    view,      \* cashier -> the room row its snapshot shows
    bill,      \* cashier -> the bill it works on
    wpc,       \* worker -> where it is
    wjob,      \* worker -> the sale whose job it runs
    wview,     \* worker -> the room row its snapshot shows
    crashes    \* process deaths so far

dbVars     == <<room, sale, job>>
rpcVars    == <<pc, req, view, bill>>
workerVars == <<wpc, wjob, wview>>
vars == <<now, room, sale, job, reply, issued, pc, req, view, bill,
          wpc, wjob, wview, crashes>>

-----------------------------------------------------------------------------
(* Rows. *)

\* 'xmin' counts the committed versions of the row: two snapshots of a room
\* with the same xmin show the same version of it.
RoomRows == [state : States, bill : Bills \cup {None}, xmin : Nat]
SaleRows == [room : Rooms, bill : Bills, osv : Osvs, close : Times, xmin : Nat]

ASSUME NullAssumption == None \notin RoomRows \cup SaleRows

FreeRoom == [state |-> "free", bill |-> None, xmin |-> 0]

RpcPcs    == {"idle", "find", "link", "found", "linked", "written", "reread"}
WorkerPcs == {"idle", "picked", "locked", "wrote", "rolledback"}
Replies   == {"unasked", "pending", "ok", "conflict", "error", "lost"}

TypeOK ==
    /\ now \in 0 .. MaxTime
    /\ room \in [Rooms -> RoomRows]
    /\ sale \in [Sales -> SaleRows \cup {None}]
    /\ job \in [Sales -> {"none", "active", "inactive"}]
    /\ reply \in [Sales -> Replies]
    /\ issued \in SUBSET Bills
    /\ pc \in [Cashiers -> RpcPcs]
    /\ req \in [Cashiers -> Requests \cup {None}]
    /\ view \in [Cashiers -> RoomRows \cup {None}]
    /\ bill \in [Cashiers -> Bills \cup {None}]
    /\ wpc \in [Workers -> WorkerPcs]
    /\ wjob \in [Workers -> Sales \cup {None}]
    /\ wview \in [Workers -> RoomRows \cup {None}]
    /\ crashes \in 0 .. MaxCrashes

Init ==
    /\ now = 0
    /\ room = [r \in Rooms |-> FreeRoom]
    /\ sale = [s \in Sales |-> None]
    /\ job = [s \in Sales |-> "none"]
    /\ reply = [s \in Sales |-> "unasked"]
    /\ issued = {}
    /\ pc = [c \in Cashiers |-> "idle"]
    /\ req = [c \in Cashiers |-> None]
    /\ view = [c \in Cashiers |-> None]
    /\ bill = [c \in Cashiers |-> None]
    /\ wpc = [w \in Workers |-> "idle"]
    /\ wjob = [w \in Workers |-> None]
    /\ wview = [w \in Workers |-> None]
    /\ crashes = 0

-----------------------------------------------------------------------------
(* The database: row locks and write conflicts. *)

\* Transactions that have written the row of room r and not yet ended.
CashierWrote(c, r) == pc[c] \in {"linked", "written"} /\ req[c].room = r
WorkerWrote(w, r)  == wpc[w] = "wrote" /\ sale[wjob[w]].room = r

\* No other transaction than c's holds the row of room r.
RowFreeForCashier(c, r) ==
    /\ \A d \in Cashiers \ {c} : ~CashierWrote(d, r)
    /\ \A w \in Workers : ~WorkerWrote(w, r)

NoRowLock(w, r) == TRUE                    \* variant: nobody waits
RowFreeForWorker(w, r) ==
    /\ \A c \in Cashiers : ~CashierWrote(c, r)
    /\ \A v \in Workers \ {w} : ~WorkerWrote(v, r)

\* Whether room r is still the version a snapshot shows; when it is not, a
\* write fails with "could not serialize access due to concurrent update".
AnyVersion(r, row) == TRUE                  \* variant: READ COMMITTED
SameVersion(r, row) == room[r].xmin = row.xmin

\* The lock SELECT ... FOR UPDATE NOWAIT takes on a row of ir_cron.
JobLocked(s) == \E w \in Workers : wjob[w] = s /\ wpc[w] \in {"locked", "wrote"}

-----------------------------------------------------------------------------
(* One RPC of a cashier: ktv.room_operate.process_operate. *)

EndRpc(c) ==
    /\ pc' = [pc EXCEPT ![c] = "idle"]
    /\ req' = [req EXCEPT ![c] = None]
    /\ view' = [view EXCEPT ![c] = None]
    /\ bill' = [bill EXCEPT ![c] = None]

\* execute() opens a cursor; the first query fixes the snapshot.
Begin(c, q) ==
    /\ pc[c] = "idle"
    /\ reply[q.sale] = "unasked"
    /\ reply' = [reply EXCEPT ![q.sale] = "pending"]
    /\ pc' = [pc EXCEPT ![c] = "find"]
    /\ req' = [req EXCEPT ![c] = q]
    /\ view' = [view EXCEPT ![c] = room[q.room]]
    /\ UNCHANGED <<now, dbVars, issued, bill, workerVars, crashes>>

\* find_or_create_room_operate: the room carries a bill ...
FindOperate(c) ==
    /\ pc[c] = "find"
    /\ view[c].bill # None
    /\ pc' = [pc EXCEPT ![c] = "found"]
    /\ bill' = [bill EXCEPT ![c] = view[c].bill]
    /\ UNCHANGED <<now, dbVars, reply, issued, req, view, workerVars, crashes>>

\* Variant: the sequence hands out a number twice.
CreateOperateAgain(c, b) ==
    /\ pc[c] = "find"
    /\ view[c].bill = None
    /\ issued' = issued \cup {b}
    /\ pc' = [pc EXCEPT ![c] = "link"]
    /\ bill' = [bill EXCEPT ![c] = b]
    /\ UNCHANGED <<now, dbVars, reply, req, view, workerVars, crashes>>

\* ... or a room_operate is inserted, its bill_no drawn with nextval, ...
CreateOperate(c, b) ==
    /\ pc[c] = "find"
    /\ view[c].bill = None
    /\ b \notin issued
    /\ issued' = issued \cup {b}
    /\ pc' = [pc EXCEPT ![c] = "link"]
    /\ bill' = [bill EXCEPT ![c] = b]
    /\ UNCHANGED <<now, dbVars, reply, req, view, workerVars, crashes>>

\* Variants of the error path: the statement is tried again with the same
\* snapshot; what was inserted before the failing statement is committed.
RetryStatement(c, answer) == UNCHANGED vars
CommitOnError(c, answer) ==
    /\ EndRpc(c)
    /\ reply' = [reply EXCEPT ![req[c].sale] = answer]
    /\ sale' = IF pc[c] \notin {"found", "linked", "written"} THEN sale ELSE
               [sale EXCEPT ![req[c].sale] =
                   [room |-> req[c].room, bill |-> bill[c], osv |-> req[c].osv,
                    close |-> req[c].close, xmin |-> view[c].xmin]]
    /\ UNCHANGED <<now, room, job, issued, workerVars, crashes>>

\* A statement of c fails: execute() rolls everything back and raises.
Rollback(c, answer) ==
    /\ EndRpc(c)
    /\ reply' = [reply EXCEPT ![req[c].sale] = answer]
    /\ UNCHANGED <<now, dbVars, issued, workerVars, crashes>>

\* ... and written to the room's current_room_operate_id, waiting for the row.
LinkOperate(c) ==
    /\ pc[c] = "link"
    /\ RowFreeForCashier(c, req[c].room)
    /\ IF SameVersion(req[c].room, view[c])
       THEN /\ pc' = [pc EXCEPT ![c] = "linked"]
            /\ UNCHANGED <<now, dbVars, reply, issued, req, view, bill,
                           workerVars, crashes>>
       ELSE Rollback(c, "conflict")

\* The business object inserts its document and returns its triple; the room's
\* new state is written, waiting for the row.
WriteState(c) ==
    /\ pc[c] \in {"found", "linked"}
    /\ Unpackable(req[c].osv)
    /\ RowFreeForCashier(c, req[c].room)
    /\ IF SameVersion(req[c].room, view[c])
       THEN /\ pc' = [pc EXCEPT ![c] = "written"]
            /\ UNCHANGED <<now, dbVars, reply, issued, req, view, bill,
                           workerVars, crashes>>
       ELSE Rollback(c, "conflict")

\* ktv.room_checkout: what the business object returns is not a triple.
UnpackFails(c) ==
    /\ pc[c] \in {"found", "linked"}
    /\ ~Unpackable(req[c].osv)
    /\ Rollback(c, "error")

\* The rows c's transaction wrote become visible.
CommitSale(c) ==
    LET q == req[c]
        v == room[q.room].xmin + 1 IN
    /\ room' = [room EXCEPT ![q.room] =
                   [state |-> RoomState(q.osv), bill |-> bill[c], xmin |-> v]]
    /\ sale' = [sale EXCEPT ![q.sale] =
                   [room |-> q.room, bill |-> bill[c], osv |-> q.osv,
                    close |-> q.close, xmin |-> v]]

\* A prepaid sale: the closing job is inserted and ir.cron.create commits the
\* whole transaction; the rest of the RPC runs in a new one.
CreateOperateCron(c) ==
    /\ pc[c] = "written"
    /\ Presale(req[c].osv)
    /\ CommitSale(c)
    /\ job' = [job EXCEPT ![req[c].sale] = "active"]
    /\ pc' = [pc EXCEPT ![c] = "reread"]
    /\ UNCHANGED <<now, reply, issued, req, view, bill, workerVars, crashes>>

\* No job: the room is read back and execute() commits.
Reply(c) ==
    /\ pc[c] = "written"
    /\ ~Presale(req[c].osv)
    /\ CommitSale(c)
    /\ EndRpc(c)
    /\ reply' = [reply EXCEPT ![req[c].sale] = "ok"]
    /\ UNCHANGED <<now, job, issued, workerVars, crashes>>

\* After the commit of ir.cron.create the room is read by a new transaction.
ReplyAfterCommit(c) ==
    /\ pc[c] = "reread"
    /\ EndRpc(c)
    /\ reply' = [reply EXCEPT ![req[c].sale] = "ok"]
    /\ UNCHANGED <<now, dbVars, issued, workerVars, crashes>>

\* Any other exception of the RPC, wherever it is: a value that cannot be
\* converted, a lost connection, the read of the room, the final commit.  The
\* rollback takes back what is not committed: after ir.cron.create's commit
\* (pc "reread") the cashier is told of an error all the same.
RequestFails(c) ==
    /\ pc[c] # "idle"
    /\ Rollback(c, "error")

-----------------------------------------------------------------------------
(* ir.cron: one attempt of a worker at one closing job. *)

EndJob(w) ==
    /\ wpc' = [wpc EXCEPT ![w] = "idle"]
    /\ wjob' = [wjob EXCEPT ![w] = None]
    /\ wview' = [wview EXCEPT ![w] = None]

\* SELECT of the due jobs.  A job whose nextcall is the very second of the
\* query runs zero times and is written back unchanged, hence '<'.
Due(s) == job[s] = "active" /\ sale[s].close < now

PickJob(w, s) ==
    /\ wpc[w] = "idle"
    /\ Due(s)
    /\ wpc' = [wpc EXCEPT ![w] = "picked"]
    /\ wjob' = [wjob EXCEPT ![w] = s]
    /\ UNCHANGED <<now, dbVars, reply, issued, rpcVars, wview, crashes>>

\* SELECT ... FOR UPDATE NOWAIT by a cursor of its own, whose snapshot this
\* is.  The row read before is used as it was: it is not checked again.
LockJob(w) ==
    /\ wpc[w] = "picked"
    /\ ~JobLocked(wjob[w])
    /\ wpc' = [wpc EXCEPT ![w] = "locked"]
    /\ wview' = [wview EXCEPT ![w] = room[sale[wjob[w]].room]]
    /\ UNCHANGED <<now, dbVars, reply, issued, rpcVars, wjob, crashes>>

SkipJob(w) ==
    /\ wpc[w] = "picked"
    /\ JobLocked(wjob[w])
    /\ EndJob(w)
    /\ UNCHANGED <<now, dbVars, reply, issued, rpcVars, crashes>>

\* ktv.room.write of the free state, waiting for the row; an exception is
\* swallowed and the transaction rolled back, which releases the job's row.
Callback(w) ==
    /\ wpc[w] = "locked"
    /\ RowFreeForWorker(w, sale[wjob[w]].room)
    /\ wpc' = [wpc EXCEPT ![w] =
                  IF SameVersion(sale[wjob[w]].room, wview[w])
                  THEN "wrote" ELSE "rolledback"]
    /\ UNCHANGED <<now, dbVars, reply, issued, rpcVars, wjob, wview, crashes>>

\* The method raises for another reason (a right withdrawn, a deadlock or a
\* statement the database cancelled).
CallbackFault(w) ==
    /\ CallbackFaults
    /\ wpc[w] = "locked"
    /\ wpc' = [wpc EXCEPT ![w] = "rolledback"]
    /\ UNCHANGED <<now, dbVars, reply, issued, rpcVars, wjob, wview, crashes>>

\* Variants of the job's arguments: without the bill, without the state, with
\* NULL for a state.
FreedKeepingBill(row)  == [row EXCEPT !.state = "free", !.xmin = @ + 1]
FreedKeepingState(row) == [row EXCEPT !.bill = None, !.xmin = @ + 1]
FreedToNull(row)       == [state |-> None, bill |-> None, xmin |-> row.xmin + 1]

\* What the closing job writes: the room is free and carries no bill.
Freed(row) == [state |-> "free", bill |-> None, xmin |-> row.xmin + 1]

\* Variant: a job that ran takes the other jobs of its room with it.
RetiredForRoom(s) ==
    [t \in Sales |-> IF job[t] = "active" /\ sale[t].room = sale[s].room
                     THEN "inactive" ELSE job[t]]

\* numbercall was 1: the job is deactivated whatever became of its callback.
Retired(s) == [job EXCEPT ![s] = "inactive"]

FinishJob(w) ==
    LET r == sale[wjob[w]].room IN
    /\ wpc[w] = "wrote"
    /\ room' = [room EXCEPT ![r] = Freed(room[r])]
    /\ job' = Retired(wjob[w])
    /\ EndJob(w)
    /\ UNCHANGED <<now, sale, reply, issued, rpcVars, crashes>>

\* After a failed callback the UPDATE of the job starts a new transaction.
FinishFailedJob(w) ==
    /\ wpc[w] = "rolledback"
    /\ ~JobLocked(wjob[w])
    /\ job' = Retired(wjob[w])
    /\ EndJob(w)
    /\ UNCHANGED <<now, room, sale, reply, issued, rpcVars, crashes>>

-----------------------------------------------------------------------------
(* The environment: time and process deaths. *)

Tick ==
    /\ now < MaxTime
    /\ now' = now + 1
    /\ UNCHANGED <<dbVars, reply, issued, rpcVars, workerVars, crashes>>

\* The database rolls back what the dead process had not committed.
CashierCrash(c) ==
    /\ pc[c] # "idle"
    /\ crashes < MaxCrashes
    /\ crashes' = crashes + 1
    /\ EndRpc(c)
    /\ reply' = [reply EXCEPT ![req[c].sale] = "lost"]
    /\ UNCHANGED <<now, dbVars, issued, workerVars>>

WorkerCrash(w) ==
    /\ wpc[w] # "idle"
    /\ crashes < MaxCrashes
    /\ crashes' = crashes + 1
    /\ EndJob(w)
    /\ UNCHANGED <<now, dbVars, reply, issued, rpcVars>>

-----------------------------------------------------------------------------
CashierStep(c) ==
    \/ FindOperate(c)
    \/ \E b \in Bills : CreateOperate(c, b)
    \/ LinkOperate(c)
    \/ WriteState(c)
    \/ UnpackFails(c)
    \/ CreateOperateCron(c)
    \/ Reply(c)
    \/ ReplyAfterCommit(c)

WorkerStep(w) ==
    \/ \E s \in Sales : PickJob(w, s)
    \/ LockJob(w)
    \/ SkipJob(w)
    \/ Callback(w)
    \/ FinishJob(w)
    \/ FinishFailedJob(w)

Next ==
    \/ Tick
    \/ \E c \in Cashiers : \E q \in Requests : Begin(c, q)
    \/ \E c \in Cashiers : CashierStep(c) \/ RequestFails(c) \/ CashierCrash(c)
    \/ \E w \in Workers : WorkerStep(w) \/ CallbackFault(w) \/ WorkerCrash(w)

Spec == Init /\ [][Next]_vars

(* Time passes, a thread that can run runs, and ir.cron looks for due jobs  *)
(* again and again (runner_body, ir_cron._run).  Nobody must press a button.*)
Fairness ==
    /\ WF_vars(Tick)
    /\ \A c \in Cashiers : WF_vars(CashierStep(c))
    /\ \A w \in Workers : WF_vars(WorkerStep(w))

FairSpec == Spec /\ Fairness
=============================================================================
