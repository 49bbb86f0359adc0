---------------------------- MODULE KtvRoomProofs ----------------------------
(***************************************************************************)
(* Proofs about KtvRoom, for any number of rooms, cashiers, workers,       *)
(* requests and bills.                                                     *)
(*                                                                         *)
(* The properties are not inductive: a commit is right because the row the *)
(* transaction locked is still the row its snapshot shows.  IInv says so.  *)
(***************************************************************************)
EXTENDS KtvRoomProps, TLAPS

-----------------------------------------------------------------------------
(* The inductive invariant. *)

Busy(c)   == pc[c] # "idle"
Before(c) == pc[c] \in {"find", "link", "found", "linked", "written"}

\* The bill c works on is one it drew itself.
Drew(c) == pc[c] \in {"link", "linked", "written"} /\ view[c].bill = None

\* What an RPC holds: a request of its own of which nothing is committed yet,
\* or, after ir.cron.create's commit, everything.
RequestInv ==
    /\ \A c \in Cashiers : Busy(c) =>
          /\ req[c] \in Requests
          /\ view[c] \in RoomRows
          /\ reply[req[c].sale] = "pending"
    /\ \A c \in Cashiers : Before(c) =>
          sale[req[c].sale] = None /\ job[req[c].sale] = "none"
    /\ \A c, d \in Cashiers :
          c # d /\ Busy(c) /\ Busy(d) => req[c].sale # req[d].sale
    /\ \A c \in Cashiers : pc[c] = "reread" => job[req[c].sale] # "none"
    /\ \A s \in Sales : reply[s] \in {"unasked", "conflict"} =>
          sale[s] = None /\ job[s] = "none"
    /\ \A s \in Sales : reply[s] \in {"error", "lost"} /\ sale[s] # None =>
          job[s] # "none"

\* A snapshot is no newer than the row, and shows the row if it is as new; a
\* transaction that holds the row has a snapshot as new as the row.
SnapshotInv ==
    \A c \in Cashiers : Before(c) =>
        LET row == room[req[c].room] IN
        /\ view[c].xmin <= row.xmin
        /\ view[c].xmin = row.xmin => view[c] = row
        /\ pc[c] \in {"linked", "written"} => view[c] = row

\* The bill an RPC works on: the room's in its snapshot, or one drawn by it,
\* which then nobody else uses.
BillInv ==
    /\ \A c \in Cashiers : Before(c) /\ pc[c] # "find" => bill[c] \in Bills
    /\ \A c \in Cashiers : pc[c] = "found" => view[c].bill = bill[c]
    /\ \A c \in Cashiers : pc[c] \in {"link", "linked"} => view[c].bill = None
    /\ \A c \in Cashiers : pc[c] = "written" => view[c].bill \in {None, bill[c]}
    /\ \A c \in Cashiers : pc[c] = "written" => Unpackable(req[c].osv)
    /\ \A c \in Cashiers : Drew(c) =>
          /\ bill[c] \in issued
          /\ \A s \in Sales : sale[s] # None => sale[s].bill # bill[c]
          /\ \A r \in Rooms : room[r].bill # bill[c]
    /\ \A c, d \in Cashiers : c # d /\ Drew(c) /\ Drew(d) => bill[c] # bill[d]
    /\ \A s \in Sales : sale[s] # None => sale[s].bill \in issued
    /\ \A r \in Rooms : room[r].bill # None => room[r].bill \in issued

\* At most one transaction holds a room row.
LockInv ==
    \A r \in Rooms :
        /\ \A c, d \in Cashiers : CashierWrote(c, r) /\ CashierWrote(d, r) => c = d
        /\ \A v, w \in Workers : WorkerWrote(v, r) /\ WorkerWrote(w, r) => v = w
        /\ \A c \in Cashiers, w \in Workers : ~(CashierWrote(c, r) /\ WorkerWrote(w, r))

\* A job belongs to a committed prepaid sale, and so does what a worker runs;
\* its snapshot is as new as that sale and relates to the row as a cashier's
\* does.  A callback that failed had been overtaken by another commit.
WorkerInv ==
    /\ \A s \in Sales : job[s] # "none" => sale[s] # None /\ Presale(sale[s].osv)
    /\ \A w \in Workers : wpc[w] # "idle" =>
          wjob[w] \in Sales /\ job[wjob[w]] # "none"
    /\ \A w \in Workers : wpc[w] \in {"locked", "wrote", "rolledback"} =>
          LET s == wjob[w]
              row == room[sale[s].room] IN
          /\ wview[w] \in RoomRows
          /\ sale[s].xmin <= wview[w].xmin
          /\ wview[w].xmin <= row.xmin
          /\ wpc[w] = "wrote" => wview[w].xmin = row.xmin
          /\ wpc[w] = "rolledback" /\ ~CallbackFaults => wview[w].xmin < row.xmin

\* The sale that wrote the row of a room on prepaid time has its job ahead.
RoomInv ==
    /\ FreeIffNoBill
    /\ \A s \in Sales : sale[s] # None => sale[s].xmin <= room[sale[s].room].xmin
    /\ ~CallbackFaults =>
          \A r \in Rooms : room[r].state \in PresaleStates =>
             \E s \in Sales : /\ job[s] = "active"
                              /\ sale[s].room = r
                              /\ sale[s].xmin = room[r].xmin

IInv ==
    /\ TypeOK
    /\ RequestInv
    /\ SnapshotInv
    /\ BillInv
    /\ LockInv
    /\ WorkerInv
    /\ RoomInv

-----------------------------------------------------------------------------
(* The data: what a business object returns. *)

\* The state an operation leaves a room in is never the free one, and it is a
\* prepaid one exactly for the objects that bring a closing job.
LEMMA ResultData ==
    ASSUME NEW o \in Osvs
    PROVE  /\ RoomState(o) \in States \ {"free"}
           /\ Presale(o) \in BOOLEAN
           /\ Unpackable(o) => (RoomState(o) \in PresaleStates <=> Presale(o))
  BY DEF Osvs, RoomState, Result, Presale, Unpackable, States, PresaleStates,
         ScheduledResult, OpensResult, BuyoutResult, BuytimeResult,
         RoomScheduled, RoomOpens, CheckoutBuyout, CheckoutBuytime, RoomCheckout

\* What a committed sale writes has the type of the rows.
LEMMA CommitRows ==
    ASSUME TypeOK, NEW c \in Cashiers, req[c] \in Requests, bill[c] \in Bills,
           CommitSale(c)
    PROVE  /\ room' \in [Rooms -> RoomRows]
           /\ sale' \in [Sales -> SaleRows \cup {None}]
  <1>1. req[c].room \in Rooms /\ req[c].sale \in Sales /\ req[c].osv \in Osvs
        /\ req[c].close \in Times
    BY DEF Requests
  <1>2. room[req[c].room].xmin \in Nat
    BY <1>1 DEF TypeOK, RoomRows
  <1>3. RoomState(req[c].osv) \in States
    BY <1>1, ResultData
  <1>4. [state |-> RoomState(req[c].osv), bill |-> bill[c],
         xmin |-> room[req[c].room].xmin + 1] \in RoomRows
    BY <1>2, <1>3 DEF RoomRows
  <1>5. [room |-> req[c].room, bill |-> bill[c], osv |-> req[c].osv,
         close |-> req[c].close, xmin |-> room[req[c].room].xmin + 1] \in SaleRows
    BY <1>1, <1>2 DEF SaleRows
  <1>. QED  BY <1>4, <1>5 DEF TypeOK, CommitSale

-----------------------------------------------------------------------------
(* Initially. *)

LEMMA InitInv == Init => IInv
  <1>. SUFFICES ASSUME Init PROVE IInv
    OBVIOUS
  <1>. USE DEF Init
  <1>1. TypeOK
    BY TypesAssumption, RoomAssumption
       DEF TypeOK, FreeRoom, RoomRows, States, Replies, RpcPcs, WorkerPcs
  <1>2. RequestInv /\ SnapshotInv /\ BillInv
    BY DEF RequestInv, SnapshotInv, BillInv, Busy, Before, Drew, FreeRoom
  <1>3. LockInv /\ WorkerInv
    BY DEF LockInv, WorkerInv, CashierWrote, WorkerWrote
  <1>4. RoomInv
    BY DEF RoomInv, FreeIffNoBill, FreeRoom, PresaleStates
  <1>. QED  BY <1>1, <1>2, <1>3, <1>4 DEF IInv

-----------------------------------------------------------------------------
(* Types are preserved. *)

LEMMA TypeStep == IInv /\ [Next]_vars => TypeOK'
  <1>. SUFFICES ASSUME TypeOK, RequestInv, BillInv, WorkerInv, [Next]_vars
                PROVE  TypeOK'
    BY DEF IInv
  <1>. USE DEF dbVars, rpcVars, workerVars, RpcPcs, WorkerPcs, Replies
  <1>1. CASE Tick
    BY <1>1, TypesAssumption DEF Tick, TypeOK
  <1>2. ASSUME NEW c \in Cashiers, NEW q \in Requests, Begin(c, q)
        PROVE  TypeOK'
    <2>. q.room \in Rooms /\ q.sale \in Sales
      BY DEF Requests
    <2>. QED  BY <1>2 DEF Begin, TypeOK
  <1>3. ASSUME NEW c \in Cashiers, FindOperate(c)
        PROVE  TypeOK'
    <2>. view[c] \in RoomRows
      BY <1>3 DEF RequestInv, Busy, FindOperate
    <2>. QED  BY <1>3 DEF FindOperate, TypeOK, RoomRows
  <1>4. ASSUME NEW c \in Cashiers, NEW b \in Bills, CreateOperate(c, b)
        PROVE  TypeOK'
    BY <1>4 DEF CreateOperate, TypeOK
  <1>5. ASSUME NEW c \in Cashiers, pc[c] # "idle", NEW a \in Replies, Rollback(c, a)
        PROVE  TypeOK'
    <2>. req[c] \in Requests
      BY <1>5 DEF RequestInv, Busy
    <2>. QED  BY <1>5 DEF Rollback, EndRpc, TypeOK, Requests
  <1>6. ASSUME NEW c \in Cashiers, LinkOperate(c)
        PROVE  TypeOK'
    <2>1. CASE SameVersion(req[c].room, view[c])
      BY <1>6, <2>1 DEF LinkOperate, TypeOK
    <2>. QED  BY <1>5, <1>6, <2>1 DEF LinkOperate
  <1>7. ASSUME NEW c \in Cashiers, WriteState(c)
        PROVE  TypeOK'
    <2>1. CASE SameVersion(req[c].room, view[c])
      BY <1>7, <2>1 DEF WriteState, TypeOK
    <2>. QED  BY <1>5, <1>7, <2>1 DEF WriteState
  <1>8. ASSUME NEW c \in Cashiers, UnpackFails(c)
        PROVE  TypeOK'
    BY <1>5, <1>8 DEF UnpackFails
  <1>9. ASSUME NEW c \in Cashiers, CreateOperateCron(c) \/ Reply(c)
        PROVE  TypeOK'
    <2>1. req[c] \in Requests /\ bill[c] \in Bills /\ CommitSale(c)
      BY <1>9 DEF RequestInv, BillInv, Busy, Before, CreateOperateCron, Reply
    <2>2. req[c].sale \in Sales
      BY <2>1 DEF Requests
    <2>. QED  BY <1>9, <2>1, <2>2, CommitRows
              DEF CreateOperateCron, Reply, EndRpc, TypeOK
  <1>10. ASSUME NEW c \in Cashiers, ReplyAfterCommit(c)
         PROVE  TypeOK'
    <2>. req[c] \in Requests
      BY <1>10 DEF RequestInv, Busy, ReplyAfterCommit
    <2>. QED  BY <1>10 DEF ReplyAfterCommit, EndRpc, TypeOK, Requests
  <1>19. ASSUME NEW c \in Cashiers, RequestFails(c)
         PROVE  TypeOK'
    BY <1>5, <1>19 DEF RequestFails
  <1>11. ASSUME NEW c \in Cashiers, CashierCrash(c)
         PROVE  TypeOK'
    <2>. req[c] \in Requests
      BY <1>11 DEF RequestInv, Busy, CashierCrash
    <2>. QED  BY <1>11, RoomAssumption DEF CashierCrash, EndRpc, TypeOK, Requests
  <1>12. ASSUME NEW w \in Workers, NEW s \in Sales, PickJob(w, s)
         PROVE  TypeOK'
    BY <1>12 DEF PickJob, TypeOK
  <1>13. ASSUME NEW w \in Workers, LockJob(w)
         PROVE  TypeOK'
    <2>. sale[wjob[w]] \in SaleRows
      BY <1>13 DEF WorkerInv, LockJob, TypeOK
    <2>. room[sale[wjob[w]].room] \in RoomRows
      BY DEF TypeOK, SaleRows
    <2>. QED  BY <1>13 DEF LockJob, TypeOK
  <1>14. ASSUME NEW w \in Workers, SkipJob(w) \/ Callback(w) \/ CallbackFault(w)
         PROVE  TypeOK'
    BY <1>14 DEF SkipJob, Callback, CallbackFault, EndJob, TypeOK
  <1>15. ASSUME NEW w \in Workers, FinishJob(w)
         PROVE  TypeOK'
    <2>. wjob[w] \in Sales /\ sale[wjob[w]] \in SaleRows
      BY <1>15 DEF WorkerInv, FinishJob, TypeOK
    <2>. room[sale[wjob[w]].room] \in RoomRows
      BY DEF TypeOK, SaleRows
    <2>. Freed(room[sale[wjob[w]].room]) \in RoomRows
      BY DEF Freed, RoomRows, States
    <2>. QED  BY <1>15 DEF FinishJob, EndJob, Retired, TypeOK
  <1>16. ASSUME NEW w \in Workers, FinishFailedJob(w)
         PROVE  TypeOK'
    <2>. wjob[w] \in Sales
      BY <1>16 DEF WorkerInv, FinishFailedJob
    <2>. QED  BY <1>16 DEF FinishFailedJob, EndJob, Retired, TypeOK
  <1>17. ASSUME NEW w \in Workers, WorkerCrash(w)
         PROVE  TypeOK'
    BY <1>17, RoomAssumption DEF WorkerCrash, EndJob, TypeOK
  <1>18. CASE UNCHANGED vars
    BY <1>18 DEF vars, TypeOK
  <1>. QED
    BY <1>1, <1>2, <1>3, <1>4, <1>6, <1>7, <1>8, <1>9, <1>10, <1>11, <1>12,
       <1>13, <1>14, <1>15, <1>16, <1>17, <1>18, <1>19
       DEF Next, CashierStep, WorkerStep

-----------------------------------------------------------------------------
(* Each request is served by one RPC and leaves rows only by its commit. *)

\* The end of one RPC leaves the others as they were.
LEMMA OthersKept ==
    ASSUME TypeOK, NEW c \in Cashiers, EndRpc(c)
    PROVE  /\ pc'[c] = "idle"
           /\ \A d \in Cashiers : pc'[d] # "idle" =>
                 /\ d # c
                 /\ pc'[d] = pc[d] /\ req'[d] = req[d]
                 /\ view'[d] = view[d] /\ bill'[d] = bill[d]
  BY DEF EndRpc, TypeOK

LEMMA RequestStep == IInv /\ [Next]_vars => RequestInv'
  <1>. SUFFICES ASSUME TypeOK, RequestInv, BillInv, WorkerInv, [Next]_vars
                PROVE  RequestInv'
    BY DEF IInv
  <1>. USE DEF dbVars, rpcVars, workerVars, Busy, Before
  <1>1. CASE Tick
    BY <1>1 DEF Tick, RequestInv
  <1>2. ASSUME NEW c \in Cashiers, NEW q \in Requests, Begin(c, q)
        PROVE  RequestInv'
    <2>. q.room \in Rooms /\ q.sale \in Sales /\ room[q.room] \in RoomRows
      BY DEF Requests, TypeOK
    <2>. QED  BY <1>2 DEF Begin, RequestInv, TypeOK
  <1>3. ASSUME NEW c \in Cashiers,
               FindOperate(c) \/ (\E b \in Bills : CreateOperate(c, b))
        PROVE  RequestInv'
    BY <1>3 DEF FindOperate, CreateOperate, RequestInv, TypeOK
  <1>4. ASSUME NEW c \in Cashiers, Before(c), Rollback(c, "conflict") \/ Rollback(c, "error")
        PROVE  RequestInv'
    <2>1. req[c].sale \in Sales
      BY <1>4 DEF RequestInv, Requests
    <2>2. \A d \in Cashiers : Busy(d) => req[d].sale \in Sales
      BY DEF RequestInv, Requests
    <2>3. EndRpc(c) /\ UNCHANGED <<sale, job>>
      BY <1>4 DEF Rollback
    <2>4. \A s \in Sales : s # req[c].sale => reply'[s] = reply[s]
      BY <1>4, <2>1 DEF Rollback, TypeOK
    <2>. QED  BY <1>4, <2>1, <2>2, <2>3, <2>4, OthersKept DEF RequestInv
  <1>5. ASSUME NEW c \in Cashiers, LinkOperate(c) \/ WriteState(c)
        PROVE  RequestInv'
    <2>1. CASE SameVersion(req[c].room, view[c])
      BY <1>5, <2>1 DEF LinkOperate, WriteState, RequestInv, TypeOK
    <2>. QED  BY <1>4, <1>5, <2>1 DEF LinkOperate, WriteState
  <1>6. ASSUME NEW c \in Cashiers, UnpackFails(c)
        PROVE  RequestInv'
    BY <1>4, <1>6 DEF UnpackFails
  <1>7. ASSUME NEW c \in Cashiers, CreateOperateCron(c) \/ Reply(c)
        PROVE  RequestInv'
    <2>1. req[c].sale \in Sales /\ Before(c) /\ Busy(c)
      BY <1>7 DEF RequestInv, Requests, CreateOperateCron, Reply
    <2>2. \A d \in Cashiers : Busy(d) => req[d].sale \in Sales
      BY DEF RequestInv, Requests
    <2>3. \A s \in Sales : s # req[c].sale =>
             sale'[s] = sale[s] /\ job'[s] = job[s] /\ reply'[s] = reply[s]
      BY <1>7, <2>1 DEF CreateOperateCron, Reply, CommitSale, TypeOK
    <2>4. \A d \in Cashiers : d # c /\ Busy(d)' =>
             Busy(d) /\ pc'[d] = pc[d] /\ req'[d] = req[d] /\ view'[d] = view[d]
      BY <1>7 DEF CreateOperateCron, Reply, EndRpc, TypeOK
    <2>5. /\ ~Before(c)'
          /\ reply'[req[c].sale] \in {"pending", "ok"}
          /\ Busy(c)' => /\ req'[c] = req[c] /\ view'[c] = view[c]
                         /\ reply'[req[c].sale] = "pending"
                         /\ job'[req[c].sale] = "active"
      BY <1>7, <2>1 DEF CreateOperateCron, Reply, EndRpc, RequestInv, TypeOK
    <2>. QED  BY <2>1, <2>2, <2>3, <2>4, <2>5 DEF RequestInv
  <1>8. ASSUME NEW c \in Cashiers, ReplyAfterCommit(c) \/ RequestFails(c) \/ CashierCrash(c)
        PROVE  RequestInv'
    <2>1. req[c].sale \in Sales /\ Busy(c)
      BY <1>8 DEF RequestInv, Requests, ReplyAfterCommit, RequestFails, CashierCrash
    <2>2. \A d \in Cashiers : Busy(d) => req[d].sale \in Sales
      BY DEF RequestInv, Requests
    <2>3. EndRpc(c) /\ UNCHANGED <<sale, job>>
      BY <1>8 DEF ReplyAfterCommit, RequestFails, Rollback, CashierCrash
    <2>4. /\ \A s \in Sales : s # req[c].sale => reply'[s] = reply[s]
          /\ reply'[req[c].sale] \in {"ok", "error", "lost"}
      BY <1>8, <2>1 DEF ReplyAfterCommit, RequestFails, Rollback, CashierCrash, TypeOK
    <2>5. sale[req[c].sale] # None => job[req[c].sale] # "none"
      BY <2>1 DEF RequestInv, TypeOK, RpcPcs
    <2>. QED  BY <2>1, <2>2, <2>3, <2>4, <2>5, OthersKept DEF RequestInv
  <1>9. ASSUME NEW w \in Workers,
               (\E s \in Sales : PickJob(w, s)) \/ LockJob(w) \/ SkipJob(w)
               \/ Callback(w) \/ CallbackFault(w) \/ WorkerCrash(w)
        PROVE  RequestInv'
    BY <1>9 DEF PickJob, LockJob, SkipJob, Callback, CallbackFault,
                WorkerCrash, EndJob, RequestInv
  <1>10. ASSUME NEW w \in Workers, FinishJob(w) \/ FinishFailedJob(w)
         PROVE  RequestInv'
    <2>1. wjob[w] \in Sales /\ job[wjob[w]] # "none"
      BY <1>10 DEF WorkerInv, FinishJob, FinishFailedJob
    <2>2. /\ job' = [job EXCEPT ![wjob[w]] = "inactive"]
          /\ UNCHANGED <<sale, reply, pc, req, view>>
      BY <1>10 DEF FinishJob, FinishFailedJob, Retired
    <2>3. \A s \in Sales : job[s] = "none" => job'[s] = "none"
      BY <2>1, <2>2 DEF TypeOK
    <2>4. \A c \in Cashiers : Before(c) => req[c].sale \in Sales
      BY DEF RequestInv, Requests
    <2>. QED  BY <2>2, <2>3, <2>4 DEF RequestInv
  <1>11. CASE UNCHANGED vars
    BY <1>11 DEF vars, RequestInv
  <1>. QED
    BY <1>1, <1>2, <1>3, <1>5, <1>6, <1>7, <1>8, <1>9, <1>10, <1>11
       DEF Next, CashierStep, WorkerStep

-----------------------------------------------------------------------------
(* What the other transactions may do to a room row: its version only      *)
(* grows, and stays when somebody holds the row.                           *)

\* A commit on a room is made by the one transaction that holds its row.
LEMMA RoomChanges ==
    ASSUME IInv, [Next]_vars, NEW r \in Rooms
    PROVE  \/ room'[r] = room[r]
           \/ /\ room'[r] \in RoomRows
              /\ room'[r].xmin = room[r].xmin + 1
              /\ \/ \E c \in Cashiers : /\ pc[c] = "written" /\ req[c].room = r
                                        /\ CreateOperateCron(c) \/ Reply(c)
                 \/ \E w \in Workers : WorkerWrote(w, r) /\ FinishJob(w)
  <1>. USE DEF IInv
  <1>1. ASSUME NEW c \in Cashiers, CreateOperateCron(c) \/ Reply(c),
               room'[r] # room[r]
        PROVE  /\ pc[c] = "written" /\ req[c].room = r
               /\ room'[r] \in RoomRows
               /\ room'[r].xmin = room[r].xmin + 1
    <2>1. pc[c] = "written" /\ CommitSale(c)
      BY <1>1 DEF CreateOperateCron, Reply
    <2>2. req[c] \in Requests /\ bill[c] \in Bills
      BY <2>1 DEF RequestInv, BillInv, Busy, Before
    <2>3. room' \in [Rooms -> RoomRows]
      BY <2>1, <2>2, CommitRows
    <2>4. req[c].room = r
      BY <1>1, <2>1 DEF CommitSale, TypeOK
    <2>. QED  BY <2>1, <2>3, <2>4 DEF CommitSale, TypeOK
  <1>2. ASSUME NEW w \in Workers, FinishJob(w), room'[r] # room[r]
        PROVE  /\ WorkerWrote(w, r)
               /\ room'[r] \in RoomRows
               /\ room'[r].xmin = room[r].xmin + 1
    <2>1. sale[wjob[w]].room = r
      BY <1>2 DEF FinishJob, TypeOK
    <2>2. room'[r] = Freed(room[r])
      BY <1>2, <2>1 DEF FinishJob, TypeOK
    <2>. QED  BY <1>2, <2>1, <2>2
              DEF FinishJob, WorkerWrote, Freed, RoomRows, States, TypeOK
  <1>. QED
    BY <1>1, <1>2
       DEF Next, CashierStep, WorkerStep, Tick, Begin, FindOperate,
           CreateOperate, LinkOperate, WriteState, UnpackFails, Rollback,
           ReplyAfterCommit, RequestFails, CashierCrash, PickJob, LockJob,
           SkipJob, Callback,
           CallbackFault, FinishFailedJob, WorkerCrash, dbVars, vars

\* An RPC that is under way after a step began in it, took a step of its own in
\* it, or was left alone by it.
Advances(c) ==
    \/ FindOperate(c)
    \/ \E b \in Bills : CreateOperate(c, b)
    \/ (LinkOperate(c) \/ WriteState(c)) /\ SameVersion(req[c].room, view[c])
    \/ CreateOperateCron(c)

LEMMA RpcMoves ==
    ASSUME TypeOK, [Next]_vars, NEW c \in Cashiers, pc'[c] # "idle"
    PROVE  \/ \E q \in Requests : Begin(c, q)
           \/ /\ pc[c] # "idle" /\ req'[c] = req[c] /\ view'[c] = view[c]
              /\ \/ pc'[c] = pc[c] /\ bill'[c] = bill[c]
                 \/ Advances(c)
  <1>. USE DEF dbVars, rpcVars, workerVars
  <1>1. ASSUME NEW d \in Cashiers, CashierStep(d), d = c
        PROVE  pc[c] # "idle" /\ req'[c] = req[c] /\ view'[c] = view[c] /\ Advances(c)
    <2>1. ASSUME EndRpc(d) PROVE FALSE
      BY <1>1, <2>1, OthersKept
    <2>. QED  BY <1>1, <2>1 DEF CashierStep, Advances, FindOperate, CreateOperate,
                  LinkOperate, WriteState, UnpackFails, Rollback,
                  CreateOperateCron, Reply, ReplyAfterCommit, CommitSale
  <1>2. ASSUME NEW d \in Cashiers, CashierStep(d) \/ RequestFails(d) \/ CashierCrash(d), d # c
        PROVE  /\ pc'[c] = pc[c] /\ req'[c] = req[c]
               /\ view'[c] = view[c] /\ bill'[c] = bill[c]
    BY <1>2 DEF CashierStep, FindOperate, CreateOperate, LinkOperate, WriteState,
                UnpackFails, Rollback, CreateOperateCron, Reply, ReplyAfterCommit,
                CommitSale, RequestFails, CashierCrash, EndRpc, TypeOK
  <1>3. ASSUME NEW d \in Cashiers, RequestFails(d) \/ CashierCrash(d)
        PROVE  d # c
    BY <1>3, OthersKept DEF RequestFails, Rollback, CashierCrash
  <1>4. ASSUME NEW d \in Cashiers, NEW q \in Requests, Begin(d, q), d # c
        PROVE  /\ pc'[c] = pc[c] /\ req'[c] = req[c]
               /\ view'[c] = view[c] /\ bill'[c] = bill[c]
    BY <1>4 DEF Begin, TypeOK
  <1>5. ASSUME NEW w \in Workers, WorkerStep(w) \/ CallbackFault(w) \/ WorkerCrash(w)
        PROVE  UNCHANGED rpcVars
    BY <1>5 DEF WorkerStep, PickJob, LockJob, SkipJob, Callback, CallbackFault,
                FinishJob, FinishFailedJob, WorkerCrash
  <1>6. CASE Tick \/ UNCHANGED vars
    BY <1>6 DEF Tick, vars
  <1>. QED
    BY <1>1, <1>2, <1>3, <1>4, <1>5, <1>6 DEF Next

-----------------------------------------------------------------------------
(* Snapshots relate to the rows. *)

LEMMA SnapshotStep == IInv /\ [Next]_vars => SnapshotInv'
  <1>. SUFFICES ASSUME IInv, [Next]_vars, NEW c \in Cashiers, Before(c)'
                PROVE  /\ view'[c].xmin <= room'[req'[c].room].xmin
                       /\ view'[c].xmin = room'[req'[c].room].xmin
                             => view'[c] = room'[req'[c].room]
                       /\ pc'[c] \in {"linked", "written"}
                             => view'[c] = room'[req'[c].room]
    BY DEF SnapshotInv
  <1>. USE DEF Before, IInv
  <1>1. CASE \E q \in Requests : Begin(c, q)
    <2>1. PICK q \in Requests : Begin(c, q)
      BY <1>1
    <2>2. room[q.room] \in RoomRows
      BY DEF Requests, TypeOK
    <2>. QED  BY <2>1, <2>2 DEF Begin, dbVars, RoomRows, TypeOK
  <1>2. CASE /\ pc[c] # "idle" /\ req'[c] = req[c] /\ view'[c] = view[c]
             /\ (pc'[c] = pc[c] /\ bill'[c] = bill[c]) \/ Advances(c)
    <2>. DEFINE r == req[c].room
    <2>1. Before(c) /\ r \in Rooms /\ view[c] \in RoomRows /\ room[r] \in RoomRows
      BY <1>2 DEF RequestInv, Requests, Busy, TypeOK, Advances, FindOperate,
                  CreateOperate, LinkOperate, WriteState, CreateOperateCron
    <2>2. CASE room'[r] = room[r]
      <3>1. pc'[c] \in {"linked", "written"} => view[c] = room[r]
        BY <1>2, <2>1, <2>2
           DEF SnapshotInv, SameVersion, Advances, FindOperate, CreateOperate,
               LinkOperate, WriteState, CreateOperateCron, TypeOK
      <3>. QED  BY <1>2, <2>1, <2>2, <3>1 DEF SnapshotInv
    <2>3. CASE /\ room'[r] \in RoomRows /\ room'[r].xmin = room[r].xmin + 1
               /\ pc[c] \notin {"linked", "written"}
      <3>1. pc'[c] \notin {"linked", "written"}
        <4>1. ~(LinkOperate(c) \/ WriteState(c)) \/ room' = room \/ pc'[c] = "idle"
          BY DEF LinkOperate, WriteState, Rollback, dbVars
        <4>. QED  BY <1>2, <2>1, <2>3, <4>1 
                  DEF Advances, FindOperate, CreateOperate, LinkOperate,
                      WriteState, CreateOperateCron, TypeOK, dbVars, RoomRows
      <3>. QED  BY <1>2, <2>1, <2>3, <3>1 DEF SnapshotInv, RoomRows
    <2>4. CASE /\ pc[c] \in {"linked", "written"}
               /\ room'[r] # room[r]
      <3>1. CashierWrote(c, r)
        BY <2>4 DEF CashierWrote
      <3>2. PICK d \in Cashiers : /\ pc[d] = "written" /\ req[d].room = r
                                  /\ CreateOperateCron(d) \/ Reply(d)
        BY <2>1, <2>4, <3>1, RoomChanges DEF LockInv
      <3>3. d = c
        BY <2>1, <3>1, <3>2 DEF LockInv, CashierWrote
      <3>. QED  BY <3>2, <3>3, OthersKept DEF CreateOperateCron, Reply, TypeOK
    <2>. QED  BY <2>1, <2>2, <2>3, <2>4, RoomChanges
  <1>. QED  BY <1>1, <1>2, RpcMoves

-----------------------------------------------------------------------------
(* Row locks exclude each other. *)

\* A commit leaves the sales of the running jobs alone.
LEMMA JobsKept ==
    ASSUME IInv, NEW c \in Cashiers, CreateOperateCron(c) \/ Reply(c),
           NEW s \in Sales, job[s] # "none"
    PROVE  /\ sale'[s] = sale[s] /\ job'[s] = job[s]
           /\ sale[s] \in SaleRows
  <1>. USE DEF IInv
  <1>1. pc[c] = "written" /\ CommitSale(c)
    BY DEF CreateOperateCron, Reply
  <1>2. s # req[c].sale
    BY <1>1 DEF RequestInv, Before
  <1>. QED  BY <1>1, <1>2 DEF CommitSale, CreateOperateCron, Reply, WorkerInv, TypeOK

LEMMA LockStep == IInv /\ [Next]_vars => LockInv'
  <1>. SUFFICES ASSUME IInv, [Next]_vars PROVE LockInv'
    OBVIOUS
  <1>. USE DEF IInv, dbVars, rpcVars, workerVars
  <1>1. ASSUME NEW c \in Cashiers, LinkOperate(c) \/ WriteState(c),
               SameVersion(req[c].room, view[c])
        PROVE  LockInv'
    BY <1>1 DEF LinkOperate, WriteState, RowFreeForCashier, CashierWrote,
                WorkerWrote, LockInv, TypeOK
  <1>2. ASSUME NEW w \in Workers, Callback(w)
        PROVE  LockInv'
    BY <1>2 DEF Callback, RowFreeForWorker, CashierWrote, WorkerWrote, LockInv, TypeOK
  <1>3. ASSUME \A c \in Cashiers, r \in Rooms : CashierWrote(c, r)' => CashierWrote(c, r),
               \A w \in Workers, r \in Rooms : WorkerWrote(w, r)' => WorkerWrote(w, r)
        PROVE  LockInv'
    BY <1>3 DEF LockInv
  <1>4. ASSUME NEW c \in Cashiers, EndRpc(c), UNCHANGED <<sale, wpc, wjob>>
        PROVE  LockInv'
    <2>1. \A d \in Cashiers, r \in Rooms : CashierWrote(d, r)' => CashierWrote(d, r)
      BY <1>4, OthersKept DEF CashierWrote
    <2>. QED  BY <1>3, <1>4, <2>1 DEF WorkerWrote
  <1>5. ASSUME NEW c \in Cashiers,
               \/ LinkOperate(c) \/ WriteState(c) \/ UnpackFails(c)
               \/ ReplyAfterCommit(c) \/ RequestFails(c) \/ CashierCrash(c)
        PROVE  LockInv'
    BY <1>1, <1>4, <1>5 DEF LinkOperate, WriteState, UnpackFails, Rollback,
                            ReplyAfterCommit, RequestFails, CashierCrash
  <1>6. ASSUME NEW c \in Cashiers, CreateOperateCron(c) \/ Reply(c)
        PROVE  LockInv'
    <2>1. \A d \in Cashiers, r \in Rooms : CashierWrote(d, r)' => CashierWrote(d, r)
      BY <1>6, OthersKept DEF CashierWrote, CreateOperateCron, Reply, TypeOK
    <2>2. UNCHANGED <<wpc, wjob>>
      BY <1>6 DEF CreateOperateCron, Reply
    <2>3. \A w \in Workers, r \in Rooms : WorkerWrote(w, r)' => WorkerWrote(w, r)
      BY <1>6, <2>2, JobsKept DEF WorkerWrote, WorkerInv
    <2>. QED  BY <1>3, <2>1, <2>3
  <1>7. ASSUME NEW c \in Cashiers,
               \/ \E q \in Requests : Begin(c, q)
               \/ FindOperate(c)
               \/ \E b \in Bills : CreateOperate(c, b)
        PROVE  LockInv'
    BY <1>3, <1>7 DEF Begin, FindOperate, CreateOperate, CashierWrote, WorkerWrote, TypeOK
  <1>8. ASSUME NEW w \in Workers,
               \/ \E s \in Sales : PickJob(w, s)
               \/ LockJob(w) \/ SkipJob(w) \/ CallbackFault(w)
               \/ FinishJob(w) \/ FinishFailedJob(w) \/ WorkerCrash(w)
        PROVE  LockInv'
    <2>1. UNCHANGED <<sale, pc, req>>
      BY <1>8 DEF PickJob, LockJob, SkipJob, CallbackFault, FinishJob,
                  FinishFailedJob, WorkerCrash
    <2>2. \A v \in Workers : wpc'[v] = "wrote" => wpc[v] = "wrote" /\ wjob'[v] = wjob[v]
      BY <1>8 DEF PickJob, LockJob, SkipJob, CallbackFault, FinishJob,
                  FinishFailedJob, WorkerCrash, EndJob, TypeOK
    <2>. QED  BY <1>3, <2>1, <2>2 DEF CashierWrote, WorkerWrote
  <1>9. CASE Tick \/ UNCHANGED vars
    BY <1>3, <1>9 DEF Tick, vars, CashierWrote, WorkerWrote
  <1>. QED
    BY <1>2, <1>5, <1>6, <1>7, <1>8, <1>9 DEF Next, CashierStep, WorkerStep

-----------------------------------------------------------------------------
(* Workers run the jobs of committed sales on snapshots that show them. *)

\* The job of a sale is never taken back, nor is the sale.
LEMMA SalesWithJobs ==
    ASSUME IInv, [Next]_vars, NEW s \in Sales
    PROVE  /\ job[s] # "none" => job'[s] # "none" /\ sale'[s] = sale[s]
           /\ job'[s] # "none" => sale'[s] # None /\ Presale(sale'[s].osv)
  <1>. USE DEF IInv
  <1>1. ASSUME NEW c \in Cashiers, CreateOperateCron(c) \/ Reply(c)
        PROVE  /\ job[s] # "none" => job'[s] # "none" /\ sale'[s] = sale[s]
               /\ job'[s] # "none" => sale'[s] # None /\ Presale(sale'[s].osv)
    <2>1. CASE job[s] # "none"
      BY <1>1, <2>1, JobsKept DEF WorkerInv
    <2>2. CASE job[s] = "none" /\ job'[s] # "none"
      <3>1. CreateOperateCron(c) /\ s = req[c].sale /\ req[c] \in Requests
        BY <1>1, <2>2 DEF CreateOperateCron, Reply, RequestInv, Busy, TypeOK
      <3>2. sale'[s] = [room |-> req[c].room, bill |-> bill[c],
                        osv |-> req[c].osv, close |-> req[c].close,
                        xmin |-> room[req[c].room].xmin + 1]
        BY <3>1 DEF CreateOperateCron, CommitSale, TypeOK
      <3>3. sale'[s] \in SaleRows
        BY <3>1, <3>2 DEF CreateOperateCron, BillInv, Before, TypeOK, Requests,
                          SaleRows, RoomRows
      <3>. QED  BY <2>2, <3>1, <3>2, <3>3, NullAssumption DEF CreateOperateCron
    <2>. QED  BY <2>1, <2>2
  <1>2. ASSUME NEW w \in Workers, FinishJob(w) \/ FinishFailedJob(w)
        PROVE  /\ job[s] # "none" => job'[s] # "none" /\ sale'[s] = sale[s]
               /\ job'[s] # "none" => sale'[s] # None /\ Presale(sale'[s].osv)
    <2>1. wjob[w] \in Sales /\ job[wjob[w]] # "none"
      BY <1>2 DEF WorkerInv, FinishJob, FinishFailedJob
    <2>. QED  BY <1>2, <2>1 DEF FinishJob, FinishFailedJob, Retired, WorkerInv, TypeOK
  <1>3. CASE UNCHANGED <<sale, job>>
    BY <1>3 DEF WorkerInv
  <1>. QED
    BY <1>1, <1>2, <1>3
       DEF Next, CashierStep, WorkerStep, Tick, Begin, FindOperate,
           CreateOperate, LinkOperate, WriteState, UnpackFails, Rollback,
           ReplyAfterCommit, RequestFails, CashierCrash, PickJob, LockJob,
           SkipJob, Callback,
           CallbackFault, WorkerCrash, dbVars, vars

\* A worker with a job picked it in this step, took a step of its own with it,
\* or was left alone by the step.
LEMMA WorkerMoves ==
    ASSUME TypeOK, [Next]_vars, NEW w \in Workers, wpc'[w] # "idle"
    PROVE  \/ \E s \in Sales : PickJob(w, s)
           \/ /\ wpc[w] # "idle" /\ wjob'[w] = wjob[w]
              /\ \/ wpc'[w] = wpc[w] /\ wview'[w] = wview[w]
                 \/ LockJob(w)
                 \/ Callback(w)
                 \/ CallbackFault(w)
  <1>. USE DEF dbVars, rpcVars, workerVars
  <1>1. ASSUME NEW v \in Workers, WorkerStep(v) \/ CallbackFault(v) \/ WorkerCrash(v)
        PROVE  \/ \E s \in Sales : PickJob(w, s)
               \/ /\ wpc[w] # "idle" /\ wjob'[w] = wjob[w]
                  /\ \/ wpc'[w] = wpc[w] /\ wview'[w] = wview[w]
                     \/ LockJob(w)
                     \/ Callback(w)
                     \/ CallbackFault(w)
    <2>1. CASE v = w
      BY <1>1, <2>1 DEF WorkerStep, PickJob, LockJob, SkipJob, Callback,
                CallbackFault, FinishJob, FinishFailedJob, WorkerCrash, EndJob, TypeOK
    <2>2. CASE v # w
      BY <1>1, <2>2 DEF WorkerStep, PickJob, LockJob, SkipJob, Callback,
                CallbackFault, FinishJob, FinishFailedJob, WorkerCrash, EndJob, TypeOK
    <2>. QED  BY <2>1, <2>2
  <1>2. ASSUME NEW c \in Cashiers,
               \/ \E q \in Requests : Begin(c, q)
               \/ CashierStep(c) \/ RequestFails(c) \/ CashierCrash(c)
        PROVE  UNCHANGED workerVars
    BY <1>2 DEF Begin, CashierStep, FindOperate, CreateOperate, LinkOperate,
                WriteState, UnpackFails, Rollback, CreateOperateCron, Reply,
                ReplyAfterCommit, RequestFails, CashierCrash
  <1>3. CASE Tick \/ UNCHANGED vars
    BY <1>3 DEF Tick, vars
  <1>. QED  BY <1>1, <1>2, <1>3 DEF Next

\* A worker that holds a room row sees it unchanged by others.
LEMMA WorkerRowKept ==
    ASSUME IInv, [Next]_vars, NEW w \in Workers, wpc[w] = "wrote", wpc'[w] = "wrote"
    PROVE  room'[sale[wjob[w]].room] = room[sale[wjob[w]].room]
  <1>. USE DEF IInv
  <1>. DEFINE r == sale[wjob[w]].room
  <1>1. r \in Rooms /\ WorkerWrote(w, r)
    BY DEF WorkerInv, WorkerWrote, TypeOK, SaleRows
  <1>2. \A c \in Cashiers : ~(pc[c] = "written" /\ req[c].room = r)
    BY <1>1 DEF LockInv, CashierWrote
  <1>3. ASSUME NEW v \in Workers, WorkerWrote(v, r), FinishJob(v)
        PROVE  FALSE
    BY <1>1, <1>3 DEF LockInv, FinishJob, EndJob, TypeOK
  <1>. QED  BY <1>1, <1>2, <1>3, RoomChanges

LEMMA WorkerStepInv == IInv /\ [Next]_vars => WorkerInv'
  <1>. SUFFICES ASSUME IInv, [Next]_vars PROVE WorkerInv'
    OBVIOUS
  <1>. USE DEF IInv
  <1>1. \A s \in Sales : job'[s] # "none" => sale'[s] # None /\ Presale(sale'[s].osv)
    BY SalesWithJobs
  <1>2. ASSUME NEW w \in Workers, wpc'[w] # "idle"
        PROVE  wjob'[w] \in Sales /\ job'[wjob'[w]] # "none"
    <2>1. CASE \E s \in Sales : PickJob(w, s)
      BY <2>1 DEF PickJob, Due, dbVars, TypeOK
    <2>2. CASE wpc[w] # "idle" /\ wjob'[w] = wjob[w]
      BY <2>2, SalesWithJobs DEF WorkerInv
    <2>. QED  BY <1>2, <2>1, <2>2, WorkerMoves
  <1>3. ASSUME NEW w \in Workers, wpc'[w] \in {"locked", "wrote", "rolledback"}
        PROVE  /\ wview'[w] \in RoomRows
               /\ sale'[wjob'[w]].xmin <= wview'[w].xmin
               /\ wview'[w].xmin <= room'[sale'[wjob'[w]].room].xmin
               /\ wpc'[w] = "wrote" =>
                     wview'[w].xmin = room'[sale'[wjob'[w]].room].xmin
               /\ wpc'[w] = "rolledback" /\ ~CallbackFaults =>
                     wview'[w].xmin < room'[sale'[wjob'[w]].room].xmin
    <2>. DEFINE s == wjob[w]
                r == sale[s].room
    <2>1. /\ wpc[w] # "idle" /\ wjob'[w] = s
          /\ \/ wpc'[w] = wpc[w] /\ wview'[w] = wview[w]
             \/ LockJob(w) \/ Callback(w) \/ CallbackFault(w)
      BY <1>3, WorkerMoves DEF PickJob, TypeOK
    <2>2. /\ s \in Sales /\ sale'[s] = sale[s] /\ sale[s] \in SaleRows /\ r \in Rooms
          /\ room[r] \in RoomRows /\ sale[s].xmin <= room[r].xmin
      BY <2>1, SalesWithJobs DEF WorkerInv, RoomInv, TypeOK, SaleRows
    <2>3. /\ room'[r] \in RoomRows
          /\ room'[r] = room[r] \/ room'[r].xmin = room[r].xmin + 1
      BY <2>2, RoomChanges DEF TypeOK
    <2>4. CASE LockJob(w)
      BY <2>1, <2>2, <2>4 DEF LockJob, dbVars, RoomRows, SaleRows, TypeOK
    <2>5. CASE Callback(w)
      <3>1. /\ wpc[w] = "locked" /\ wview'[w] = wview[w] /\ room' = room
            /\ wpc'[w] = "wrote" => room[r].xmin = wview[w].xmin
            /\ wpc'[w] = "rolledback" => room[r].xmin # wview[w].xmin
        BY <2>5 DEF Callback, SameVersion, dbVars, TypeOK
      <3>. QED  BY <2>1, <2>2, <3>1 DEF WorkerInv, RoomRows, SaleRows
    <2>6. CASE CallbackFault(w)
      BY <2>1, <2>2, <2>6 DEF CallbackFault, WorkerInv, dbVars, RoomRows, TypeOK
    <2>7. CASE wpc'[w] = wpc[w] /\ wview'[w] = wview[w]
      <3>1. wpc[w] = "wrote" => room'[r] = room[r]
        BY <2>7, WorkerRowKept
      <3>. QED  BY <1>3, <2>1, <2>2, <2>3, <2>7, <3>1 DEF WorkerInv, RoomRows, SaleRows
    <2>. QED  BY <2>1, <2>4, <2>5, <2>6, <2>7
  <1>. QED  BY <1>1, <1>2, <1>3 DEF WorkerInv

-----------------------------------------------------------------------------
(* Bills. *)

\* What a transaction about to commit holds, and what its commit writes.
LEMMA CommitEffects ==
    ASSUME IInv, NEW c \in Cashiers, CreateOperateCron(c) \/ Reply(c)
    PROVE  LET q == req[c] IN
           /\ pc[c] = "written" /\ q \in Requests /\ Unpackable(q.osv)
           /\ bill[c] \in Bills /\ bill[c] \in issued
           /\ sale[q.sale] = None /\ job[q.sale] = "none"
           /\ Drew(c) \/ room[q.room].bill = bill[c]
           /\ room[q.room].bill \in {None, bill[c]}
           /\ \A r \in Rooms : r # q.room => room'[r] = room[r]
           /\ room'[q.room] = [state |-> RoomState(q.osv), bill |-> bill[c],
                               xmin |-> room[q.room].xmin + 1]
           /\ \A s \in Sales : s # q.sale => sale'[s] = sale[s]
           /\ sale'[q.sale] = [room |-> q.room, bill |-> bill[c], osv |-> q.osv,
                               close |-> q.close, xmin |-> room[q.room].xmin + 1]
           /\ UNCHANGED issued
  <1>. USE DEF IInv
  <1>. DEFINE q == req[c]
  <1>1. pc[c] = "written" /\ CommitSale(c) /\ UNCHANGED issued
    BY DEF CreateOperateCron, Reply
  <1>2. /\ q \in Requests /\ Unpackable(q.osv) /\ bill[c] \in Bills
        /\ sale[q.sale] = None /\ job[q.sale] = "none"
        /\ view[c].bill \in {None, bill[c]} /\ view[c] = room[q.room]
    BY <1>1 DEF RequestInv, BillInv, SnapshotInv, Busy, Before
  <1>3. q.room \in Rooms /\ q.sale \in Sales
    BY <1>2 DEF Requests
  <1>4. Drew(c) \/ room[q.room].bill = bill[c]
    BY <1>1, <1>2 DEF Drew
  <1>5. bill[c] \in issued
    BY <1>2, <1>3, <1>4, TypesAssumption DEF BillInv
  <1>6. /\ room' = [room EXCEPT ![q.room] =
                      [state |-> RoomState(q.osv), bill |-> bill[c],
                       xmin |-> room[q.room].xmin + 1]]
        /\ sale' = [sale EXCEPT ![q.sale] =
                      [room |-> q.room, bill |-> bill[c], osv |-> q.osv,
                       close |-> q.close, xmin |-> room[q.room].xmin + 1]]
    BY <1>1 DEF CommitSale
  <1>7. /\ \A r \in Rooms : r # q.room => room'[r] = room[r]
        /\ room'[q.room] = [state |-> RoomState(q.osv), bill |-> bill[c],
                            xmin |-> room[q.room].xmin + 1]
    BY <1>3, <1>6 DEF TypeOK
  <1>8. /\ \A s \in Sales : s # q.sale => sale'[s] = sale[s]
        /\ sale'[q.sale] = [room |-> q.room, bill |-> bill[c], osv |-> q.osv,
                            close |-> q.close, xmin |-> room[q.room].xmin + 1]
    BY <1>3, <1>6 DEF TypeOK
  <1>. QED  BY <1>1, <1>2, <1>4, <1>5, <1>7, <1>8

\* The same, field by field.
LEMMA CommitFields ==
    ASSUME IInv, NEW c \in Cashiers, CreateOperateCron(c) \/ Reply(c)
    PROVE  LET q == req[c] IN
           /\ room'[q.room].state = RoomState(q.osv)
           /\ room'[q.room].bill = bill[c] 
           /\ room'[q.room].xmin = room[q.room].xmin + 1
           /\ sale'[q.sale].room = q.room 
           /\ sale'[q.sale].bill = bill[c]
           /\ sale'[q.sale].xmin = room[q.room].xmin + 1
           /\ q \in Requests /\ Unpackable(q.osv)
           /\ bill[c] \in Bills /\ bill[c] \in issued
  <1>. DEFINE q == req[c]
  <1>1. room'[q.room] = [state |-> RoomState(q.osv), bill |-> bill[c],
                         xmin |-> room[q.room].xmin + 1]
    BY CommitEffects
  <1>2. sale'[q.sale] = [room |-> q.room, bill |-> bill[c], osv |-> q.osv,
                         close |-> q.close, xmin |-> room[q.room].xmin + 1]
    BY CommitEffects
  <1>3. /\ q \in Requests /\ Unpackable(q.osv)
        /\ bill[c] \in Bills /\ bill[c] \in issued
    BY CommitEffects
  <1>. QED  BY <1>1, <1>2, <1>3

\* Only a commit writes a document.
LEMMA SaleChanges ==
    ASSUME IInv, [Next]_vars, NEW s \in Sales, sale'[s] # sale[s]
    PROVE  \E c \in Cashiers : /\ CreateOperateCron(c) \/ Reply(c)
                               /\ s = req[c].sale
  <1>1. ASSUME NEW c \in Cashiers, CreateOperateCron(c) \/ Reply(c)
        PROVE  s = req[c].sale
    <2>1. \A t \in Sales : t # req[c].sale => sale'[t] = sale[t]
      BY <1>1, CommitEffects
    <2>. QED  BY <2>1
  <1>2. \E c \in Cashiers : CreateOperateCron(c) \/ Reply(c)
    BY DEF Next, CashierStep, WorkerStep, Tick, Begin, FindOperate,
           CreateOperate, LinkOperate, WriteState, UnpackFails, Rollback,
           ReplyAfterCommit, RequestFails, CashierCrash, PickJob, LockJob,
           SkipJob, Callback,
           CallbackFault, FinishJob, FinishFailedJob, WorkerCrash, dbVars, vars
  <1>. QED  BY <1>1, <1>2

\* Numbers drawn stay drawn.
LEMMA IssuedGrows == [Next]_vars => issued \subseteq issued'
  BY DEF Next, CashierStep, WorkerStep, Tick, Begin, FindOperate,
         CreateOperate, LinkOperate, WriteState, UnpackFails, Rollback,
         CreateOperateCron, Reply,
         ReplyAfterCommit, RequestFails, CashierCrash, PickJob, LockJob,
         SkipJob, Callback,
         CallbackFault, FinishJob, FinishFailedJob, WorkerCrash, dbVars, vars

\* The bills on rooms and documents after a step were there before it, or come
\* from a commit; both have been drawn.
LEMMA BillsIssued ==
    ASSUME IInv, [Next]_vars
    PROVE  /\ \A s \in Sales : sale'[s] # None => sale'[s].bill \in issued'
           /\ \A r \in Rooms : room'[r].bill # None => room'[r].bill \in issued'
  <1>. USE DEF IInv
  <1>1. ASSUME NEW s \in Sales, sale'[s] # None PROVE sale'[s].bill \in issued'
    <2>1. CASE sale'[s] = sale[s]
      BY <1>1, <2>1, IssuedGrows DEF BillInv
    <2>2. CASE sale'[s] # sale[s]
      <3>1. PICK c \in Cashiers : /\ CreateOperateCron(c) \/ Reply(c)
                                  /\ s = req[c].sale
        BY <2>2, SaleChanges
      <3>2. sale'[s].bill = bill[c]
        BY <3>1, CommitFields
      <3>3. bill[c] \in issued
        BY <3>1, CommitFields
      <3>. QED  BY <3>2, <3>3, IssuedGrows
    <2>. QED  BY <2>1, <2>2
  <1>2. ASSUME NEW r \in Rooms, room'[r].bill # None PROVE room'[r].bill \in issued'
    <2>1. CASE room'[r] = room[r]
      BY <1>2, <2>1, IssuedGrows DEF BillInv
    <2>2. ASSUME NEW c \in Cashiers, CreateOperateCron(c) \/ Reply(c), req[c].room = r
          PROVE  room'[r].bill \in issued'
      BY <2>2, CommitFields, IssuedGrows
    <2>3. ASSUME NEW w \in Workers, FinishJob(w), WorkerWrote(w, r)
          PROVE  FALSE
      BY <1>2, <2>3 DEF FinishJob, WorkerWrote, Freed, TypeOK
    <2>. QED  BY <2>1, <2>2, <2>3, RoomChanges
  <1>. QED  BY <1>1, <1>2

\* A commit never uses the bill another RPC has drawn.
LEMMA BillsKept ==
    ASSUME IInv, [Next]_vars, NEW c \in Cashiers, Drew(c), pc'[c] # "idle",
           pc'[c] # "reread"
    PROVE  /\ \A s \in Sales : sale'[s] # None => sale'[s].bill # bill[c]
           /\ \A r \in Rooms : room'[r].bill # bill[c]
  <1>. USE DEF IInv
  <1>1. ASSUME NEW d \in Cashiers, CreateOperateCron(d) \/ Reply(d)
        PROVE  bill[d] # bill[c]
    <2>1. d # c
      BY <1>1, OthersKept DEF CreateOperateCron, Reply, TypeOK
    <2>2. CASE Drew(d)
      BY <2>1, <2>2 DEF BillInv
    <2>3. CASE room[req[d].room].bill = bill[d]
      <3>1. req[d].room \in Rooms
        BY <1>1, CommitEffects DEF Requests
      <3>. QED  BY <2>3, <3>1 DEF BillInv
    <2>. QED  BY <1>1, <2>2, <2>3, CommitEffects
  <1>2. ASSUME NEW s \in Sales, sale'[s] # None
        PROVE  sale'[s].bill # bill[c]
    <2>1. CASE sale'[s] = sale[s]
      BY <1>2, <2>1 DEF BillInv
    <2>2. CASE sale'[s] # sale[s]
      <3>1. PICK d \in Cashiers : /\ CreateOperateCron(d) \/ Reply(d)
                                  /\ s = req[d].sale
        BY <2>2, SaleChanges
      <3>2. sale'[s].bill = bill[d]
        BY <3>1, CommitFields
      <3>. QED  BY <1>1, <3>1, <3>2
    <2>. QED  BY <2>1, <2>2
  <1>3. ASSUME NEW r \in Rooms
        PROVE  room'[r].bill # bill[c]
    <2>1. CASE room'[r] = room[r]
      BY <2>1 DEF BillInv
    <2>2. ASSUME NEW d \in Cashiers, CreateOperateCron(d) \/ Reply(d), req[d].room = r
          PROVE  room'[r].bill # bill[c]
      <3>1. room'[r].bill = bill[d]
        BY <2>2, CommitFields
      <3>. QED  BY <1>1, <2>2, <3>1
    <2>3. ASSUME NEW w \in Workers, FinishJob(w), WorkerWrote(w, r)
          PROVE  room'[r].bill # bill[c]
      <3>1. bill[c] \in Bills
        BY DEF BillInv, Before, Drew
      <3>2. room'[r].bill = None
        BY <2>3 DEF FinishJob, WorkerWrote, Freed, TypeOK
      <3>. QED  BY <3>1, <3>2, TypesAssumption
    <2>. QED  BY <2>1, <2>2, <2>3, RoomChanges
  <1>. QED  BY <1>2, <1>3

LEMMA BillStep == IInv /\ [Next]_vars => BillInv'
  <1>. SUFFICES ASSUME IInv, [Next]_vars PROVE BillInv'
    OBVIOUS
  <1>. USE DEF IInv
  <1>1. ASSUME NEW c \in Cashiers, Before(c)'
        PROVE  /\ pc'[c] # "find" => bill'[c] \in Bills
               /\ pc'[c] = "found" => view'[c].bill = bill'[c]
               /\ pc'[c] \in {"link", "linked"} => view'[c].bill = None
               /\ pc'[c] = "written" => view'[c].bill \in {None, bill'[c]}
               /\ pc'[c] = "written" => Unpackable(req'[c].osv)
    <2>1. CASE \E q \in Requests : Begin(c, q)
      <3>1. pc'[c] = "find"
        BY <2>1 DEF Begin, TypeOK
      <3>. QED  BY <3>1
    <2>2. CASE /\ pc[c] # "idle" /\ req'[c] = req[c] /\ view'[c] = view[c]
               /\ pc'[c] = pc[c] /\ bill'[c] = bill[c]
      BY <1>1, <2>2 DEF BillInv, Before
    <2>3. CASE /\ pc[c] # "idle" /\ req'[c] = req[c] /\ view'[c] = view[c]
               /\ Advances(c)
      <3>1. CASE FindOperate(c)
        BY <2>3, <3>1 DEF FindOperate, RequestInv, Busy, RoomRows, TypeOK
      <3>2. CASE \E b \in Bills : CreateOperate(c, b)
        BY <2>3, <3>2 DEF CreateOperate, TypeOK
      <3>3. CASE LinkOperate(c) /\ SameVersion(req[c].room, view[c])
        BY <2>3, <3>3 DEF LinkOperate, BillInv, Before, rpcVars, TypeOK
      <3>4. CASE WriteState(c) /\ SameVersion(req[c].room, view[c])
        BY <2>3, <3>4 DEF WriteState, BillInv, Before, rpcVars, TypeOK
      <3>5. CASE CreateOperateCron(c)
        BY <1>1, <3>5 DEF CreateOperateCron, Before, TypeOK
      <3>. QED  BY <2>3, <3>1, <3>2, <3>3, <3>4, <3>5 DEF Advances
    <2>. QED  BY <1>1, <2>1, <2>2, <2>3, RpcMoves DEF Before
  <1>2. ASSUME NEW c \in Cashiers, Drew(c)'
        PROVE  /\ pc'[c] \notin {"idle", "reread"}
               /\ \/ Drew(c) /\ bill'[c] = bill[c] 
                  \/ \E b \in Bills : CreateOperate(c, b)
    <2>1. CASE \E q \in Requests : Begin(c, q)
      BY <1>2, <2>1 DEF Begin, Drew, TypeOK
    <2>2. CASE /\ pc[c] # "idle" /\ req'[c] = req[c] /\ view'[c] = view[c]
               /\ pc'[c] = pc[c] /\ bill'[c] = bill[c]
      BY <1>2, <2>2 DEF Drew
    <2>3. CASE /\ pc[c] # "idle" /\ req'[c] = req[c] /\ view'[c] = view[c]
               /\ Advances(c)
      <3>1. CASE FindOperate(c)
        BY <1>2, <3>1 DEF FindOperate, Drew, TypeOK
      <3>2. CASE \E b \in Bills : CreateOperate(c, b)
        BY <1>2, <3>2 DEF Drew
      <3>3. CASE LinkOperate(c) /\ SameVersion(req[c].room, view[c])
        BY <1>2, <3>3 DEF LinkOperate, Drew
      <3>4. CASE WriteState(c) /\ SameVersion(req[c].room, view[c])
        BY <1>2, <3>4, TypesAssumption DEF WriteState, Drew, BillInv, Before
      <3>5. CASE CreateOperateCron(c)
        BY <1>2, <3>5 DEF CreateOperateCron, Drew, TypeOK
      <3>. QED  BY <2>3, <3>1, <3>2, <3>3, <3>4, <3>5 DEF Advances
    <2>. QED  BY <1>2, <2>1, <2>2, <2>3, RpcMoves DEF Drew
  <1>3. ASSUME NEW c \in Cashiers, Drew(c)'
        PROVE  /\ bill'[c] \in issued'
               /\ \A s \in Sales : sale'[s] # None => sale'[s].bill # bill'[c]
               /\ \A r \in Rooms : room'[r].bill # bill'[c]
    <2>1. CASE Drew(c) /\ bill'[c] = bill[c]
      BY <1>2, <1>3, <2>1, BillsKept, IssuedGrows DEF BillInv
    <2>2. ASSUME NEW b \in Bills, CreateOperate(c, b)
          PROVE  /\ bill'[c] = b /\ b \in issued' /\ b \notin issued
                 /\ UNCHANGED <<room, sale>>
      BY <2>2 DEF CreateOperate, dbVars, TypeOK
    <2>3. CASE \E b \in Bills : CreateOperate(c, b)
      BY <2>2, <2>3, TypesAssumption DEF BillInv
    <2>. QED  BY <1>2, <1>3, <2>1, <2>3
  <1>4. ASSUME NEW c \in Cashiers, NEW d \in Cashiers, c # d, Drew(c)', Drew(d)'
        PROVE  bill'[c] # bill'[d]
    <2>1. ASSUME NEW b \in Bills, NEW e \in Cashiers, CreateOperate(e, b)
          PROVE  /\ bill'[e] = b /\ b \notin issued
                 /\ \A f \in Cashiers \ {e} : pc'[f] = pc[f] /\ bill'[f] = bill[f]
                                              /\ view'[f] = view[f]
      BY <2>1 DEF CreateOperate, TypeOK
    <2>2. \A e \in Cashiers : Drew(e) => bill[e] \in issued
      BY DEF BillInv
    <2>. QED  BY <1>2, <1>4, <2>1, <2>2 DEF BillInv, Drew
  <1>. QED  BY <1>1, <1>3, <1>4, BillsIssued DEF BillInv, Before, Drew

-----------------------------------------------------------------------------
(* Rooms, their newest sales and the jobs of those. *)

\* What a closing job leaves in a room.
LEMMA ClosedRoom ==
    ASSUME IInv, NEW w \in Workers, FinishJob(w), NEW r \in Rooms, WorkerWrote(w, r)
    PROVE  /\ room'[r].state = "free" /\ room'[r].bill = None
           /\ room'[r].xmin = room[r].xmin + 1
  BY DEF IInv, FinishJob, WorkerWrote, Freed, TypeOK

\* What a commit leaves in a room.
LEMMA OccupiedRoom ==
    ASSUME IInv, NEW c \in Cashiers, CreateOperateCron(c) \/ Reply(c)
    PROVE  LET q == req[c] IN
           /\ room'[q.room].state # "free" /\ room'[q.room].bill # None
           /\ room'[q.room].state \in PresaleStates <=> Presale(q.osv)
  <1>. DEFINE q == req[c]
  <1>1. /\ room'[q.room].state = RoomState(q.osv) /\ room'[q.room].bill = bill[c]
        /\ bill[c] \in Bills /\ q \in Requests /\ Unpackable(q.osv)
    BY CommitFields
  <1>2. q.osv \in Osvs
    BY <1>1 DEF Requests
  <1>. QED  BY <1>1, <1>2, ResultData, TypesAssumption

\* The three ways a step can treat a room.
LEMMA RoomCases ==
    ASSUME IInv, [Next]_vars, NEW r \in Rooms
    PROVE  \/ room'[r] = room[r]
           \/ \E c \in Cashiers : /\ CreateOperateCron(c) \/ Reply(c)
                                  /\ req[c].room = r
           \/ \E w \in Workers : FinishJob(w) /\ WorkerWrote(w, r)
  BY RoomChanges

LEMMA FreeStep == IInv /\ [Next]_vars => FreeIffNoBill'
  <1>. SUFFICES ASSUME IInv, [Next]_vars, NEW r \in Rooms
                PROVE  room'[r].state = "free" <=> room'[r].bill = None
    BY DEF FreeIffNoBill
  <1>1. CASE room'[r] = room[r]
    BY <1>1 DEF IInv, RoomInv, FreeIffNoBill
  <1>2. ASSUME NEW c \in Cashiers, CreateOperateCron(c) \/ Reply(c), req[c].room = r
        PROVE  room'[r].state = "free" <=> room'[r].bill = None
    BY <1>2, OccupiedRoom
  <1>3. ASSUME NEW w \in Workers, FinishJob(w), WorkerWrote(w, r)
        PROVE  room'[r].state = "free" <=> room'[r].bill = None
    BY <1>3, ClosedRoom
  <1>. QED  BY <1>1, <1>2, <1>3, RoomCases

\* No sale is newer than the row of its room.
LEMMA SaleVersions ==
    ASSUME IInv, [Next]_vars, NEW s \in Sales, sale'[s] # None
    PROVE  sale'[s].xmin <= room'[sale'[s].room].xmin
  <1>. USE DEF IInv
  <1>1. CASE sale'[s] = sale[s]
    <2>. DEFINE r == sale[s].room
    <2>1. /\ sale[s] \in SaleRows /\ r \in Rooms /\ room[r] \in RoomRows
          /\ sale[s].xmin <= room[r].xmin
      BY <1>1 DEF TypeOK, RoomInv, SaleRows
    <2>2. room'[r] = room[r] \/ room'[r].xmin = room[r].xmin + 1
      BY <2>1, RoomChanges
    <2>. QED  BY <1>1, <2>1, <2>2 DEF SaleRows, RoomRows
  <1>2. CASE sale'[s] # sale[s]
    <2>1. PICK c \in Cashiers : /\ CreateOperateCron(c) \/ Reply(c)
                                /\ s = req[c].sale
      BY <1>2, SaleChanges
    <2>2. req[c] \in Requests
      BY <2>1, CommitFields
    <2>3. req[c].room \in Rooms /\ room[req[c].room].xmin \in Nat
      BY <2>2 DEF Requests, TypeOK, RoomRows
    <2>4. /\ sale'[s].room = req[c].room
          /\ sale'[s].xmin = room[req[c].room].xmin + 1
          /\ room'[req[c].room].xmin = room[req[c].room].xmin + 1
      BY <2>1, CommitFields
    <2>. QED  BY <2>3, <2>4
  <1>. QED  BY <1>1, <1>2

\* The job of the sale a room is in stays as long as the room stays: a worker
\* that used it up wrote the room, or was overtaken by somebody who did.
LEMMA NewestJobKept ==
    ASSUME IInv, [Next]_vars, ~CallbackFaults, NEW r \in Rooms, room'[r] = room[r],
           NEW s \in Sales, job[s] = "active", sale[s].room = r,
           sale[s].xmin = room[r].xmin
    PROVE  job'[s] = "active" /\ sale'[s] = sale[s]
  <1>. USE DEF IInv
  <1>1. sale'[s] = sale[s]
    BY SalesWithJobs
  <1>2. ASSUME NEW w \in Workers, FinishJob(w) PROVE wjob[w] # s
    <2>1. ASSUME wjob[w] = s PROVE FALSE
      <3>1. WorkerWrote(w, r)
        BY <1>2, <2>1 DEF WorkerWrote, FinishJob
      <3>2. room'[r].xmin = room[r].xmin + 1 /\ room[r].xmin \in Nat
        BY <1>2, <3>1, ClosedRoom DEF TypeOK, RoomRows
      <3>. QED  BY <3>2
    <2>. QED  BY <2>1
  <1>3. ASSUME NEW w \in Workers, FinishFailedJob(w) PROVE wjob[w] # s
    <2>1. ASSUME wjob[w] = s PROVE FALSE
      <3>1. /\ sale[s].xmin <= wview[w].xmin
            /\ wview[w].xmin < room[r].xmin
            /\ wview[w] \in RoomRows
        BY <1>3, <2>1 DEF WorkerInv, FinishFailedJob
      <3>2. room[r].xmin \in Nat
        BY DEF TypeOK, RoomRows
      <3>. QED  BY <3>1, <3>2 DEF RoomRows
    <2>. QED  BY <2>1
  <1>4. ASSUME NEW w \in Workers, FinishJob(w) \/ FinishFailedJob(w)
        PROVE  job'[s] = "active"
    BY <1>2, <1>3, <1>4 DEF FinishJob, FinishFailedJob, Retired, TypeOK
  <1>5. ASSUME NEW c \in Cashiers, CreateOperateCron(c) \/ Reply(c)
        PROVE  job'[s] = "active"
    <2>1. job[s] # "none"
      OBVIOUS
    <2>. QED  BY <1>5, <2>1, JobsKept
  <1>6. ASSUME UNCHANGED job PROVE job'[s] = "active"
    BY <1>6
  <1>. QED
    BY <1>1, <1>4, <1>5, <1>6
       DEF Next, CashierStep, WorkerStep, Tick, Begin, FindOperate,
           CreateOperate, LinkOperate, WriteState, UnpackFails, Rollback,
           ReplyAfterCommit, RequestFails, CashierCrash, PickJob, LockJob,
           SkipJob, Callback,
           CallbackFault, WorkerCrash, dbVars, vars

LEMMA RoomStep == IInv /\ [Next]_vars => RoomInv'
  <1>. SUFFICES ASSUME IInv, [Next]_vars PROVE RoomInv'
    OBVIOUS
  <1>1. ASSUME ~CallbackFaults, NEW r \in Rooms, room'[r].state \in PresaleStates
        PROVE  \E s \in Sales : /\ job'[s] = "active"
                                /\ sale'[s].room = r
                                /\ sale'[s].xmin = room'[r].xmin
    <2>1. CASE room'[r] = room[r]
      <3>1. PICK s \in Sales : /\ job[s] = "active"
                               /\ sale[s].room = r
                               /\ sale[s].xmin = room[r].xmin
        BY <1>1, <2>1 DEF IInv, RoomInv
      <3>2. job'[s] = "active" /\ sale'[s] = sale[s]
        BY <1>1, <2>1, <3>1, NewestJobKept
      <3>. QED  BY <2>1, <3>1, <3>2
    <2>2. ASSUME NEW c \in Cashiers, CreateOperateCron(c) \/ Reply(c), req[c].room = r
          PROVE  \E s \in Sales : /\ job'[s] = "active"
                                  /\ sale'[s].room = r
                                  /\ sale'[s].xmin = room'[r].xmin
      <3>. DEFINE s == req[c].sale
      <3>1. Presale(req[c].osv)
        BY <1>1, <2>2, OccupiedRoom
      <3>2. CreateOperateCron(c)
        BY <2>2, <3>1 DEF Reply
      <3>3. req[c] \in Requests /\ sale'[s].room = r
            /\ sale'[s].xmin = room[r].xmin + 1 /\ room'[r].xmin = room[r].xmin + 1
        BY <2>2, CommitFields
      <3>4. s \in Sales
        BY <3>3 DEF Requests
      <3>5. job'[s] = "active"
        BY <3>2, <3>4 DEF CreateOperateCron, IInv, TypeOK
      <3>. QED  BY <3>3, <3>4, <3>5
    <2>3. ASSUME NEW w \in Workers, FinishJob(w), WorkerWrote(w, r)
          PROVE  FALSE
      BY <1>1, <2>3, ClosedRoom DEF PresaleStates
    <2>. QED  BY <2>1, <2>2, <2>3, RoomCases
  <1>. QED  BY <1>1, FreeStep, SaleVersions DEF RoomInv

-----------------------------------------------------------------------------
(* The invariant, and what it gives. *)

\* The strengthened invariant is kept by every step of the system.
THEOREM Inductive == Spec => []IInv
  <1>1. IInv /\ [Next]_vars => IInv'
    BY TypeStep, RequestStep, SnapshotStep, BillStep, LockStep, WorkerStepInv,
       RoomStep DEF IInv
  <1>. QED  BY <1>1, InitInv, PTL DEF Spec

\* Rows, jobs, transactions and workers always have the shapes TypeOK gives.
THEOREM TypeCorrect == Spec => []TypeOK
  <1>1. IInv => TypeOK
    BY DEF IInv
  <1>. QED  BY <1>1, Inductive, PTL

\* However many cashiers and workers race, a room is free exactly when no bill
\* is on it (room.py find_or_create_room_operate, _build_cron of the checkouts).
THEOREM FreeRooms == Spec => []FreeIffNoBill
  <1>1. IInv => FreeIffNoBill
    BY DEF IInv, RoomInv
  <1>. QED  BY <1>1, Inductive, PTL

\* However a request failed, at whatever point of it, it left nothing or a
\* whole prepaid sale with its closing job (osv.py execute, ir.cron.create).
THEOREM FailuresWhole == Spec => []FailureIsWhole
  <1>1. IInv => FailureIsWhole
    BY DEF IInv, TypeOK, RequestInv, WorkerInv, FailureIsWhole
  <1>. QED  BY <1>1, Inductive, PTL

\* As long as no callback fails for reasons of its own, a room on prepaid time
\* has an unused closing job.
THEOREM PrepaidRoomsClose ==
    ASSUME ~CallbackFaults
    PROVE  Spec => []PresaleHasCloseJob
  <1>1. IInv => PresaleHasCloseJob
    BY DEF IInv, RoomInv, PresaleHasCloseJob
  <1>. QED  BY <1>1, Inductive, PTL
=============================================================================
