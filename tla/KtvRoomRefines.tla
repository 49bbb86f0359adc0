--------------------------- MODULE KtvRoomRefines ---------------------------
(***************************************************************************)
(* Proof that the concurrent rooms of KtvRoom implement the one-at-a-time  *)
(* rooms of KtvOccupancy, and that bills keep to their rooms.              *)
(*                                                                         *)
(* The commit of an RPC is the abstract Operate, the commit of a closing   *)
(* job the abstract Close; every other step leaves board and sold alone.   *)
(***************************************************************************)
EXTENDS KtvRoomProofs

-----------------------------------------------------------------------------
(* Bills on rooms. *)

\* One bill is never written over another.
LEMMA BillStays ==
    IInv /\ [Next]_vars =>
        [\A r \in Rooms : room'[r].bill # room[r].bill =>
             room[r].bill = None \/ room'[r].bill = None]_vars
  <1>. SUFFICES ASSUME IInv, [Next]_vars, NEW r \in Rooms,
                       room'[r].bill # room[r].bill
                PROVE  room[r].bill = None \/ room'[r].bill = None
    OBVIOUS
  <1>1. ASSUME NEW c \in Cashiers, CreateOperateCron(c) \/ Reply(c), req[c].room = r
        PROVE  room[r].bill = None
    <2>1. room'[r].bill = bill[c]
      BY <1>1, CommitFields
    <2>2. room[r].bill \in {None, bill[c]}
      BY <1>1, CommitEffects
    <2>. QED  BY <2>1, <2>2
  <1>2. ASSUME NEW w \in Workers, FinishJob(w), WorkerWrote(w, r)
        PROVE  room'[r].bill = None
    BY <1>2, ClosedRoom
  <1>. QED  BY <1>1, <1>2, RoomCases

\* No interleaving of two openings pushes a bill off a room
\* (room.py find_or_create_room_operate).
THEOREM BillsStay == Spec => BillNeverReplaced
  BY BillStays, Inductive, PTL DEF Spec, BillNeverReplaced

\* Rooms and documents share a bill only inside one room.
LEMMA BelongStep == IInv /\ BillBelongsToRoom /\ [Next]_vars => BillBelongsToRoom'
  <1>. SUFFICES ASSUME IInv, BillBelongsToRoom, [Next]_vars PROVE BillBelongsToRoom'
    OBVIOUS
  <1>1. ASSUME NEW c \in Cashiers, CreateOperateCron(c) \/ Reply(c)
        PROVE  BillBelongsToRoom'
    <2>. DEFINE p == req[c].room
                t == req[c].sale
                b == bill[c]
    <2>1. p \in Rooms /\ t \in Sales /\ b \in Bills
      BY <1>1, CommitFields DEF Requests
    <2>2. /\ \A r \in Rooms : r # p => room'[r].bill = room[r].bill
          /\ room'[p].bill = b
      <3>1. \A r \in Rooms : r # p => room'[r] = room[r]
        BY <1>1, CommitEffects
      <3>2. room'[p].bill = b
        BY <1>1, CommitFields
      <3>. QED  BY <3>1, <3>2
    <2>3. \A s \in Sales : s # t => sale'[s] = sale[s]
      BY <1>1, CommitEffects
    <2>4. sale'[t].bill = b /\ sale'[t].room = p
      BY <1>1, CommitFields
    <2>5. CASE Drew(c)
      <3>1. /\ \A r \in Rooms : room[r].bill # b
            /\ \A s \in Sales : sale[s] # None => sale[s].bill # b
        BY <2>5 DEF IInv, BillInv
      <3>. QED  BY <2>1, <2>2, <2>3, <2>4, <3>1 DEF BillBelongsToRoom
    <2>6. CASE room[p].bill = b
      <3>1. b # None
        BY <2>1, TypesAssumption
      <3>. QED  BY <2>1, <2>2, <2>3, <2>4, <2>6, <3>1 DEF BillBelongsToRoom
    <2>. QED  BY <1>1, <2>5, <2>6, CommitEffects
  <1>2. ASSUME NEW w \in Workers, FinishJob(w)
        PROVE  BillBelongsToRoom'
    <2>1. \A r \in Rooms : room'[r].bill \in {None, room[r].bill}
      BY <1>2 DEF FinishJob, Freed, IInv, TypeOK
    <2>2. UNCHANGED sale
      BY <1>2 DEF FinishJob
    <2>. QED  BY <2>1, <2>2 DEF BillBelongsToRoom
  <1>3. ASSUME UNCHANGED <<room, sale>>
        PROVE  BillBelongsToRoom'
    BY <1>3 DEF BillBelongsToRoom
  <1>. QED
    BY <1>1, <1>2, <1>3
       DEF Next, CashierStep, WorkerStep, Tick, Begin, FindOperate,
           CreateOperate, LinkOperate, WriteState, UnpackFails, Rollback,
           ReplyAfterCommit, RequestFails, CashierCrash, PickJob, LockJob,
           SkipJob, Callback,
           CallbackFault, FinishFailedJob, WorkerCrash, dbVars, vars

\* The documents filed under the bill on a room's board were sold in that room,
\* and no two rooms carry the same bill (room_operate.py, current_room_operate).
THEOREM BillsBelong == Spec => []BillBelongsToRoom
  <1>1. Init => BillBelongsToRoom
    BY DEF Init, FreeRoom, BillBelongsToRoom
  <1>. QED  BY <1>1, BelongStep, Inductive, PTL DEF Spec

-----------------------------------------------------------------------------
(* The refinement. *)

LEMMA SameData ==
    ASSUME NEW o
    PROVE  Occupancy!RoomState(o) = RoomState(o) /\ Occupancy!Presale(o) = Presale(o)
  BY DEF Occupancy!RoomState, Occupancy!Presale, Occupancy!Result,
         Occupancy!Unpackable, Occupancy!ScheduledResult, Occupancy!OpensResult,
         Occupancy!BuyoutResult, Occupancy!BuytimeResult, Occupancy!RoomScheduled,
         Occupancy!RoomOpens, Occupancy!CheckoutBuyout, Occupancy!CheckoutBuytime,
         Occupancy!RoomCheckout,
         RoomState, Presale, Result, Unpackable, ScheduledResult, OpensResult,
         BuyoutResult, BuytimeResult, RoomScheduled, RoomOpens, CheckoutBuyout,
         CheckoutBuytime, RoomCheckout

LEMMA InitMaps == Init => Occupancy!OccInit
  <1>. SUFFICES ASSUME Init PROVE Occupancy!OccInit
    OBVIOUS
  <1>1. Board = [r \in Rooms |-> [state |-> "free", bill |-> None]]
    BY DEF Init, Board, FreeRoom
  <1>2. Sold = [s \in Sales |-> None]
    BY DEF Init, Sold
  <1>. QED  BY <1>1, <1>2 DEF Occupancy!OccInit

\* A commit is an operation carried out at once.
LEMMA CommitMaps ==
    ASSUME IInv, NEW c \in Cashiers, CreateOperateCron(c) \/ Reply(c)
    PROVE  Occupancy!Operate(req[c])
  <1>. DEFINE q == req[c]
  <1>1. /\ q \in Requests /\ q.room \in Rooms /\ q.sale \in Sales
        /\ bill[c] \in Bills
    BY CommitFields DEF Requests
  <1>2. Sold[q.sale] = None
    BY <1>1, CommitEffects DEF Sold
  <1>3. bill[c] = Board[q.room].bill \/ (Board[q.room].bill = None /\ Occupancy!Unused(bill[c]))
    <2>1. CASE room[q.room].bill = bill[c]
      BY <1>1, <2>1 DEF Board
    <2>2. CASE Drew(c)
      <3>1. view[c] = room[q.room] /\ view[c].bill = None
        BY <2>2, CommitEffects DEF Drew, IInv, SnapshotInv, Before
      <3>2. \A s \in Sales : sale[s] # None => sale[s].bill # bill[c]
        BY <2>2 DEF IInv, BillInv
      <3>3. \A s \in Sales : Sold[s] # None => Sold[s].bill # bill[c]
        BY <3>2 DEF Sold, Document
      <3>. QED  BY <1>1, <3>1, <3>3 DEF Board, Occupancy!Unused
    <2>. QED  BY <2>1, <2>2, CommitEffects
  <1>4. Board' = [Board EXCEPT ![q.room] =
                     [state |-> RoomState(q.osv), bill |-> bill[c]]]
    <2>1. \A r \in Rooms : r # q.room => room'[r] = room[r]
      BY CommitEffects
    <2>2. room'[q.room].state = RoomState(q.osv) /\ room'[q.room].bill = bill[c]
      BY CommitFields
    <2>. QED  BY <1>1, <2>1, <2>2 DEF Board
  <1>5. Sold' = [Sold EXCEPT ![q.sale] =
                    [room |-> q.room, bill |-> bill[c],
                     osv |-> q.osv, close |-> q.close]]
    <2>1. \A s \in Sales : s # q.sale => sale'[s] = sale[s]
      BY CommitEffects
    <2>2. sale'[q.sale] = [room |-> q.room, bill |-> bill[c], osv |-> q.osv,
                           close |-> q.close, xmin |-> room[q.room].xmin + 1]
      BY CommitEffects
    <2>3. sale'[q.sale] \in SaleRows
      BY <1>1, <2>2 DEF SaleRows, Requests, IInv, TypeOK, RoomRows
    <2>4. sale'[q.sale] # None
      BY <2>3, NullAssumption
    <2>5. Document(sale'[q.sale]) = [room |-> q.room, bill |-> bill[c],
                                     osv |-> q.osv, close |-> q.close]
      BY <2>2 DEF Document
    <2>. QED  BY <1>1, <2>1, <2>4, <2>5 DEF Sold
  <1>. QED  BY <1>1, <1>2, <1>3, <1>4, <1>5, SameData DEF Occupancy!Operate

\* A closing job that goes through is the end of its sale.
LEMMA CloseMaps ==
    ASSUME IInv, NEW w \in Workers, FinishJob(w)
    PROVE  wjob[w] \in Sales /\ Occupancy!Close(wjob[w])
  <1>. DEFINE s == wjob[w]
              r == sale[s].room
  <1>1. /\ s \in Sales /\ sale[s] # None /\ Presale(sale[s].osv)
        /\ sale[s] \in SaleRows /\ r \in Rooms
    BY DEF IInv, WorkerInv, FinishJob, TypeOK, SaleRows
  <1>2. Sold[s] = Document(sale[s])
    BY <1>1 DEF Sold
  <1>3. Document(sale[s]) \in Documents
    BY <1>1 DEF Document, Documents, SaleRows
  <1>4. Sold[s] # None /\ Sold[s].room = r /\ Sold[s].osv = sale[s].osv
    BY <1>2, <1>3, DocumentAssumption DEF Document
  <1>5. Board' = [Board EXCEPT ![r] = [state |-> "free", bill |-> None]]
    <2>1. room' = [room EXCEPT ![r] = Freed(room[r])]
      BY DEF FinishJob
    <2>2. \A q \in Rooms : q # r => room'[q] = room[q]
      BY <2>1 DEF IInv, TypeOK
    <2>3. room'[r].state = "free" /\ room'[r].bill = None
      BY <1>1, <2>1 DEF IInv, TypeOK, Freed
    <2>. QED  BY <1>1, <2>2, <2>3 DEF Board
  <1>6. Sold' = Sold
    BY DEF FinishJob, Sold
  <1>. QED  BY <1>1, <1>4, <1>5, <1>6, SameData DEF Occupancy!Close

\* Every step is an operation, a closing, or invisible.
LEMMA StepMaps == IInv /\ [Next]_vars => [Occupancy!OccNext]_(Occupancy!occVars)
  <1>. SUFFICES ASSUME IInv, [Next]_vars
                PROVE  Occupancy!OccNext \/ UNCHANGED Occupancy!occVars
    OBVIOUS
  <1>1. ASSUME NEW c \in Cashiers, CreateOperateCron(c) \/ Reply(c)
        PROVE  Occupancy!OccNext
    <2>1. req[c] \in Requests
      BY <1>1, CommitFields
    <2>2. req[c] \in Occupancy!Requests
      BY <2>1 DEF Requests, Occupancy!Requests, Osvs, Occupancy!Osvs, Times,
                  Occupancy!Times, RoomScheduled, RoomOpens, CheckoutBuyout,
                  CheckoutBuytime, RoomCheckout, Occupancy!RoomScheduled,
                  Occupancy!RoomOpens, Occupancy!CheckoutBuyout,
                  Occupancy!CheckoutBuytime, Occupancy!RoomCheckout
    <2>. QED  BY <1>1, <2>2, CommitMaps DEF Occupancy!OccNext
  <1>2. ASSUME NEW w \in Workers, FinishJob(w)
        PROVE  Occupancy!OccNext
    BY <1>2, CloseMaps DEF Occupancy!OccNext
  <1>3. ASSUME UNCHANGED <<room, sale>>
        PROVE  UNCHANGED Occupancy!occVars
    BY <1>3 DEF Occupancy!occVars, Board, Sold
  <1>. QED
    BY <1>1, <1>2, <1>3
       DEF Next, CashierStep, WorkerStep, Tick, Begin, FindOperate,
           CreateOperate, LinkOperate, WriteState, UnpackFails, Rollback,
           ReplyAfterCommit, RequestFails, CashierCrash, PickJob, LockJob,
           SkipJob, Callback,
           CallbackFault, FinishFailedJob, WorkerCrash, dbVars, vars

\* The database transactions of cashiers and workers, however they interleave,
\* crash or fail, act on the rooms like operations carried out one at a time.
THEOREM RoomsSerializable == Spec => Serializable
  BY InitMaps, StepMaps, Inductive, PTL DEF Spec, Serializable, Occupancy!OccSpec
=============================================================================
