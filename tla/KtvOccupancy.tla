---------------------------- MODULE KtvOccupancy ----------------------------
(***************************************************************************)
(* What the room board of a karaoke house promises its cashiers: a room is *)
(* free, or carries exactly one bill; an operation on a room happens at    *)
(* once, on the bill the room carries or, in a free room, on a bill nobody *)
(* used before; a room is emptied only by the end of a prepaid sale made   *)
(* in that very room.                                                      *)
(*                                                                         *)
(* There are no transactions, locks, snapshots or workers here: module     *)
(* KtvRoom implements this one with concurrent database transactions.      *)
(***************************************************************************)
EXTENDS KtvRoomTypes

VARIABLES
    board,     \* room  -> [state, bill]
    sold       \* sale  -> None, or the document [room, bill, osv, close]

occVars == <<board, sold>>

OccInit ==
    /\ board = [r \in Rooms |-> [state |-> "free", bill |-> None]]
    /\ sold = [s \in Sales |-> None]

\* A bill number no document carries.
Unused(b) == \A s \in Sales : sold[s] # None => sold[s].bill # b

\* A cashier's request q is carried out on the room's bill, or on a new one.
Operate(q) ==
    /\ sold[q.sale] = None
    /\ \E b \in Bills :
          /\ \/ b = board[q.room].bill
             \/ board[q.room].bill = None /\ Unused(b)
          /\ board' = [board EXCEPT ![q.room] =
                          [state |-> RoomState(q.osv), bill |-> b]]
          /\ sold' = [sold EXCEPT ![q.sale] = 
                          [room |-> q.room, bill |-> b, 
                           osv |-> q.osv, close |-> q.close]]

\* The prepaid time of sale s ends and its room is emptied.
Close(s) ==
    /\ sold[s] # None
    /\ Presale(sold[s].osv)
    /\ board' = [board EXCEPT ![sold[s].room] = [state |-> "free", bill |-> None]]
    /\ UNCHANGED sold

OccNext ==
    \/ \E q \in Requests : Operate(q)
    \/ \E s \in Sales : Close(s)

OccSpec == OccInit /\ [][OccNext]_occVars
=============================================================================
