----------------------------- MODULE KtvRoomProps -----------------------------
(***************************************************************************)
(* What is checked, and partly proved, of KtvRoom.                         *)
(***************************************************************************)
EXTENDS KtvRoom

-----------------------------------------------------------------------------
(* Safety. *)

\* A room is shown free exactly when it carries no bill: the bill of an opening
\* is set by one write of the RPC and the state by another, and both are undone
\* by a closing job (room.py find_or_create_room_operate, _build_cron's args).
FreeIffNoBill ==
    \A r \in Rooms : room[r].state = "free" <=> room[r].bill = None

\* A bill on a room's board belongs to that room and to no other: the documents
\* filed under it were all sold there, and no other room carries it.
BillBelongsToRoom ==
    \A r \in Rooms : room[r].bill # None =>
        /\ \A q \in Rooms : room[q].bill = room[r].bill => q = r
        /\ \A s \in Sales :
              sale[s] # None /\ sale[s].bill = room[r].bill => sale[s].room = r

\* A room on prepaid time always has a closing job ahead of it, whatever
\* older jobs, races between workers and failed closings did meanwhile: the
\* sale that put it in that state left one, and it has not been used up.
PresaleHasCloseJob ==
    \A r \in Rooms : room[r].state \in PresaleStates =>
        \E s \in Sales : job[s] = "active" /\ sale[s].room = r

\* A request that ended without an answer of success left nothing, or all of
\* a prepaid sale, its document with its closing job: ir.cron.create commits
\* in the middle of the RPC, and what fails after that (the read of the room,
\* execute's own commit) is told as a failure of a sale that stands.  A write
\* refused as a conflict comes before that commit and leaves nothing.
FailureIsWhole ==
    \A s \in Sales : reply[s] \in {"conflict", "error", "lost"} =>
        \/ sale[s] = None /\ job[s] = "none"
        \/ /\ reply[s] # "conflict"
           /\ sale[s] # None
           /\ Presale(sale[s].osv)
           /\ job[s] # "none"

-----------------------------------------------------------------------------
(* Action properties. *)

\* A bill is never pushed off a room by another bill: two openings that both
\* found the room empty cannot both go through.
BillNeverReplaced ==
    [][\A r \in Rooms : room'[r].bill # room[r].bill =>
           room[r].bill = None \/ room'[r].bill = None]_vars

-----------------------------------------------------------------------------
(* The abstract specification: read without versions, the committed rows    *)
(* behave as if every operation and every closing happened at once.         *)

Board == [r \in Rooms |-> [state |-> room[r].state, bill |-> room[r].bill]]

Document(row) ==
    [room |-> row.room, bill |-> row.bill, osv |-> row.osv, close |-> row.close]

Sold == [s \in Sales |-> IF sale[s] = None THEN None ELSE Document(sale[s])]

Occupancy == INSTANCE KtvOccupancy WITH board <- Board, sold <- Sold

\* Snapshot isolation with first-updater-wins is enough here: the concurrent
\* RPCs and workers are equivalent to operations carried out one at a time.
Serializable == Occupancy!OccSpec

-----------------------------------------------------------------------------
(* Liveness. *)

\* Every request is answered: no RPC waits for a row for ever.
EveryRequestAnswered ==
    \A c \in Cashiers : pc[c] # "idle" ~> pc[c] = "idle"

\* Prepaid time ends: "a bought time closes the room by itself"
\* (room_checkout_buytime.py, _build_cron).
PresaleEnds ==
    \A r \in Rooms : room[r].state \in PresaleStates ~>
        room[r].state \notin PresaleStates

-----------------------------------------------------------------------------
(* What the repository says and the code does not do. *)

\* The job built for a sale closes the room when *that* sale's time is over
\* (help of close_time: the closing time of the room): as long as a prepaid
\* sale of the current bill runs, the room is not taken away.
PaidTimeHonoured ==
    [][\A r \in Rooms : room[r].bill # None /\ room'[r].bill = None =>
          \A s \in Sales :
             sale[s] # None /\ sale[s].bill = room[r].bill /\ Presale(sale[s].osv)
                => sale[s].close <= now]_vars

\* "How many times the method is called" (help of ir.cron's numbercall, 1 for
\* a closing job): a job that has been used up writes no room.
CalledOnce ==
    [][\A w \in Workers :
          wpc[w] = "wrote" /\ room' # room /\ wpc'[w] = "idle"
             => job[wjob[w]] = "active"]_vars
=============================================================================
