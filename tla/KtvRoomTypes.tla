---------------------------- MODULE KtvRoomTypes ----------------------------
(***************************************************************************)
(* The data of the room operations of openerp/addons/ktv_sale: the states  *)
(* of a room, the business objects a cashier can ask for and what each of  *)
(* them returns to ktv.room_operate.process_operate.                       *)
(***************************************************************************)
EXTENDS Naturals

CONSTANTS
    Rooms,           \* rows of ktv.room
    Bills,           \* numbers the sequence 'ktv.room_operate' hands out
    Sales,           \* identities of the requests made, one per button press
    None,            \* SQL NULL, Python None
    MaxTime          \* bound on the clock; closing times lie before it

ASSUME TypesAssumption ==
    /\ MaxTime \in Nat \ {0}
    /\ None \notin Rooms \cup Bills \cup Sales

\* Room states the server assigns; the others of ktv.room's list are never set.
States == {"free", "scheduled", "in_use", "buyout", "buytime"}

\* Business objects ('osv_name') with a process_operate method.
RoomScheduled  == "ktv.room_scheduled"
RoomOpens      == "ktv.room_opens"
CheckoutBuyout == "ktv.room_checkout_buyout"
CheckoutBuytime== "ktv.room_checkout_buytime"
RoomCheckout   == "ktv.room_checkout"

Osvs == {RoomScheduled, RoomOpens, CheckoutBuyout, CheckoutBuytime, RoomCheckout}

-----------------------------------------------------------------------------
(* What process_operate of each object returns: the state the room takes   *)
(* and whether a closing job comes with it.                                *)

ScheduledResult == [state |-> "scheduled", cron |-> FALSE]
OpensResult     == [state |-> "in_use",    cron |-> FALSE]
BuyoutResult    == [state |-> "buyout",    cron |-> TRUE]
BuytimeResult   == [state |-> "buytime",   cron |-> TRUE]

\* ktv.room_checkout returns its values as one dictionary, not as a triple:
\* the unpacking in ktv.room_operate raises and the transaction is undone.
Unpackable(osv) == osv # RoomCheckout

Result(osv) ==
    IF osv = RoomScheduled THEN ScheduledResult
    ELSE IF osv = RoomOpens THEN OpensResult
    ELSE IF osv = CheckoutBuyout THEN BuyoutResult
    ELSE BuytimeResult

RoomState(osv) == Result(osv).state
Presale(osv)   == Unpackable(osv) /\ Result(osv).cron

\* The states a prepaid sale puts a room in.
PresaleStates == {"buyout", "buytime"}

Times == 0 .. (MaxTime - 1)

\* A business document as the back office reads it; NULL is none.
Documents == [room : Rooms, bill : Bills, osv : Osvs, close : Times]

ASSUME DocumentAssumption == None \notin Documents

\* A request: the closing time of a prepaid sale was computed by an earlier
\* re_calculate_fee call (or is the end of a buyout window that has already
\* passed), so it may lie before the moment the request arrives.
Requests == [sale : Sales, room : Rooms, osv : Osvs, close : Times]
=============================================================================
