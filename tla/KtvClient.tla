------------------------------ MODULE KtvClient ------------------------------
(***************************************************************************)
(* The cashier's page of openerp/addons/ktv_sale (model.js, widget.js): a  *)
(* list of rooms, one form at a time in #operate_area, and the answers of  *)
(* the server, which arrive when and in the order they like.  The server   *)
(* is the board of rooms of KtvOccupancy, which module KtvRoom implements; *)
(* other cashiers and the closing jobs work on the same board.             *)
(*                                                                         *)
(* Forms of one kind of checkout share one Backbone model: it stands on    *)
(* the prototype of the widget.  Here it is figures[osv].                  *)
(***************************************************************************)
EXTENDS KtvOccupancy, KtvFees

CONSTANTS
    Forms,             \* forms opened in the page, each once
    Inputs,            \* minutes bought, or ends of the hours bought out
    BuyMinutes,        \* the active promotion: minutes to buy ...
    PresentMinutes,    \*   ... and minutes given with them
    Refreshes          \* refreshes of the room list that can be under way

ASSUME ClientAssumption ==
    /\ Inputs \subseteq Nat
    /\ BuyMinutes \in Nat /\ PresentMinutes \in Nat
    /\ None \notin Forms \cup Inputs

VARIABLES
    allRooms,      \* all_rooms: room -> state as last refreshed
    display,       \* display_rooms: room -> state shown, None if filtered out
    deaf,          \* rooms drawn again since: their buttons lost their handlers
    listShown,     \* is #room_list visible?
    shown,         \* the form in #operate_area, None for none
    form,          \* form -> None, or a member of SimpleForms or CheckoutForms
    opening,       \* checkout forms waiting for the room's fees
    figures,       \* checkout osv -> None, or the shared model's data
    asked,         \* answers of re_calculate_fee under way
    computed,      \* history: every answer re_calculate_fee ever gave
    fetched,       \* refresh -> None, or the room list under way
    push           \* sale -> None, or the request the page made for it

pageVars == <<allRooms, display, deaf, listShown, shown, form, opening,
              figures, asked, computed, fetched, push>>
vars == <<occVars, pageVars>>

CheckoutOsvs == {CheckoutBuyout, CheckoutBuytime}
SimpleOsvs   == {RoomScheduled, RoomOpens}

\* A form: the business object, the room its object is of, the room it files
\* (None when its select shows none), the rooms in the select, what is bought,
\* and the collection the room object is in: orphan when it has left the page.
Collections == {"display", "all", "orphan"}
SimpleForms ==
    [osv : SimpleOsvs, object : Rooms, room : Rooms \cup {None},
     offered : SUBSET Rooms, input : {None}, in : Collections]
CheckoutForms ==
    [osv : CheckoutOsvs, object : Rooms, room : Rooms,
     offered : {{}}, input : Inputs, in : Collections]

ASSUME FormsAssumption == None \notin SimpleForms \cup CheckoutForms

BoardStates == [r \in Rooms |-> board[r].state]

\* The closing time re_calculate_fee answers for an input.
CloseTime(osv, input) ==
    IF osv = CheckoutBuytime
    THEN input + CalculatePresentMinutes(input, BuyMinutes, PresentMinutes)
    ELSE input

ASSUME InputsAssumption ==
    \A osv \in CheckoutOsvs, x \in Inputs : CloseTime(osv, x) \in Times

\* An answer of re_calculate_fee for form f with input x.
Answer(f, x) ==
    [osv |-> form[f].osv, room |-> form[f].object, close |-> CloseTime(form[f].osv, x)]

Init ==
    /\ OccInit
    /\ allRooms = BoardStates
    /\ display = BoardStates
    /\ deaf = {}
    /\ listShown = TRUE
    /\ shown = None
    /\ form = [f \in Forms |-> None]
    /\ opening = {}
    /\ figures = [osv \in CheckoutOsvs |-> None]
    /\ asked = {}
    /\ computed = {}
    /\ fetched = [k \in Refreshes |-> None]
    /\ push = [s \in Sales |-> None]

-----------------------------------------------------------------------------
(* The list of rooms. *)

\* Variant: the buttons are drawn and not bound.
RedrawnUnbound(cs) ==
    /\ UNCHANGED deaf
    /\ form' = [f \in Forms |->
                   IF form[f] # None /\ form[f].in \in cs
                   THEN [form[f] EXCEPT !.in = "orphan"] ELSE form[f]]

\* The objects of collections cs are replaced: an open form keeps an object
\* that nothing shows any more.  The buttons are drawn and bound afresh.
Redrawn(cs) ==
    /\ deaf' = {}
    /\ form' = [f \in Forms |->
                   IF form[f] # None /\ form[f].in \in cs
                   THEN [form[f] EXCEPT !.in = "orphan"] ELSE form[f]]

\* The 60-second timer: the server reads the rooms for refresh k.
FetchRooms(k) ==
    /\ fetched[k] = None
    /\ fetched' = [fetched EXCEPT ![k] = BoardStates]
    /\ UNCHANGED <<occVars, allRooms, display, deaf, listShown, shown, form,
                   opening, figures, asked, computed, push>>

\* Variant: the rooms shown are left as they were.
ApplyToAllRooms(k) ==
    /\ fetched[k] # None
    /\ allRooms' = fetched[k]
    /\ Redrawn({"all"})
    /\ fetched' = [fetched EXCEPT ![k] = None]
    /\ UNCHANGED <<occVars, display, listShown, shown, opening, figures, asked,
                   computed, push>>

\* The list of refresh k arrives.
ApplyRooms(k) ==
    /\ fetched[k] # None
    /\ allRooms' = fetched[k]
    /\ display' = fetched[k]
    /\ Redrawn({"display", "all"})
    /\ fetched' = [fetched EXCEPT ![k] = None]
    /\ UNCHANGED <<occVars, listShown, shown, opening, figures, asked, computed, push>>

\* The answer of refresh k does not arrive.
LoseRooms(k) ==
    /\ fetched[k] # None
    /\ fetched' = [fetched EXCEPT ![k] = None]
    /\ UNCHANGED <<occVars, allRooms, display, deaf, listShown, shown, form,
                   opening, figures, asked, computed, push>>

\* The filter buttons choose the rooms rs, by state, type and area: they are
\* shown as all_rooms has them, whatever the list showed before.
FilterRooms(rs) ==
    /\ listShown
    /\ display' = [r \in Rooms |-> IF r \in rs THEN allRooms[r] ELSE None]
    /\ Redrawn({"display"})
    /\ UNCHANGED <<occVars, allRooms, listShown, shown, opening, figures, asked,
                   computed, fetched, push>>

-----------------------------------------------------------------------------
(* Opening, filling in and closing a form. *)

\* An action of room r's menu is clicked, for a form nobody opened yet.
Clicked(f, r) ==
    /\ listShown
    /\ display[r] # None
    /\ r \notin deaf
    /\ form[f] = None

\* The select of a reservation or an opening lists the rooms all_rooms has free.
Offered == {r \in Rooms : allRooms[r] = "free"}

\* Variant: every form waits for the fees of its room.
OpenSimpleFormLate(f, r, osv) ==
    /\ osv \in SimpleOsvs
    /\ Clicked(f, r)
    /\ form' = [form EXCEPT ![f] =
           [osv |-> osv, object |-> r, offered |-> Offered, input |-> None, in |-> "display",
            room |-> IF osv = RoomScheduled \/ r \in Offered THEN r ELSE None]]
    /\ opening' = opening \cup {f}
    /\ UNCHANGED <<occVars, allRooms, display, deaf, listShown, shown, figures,
                   asked, computed, fetched, push>>

\* A reservation or an opening: its form is there at once.  A room that is not
\* in the select is not selected: the opening then has no room, while the
\* reservation has it from its model.
OpenSimpleForm(f, r, osv) ==
    /\ osv \in SimpleOsvs
    /\ Clicked(f, r)
    /\ form' = [form EXCEPT ![f] =
           [osv |-> osv, object |-> r, offered |-> Offered, input |-> None, in |-> "display",
            room |-> IF osv = RoomScheduled \/ r \in Offered THEN r ELSE None]]
    /\ shown' = f
    /\ listShown' = FALSE
    /\ UNCHANGED <<occVars, allRooms, display, deaf, opening, figures, asked,
                   computed, fetched, push>>

\* on_change_room: another room of the select, as the object all_rooms has.
ChangeRoom(f, r) ==
    /\ shown = f
    /\ form[f].osv \in SimpleOsvs
    /\ r \in form[f].offered
    /\ form' = [form EXCEPT ![f].object = r, ![f].room = r, ![f].in = "all"]
    /\ UNCHANGED <<occVars, allRooms, display, deaf, listShown, shown, opening,
                   figures, asked, computed, fetched, push>>

\* A checkout: its form waits for the fees of the room (RoomFeeInfo.ready);
\* the list stays, and other forms can be opened meanwhile.
OpenCheckoutForm(f, r, osv, x) ==
    /\ osv \in CheckoutOsvs
    /\ Clicked(f, r)
    /\ form' = [form EXCEPT ![f] =
           [osv |-> osv, object |-> r, offered |-> {}, input |-> x, in |-> "display",
            room |-> r]]
    /\ opening' = opening \cup {f}
    /\ UNCHANGED <<occVars, allRooms, display, deaf, listShown, shown, figures,
                   asked, computed, fetched, push>>

\* Form f asks re_calculate_fee for its figures with input x.
Ask(f, x) ==
    /\ asked' = asked \cup {Answer(f, x)}
    /\ computed' = computed \cup {Answer(f, x)}

\* The fees are there: the form takes the place of whatever form is shown.
ShowForm(f) ==
    /\ f \in opening
    /\ opening' = opening \ {f}
    /\ shown' = f
    /\ listShown' = FALSE
    /\ Ask(f, form[f].input)
    /\ UNCHANGED <<occVars, allRooms, display, deaf, form, figures, fetched, push>>

\* Variant: the form goes and the list stays as it is.
NothingToSellSilently(f) ==
    /\ f \in opening
    /\ form[f].osv = CheckoutBuyout
    /\ opening' = opening \ {f}
    /\ shown' = None
    /\ UNCHANGED <<occVars, allRooms, display, deaf, listShown, form, figures, asked,
                   computed, fetched, push>>

\* No hours can be bought out now: the form closes itself.
NothingToSell(f) ==
    /\ f \in opening
    /\ form[f].osv = CheckoutBuyout
    /\ opening' = opening \ {f}
    /\ shown' = None
    /\ listShown' = TRUE
    /\ UNCHANGED <<occVars, allRooms, display, deaf, form, figures, asked,
                   computed, fetched, push>>

\* The cashier changes what is bought.
ChangeInput(f, x) ==
    /\ shown = f
    /\ form[f].osv \in CheckoutOsvs
    /\ form' = [form EXCEPT ![f].input = x]
    /\ Ask(f, x)
    /\ UNCHANGED <<occVars, allRooms, display, deaf, listShown, shown, opening,
                   figures, fetched, push>>

\* model.set(answer): the shared model takes room and closing time from the
\* answer.  Only the answer for bought time also has a fee type.
Recalculated(a) ==
    [room |-> a.room, close |-> a.close,
     paired |-> a.osv = CheckoutBuyout /\ figures[a.osv] # None /\ figures[a.osv].paired]

\* An answer arrives, whichever form asked and whichever form is shown.
ApplyCalculation(a) ==
    /\ a \in asked
    /\ asked' = asked \ {a}
    /\ figures' = [figures EXCEPT ![a.osv] = Recalculated(a)]
    /\ UNCHANGED <<occVars, allRooms, display, deaf, listShown, shown, form,
                   opening, computed, fetched, push>>

\* re_calculate_fee raises, or its answer is lost.
CalculationFails(a) ==
    /\ a \in asked
    /\ asked' = asked \ {a}
    /\ UNCHANGED <<occVars, allRooms, display, deaf, listShown, shown, form,
                   opening, figures, computed, fetched, push>>

\* The form shown is closed: the list is back.
Cancel ==
    /\ shown # None
    /\ shown' = None
    /\ listShown' = TRUE
    /\ UNCHANGED <<occVars, allRooms, display, deaf, form, opening, figures, asked,
                   computed, fetched, push>>

-----------------------------------------------------------------------------
(* Selling. *)

\* What the page files for a form: its own room for a reservation or an
\* opening, whatever the shared model holds for a checkout.
Filed(f) ==
    LET osv == form[f].osv
    IN  IF osv \in SimpleOsvs THEN [room |-> form[f].room, close |-> 0, paired |-> FALSE]
        ELSE IF figures[osv] = None THEN [room |-> None, close |-> 0, paired |-> FALSE]
        ELSE figures[osv]

\* The button of the form is pressed, for sale s.  It stays enabled.
Press(f, s) ==
    /\ shown = f
    /\ push[s] = None
    /\ sold[s] = None
    /\ push' = [push EXCEPT ![s] =
                   [form |-> f, osv |-> form[f].osv, room |-> Filed(f).room,
                    close |-> Filed(f).close, paired |-> Filed(f).paired, stage |-> "sent"]]
    /\ UNCHANGED <<occVars, allRooms, display, deaf, listShown, shown, form,
                   opening, figures, asked, computed, fetched>>

Request(s) ==
    [sale |-> s, room |-> push[s].room, osv |-> push[s].osv, close |-> push[s].close]

Staged(s, stage) == push' = [push EXCEPT ![s].stage = stage]

\* Variant: the fee type is taken whatever it is.
HasRoom(s) == push[s].room # None

\* The server sells.  A request without a room is refused, and one whose fee
\* type is the pair [id, name] the server once answered: no INSERT takes it.
Acceptable(s) ==
    /\ push[s].room # None
    /\ ~push[s].paired

Serve(s) ==
    /\ push[s] # None /\ push[s].stage = "sent"
    /\ Acceptable(s)
    /\ Operate(Request(s))
    /\ Staged(s, "served")
    /\ UNCHANGED <<allRooms, display, deaf, listShown, shown, form, opening,
                   figures, asked, computed, fetched>>

\* The request is lost, or the server undoes it.
Refuse(s) ==
    /\ push[s] # None /\ push[s].stage = "sent"
    /\ Staged(s, "refused")
    /\ UNCHANGED <<occVars, allRooms, display, deaf, listShown, shown, form,
                   opening, figures, asked, computed, fetched>>

\* Form f closes: the list is back, and f, when it is the one shown, is gone.
CloseForm(f) ==
    /\ listShown' = TRUE
    /\ shown' = IF shown = f THEN None ELSE shown

\* room.set(answer): the form's room object takes the state of the room sold.
\* In the list it is drawn again, without handlers.  (Should the sale have been
\* filed for another room, the object takes that room's name as well; the model
\* keeps track of the state alone.)
RoomAnswered(s) ==
    LET w == form[push[s].form]
        state == RoomState(push[s].osv)
    IN  /\ display' = IF w.in = "display" THEN [display EXCEPT ![w.object] = state]
                      ELSE display
        /\ allRooms' = IF w.in = "all" THEN [allRooms EXCEPT ![w.object] = state]
                       ELSE allRooms
        /\ deaf' = IF w.in = "display" THEN deaf \cup {w.object} ELSE deaf

\* model.set(answer): the document as read() gives it, without a room but with
\* its closing time, and with a pair [id, name] for its fee type.
Returned(s) ==
    [figures EXCEPT ![push[s].osv] =
        [room |-> IF figures[push[s].osv] = None THEN None ELSE figures[push[s].osv].room,
         close |-> sold[s].close, paired |-> TRUE]]

\* The answer of a sale arrives.
Answered(s) ==
    /\ push[s] # None /\ push[s].stage = "served"
    /\ Staged(s, "done")
    /\ RoomAnswered(s)
    /\ figures' = IF push[s].osv \in CheckoutOsvs THEN Returned(s) ELSE figures
    /\ CloseForm(push[s].form)
    /\ UNCHANGED <<occVars, form, opening, asked, computed, fetched>>

\* The cashier is told that it failed, also when only the answer was lost; the
\* form stays.
ToldFailed(s) ==
    /\ push[s] # None /\ push[s].stage \in {"served", "refused"}
    /\ Staged(s, "failed")
    /\ UNCHANGED <<occVars, allRooms, display, deaf, listShown, shown, form,
                   opening, figures, asked, computed, fetched>>

-----------------------------------------------------------------------------
(* The other cashiers and the closing jobs. *)

OthersOperate(q) ==
    /\ push[q.sale] = None
    /\ Operate(q)
    /\ UNCHANGED pageVars

Closed(s) == Close(s) /\ UNCHANGED pageVars

-----------------------------------------------------------------------------

ListStep ==
    \/ \E k \in Refreshes : FetchRooms(k) \/ ApplyRooms(k) \/ LoseRooms(k)
    \/ \E rs \in SUBSET Rooms : FilterRooms(rs)

OpenStep ==
    \E f \in Forms, r \in Rooms, osv \in Osvs :
        OpenSimpleForm(f, r, osv) \/ \E x \in Inputs : OpenCheckoutForm(f, r, osv, x)

InputStep == \E f \in Forms, x \in Inputs : ChangeInput(f, x)

FormStep ==
    \/ \E f \in Forms, r \in Rooms : ChangeRoom(f, r)
    \/ \E f \in Forms : ShowForm(f) \/ NothingToSell(f)
    \/ \E a \in asked : ApplyCalculation(a) \/ CalculationFails(a)
    \/ Cancel

SaleStep ==
    \/ \E f \in Forms, s \in Sales : Press(f, s)
    \/ \E s \in Sales : Serve(s) \/ Refuse(s) \/ Answered(s) \/ ToldFailed(s)

OthersStep ==
    \/ \E q \in Requests : OthersOperate(q)
    \/ \E s \in Sales : Closed(s)

Next == ListStep \/ OpenStep \/ InputStep \/ FormStep \/ SaleStep \/ OthersStep

Spec == Init /\ [][Next]_vars

\* The timer never stops and not every list is lost; the server and the browser
\* attend to what was sent.  Nothing is assumed of the cashiers.
Fairness ==
    /\ \A k \in Refreshes : WF_vars(FetchRooms(k)) /\ SF_vars(ApplyRooms(k))
    /\ \A s \in Sales : /\ WF_vars(Serve(s) \/ Refuse(s))
                        /\ WF_vars(Answered(s) \/ ToldFailed(s))

FairSpec == Spec /\ Fairness
=============================================================================
