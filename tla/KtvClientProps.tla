--------------------------- MODULE KtvClientProps ---------------------------
(***************************************************************************)
(* What is checked, and partly proved, of KtvClient.                       *)
(***************************************************************************)
EXTENDS KtvClient

ScreenStates == States \cup {None}
Calculations == [osv : CheckoutOsvs, room : Rooms, close : Times]
Figures      == [room : Rooms \cup {None}, close : Times, paired : BOOLEAN]
Pushes       == [form : Forms, osv : Osvs, room : Rooms \cup {None}, close : Times,
                 paired : BOOLEAN, stage : {"sent", "served", "refused", "done", "failed"}]

BoardOK ==
    /\ board \in [Rooms -> [state : States, bill : Bills \cup {None}]]
    /\ sold \in [Sales -> Documents \cup {None}]

ListOK ==
    /\ allRooms \in [Rooms -> States]
    /\ display \in [Rooms -> ScreenStates]
    /\ deaf \subseteq Rooms
    /\ listShown \in BOOLEAN
    /\ fetched \in [Refreshes -> [Rooms -> States] \cup {None}]

Opened(f) == form[f] \in SimpleForms \cup CheckoutForms

FormOK ==
    /\ form \in [Forms -> SimpleForms \cup CheckoutForms \cup {None}]
    /\ shown # None => shown \in Forms /\ Opened(shown)
    /\ opening \subseteq {f \in Forms : form[f] \in CheckoutForms}

SaleOK ==
    /\ figures \in [CheckoutOsvs -> Figures \cup {None}]
    /\ asked \subseteq Calculations
    /\ computed \subseteq Calculations
    /\ push \in [Sales -> Pushes \cup {None}]
    /\ \A s \in Sales : push[s] # None => Opened(push[s].form)

\* The types of the variables; a form that is shown or sells was opened, and only
\* checkouts wait for the fees of a room (widget.js, action_room_buyout and
\* action_room_buytime).
TypeOK == BoardOK /\ ListOK /\ FormOK /\ SaleOK

\* The cashier is never left without a room list and without a form, however
\* late forms get ready, close themselves or are closed by the answer of a sale
\* (widget.js, start and close).
NeverStranded == listShown \/ shown # None

\* The checkouts of this page that were carried out.
SoldHere ==
    {s \in Sales : push[s] # None /\ sold[s] # None /\ push[s].osv \in CheckoutOsvs}

\* What the server sold is what re_calculate_fee once answered: room and closing
\* time of one and the same calculation, although all forms of a kind and the
\* answers of earlier sales write into one model (widget.js, model.set).
SoldAsCalculated ==
    \A s \in SoldHere :
        [osv |-> sold[s].osv, room |-> sold[s].room, close |-> sold[s].close] \in computed

\* Once the rooms stay as they are the page shows them as they are, whichever
\* lists and answers of sales arrive late (model.js, _refresh_app_data).
DisplayCatchesUp ==
    <>[](/\ allRooms = BoardStates
         /\ \A r \in Rooms : display[r] \in {BoardStates[r], None})

\* The buttons of a room work again some day, although the room was drawn anew
\* and nobody bound them (widget.js, RoomWidget.render_element).
RoomsTakeClicks == \A r \in Rooms : r \in deaf ~> r \notin deaf
=============================================================================
