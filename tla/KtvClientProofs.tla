--------------------------- MODULE KtvClientProofs ---------------------------
(***************************************************************************)
(* Proofs about KtvClient, for any numbers of rooms, forms, sales and      *)
(* refreshes: the page never strands the cashier, and what is sold was     *)
(* calculated.                                                             *)
(***************************************************************************)
EXTENDS KtvClientProps, TLAPS

Calculation(osv, room, close) == [osv |-> osv, room |-> room, close |-> close]

\* Figures that carry no pair [id, name] are those of one calculation, and so
\* is what the page filed with such figures.
Calculated ==
    /\ asked \subseteq computed
    /\ \A osv \in CheckoutOsvs :
          figures[osv] # None /\ ~figures[osv].paired =>
              /\ figures[osv].room \in Rooms
              /\ Calculation(osv, figures[osv].room, figures[osv].close) \in computed
    /\ \A s \in Sales :
          /\ push[s] # None
          /\ push[s].osv \in CheckoutOsvs
          /\ push[s].room # None
          /\ ~push[s].paired
          => Calculation(push[s].osv, push[s].room, push[s].close) \in computed

\* What the server did for the page is what the page filed, a room and no pair.
Carried ==
    \A s \in Sales : push[s] # None =>
        /\ push[s].stage \in {"served", "done"} => sold[s] # None
        /\ sold[s] # None =>
              /\ push[s].room # None
              /\ ~push[s].paired
              /\ sold[s].osv = push[s].osv
              /\ sold[s].room = push[s].room
              /\ sold[s].close = push[s].close

IInv == TypeOK /\ NeverStranded /\ Calculated /\ Carried

-----------------------------------------------------------------------------
(* The operators of the specification. *)

LEMMA RoomStates == \A osv : RoomState(osv) \in States
  BY DEF RoomState, Result, ScheduledResult, OpensResult, BuyoutResult, BuytimeResult,
         States

LEMMA OsvsApart ==
    /\ SimpleOsvs \cup CheckoutOsvs \subseteq Osvs
    /\ SimpleOsvs \cap CheckoutOsvs = {}
  BY DEF SimpleOsvs, CheckoutOsvs, Osvs, RoomScheduled, RoomOpens, CheckoutBuyout,
         CheckoutBuytime, RoomCheckout

LEMMA ZeroIsATime == 0 \in Times
  BY TypesAssumption DEF Times

LEMMA BoardStatesTyped == ASSUME BoardOK PROVE BoardStates \in [Rooms -> States]
  BY DEF BoardOK, BoardStates

\* A form that was opened and sells is a checkout's.
LEMMA CheckoutsAreSelling ==
    ASSUME FormOK, NEW f \in Forms, form[f] # None, form[f].osv \in CheckoutOsvs
    PROVE  form[f] \in CheckoutForms
  <1>1. form[f] \in SimpleForms \cup CheckoutForms
    BY DEF FormOK
  <1>2. form[f] \notin SimpleForms
    BY OsvsApart DEF SimpleForms
  <1>. QED  BY <1>1, <1>2

LEMMA AnswerTyped ==
    ASSUME NEW f \in Forms, form[f] \in CheckoutForms, NEW x \in Inputs
    PROVE  /\ Answer(f, x) \in Calculations
           /\ Answer(f, x) = Calculation(Answer(f, x).osv, Answer(f, x).room, Answer(f, x).close)
  <1>1. form[f].osv \in CheckoutOsvs /\ form[f].object \in Rooms
    BY DEF CheckoutForms
  <1>2. CloseTime(form[f].osv, x) \in Times
    BY <1>1, InputsAssumption
  <1>. QED  BY <1>1, <1>2 DEF Answer, Calculations, Calculation

LEMMA OperateTyped ==
    ASSUME BoardOK, NEW q \in Requests, Operate(q)
    PROVE  /\ BoardOK'
           /\ sold[q.sale] = None
           /\ sold' = [sold EXCEPT ![q.sale] = sold'[q.sale]]
           /\ sold'[q.sale] \in Documents
           /\ sold'[q.sale].osv = q.osv
           /\ sold'[q.sale].room = q.room
           /\ sold'[q.sale].close = q.close
  <1>1. PICK b \in Bills :
           /\ board' = [board EXCEPT ![q.room] = [state |-> RoomState(q.osv), bill |-> b]]
           /\ sold' = [sold EXCEPT ![q.sale] =
                          [room |-> q.room, bill |-> b, osv |-> q.osv, close |-> q.close]]
    BY DEF Operate
  <1>2. q.sale \in Sales /\ q.room \in Rooms /\ q.osv \in Osvs /\ q.close \in Times
    BY DEF Requests
  <1>3. [room |-> q.room, bill |-> b, osv |-> q.osv, close |-> q.close] \in Documents
    BY <1>2 DEF Documents
  <1>4. board' \in [Rooms -> [state : States, bill : Bills \cup {None}]]
    BY <1>1, <1>2, RoomStates DEF BoardOK
  <1>5. sold' \in [Sales -> Documents \cup {None}]
    BY <1>1, <1>2, <1>3 DEF BoardOK
  <1>6. sold'[q.sale] = [room |-> q.room, bill |-> b, osv |-> q.osv, close |-> q.close]
    BY <1>1, <1>2 DEF BoardOK
  <1>. QED  BY <1>1, <1>2, <1>3, <1>4, <1>5, <1>6 DEF BoardOK, Operate

-----------------------------------------------------------------------------
(* Types. *)

\* Which steps change the board, the list, the forms and the sales.
LEMMA WhoOperates ==
    ASSUME [Next]_vars
    PROVE  \/ UNCHANGED occVars
           \/ \E s \in Sales : Serve(s) \/ Closed(s)
           \/ \E q \in Requests : OthersOperate(q)
  <1>1. CASE ListStep
    BY <1>1 DEF ListStep, FetchRooms, ApplyRooms, LoseRooms, FilterRooms
  <1>2. CASE OpenStep \/ InputStep
    BY <1>2 DEF OpenStep, InputStep, OpenSimpleForm, OpenCheckoutForm, ChangeInput
  <1>3. CASE FormStep
    BY <1>3 DEF FormStep, ChangeRoom, ShowForm, NothingToSell, ApplyCalculation,
                CalculationFails, Cancel
  <1>4. CASE SaleStep
    BY <1>4 DEF SaleStep, Press, Refuse, Answered, ToldFailed
  <1>5. CASE OthersStep
    BY <1>5 DEF OthersStep
  <1>6. CASE UNCHANGED vars
    BY <1>6 DEF vars
  <1>. QED  BY <1>1, <1>2, <1>3, <1>4, <1>5, <1>6 DEF Next

LEMMA RequestTyped ==
    ASSUME SaleOK, NEW s \in Sales, push[s] # None, Acceptable(s)
    PROVE  Request(s) \in Requests
  BY DEF SaleOK, Pushes, Acceptable, Request, Requests

LEMMA BoardStep ==
    ASSUME TypeOK, [Next]_vars
    PROVE  BoardOK'
  <1>1. CASE UNCHANGED occVars
    BY <1>1 DEF TypeOK, BoardOK, occVars
  <1>2. ASSUME NEW s \in Sales, Serve(s)
        PROVE  BoardOK'
    BY <1>2, RequestTyped, OperateTyped DEF TypeOK, Serve
  <1>3. ASSUME NEW s \in Sales, Closed(s)
        PROVE  BoardOK'
    <2>1. sold[s] \in Documents
      BY <1>3 DEF Closed, Close, TypeOK, BoardOK
    <2>2. sold[s].room \in Rooms
      BY <2>1 DEF Documents
    <2>. QED  BY <1>3, <2>2 DEF Closed, Close, TypeOK, BoardOK, States
  <1>4. ASSUME NEW q \in Requests, OthersOperate(q)
        PROVE  BoardOK'
    BY <1>4, OperateTyped DEF TypeOK, OthersOperate
  <1>. QED  BY <1>1, <1>2, <1>3, <1>4, WhoOperates

LEMMA ListStepTyped ==
    ASSUME TypeOK, [Next]_vars
    PROVE  ListOK'
  <1>. USE DEF TypeOK, ListOK
  <1>1. ASSUME NEW k \in Refreshes, FetchRooms(k)
        PROVE  ListOK'
    BY <1>1, BoardStatesTyped DEF FetchRooms
  <1>2. ASSUME NEW k \in Refreshes, ApplyRooms(k)
        PROVE  ListOK'
    BY <1>2 DEF ApplyRooms, Redrawn, ScreenStates
  <1>3. ASSUME NEW k \in Refreshes, LoseRooms(k)
        PROVE  ListOK'
    BY <1>3 DEF LoseRooms
  <1>4. ASSUME NEW rs \in SUBSET Rooms, FilterRooms(rs)
        PROVE  ListOK'
    BY <1>4 DEF FilterRooms, Redrawn, ScreenStates
  <1>5. CASE OpenStep \/ InputStep
    BY <1>5 DEF OpenStep, InputStep, OpenSimpleForm, OpenCheckoutForm, ChangeInput
  <1>6. CASE FormStep
    BY <1>6 DEF FormStep, ChangeRoom, ShowForm, NothingToSell, ApplyCalculation,
                CalculationFails, Cancel
  <1>7. ASSUME NEW f \in Forms, NEW s \in Sales, Press(f, s)
        PROVE  ListOK'
    BY <1>7 DEF Press
  <1>8. ASSUME NEW s \in Sales, Serve(s) \/ Refuse(s) \/ ToldFailed(s)
        PROVE  ListOK'
    BY <1>8 DEF Serve, Refuse, ToldFailed
  <1>9. ASSUME NEW s \in Sales, Answered(s)
        PROVE  ListOK'
    <2> DEFINE w == form[push[s].form]
    <2> HIDE DEF w
    <2>1. /\ display' = display \/ display' = [display EXCEPT ![w.object] = RoomState(push[s].osv)]
          /\ allRooms' = allRooms \/ allRooms' = [allRooms EXCEPT ![w.object] = RoomState(push[s].osv)]
          /\ deaf' = deaf \/ deaf' = deaf \cup {w.object}
          /\ listShown' = TRUE
          /\ fetched' = fetched
      BY <1>9 DEF Answered, RoomAnswered, CloseForm, w
    <2>2. w.object \in Rooms
      BY <1>9 DEF Answered, SaleOK, Opened, SimpleForms, CheckoutForms, w
    <2>. QED  BY <2>1, <2>2, RoomStates DEF ScreenStates
  <1>10. CASE OthersStep
    BY <1>10 DEF OthersStep, OthersOperate, Closed, pageVars
  <1>11. CASE UNCHANGED vars
    BY <1>11 DEF vars, pageVars
  <1>. QED  BY <1>1, <1>2, <1>3, <1>4, <1>5, <1>6, <1>7, <1>8, <1>9, <1>10, <1>11
            DEF Next, ListStep, SaleStep

\* An open form stays open, and a checkout's stays one.
FormsKept ==
    /\ form' \in [Forms -> SimpleForms \cup CheckoutForms \cup {None}]
    /\ \A f \in Forms : /\ Opened(f) => Opened(f)'
                        /\ form[f] \in CheckoutForms => form'[f] \in CheckoutForms

LEMMA RedrawnKeeps ==
    ASSUME FormOK, NEW cs, Redrawn(cs)
    PROVE  FormsKept
  <1>1. \A f \in Forms : form'[f] = form[f] \/ form'[f] = [form[f] EXCEPT !.in = "orphan"]
    BY DEF Redrawn
  <1>2. \A f \in Forms : form[f] \in SimpleForms /\ form'[f] # form[f] => form'[f] \in SimpleForms
    BY <1>1 DEF SimpleForms, Collections
  <1>3. \A f \in Forms :
           form[f] \in CheckoutForms /\ form'[f] # form[f] => form'[f] \in CheckoutForms
    BY <1>1 DEF CheckoutForms, Collections
  <1>4. \A f \in Forms : form[f] = None => form'[f] = None
    BY DEF Redrawn
  <1>5. form' = [f \in Forms |-> form'[f]]
    BY DEF Redrawn
  <1>. QED  BY <1>2, <1>3, <1>4, <1>5 DEF FormsKept, FormOK, Opened

LEMMA FormsAreKept ==
    ASSUME TypeOK, [Next]_vars
    PROVE  FormsKept
  <1>. USE DEF TypeOK
  <1>1. CASE form' = form
    BY <1>1 DEF FormsKept, FormOK, Opened
  <1>2. ASSUME NEW k \in Refreshes, ApplyRooms(k)
        PROVE  FormsKept
    BY <1>2, RedrawnKeeps DEF ApplyRooms
  <1>3. ASSUME NEW rs \in SUBSET Rooms, FilterRooms(rs)
        PROVE  FormsKept
    BY <1>3, RedrawnKeeps DEF FilterRooms
  <1>4. ASSUME NEW f \in Forms, NEW r \in Rooms, NEW osv \in Osvs, OpenSimpleForm(f, r, osv)
        PROVE  FormsKept
    <2>1. form'[f] \in SimpleForms /\ form' = [form EXCEPT ![f] = form'[f]]
      BY <1>4 DEF OpenSimpleForm, SimpleForms, Collections, Offered, FormOK
    <2>2. form[f] \notin CheckoutForms /\ ~Opened(f)
      BY <1>4, FormsAssumption DEF OpenSimpleForm, Clicked, Opened
    <2>. QED  BY <2>1, <2>2 DEF FormsKept, FormOK, Opened
  <1>5. ASSUME NEW f \in Forms, NEW r \in Rooms, NEW osv \in Osvs, NEW x \in Inputs,
               OpenCheckoutForm(f, r, osv, x)
        PROVE  FormsKept
    <2>1. form'[f] \in CheckoutForms /\ form' = [form EXCEPT ![f] = form'[f]]
      BY <1>5 DEF OpenCheckoutForm, CheckoutForms, Collections, FormOK
    <2>2. form[f] \notin CheckoutForms /\ ~Opened(f)
      BY <1>5, FormsAssumption DEF OpenCheckoutForm, Clicked, Opened
    <2>. QED  BY <2>1, <2>2 DEF FormsKept, FormOK, Opened
  <1>6. ASSUME NEW f \in Forms, NEW r \in Rooms, ChangeRoom(f, r)
        PROVE  FormsKept
    <2>1. form[f] \in SimpleForms
      BY <1>6, OsvsApart, ClientAssumption DEF ChangeRoom, FormOK, Opened, CheckoutForms
    <2>2. form'[f] \in SimpleForms /\ form' = [form EXCEPT ![f] = form'[f]]
      BY <1>6, <2>1 DEF ChangeRoom, FormOK, SimpleForms, Collections
    <2>3. form[f] \notin CheckoutForms
      BY <1>6, OsvsApart DEF ChangeRoom, CheckoutForms
    <2>. QED  BY <2>2, <2>3 DEF FormsKept, FormOK, Opened
  <1>7. ASSUME NEW f \in Forms, NEW x \in Inputs, ChangeInput(f, x)
        PROVE  FormsKept
    <2>1. form[f] \in CheckoutForms
      BY <1>7, OsvsApart, ClientAssumption DEF ChangeInput, FormOK, Opened, SimpleForms
    <2>2. form'[f] \in CheckoutForms /\ form' = [form EXCEPT ![f] = form'[f]]
      BY <1>7, <2>1 DEF ChangeInput, FormOK, CheckoutForms
    <2>. QED  BY <2>2 DEF FormsKept, FormOK, Opened
  <1>8. CASE ListStep
    BY <1>1, <1>2, <1>3, <1>8 DEF ListStep, FetchRooms, LoseRooms
  <1>9. CASE OpenStep \/ InputStep
    BY <1>4, <1>5, <1>7, <1>9 DEF OpenStep, InputStep
  <1>10. CASE FormStep
    BY <1>1, <1>6, <1>10 DEF FormStep, ShowForm, NothingToSell, ApplyCalculation,
                             CalculationFails, Cancel
  <1>11. CASE SaleStep
    BY <1>1, <1>11 DEF SaleStep, Press, Serve, Refuse, Answered, ToldFailed
  <1>12. CASE OthersStep
    BY <1>1, <1>12 DEF OthersStep, OthersOperate, Closed, pageVars
  <1>13. CASE UNCHANGED vars
    BY <1>1, <1>13 DEF vars, pageVars
  <1>. QED  BY <1>8, <1>9, <1>10, <1>11, <1>12, <1>13 DEF Next

LEMMA FormStepTyped ==
    ASSUME TypeOK, [Next]_vars
    PROVE  FormOK'
  <1>. USE FormsAreKept DEF TypeOK, FormOK, FormsKept
  <1>1. CASE UNCHANGED <<shown, opening>>
    BY <1>1
  <1>2. ASSUME NEW f \in Forms, NEW r \in Rooms, NEW osv \in Osvs, OpenSimpleForm(f, r, osv)
        PROVE  FormOK'
    <2>1. form'[f] \in SimpleForms
      BY <1>2 DEF OpenSimpleForm, SimpleForms, Collections, Offered
    <2>. QED  BY <1>2, <2>1 DEF OpenSimpleForm, Opened
  <1>3. ASSUME NEW f \in Forms, NEW r \in Rooms, NEW osv \in Osvs, NEW x \in Inputs,
               OpenCheckoutForm(f, r, osv, x)
        PROVE  FormOK'
    <2>1. form'[f] \in CheckoutForms
      BY <1>3 DEF OpenCheckoutForm, CheckoutForms, Collections
    <2>. QED  BY <1>3, <2>1 DEF OpenCheckoutForm
  <1>4. ASSUME NEW f \in Forms, ShowForm(f)
        PROVE  FormOK'
    BY <1>4 DEF ShowForm, Opened
  <1>5. ASSUME NEW f \in Forms, NothingToSell(f)
        PROVE  FormOK'
    BY <1>5 DEF NothingToSell
  <1>6. CASE Cancel
    BY <1>6 DEF Cancel
  <1>7. ASSUME NEW s \in Sales, Answered(s)
        PROVE  FormOK'
    BY <1>7 DEF Answered, CloseForm
  <1>8. CASE ListStep
    BY <1>1, <1>8 DEF ListStep, FetchRooms, ApplyRooms, LoseRooms, FilterRooms
  <1>9. CASE OpenStep \/ InputStep
    BY <1>1, <1>2, <1>3, <1>9 DEF OpenStep, InputStep, ChangeInput
  <1>10. CASE FormStep
    BY <1>1, <1>4, <1>5, <1>6, <1>10 DEF FormStep, ChangeRoom, ApplyCalculation,
                                         CalculationFails
  <1>11. CASE SaleStep
    BY <1>1, <1>7, <1>11 DEF SaleStep, Press, Serve, Refuse, ToldFailed
  <1>12. CASE OthersStep
    BY <1>1, <1>12 DEF OthersStep, OthersOperate, Closed, pageVars
  <1>13. CASE UNCHANGED vars
    BY <1>1, <1>13 DEF vars, pageVars
  <1>. QED  BY <1>8, <1>9, <1>10, <1>11, <1>12, <1>13 DEF Next

\* What is filed has the type of figures, with a room or without.
LEMMA FiledTyped ==
    ASSUME TypeOK, NEW f \in Forms, Opened(f)
    PROVE  /\ Filed(f) \in Figures
           /\ form[f].osv \in Osvs
  <1>1. CASE form[f] \in SimpleForms
    BY <1>1, OsvsApart, ZeroIsATime DEF SimpleForms, Filed, Figures
  <1>2. CASE form[f] \in CheckoutForms
    BY <1>2, OsvsApart, ZeroIsATime DEF CheckoutForms, Filed, Figures, TypeOK, SaleOK
  <1>. QED  BY <1>1, <1>2 DEF Opened

\* A new stage of a request.
LEMMA StagedTyped ==
    ASSUME SaleOK, NEW s \in Sales, push[s] # None,
           NEW stage \in {"served", "refused", "done", "failed"}, Staged(s, stage)
    PROVE  /\ push' \in [Sales -> Pushes \cup {None}]
           /\ \A t \in Sales : t # s => push'[t] = push[t]
           /\ push'[s] = [push[s] EXCEPT !.stage = stage]
           /\ \A t \in Sales : push'[t] # None => push[t] # None /\ push'[t].form = push[t].form
  <1>1. push[s] \in Pushes
    BY DEF SaleOK
  <1>2. [push[s] EXCEPT !.stage = stage] \in Pushes
    BY <1>1 DEF Pushes
  <1>. QED  BY <1>1, <1>2 DEF SaleOK, Staged, Pushes

LEMMA SaleStepTyped ==
    ASSUME TypeOK, Carried, [Next]_vars
    PROVE  SaleOK'
  <1>. USE DEF TypeOK
  <1>1. CASE /\ UNCHANGED <<figures, asked, computed>>
             /\ push' \in [Sales -> Pushes \cup {None}]
             /\ \A s \in Sales :
                   push'[s] # None => push[s] # None /\ push'[s].form = push[s].form
    <2>1. \A s \in Sales : push'[s] # None => push[s].form \in Forms
      BY <1>1 DEF SaleOK, Pushes
    <2>. QED  BY <1>1, <2>1, FormsAreKept DEF SaleOK, FormsKept, Opened
  <1>2. ASSUME UNCHANGED push,
               figures' \in [CheckoutOsvs -> Figures \cup {None}],
               asked' \subseteq Calculations, computed' \subseteq Calculations
        PROVE  SaleOK'
    <2>1. \A s \in Sales : push[s] # None => push[s].form \in Forms
      BY DEF SaleOK, Pushes
    <2>. QED  BY <1>2, <2>1, FormsAreKept DEF SaleOK, FormsKept, Opened
  <1>3. ASSUME NEW f \in Forms, ShowForm(f)
        PROVE  SaleOK'
    <2>1. form[f] \in CheckoutForms /\ form[f].input \in Inputs
      BY <1>3 DEF ShowForm, FormOK, CheckoutForms
    <2>2. Answer(f, form[f].input) \in Calculations
      BY <2>1, AnswerTyped
    <2>. QED  BY <1>2, <1>3, <2>2 DEF ShowForm, Ask, SaleOK
  <1>4. ASSUME NEW f \in Forms, NEW x \in Inputs, ChangeInput(f, x)
        PROVE  SaleOK'
    <2>1. form[f] \in CheckoutForms
      BY <1>4, CheckoutsAreSelling, ClientAssumption, FormsAssumption
         DEF ChangeInput, FormOK, Opened
    <2>2. Answer(f, x) \in Calculations
      BY <2>1, AnswerTyped
    <2>. QED  BY <1>2, <1>4, <2>2 DEF ChangeInput, Ask, SaleOK
  <1>5. ASSUME NEW a \in asked, ApplyCalculation(a)
        PROVE  SaleOK'
    <2>1. a \in Calculations
      BY DEF SaleOK
    <2>2. Recalculated(a) \in Figures
      BY <2>1 DEF Recalculated, Figures, Calculations, SaleOK, CheckoutBuyout, CheckoutBuytime, CheckoutOsvs
    <2>. QED  BY <1>2, <1>5, <2>1, <2>2 DEF ApplyCalculation, SaleOK
  <1>6. ASSUME NEW a \in asked, CalculationFails(a)
        PROVE  SaleOK'
    BY <1>2, <1>6 DEF CalculationFails, SaleOK
  <1>7. ASSUME NEW f \in Forms, NEW s \in Sales, Press(f, s)
        PROVE  SaleOK'
    <2>1. Opened(f)
      BY <1>7, ClientAssumption DEF Press, FormOK
    <2>2. Filed(f) \in Figures /\ form[f].osv \in Osvs
      BY <2>1, FiledTyped
    <2>3. push'[s] \in Pushes /\ push'[s].form = f /\ push' = [push EXCEPT ![s] = push'[s]]
      BY <1>7, <2>2 DEF Press, Pushes, Figures, SaleOK
    <2>4. \A t \in Sales : push[t] # None => push[t].form \in Forms
      BY DEF SaleOK, Pushes
    <2>. QED  BY <1>7, <2>1, <2>3, <2>4, FormsAreKept DEF Press, SaleOK, FormsKept, Opened
  <1>8. ASSUME NEW s \in Sales, Serve(s) \/ Refuse(s) \/ ToldFailed(s)
        PROVE  SaleOK'
    <2>1. PICK stage \in {"served", "refused", "done", "failed"} :
             push[s] # None /\ Staged(s, stage) /\ UNCHANGED <<figures, asked, computed>>
      BY <1>8 DEF Serve, Refuse, ToldFailed
    <2>. QED  BY <1>1, <2>1, StagedTyped
  <1>9. ASSUME NEW s \in Sales, Answered(s)
        PROVE  SaleOK'
    <2>1. push[s] \in Pushes /\ Staged(s, "done")
      BY <1>9 DEF Answered, SaleOK
    <2>2. sold[s].close \in Times
      BY <1>9 DEF Answered, Carried, BoardOK, Documents
    <2>3. figures' \in [CheckoutOsvs -> Figures \cup {None}]
      <3>1. CASE push[s].osv \in CheckoutOsvs
        <4>1. (IF figures[push[s].osv] = None THEN None ELSE figures[push[s].osv].room)
                  \in Rooms \cup {None}
          BY <3>1 DEF SaleOK, Figures
        <4>. QED  BY <1>9, <2>2, <3>1, <4>1 DEF Answered, Returned, SaleOK, Figures
      <3>2. CASE push[s].osv \notin CheckoutOsvs
        BY <1>9, <3>2 DEF Answered, SaleOK
      <3>. QED  BY <3>1, <3>2
    <2>4. /\ push' \in [Sales -> Pushes \cup {None}]
          /\ \A t \in Sales : push'[t] # None => push[t] # None /\ push'[t].form = push[t].form
      BY <1>9, <2>1, StagedTyped DEF Answered
    <2>5. \A t \in Sales : push[t] # None => push[t].form \in Forms
      BY DEF SaleOK, Pushes
    <2>. QED  BY <1>9, <2>3, <2>4, <2>5, FormsAreKept DEF Answered, SaleOK, FormsKept, Opened
  <1>10. CASE UNCHANGED <<figures, asked, computed, push>>
    BY <1>1, <1>10 DEF SaleOK
  <1>11. CASE ListStep
    BY <1>10, <1>11 DEF ListStep, FetchRooms, ApplyRooms, LoseRooms, FilterRooms
  <1>12. CASE OpenStep \/ InputStep
    BY <1>4, <1>10, <1>12 DEF OpenStep, InputStep, OpenSimpleForm, OpenCheckoutForm
  <1>13. CASE FormStep
    BY <1>3, <1>5, <1>6, <1>10, <1>13 DEF FormStep, ChangeRoom, NothingToSell, Cancel
  <1>14. CASE SaleStep
    BY <1>7, <1>8, <1>9, <1>14 DEF SaleStep
  <1>15. CASE OthersStep
    BY <1>10, <1>15 DEF OthersStep, OthersOperate, Closed, pageVars
  <1>16. CASE UNCHANGED vars
    BY <1>10, <1>16 DEF vars, pageVars
  <1>. QED  BY <1>11, <1>12, <1>13, <1>14, <1>15, <1>16 DEF Next

-----------------------------------------------------------------------------
(* The list or a form is shown. *)

LEMMA NeverStrandedStep ==
    ASSUME NeverStranded, [Next]_vars
    PROVE  NeverStranded'
  <1>. USE ClientAssumption DEF NeverStranded
  <1>1. CASE UNCHANGED <<listShown, shown>>
    BY <1>1
  <1>2. CASE ListStep
    BY <1>1, <1>2 DEF ListStep, FetchRooms, ApplyRooms, LoseRooms, FilterRooms
  <1>3. CASE OpenStep \/ InputStep
    BY <1>1, <1>3 DEF OpenStep, InputStep, OpenSimpleForm, OpenCheckoutForm, ChangeInput
  <1>4. CASE FormStep
    BY <1>1, <1>4 DEF FormStep, ChangeRoom, ShowForm, NothingToSell, ApplyCalculation,
                      CalculationFails, Cancel
  <1>5. CASE SaleStep
    BY <1>1, <1>5 DEF SaleStep, Press, Serve, Refuse, Answered, ToldFailed, CloseForm
  <1>6. CASE OthersStep
    BY <1>1, <1>6 DEF OthersStep, OthersOperate, Closed, pageVars
  <1>7. CASE UNCHANGED vars
    BY <1>1, <1>7 DEF vars, pageVars
  <1>. QED  BY <1>2, <1>3, <1>4, <1>5, <1>6, <1>7 DEF Next

-----------------------------------------------------------------------------
(* Figures and requests stem from one calculation. *)

\* The history grows: whatever was calculated stays so.
LEMMA Remembered ==
    ASSUME Calculated, computed \subseteq computed', UNCHANGED <<figures, asked, push>>
    PROVE  Calculated'
  BY DEF Calculated

LEMMA StagedKeepsFiled ==
    ASSUME SaleOK, Calculated, UNCHANGED computed,
           NEW s \in Sales, push[s] # None,
           NEW stage \in {"served", "refused", "done", "failed"}, Staged(s, stage)
    PROVE  \A t \in Sales :
              /\ push'[t] # None
              /\ push'[t].osv \in CheckoutOsvs
              /\ push'[t].room # None
              /\ ~push'[t].paired
              => Calculation(push'[t].osv, push'[t].room, push'[t].close) \in computed'
  <1>1. push'[s] = [push[s] EXCEPT !.stage = stage] /\ \A t \in Sales : t # s => push'[t] = push[t]
    BY StagedTyped
  <1>2. push[s] \in Pushes
    BY DEF SaleOK
  <1>3. /\ push'[s].osv = push[s].osv /\ push'[s].room = push[s].room
        /\ push'[s].close = push[s].close /\ push'[s].paired = push[s].paired
    BY <1>1, <1>2 DEF Pushes
  <1>. QED  BY <1>1, <1>3 DEF Calculated

\* A new answer, asked for by form f.
LEMMA AskKeeps ==
    ASSUME TypeOK, Calculated, NEW f \in Forms, NEW x \in Inputs, Ask(f, x),
           UNCHANGED <<figures, push>>
    PROVE  Calculated'
  BY DEF Calculated, Ask

LEMMA CalculatedStep ==
    ASSUME TypeOK, Carried, Calculated, [Next]_vars
    PROVE  Calculated'
  <1>. USE DEF TypeOK
  <1>1. CASE UNCHANGED <<figures, asked, computed, push>>
    BY <1>1, Remembered
  <1>2. ASSUME NEW f \in Forms, ShowForm(f)
        PROVE  Calculated'
    <2>1. form[f].input \in Inputs
      BY <1>2 DEF ShowForm, FormOK, CheckoutForms
    <2>. QED  BY <1>2, <2>1, AskKeeps DEF ShowForm
  <1>3. ASSUME NEW f \in Forms, NEW x \in Inputs, ChangeInput(f, x)
        PROVE  Calculated'
    BY <1>3, AskKeeps DEF ChangeInput
  <1>4. ASSUME NEW a \in asked, ApplyCalculation(a)
        PROVE  Calculated'
    <2>1. a \in Calculations /\ a \in computed
      BY DEF SaleOK, Calculated
    <2>2. a = Calculation(a.osv, a.room, a.close) /\ a.osv \in CheckoutOsvs /\ a.room \in Rooms
      BY <2>1 DEF Calculations, Calculation
    <2>3. figures' = [figures EXCEPT ![a.osv] = Recalculated(a)]
      BY <1>4 DEF ApplyCalculation
    <2>4. figures'[a.osv].room = a.room /\ figures'[a.osv].close = a.close
      BY <2>2, <2>3 DEF SaleOK, Recalculated
    <2>5. \A osv \in CheckoutOsvs : osv # a.osv => figures'[osv] = figures[osv]
      BY <2>2, <2>3 DEF SaleOK
    <2>6. asked' \subseteq computed' /\ UNCHANGED <<computed, push>>
      BY <1>4 DEF ApplyCalculation, Calculated
    <2>. QED  BY <2>1, <2>2, <2>4, <2>5, <2>6 DEF Calculated
  <1>5. ASSUME NEW a \in asked, CalculationFails(a)
        PROVE  Calculated'
    BY <1>5 DEF CalculationFails, Calculated
  <1>6. ASSUME NEW f \in Forms, NEW s \in Sales, Press(f, s)
        PROVE  Calculated'
    <2>1. Opened(f)
      BY <1>6, ClientAssumption DEF Press, FormOK
    <2>2. form[f].osv \in CheckoutOsvs /\ Filed(f).room # None /\ ~Filed(f).paired =>
             Calculation(form[f].osv, Filed(f).room, Filed(f).close) \in computed
      BY OsvsApart DEF Filed, Calculated
    <2>3. /\ push' = [push EXCEPT ![s] = push'[s]]
          /\ push'[s].osv = form[f].osv
          /\ push'[s].room = Filed(f).room
          /\ push'[s].close = Filed(f).close
          /\ push'[s].paired = Filed(f).paired
          /\ UNCHANGED <<figures, asked, computed>>
      BY <1>6 DEF Press, SaleOK
    <2>. QED  BY <2>2, <2>3 DEF Calculated, SaleOK
  <1>7. ASSUME NEW s \in Sales, Serve(s) \/ Refuse(s) \/ ToldFailed(s)
        PROVE  Calculated'
    <2>1. PICK stage \in {"served", "refused", "done", "failed"} :
             push[s] # None /\ Staged(s, stage) /\ UNCHANGED <<figures, asked, computed>>
      BY <1>7 DEF Serve, Refuse, ToldFailed
    <2>2. \A t \in Sales :
              /\ push'[t] # None
              /\ push'[t].osv \in CheckoutOsvs
              /\ push'[t].room # None
              /\ ~push'[t].paired
              => Calculation(push'[t].osv, push'[t].room, push'[t].close) \in computed'
      BY <2>1, StagedKeepsFiled
    <2>. QED  BY <2>1, <2>2 DEF Calculated
  <1>8. ASSUME NEW s \in Sales, Answered(s)
        PROVE  Calculated'
    <2>1. push[s] # None /\ Staged(s, "done") /\ UNCHANGED <<asked, computed>>
      BY <1>8 DEF Answered
    <2>2. \A t \in Sales :
              /\ push'[t] # None
              /\ push'[t].osv \in CheckoutOsvs
              /\ push'[t].room # None
              /\ ~push'[t].paired
              => Calculation(push'[t].osv, push'[t].room, push'[t].close) \in computed'
      BY <2>1, StagedKeepsFiled
    <2>3. \A osv \in CheckoutOsvs : figures'[osv] = figures[osv] \/ figures'[osv].paired
      BY <1>8 DEF Answered, Returned, SaleOK
    <2>. QED  BY <2>1, <2>2, <2>3 DEF Calculated
  <1>9. CASE ListStep
    BY <1>1, <1>9 DEF ListStep, FetchRooms, ApplyRooms, LoseRooms, FilterRooms
  <1>10. CASE OpenStep \/ InputStep
    BY <1>1, <1>3, <1>10 DEF OpenStep, InputStep, OpenSimpleForm, OpenCheckoutForm
  <1>11. CASE FormStep
    BY <1>1, <1>2, <1>4, <1>5, <1>11 DEF FormStep, ChangeRoom, NothingToSell, Cancel
  <1>12. CASE SaleStep
    BY <1>6, <1>7, <1>8, <1>12 DEF SaleStep
  <1>13. CASE OthersStep
    BY <1>1, <1>13 DEF OthersStep, OthersOperate, Closed, pageVars
  <1>14. CASE UNCHANGED vars
    BY <1>1, <1>14 DEF vars, pageVars
  <1>. QED  BY <1>9, <1>10, <1>11, <1>12, <1>13, <1>14 DEF Next

-----------------------------------------------------------------------------
(* The server does what was filed. *)

LEMMA CarriedStep ==
    ASSUME TypeOK, Carried, [Next]_vars
    PROVE  Carried'
  <1>. USE DEF TypeOK
  <1>1. CASE UNCHANGED <<sold, push>>
    BY <1>1 DEF Carried
  <1>2. ASSUME NEW f \in Forms, NEW s \in Sales, Press(f, s)
        PROVE  Carried'
    <2>1. /\ push' = [push EXCEPT ![s] = push'[s]] /\ push'[s].stage = "sent"
          /\ sold[s] = None /\ UNCHANGED sold
      BY <1>2 DEF Press, SaleOK, occVars
    <2>. QED  BY <2>1 DEF Carried, SaleOK
  <1>3. ASSUME NEW s \in Sales, Serve(s)
        PROVE  Carried'
    <2>1. push[s] # None /\ Acceptable(s) /\ Staged(s, "served") /\ Operate(Request(s))
      BY <1>3 DEF Serve
    <2>2. Request(s) \in Requests /\ Request(s).sale = s
      BY <2>1, RequestTyped DEF Request
    <2>3. /\ sold' = [sold EXCEPT ![s] = sold'[s]]
          /\ sold'[s] \in Documents
          /\ sold'[s].osv = push[s].osv
          /\ sold'[s].room = push[s].room
          /\ sold'[s].close = push[s].close
      BY <2>1, <2>2, OperateTyped DEF Request
    <2>4. /\ push'[s] = [push[s] EXCEPT !.stage = "served"]
          /\ \A t \in Sales : t # s => push'[t] = push[t]
      BY <2>1, StagedTyped
    <2>5. push[s] \in Pushes
      BY <2>1 DEF SaleOK
    <2>6. ASSUME NEW t \in Sales, t # s
          PROVE  push'[t] = push[t] /\ sold'[t] = sold[t]
      BY <2>3, <2>4, <2>6 DEF BoardOK
    <2>7. /\ push'[s].osv = push[s].osv /\ push'[s].room = push[s].room
          /\ push'[s].close = push[s].close /\ push'[s].paired = push[s].paired
      BY <2>4, <2>5 DEF Pushes
    <2>. QED  BY <2>1, <2>3, <2>6, <2>7, DocumentAssumption DEF Carried, Acceptable
  <1>4. ASSUME NEW s \in Sales, NEW stage \in {"refused", "done", "failed"},
               push[s] # None, stage = "done" => push[s].stage = "served",
               Staged(s, stage), UNCHANGED sold
        PROVE  Carried'
    <2>1. /\ push'[s] = [push[s] EXCEPT !.stage = stage]
          /\ \A t \in Sales : t # s => push'[t] = push[t]
      BY <1>4, StagedTyped
    <2>2. push[s] \in Pushes
      BY <1>4 DEF SaleOK
    <2>3. /\ push'[s].osv = push[s].osv /\ push'[s].room = push[s].room
          /\ push'[s].close = push[s].close /\ push'[s].paired = push[s].paired
          /\ push'[s].stage = stage
      BY <2>1, <2>2 DEF Pushes
    <2>4. push'[s].stage \in {"served", "done"} => sold[s] # None
      BY <1>4, <2>3 DEF Carried
    <2>5. sold'[s] # None =>
              /\ push'[s].room # None /\ ~push'[s].paired
              /\ sold'[s].osv = push'[s].osv /\ sold'[s].room = push'[s].room
              /\ sold'[s].close = push'[s].close
      BY <1>4, <2>3 DEF Carried
    <2>6. ASSUME NEW t \in Sales, t # s
          PROVE  push'[t] = push[t] /\ sold'[t] = sold[t]
      BY <1>4, <2>1, <2>6
    <2>7. sold' = sold
      BY <1>4
    <2>. QED  BY <2>4, <2>5, <2>6, <2>7 DEF Carried
  <1>5. ASSUME NEW s \in Sales, Refuse(s) \/ ToldFailed(s) \/ Answered(s)
        PROVE  Carried'
    BY <1>4, <1>5 DEF Refuse, ToldFailed, Answered, occVars
  <1>6. ASSUME NEW q \in Requests, OthersOperate(q)
        PROVE  Carried'
    <2>1. q.sale \in Sales /\ push[q.sale] = None /\ UNCHANGED push
      BY <1>6 DEF OthersOperate, Requests, pageVars
    <2>2. sold' = [sold EXCEPT ![q.sale] = sold'[q.sale]]
      BY <1>6, OperateTyped DEF OthersOperate
    <2>. QED  BY <2>1, <2>2 DEF Carried, BoardOK
  <1>7. CASE ListStep
    BY <1>1, <1>7 DEF ListStep, FetchRooms, ApplyRooms, LoseRooms, FilterRooms, occVars
  <1>8. CASE OpenStep \/ InputStep
    BY <1>1, <1>8 DEF OpenStep, InputStep, OpenSimpleForm, OpenCheckoutForm, ChangeInput, occVars
  <1>9. CASE FormStep
    BY <1>1, <1>9 DEF FormStep, ChangeRoom, ShowForm, NothingToSell, ApplyCalculation,
                      CalculationFails, Cancel, occVars
  <1>10. CASE SaleStep
    BY <1>2, <1>3, <1>5, <1>10 DEF SaleStep
  <1>11. CASE OthersStep
    BY <1>1, <1>6, <1>11 DEF OthersStep, Closed, Close, pageVars
  <1>12. CASE UNCHANGED vars
    BY <1>1, <1>12 DEF vars, pageVars, occVars
  <1>. QED  BY <1>7, <1>8, <1>9, <1>10, <1>11, <1>12 DEF Next

-----------------------------------------------------------------------------
(* The theorems. *)

LEMMA InitIInv ==
    ASSUME Init
    PROVE  IInv
  <1>. USE DEF Init, OccInit
  <1>1. BoardOK
    BY DEF BoardOK, States
  <1>2. ListOK
    BY <1>1, BoardStatesTyped DEF ListOK, ScreenStates
  <1>3. FormOK /\ SaleOK
    BY DEF FormOK, SaleOK
  <1>4. NeverStranded /\ Calculated /\ Carried
    BY DEF NeverStranded, Calculated, Carried
  <1>. QED  BY <1>1, <1>2, <1>3, <1>4 DEF IInv, TypeOK

LEMMA NextIInv ==
    ASSUME IInv, [Next]_vars
    PROVE  IInv'
  BY BoardStep, ListStepTyped, FormStepTyped, SaleStepTyped, NeverStrandedStep,
     CalculatedStep, CarriedStep
  DEF IInv, TypeOK

\* The inductive invariant holds throughout.
THEOREM SpecIInv == Spec => []IInv
  BY InitIInv, NextIInv, PTL DEF Spec

\* The variables keep their types; a form that is shown, or that a sale was made
\* in, was opened, and only checkouts wait for fees.
THEOREM SpecTypeOK == Spec => []TypeOK
  BY SpecIInv, PTL DEF IInv

\* The cashier always has the list of rooms or a form, in whatever order forms
\* get ready, close and are closed by late answers (widget.js, start and close).
THEOREM SpecNeverStranded == Spec => []NeverStranded
  BY SpecIInv, PTL DEF IInv

\* What is sold carries the room and the closing time of one calculation, for
\* any number of forms, answers and sales that share a model (widget.js,
\* model.set; room_operate.py, process_operate).
THEOREM SpecSoldAsCalculated == Spec => []SoldAsCalculated
  <1>1. IInv => SoldAsCalculated
    BY DEF IInv, Carried, Calculated, Calculation, SoldAsCalculated, SoldHere
  <1>. QED  BY <1>1, SpecIInv, PTL
=============================================================================
