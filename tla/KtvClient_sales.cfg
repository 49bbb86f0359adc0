\* Two forms and two sales of this page, whose forms share their models.
SPECIFICATION MCSpec
CONSTANTS
    Rooms = {r1, r2}
    Bills = {b1, b2}
    Sales = {s1, s2}
    Forms = {1, 2}
    Refreshes = {}
    OthersSales = {}
    OthersOsvs = {}
    FormOsvs = {"ktv.room_opens", "ktv.room_checkout_buyout", "ktv.room_checkout_buytime"}
    Filters = {}
    Inputs = {1, 2}
    BuyMinutes = 1
    PresentMinutes = 1
    MaxTime = 5
    Minute = 2
    MinutesOfDay = 3
    NoPromotion = NoPromotion
    None = None
SYMMETRY Symmetry
INVARIANTS
    TypeOK
    NeverStranded
    SoldAsCalculated
\* The cashier has used every form and pressed every button.
CHECK_DEADLOCK FALSE
