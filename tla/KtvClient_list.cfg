\* The list of rooms: two refreshes, a filter, a sale of this page and one of
\* another cashier, and the closing jobs.
SPECIFICATION MCFairSpec
CONSTANTS
    Rooms = {r1, r2}
    Bills = {b1, b2}
    Sales = {s1, s2}
    Forms = {1}
    Refreshes = {k1, k2}
    OthersSales = {s2}
    OthersOsvs = {"ktv.room_opens"}
    FormOsvs = {"ktv.room_scheduled", "ktv.room_checkout_buyout"}
    Filters = {1}
    Inputs = {1, 2}
    BuyMinutes = 1
    PresentMinutes = 1
    MaxTime = 5
    Minute = 2
    MinutesOfDay = 3
    NoPromotion = NoPromotion
    None = None
PROPERTIES
    DisplayCatchesUp
    RoomsTakeClicks
