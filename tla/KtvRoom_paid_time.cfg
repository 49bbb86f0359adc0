SPECIFICATION MCSpec
CONSTANTS
    Rooms = {r1}
    Bills = {b1, b2}
    Sales = {s1, s2}
    Cashiers = {c1}
    Workers = {w1}
    None = None
    MaxTime = 3
    CallbackFaults = FALSE
    MaxCrashes = 0
    AskedOsvs = {"ktv.room_opens", "ktv.room_checkout_buytime"}
SYMMETRY Symmetry
PROPERTIES
    PaidTimeHonoured
