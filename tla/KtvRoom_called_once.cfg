SPECIFICATION MCSpec
CONSTANTS
    Rooms = {r1}
    Bills = {b1, b2, b3}
    Sales = {s1, s2, s3}
    Cashiers = {c1, c2}
    Workers = {w1, w2}
    None = None
    MaxTime = 2
    CallbackFaults = FALSE
    MaxCrashes = 0
    AskedOsvs = {"ktv.room_opens", "ktv.room_checkout_buytime"}
SYMMETRY Symmetry
PROPERTIES
    CalledOnce
