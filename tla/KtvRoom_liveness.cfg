\* Time passes and threads run: prepaid time ends, every request is answered.
SPECIFICATION MCFairSpec
CONSTANTS
    Rooms = {r1}
    Bills = {b1, b2}
    Sales = {s1, s2}
    Cashiers = {c1, c2}
    Workers = {w1, w2}
    None = None
    MaxTime = 2
    CallbackFaults = FALSE
    MaxCrashes = 1
    AskedOsvs = {"ktv.room_opens", "ktv.room_checkout_buytime"}
INVARIANTS
    PresaleHasCloseJob
PROPERTIES
    EveryRequestAnswered
    PresaleEnds
