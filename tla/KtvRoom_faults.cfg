\* Two rooms, every business object, failing jobs and a process death.
SPECIFICATION MCSpec
CONSTANTS
    Rooms = {r1, r2}
    Bills = {b1, b2}
    Sales = {s1, s2}
    Cashiers = {c1, c2}
    Workers = {w1, w2}
    None = None
    MaxTime = 2
    CallbackFaults = TRUE
    MaxCrashes = 1
    AskedOsvs = {"ktv.room_scheduled", "ktv.room_opens",
                 "ktv.room_checkout_buyout", "ktv.room_checkout_buytime",
                 "ktv.room_checkout"}
SYMMETRY Symmetry
INVARIANTS
    TypeOK
    BillBelongsToRoom
    FailureIsWhole
    FreeIffNoBill
PROPERTIES
    BillNeverReplaced
    Serializable
