SPECIFICATION Spec
CONSTANTS
    Thread = {a, c}
    a = a
    b = b
    c = c
    Sched = sched
    Prios = {5, 10}
    Wakes <- Pair
    Blocks = {a}
    Directed = TRUE
    MaxStrikes = 3
    None = none
INVARIANTS TypeOK OwnerInside QueuesExact NoFault
PROPERTIES ParkingSpec
