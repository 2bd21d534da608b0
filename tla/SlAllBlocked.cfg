SPECIFICATION Spec
CONSTANTS
    Thread = {a, c}
    a = a
    b = b
    c = c
    Sched = sched
    Prios = {10}
    Wakes <- Pair
    Blocks = {a, c}
    Directed = FALSE
    MaxStrikes = 1
    None = none
CHECK_DEADLOCK FALSE
INVARIANTS SomebodyRuns
