SPECIFICATION FairSpec
CONSTANTS
    Thread = {a, b, c}
    a = a
    b = b
    c = c
    Sched = sched
    Prios = {5, 10}
    Wakes <- Chain
    Blocks = {a, b}
    Directed = FALSE
    MaxStrikes = 1
    None = none
INVARIANTS TakeTurns
PROPERTIES Served
