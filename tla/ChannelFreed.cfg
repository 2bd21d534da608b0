SPECIFICATION Spec
CONSTANTS
    t1 = t1
    c1 = c1
    c2 = c2
    g1 = g1
    m1 = m1
    main = main
    Threads = {main, t1}
    First = main
    Chans = {c1, c2}
    Groups = {g1}
    Data = {m1}
    Size <- Single
    InfiniteCap = 2
    NULL = null
    MaxMade = 2
    MaxCnt = 2
    Careful = FALSE
PROPERTY
    FreedUnshared
CHECK_DEADLOCK FALSE
