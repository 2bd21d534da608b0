SPECIFICATION FairSpec
CONSTANTS
    Kthd = {A, B}
    A = A
    B = B
    c = c
    d = d
    Boot = boot
    MaxLwt = 3
    Chan = {c, d}
    ThdChan = {c}
    BootChan = {c}
    Size <- Sizes
    Taker <- Takers
    Data = data
    NULL = null
    Careful = TRUE
INVARIANTS TypeOK LinksExact RingsWhole RunsAtHome NoneForgotten NobodyLost
PROPERTIES WaitersServed
CHECK_DEADLOCK FALSE
