SPECIFICATION FairSpec
CONSTANTS
    Slots = {main, t1, t2, t3}
    main = main
    t1 = t1
    t2 = t2
    t3 = t3
    Main = main
    NULL = null
    MaxTid = 5
    SpinBound = 2
    Recycle = FALSE
    JoinBlocked = FALSE
INVARIANTS TypeOK NeverStuck CountersAccount WakeupPending RingExact
PROPERTIES ReapOnlyDead ForkJoinSpec Scheduled JoinReturns
