SPECIFICATION FairSpec
CONSTANTS
    t1 = t1
    t2 = t2
    p1 = p1
    p2 = p2
    p3 = p3
    Threads <- OneThread
    Procs <- ThreeProcs
    NoProc = NoProc
    DialFailed = DialFailed
    Accels = 2
    RestartOnCrash = FALSE
INVARIANTS SingleGuest QmpMatchesCmd
PROPERTIES StopEndsItsGuest  FallbackTried
