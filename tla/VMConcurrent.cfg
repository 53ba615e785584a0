SPECIFICATION Spec
CONSTANTS
    t1 = t1
    t2 = t2
    p1 = p1
    p2 = p2
    p3 = p3
    Threads <- TwoThreads
    Procs <- TwoProcs
    NoProc = NoProc
    DialFailed = DialFailed
    Accels = 2
    RestartOnCrash = TRUE
SYMMETRY SymmetryTwo
INVARIANTS RunningHasGuest
PROPERTIES OnlyOwnExitErases
