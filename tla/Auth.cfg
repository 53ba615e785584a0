SPECIFICATION Spec
CONSTANTS
    l1 = l1
    l2 = l2
    l3 = l3
    l4 = l4
    a1 = a1
    a2 = a2
    NoAddr = NoAddr
    Logins <- FourLogins
    Addrs <- TwoAddrs
    MaxAttempts = 2
    MaxConcurrent = 2
    AttemptWindow = 2
    SessionTTL = 2
    IdleTimeout = 1
    MaxTime = 3
SYMMETRY SymmetryFour
INVARIANTS GuessesBounded
PROPERTIES ImplementsSessionLife
