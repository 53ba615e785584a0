SPECIFICATION FairSpec
CONSTANTS
    s1 = s1
    s2 = s2
    c1 = c1
    c2 = c2
    Sessions <- MCSessions
    Conns <- MCConns
    MaxRequests = 1
    NoSession = NoSession
    NoConn = NoConn
INVARIANTS SeatCancelLive ViewersExact
PROPERTIES NoTheftByExit ExpiredBridgeEnds DeadHolderLosesSeat
