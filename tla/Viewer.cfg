\* Four objects, one call in flight besides that of the connect event, one change
\* from outside.
SPECIFICATION FairSpec
CONSTANTS
    rfb1 = rfb1
    rfb2 = rfb2
    rfb3 = rfb3
    rfb4 = rfb4
    Conns <- MCConns
    NoRFB = NoRFB
    Blocked = Blocked
    MaxFetches = 1
    MaxChanges = 1
INVARIANTS TypeOK RFBFollowsMode
PROPERTIES FollowsVM QuietWhenEvicted DisconnectEnds
