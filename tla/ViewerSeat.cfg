\* The same instance; console.js says that a free seat is grabbed.
SPECIFICATION FairSpec
CONSTANTS
    rfb1 = rfb1
    rfb2 = rfb2
    rfb3 = rfb3
    rfb4 = rfb4
    Conns <- MCConns
    NoRFB = NoRFB
    Blocked = Blocked
    MaxFetches = 1
    MaxChanges = 1
PROPERTIES FreeSeatIsGrabbed
