SPECIFICATION FairSpec
CONSTANTS
    c1 = c1
    c2 = c2
    c3 = c3
    Calls <- MCCalls
    Empty = Empty
    Closed = Closed
\* Every command is issued once and the client is closed once: the model stops.
CHECK_DEADLOCK FALSE
INVARIANTS ReplyIsOwn WaiterIsServed NoEntryLeaks
PROPERTIES LossWakesAll
