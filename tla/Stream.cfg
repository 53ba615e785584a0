SPECIFICATION FramesSpec
CONSTANTS
    Versions <- MCVersions
    TypeLists <- MCTypeLists
    Options <- MCOptions
    Updates <- MCUpdates
    OtherMessages <- MCOtherMessages
    MaxMessages = 2
    LoadResults <- MCLoadResults
INVARIANTS  InOrder OneUpdateQueued 
PROPERTIES Settles 
CHECK_DEADLOCK FALSE
