SPECIFICATION FairSpec
CONSTANTS
    r1 = r1
    r2 = r2
    n1 = n1
    n2 = n2
    Requests <- MCRequests
    Names <- MCNames
    NoOne = NoOne
    Absent = Absent
    Torn = Torn
    CliBeside = FALSE
INVARIANTS AnsweredIsStored FileComplete 
PROPERTIES RequestsReturn
