\* Three messages of one context, in any order and overlapping, one round each: two
\* approved commands wait for their output at once.
CONSTANTS
    Requests = {r1, r2, r3}
    MaxRounds = 1
    NoCall = NoCall
    NoReq = NoReq
SPECIFICATION Spec
SYMMETRY Symmetry
INVARIANTS
    TypeOK
    GateSafety
    SlotsMatchRequests
    ResultStoredOnce
PROPERTY HistoryGrows
CHECK_DEADLOCK FALSE
