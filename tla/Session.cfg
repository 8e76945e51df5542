\* A task and two reports, two rounds each.
CONSTANTS
    Requests = {r1, r2, r3}
    MaxRounds = 2
    NoCall = NoCall
    NoReq = NoReq
SPECIFICATION FairSessionSpec
INVARIANTS
    PlaceholderIsPending
    Attribution
    NoOutputLost
    HeartbeatReachesCaller
    HistoryBounded
PROPERTIES
    ImplementsProtocol
    TurnReturns
CHECK_DEADLOCK FALSE
