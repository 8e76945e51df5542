CONSTANTS
    Requests = {r1, r2}
    MaxRounds = 2
    NoCall = NoCall
    NoReq = NoReq
SPECIFICATION SessionSpec
INVARIANT ToolMessagesAnswerCalls
CHECK_DEADLOCK FALSE
