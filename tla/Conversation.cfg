\* Two clients, three messages; a new context is named after its first message.
CONSTANTS
    Requests = {r1, r2, r3}
    Contexts = {r1, r2, r3}
    Clients = {m1, m2}
    MaxTurnCount = 1
    None = None
SPECIFICATION FairConversationSpec
INVARIANTS
    Continues
    ClientsApart
    OverlapOnlyAfterTimeout
PROPERTIES
    LostForGood
    TalkReturns
    Answered
CHECK_DEADLOCK FALSE
