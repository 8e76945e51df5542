CONSTANT MaxVerdictAttempts = 10
SPECIFICATION FairSpec
INVARIANTS
    TypeOK
    ApprovalEarned
    CallsBounded
PROPERTIES
    KeepsContract
    ReviewEnds
