CONSTANT Calls = {c1, c2}
SPECIFICATION FairSpec
INVARIANTS
    TypeOK
    GivesUpOnlyTwice
    RateLimitReported
PROPERTY CallEnds
CHECK_DEADLOCK FALSE
