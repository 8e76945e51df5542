\* Three messages in two contexts, overlapping; the budget is one turn.
CONSTANTS
    Contexts = {c1, c2}
    Requests = {r1, r2, r3}
    MaxTurnCount = 1
    MaxCalls = 2
    None = None
SPECIFICATION TimedSpec
SYMMETRY Symmetry
INVARIANTS
    TimedTypeOK
    OneAgentPerContext
    OneTerminalEvent
    BudgetIsSpent
    EntriesConserved
    OneTurnPerSession
CHECK_DEADLOCK FALSE
