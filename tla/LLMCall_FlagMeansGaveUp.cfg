CONSTANT Calls = {c1, c2}
SPECIFICATION Spec
INVARIANT FlagMeansGaveUp
CHECK_DEADLOCK FALSE
