CONSTANTS
    Starts = {0, 1, 3, 5}
    Maxima = {0, 7, 16}
    Repeats = 3
    Limits = {4, 5, 6, 15, 99}
SPECIFICATION Spec
INVARIANT SearchesUpToMax
CHECK_DEADLOCK FALSE
