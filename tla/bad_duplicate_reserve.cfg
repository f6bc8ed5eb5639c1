SPECIFICATION Spec
CONSTANTS
    Keyed = {k1, k2}
    Unkeyed = {}
    Terminates = {}
    NoRequest = nobody
    Patience = "none"
    Faults = {}
INVARIANT RepeatMakesNoDuplicate
CHECK_DEADLOCK FALSE
