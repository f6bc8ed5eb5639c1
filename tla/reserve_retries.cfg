SPECIFICATION Spec
CONSTANTS
    Keyed = {k1, k2}
    Unkeyed = {}
    Terminates = {t1}
    NoRequest = nobody
    Patience = "reply"
    Faults = {"fails", "postFails", "crash"}
SYMMETRY MCSymmetry
INVARIANTS TypeOK ReservedMeansCommitted
PROPERTIES RepeatReusesWhatIsThere RetryTakesOver KeepsPromises
CHECK_DEADLOCK FALSE
