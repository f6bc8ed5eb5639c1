SPECIFICATION Spec
CONSTANTS
    Provisions = {p1}
    Releases = {r1}
    Terminates = {t1}
    Reads = {}
    Lists = {}
    Boot = boot
    NoRequest = nobody
    Patience = "result"
    MaxCrashes = 0
    Faults = {"drop", "errorEvent", "unexpected"}
INVARIANTS WatcherIsRegistered ResultsGoHome ConfirmedTerminationIsFinal SuccessIsEarned
CHECK_DEADLOCK FALSE
