SPECIFICATION Spec
CONSTANTS
    Provisions = {p1}
    Releases = {}
    Terminates = {t1}
    Reads = {}
    Lists = {}
    Boot = boot
    NoRequest = nobody
    Patience = "none"
    MaxCrashes = 1
    Faults = {"drop", "errorEvent", "forcedEnd", "unexpected", "forget", "postFails", "garbled", "queryFails", "crash"}
INVARIANTS TypeOK AnswersFindTheirWaiter RefusedTerminateGetsNoResult HealthyHasNoError TasksFindTheirReservation FailureIsExplained
PROPERTIES LateComersRespectTheEnd
CHECK_DEADLOCK FALSE
