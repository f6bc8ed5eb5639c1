SPECIFICATION FairSpec
CONSTANTS
    Keyed = {}
    Unkeyed = {u1}
    Terminates = {t1, t2}
    NoRequest = nobody
    Patience = "reply"
    Faults = {"fails", "errorEvent", "postFails"}
INVARIANT RefusedTerminateGetsNothing
PROPERTIES TerminateSparesReserve MarkIsRemoved AcceptedReserveReports
CHECK_DEADLOCK FALSE
