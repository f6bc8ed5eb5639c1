SPECIFICATION Spec
CONSTANTS
    Provisions = {p1}
    Releases = {r1}
    Terminates = {}
    Reads = {}
    Lists = {}
    Boot = boot
    NoRequest = nobody
    Patience = "reply"
    MaxCrashes = 0
    Faults = {}
INVARIANT TasksEndWithAResult
CHECK_DEADLOCK FALSE
