SPECIFICATION FairSpec
CONSTANTS
    Provisions = {p1}
    Releases = {r1}
    Terminates = {}
    Reads = {}
    Lists = {}
    Boot = boot
    NoRequest = nobody
    Patience = "reply"
    MaxCrashes = 0
    Faults = {"postFails", "unexpected", "errorEvent"}
PROPERTIES RequestsAreAnswered TasksReport KeepsPromises
CHECK_DEADLOCK FALSE
