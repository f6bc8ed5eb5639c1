SPECIFICATION PolledSpec
CONSTANTS
    Provisions = {p1}
    Releases = {r1}
    Terminates = {}
    Reads = {}
    Lists = {l1}
    Boot = boot
    NoRequest = nobody
    Patience = "result"
    MaxCrashes = 0
    Faults = {}
PROPERTIES Converges
CHECK_DEADLOCK FALSE
