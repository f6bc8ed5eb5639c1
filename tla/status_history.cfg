SPECIFICATION Spec
CONSTANTS
    Timeout = 2
    StartTimes <- MCStartTimes
    Horizon = 9
    MaxResults = 4
INVARIANTS DropIsDetected NeverFailedEarly TransientIsBounded
PROPERTIES FailureOutlastsTime
CHECK_DEADLOCK FALSE
