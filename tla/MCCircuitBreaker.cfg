SPECIFICATION Spec
CONSTANTS
    Callers = {c1, c2, c3}
    MinSamples = 2
    Timeout = 2
    Window = 3
    CallBound = 2
    LimiterFails = TRUE
    MaxTime = 12
    MaxTotal = 4
CHECK_DEADLOCK FALSE
INVARIANTS TypeOK SingleProbe
PROPERTIES RecoveredByProbe TripEvidenceRecent
