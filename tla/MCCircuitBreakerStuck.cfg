SPECIFICATION FairSpec
CONSTANTS
    Callers = {c1, c2}
    MinSamples = 2
    Timeout = 2
    Window = 3
    CallBound = 2
    LimiterFails = TRUE
    MaxTime = 8
    MaxTotal = 3
CHECK_DEADLOCK FALSE
PROPERTIES HalfOpenResolves
