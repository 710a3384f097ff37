SPECIFICATION FairSpec
CONSTANTS
    Notifications = {n1}
    Workers = {w1}
    Clients = {c1}
    MaxRetries = 1
    PollLimit = 1
    MaxCopies = 1
    MaxFaults = 0
    Faults = {}
    None = None
CHECK_DEADLOCK FALSE
PROPERTIES FinalStays
