SPECIFICATION Spec
CONSTANTS
    Notifications = {n1, n2}
    Workers = {w1, w2}
    Clients = {c1}
    MaxRetries = 1
    PollLimit = 1
    MaxCopies = 1
    MaxFaults = 1
    Faults = {"crash", "publishErr"}
    None = None
SYMMETRY Symmetry
CHECK_DEADLOCK FALSE
INVARIANTS SettledIsRecorded
PROPERTIES FeedFinal CancelBeforePublish
