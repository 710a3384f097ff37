SPECIFICATION FairSpec
CONSTANTS
    Clients = {c1, c2}
CHECK_DEADLOCK FALSE
PROPERTIES ClientIsSubscribed
