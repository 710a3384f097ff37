SPECIFICATION FairSpec
CONSTANTS
    Rows = {1, 2, 3}
    Chosen = {1, 3}
    DefaultLimit = 2
    MaxLimit = 2
    Limits = {0, 1, 5}
    MaxTime = 1
    NoLimit = NoLimit
    NoCursor = NoCursor
CHECK_DEADLOCK FALSE
INVARIANTS TypeOK PagesDescend NothingSkipped
PROPERTIES ListingEnds
