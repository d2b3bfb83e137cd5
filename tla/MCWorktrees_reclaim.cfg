SPECIFICATION FairSpec
CONSTANTS
    Repos = 2
    Request = {q1}
    Cleaner = cleaner
    Deleter = deleter
    MaxRequest = 2
    MaxFailure = 1
    MaxTime = 1
    Limits = {0}
    Offsets = {0}
    None = None
PROPERTIES RequestEnds ExpiredCleaned
CHECK_DEADLOCK FALSE
