SPECIFICATION Spec
CONSTANTS
    Repos = 2
    Request = {q1, q2}
    Cleaner = cleaner
    Deleter = deleter
    MaxRequest = 2
    MaxFailure = 1
    MaxTime = 1
    Limits = {0}
    Offsets = {0}
    None = None
INVARIANTS TypeOK ReadyHasTrees
PROPERTIES EnsureKeepsWork
CHECK_DEADLOCK FALSE
