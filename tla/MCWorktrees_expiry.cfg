SPECIFICATION Spec
CONSTANTS
    Repos = 1
    Request = {q1}
    Cleaner = cleaner
    Deleter = deleter
    MaxRequest = 1
    MaxFailure = 0
    MaxTime = 3
    Limits = {1, 72}
    Offsets = {9}
    None = None
PROPERTIES CleanedWhenOld
CHECK_DEADLOCK FALSE
