SPECIFICATION FairSpec
CONSTANTS
    Room = {r1, r2}
    Root = {d1}
    Name = {n1, n2}
    FirstName = {n1}
    Site = {s1}
    FirstSite = {s1}
    MaxUpdate = 1
    MaxFailure = 1
    None = None
INVARIANTS TypeOK UserFilesKept StoreAgrees
PROPERTIES UpgradeCompletes
CHECK_DEADLOCK FALSE
