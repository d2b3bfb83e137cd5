SPECIFICATION Spec
CONSTANTS
    Name = {n1}
    LibraryPath = {}
    Rules = rules
    Context = context
    Decisions = decisions
    MaxVersion = 2
    None = none
    CopyPath <- MCCopyPath
    Loop = loop
    Request = {r1}
    RequestOp = {"sync", "prepare", "import"}
    Slot = {s1}
    UserDoc = {}
    AgentDoc = {}
    Managed = {}
    Extends <- MCExtends
    MaxFault = 1
INVARIANTS
    TypeOK
    CopyIntegrity
    SyncLockHeld
    UnionPassSettles
PROPERTIES
    RecordsImmutable
