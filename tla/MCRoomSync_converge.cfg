SPECIFICATION FairSpec
CONSTANTS
    Name = {n1}
    LibraryPath = {lib}
    Rules = rules
    Context = context
    Decisions = decisions
    MaxVersion = 2
    None = none
    CopyPath <- MCCopyPath
    Loop = loop
    Request = {}
    RequestOp = {}
    Slot = {s1, s2}
    UserDoc = {context, rules}
    AgentDoc = {context, lib}
    Managed = {}
    Extends <- MCExtends
    MaxFault = 1
PROPERTIES
    RecordsConverge
    RulesConverge
    ContextConverges
