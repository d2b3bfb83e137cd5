SPECIFICATION Spec
CONSTANTS
    Name = {}
    LibraryPath = {}
    Rules = rules
    Context = context
    Decisions = decisions
    MaxVersion = 2
    None = none
    CopyPath <- MCCopyPath
    Loop = loop
    Request = {}
    RequestOp = {}
    Slot = {s1}
    UserDoc = {context}
    AgentDoc = {context}
    Managed = {}
    Extends <- MCExtends
    MaxFault = 0
PROPERTIES
    NoContextLost
