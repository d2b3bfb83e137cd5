SPECIFICATION FairSpec
CONSTANTS
    Approval = {q1}
    Question = {q1}
    Responder = {r1, r2, r3}
    Capacity = 1
    None = none
INVARIANTS
    TypeOK
    SenderInOnePlace
    ToldIsOutcome
PROPERTIES
    ResolvedUnlessRefused
CHECK_DEADLOCK FALSE
