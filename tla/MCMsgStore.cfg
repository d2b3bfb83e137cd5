SPECIFICATION FairSpec
CONSTANTS
    Producer = {out}
    Forwarder = out
    Amount <- MCAmount
    Client = {c1}
    Closer = {monitor, stop}
    Size <- MCSize
    HistoryBytes = 3
    Capacity = 2
    Writer = writer
    End = end
    None = none
INVARIANTS TypeOK HistoryBounded NothingElseLost
PROPERTIES FeedImplemented ListenersEnd
CHECK_DEADLOCK FALSE
