SPECIFICATION FairSpec
CONSTANTS
    MaxExecution = 3
    Message = {m1}
    Request = {r1}
    Route = {"workspace", "stop"}
    Config <- MCSequential
    MaxRequest = 2
    MaxCrash = 0
    MaxError = 1
    None = None
PROPERTIES ExitSettles QueuedHandled
CHECK_DEADLOCK FALSE
