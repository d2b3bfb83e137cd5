SPECIFICATION Spec
CONSTANTS
    MaxExecution = 2
    Message = {m1}
    Request = {r1}
    Route = {"workspace", "follow_up", "review", "setup", "cleanup", "dev_server", "archive",
             "archive_script", "stop", "stop_all", "kill_all", "reset"}
    Config <- MCEvery
    MaxRequest = 2
    MaxCrash = 1
    MaxError = 1
    None = None
INVARIANTS TypeOK  LiveIsReachable MessageOnce OneEnd
CHECK_DEADLOCK FALSE
