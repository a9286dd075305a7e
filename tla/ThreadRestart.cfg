\* One owner thread starts the object a second time.
SPECIFICATION Spec
CONSTANTS
    Callers = {owner}
    Worker = worker
    Calls = {"start", "stop"}
    Timeouts = {"none", "untimed"}
    Results = {"succeeded"}
    SelfStop = FALSE
    MaxRuns = 2
    MaxPosted = 2
INVARIANT StopMeansStopped
CHECK_DEADLOCK FALSE
