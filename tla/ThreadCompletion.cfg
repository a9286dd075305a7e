\* One owner thread waits for the completion of a thread that has ended.
SPECIFICATION FairSpec
CONSTANTS
    Callers = {owner}
    Worker = worker
    Calls = {"start", "stop", "waitForCompletion"}
    Timeouts = {"none", "untimed"}
    Results = {"succeeded"}
    SelfStop = FALSE
    MaxRuns = 1
    MaxPosted = 2
PROPERTY CompletionReturns
CHECK_DEADLOCK FALSE
