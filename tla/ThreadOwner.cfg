\* One owner thread, one run of the worker.
SPECIFICATION FairSpec
CONSTANTS
    Callers = {owner}
    Worker = worker
    Calls = {"start", "stop", "waitForStart", "waitForCompletion", "abort", "destroy"}
    Timeouts = {"none", "timed", "untimed"}
    Results = {"succeeded", "failed"}
    SelfStop = FALSE
    MaxRuns = 1
    MaxPosted = 2
INVARIANTS
    TypeOK
    StopMeansWoundDown
    OrderlyFinish
    RunLeavesNothing
PROPERTIES
    FirstCompletionWins
    CallsReturn
\* The owner may destroy the object, or wait forever for a second end of a run.
CHECK_DEADLOCK FALSE
