\* Two threads use the object, which may be started again.
SPECIFICATION Spec
CONSTANTS
    Callers = {c1, c2}
    Worker = worker
    Calls = {"start", "stop", "waitForCompletion", "destroy"}
    Timeouts = {"none", "timed"}
    Results = {"succeeded"}
    SelfStop = TRUE
    MaxRuns = 2
    MaxPosted = 1
SYMMETRY CallerSymmetry
INVARIANTS
    SignalMeansWoundDown
PROPERTIES
    ImplementsWorkerLife
CHECK_DEADLOCK FALSE
