\* Two threads stop the same object.
SPECIFICATION Spec
CONSTANTS
    Callers = {c1, c2}
    Worker = worker
    Calls = {"start", "stop"}
    Timeouts = {"none", "untimed"}
    Results = {"succeeded"}
    SelfStop = FALSE
    MaxRuns = 1
    MaxPosted = 2
SYMMETRY CallerSymmetry
INVARIANT HookBeforeFinish
CHECK_DEADLOCK FALSE
