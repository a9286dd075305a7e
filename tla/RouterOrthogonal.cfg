\* The routes of calcluatePath() around one row of obstacles.
SPECIFICATION Spec
CONSTANTS
    Problems <- MCBlocked
    Infinity = 100000
    Junk <- MCJunk
    MaxCycles = 20
INVARIANT RouteIsOrthogonal
CHECK_DEADLOCK FALSE
