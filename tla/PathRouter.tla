----------------------------- MODULE PathRouter -----------------------------
(***************************************************************************)
(* PathRouter (geometry/pathrouter): a path of horizontal and vertical     *)
(* lines around rectangles.  calcluatePath() adds lines until one reaches  *)
(* the destination (pass 1), merges and consolidates them (pass 2), and    *)
(* moves those that lie near an obstacle away from it (pass 3).            *)
(* Coordinates are whole: rounding them changes nothing.                   *)
(***************************************************************************)
EXTENDS FlatGeometry

CONSTANTS Problems,   \* what there is to route: see ProblemAssumption
          Infinity,   \* above every distance
          Junk,       \* what a conversion of infinity or NaN to int may give
          MaxCycles   \* MAX_CYCLES of pass 1

ProblemAssumption ==
    /\ Infinity \in Nat /\ MaxCycles \in Nat /\ Junk \subseteq Int
    /\ \A p \in Problems :
         /\ p.initialDirection \in Directions \cup {NoDirection}
         /\ p.firstSegmentLength \in Nat
         /\ p.routingMargin > 0 /\ p.routingMargin % 2 = 0
         /\ {p.consolidate, p.aroundMargins} \subseteq BOOLEAN
         /\ \A i \in DOMAIN p.obstacles : RectIsValid(p.obstacles[i])

VARIABLES problem,       \* what the constructor and the setters were given
          pathLines,     \* _pathLines
          direction,     \* _direction
          forceDirection, initialDirectionForced,
          complete,      \* _complete
          originObstacle, destinationObstacle,
          a,             \* the point pass 1 has come to
          cycles,        \* of pass 1
          i,             \* the line at which pass 2 or 3 is
          triesAtIndex,  \* of pass 3
          phase          \* where calcluatePath() is

searchVars == <<direction, forceDirection, initialDirectionForced, complete,
                originObstacle, destinationObstacle, a, cycles>>
routerVars == <<problem, pathLines, searchVars, i, triesAtIndex, phase>>

b == problem.destination

-----------------------------------------------------------------------------
(* Obstacles.                                                              *)

(* The obstacle edges that the line meets.  A line across the axes throws, *)
(* which counts as no crossing.                                            *)
Crossings(l, ignored) ==
    LET sides(o) == IF IsHorizontal(l) THEN VerticalLines(o) ELSE HorizontalLines(o)
        met == {m \in (DOMAIN problem.obstacles) \X {1, 2} :
                  /\ problem.obstacles[m[1]] \notin ignored
                  /\ Intersects(l, sides(problem.obstacles[m[1]])[m[2]])}
    IN  IF ~IsPerpendicular(l) THEN {}
        ELSE {[order |-> 2 * m[1] + m[2],
               obstacle |-> problem.obstacles[m[1]],
               at |-> Intersection(l, sides(problem.obstacles[m[1]])[m[2]])] : m \in met}

LineCrossesObstacle(l, ignored) == Crossings(l, ignored) # {}

FirstCrossing(l, ignored) ==
    LET d(c) == SquaredDistance(l.p1, c.at)
    IN  CHOOSE c \in Crossings(l, ignored) : \A e \in Crossings(l, ignored) :
            d(c) < d(e) \/ (d(c) = d(e) /\ c.order <= e.order)

FirstObstacle(Test(_)) ==
    LET found == {n \in DOMAIN problem.obstacles : Test(problem.obstacles[n])}
    IN  IF found = {} THEN NullRectangle ELSE problem.obstacles[Min(found)]

ObstacleAround(p) == FirstObstacle(LAMBDA o : RectContains(Grown(o, 1), p))

EdgesAt(o, p) == {k \in 1 .. 4 : ContainsPoint(Edges(o)[k], p)}

ObstacleWithEdgeAt(p) == FirstObstacle(LAMBDA o : EdgesAt(o, p) # {})

EdgeAt(p) == Edges(ObstacleWithEdgeAt(p))[Min(EdgesAt(ObstacleWithEdgeAt(p), p))]

-----------------------------------------------------------------------------
(* Directions and distances.                                               *)

(* The longer way first.  An excluded choice gives way to the other one,   *)
(* which may be just as excluded; b at the height of p counts as below it. *)
ChooseDirection(p, q, exclude) ==
    LET across == IF IsPointRightOf(q, p) THEN "ToRight" ELSE "ToLeft"
        along == IF IsPointAbove(q, p) THEN "Up" ELSE "Down"
        across_first == Absolute(p.x - q.x) >= Absolute(p.y - q.y)
        first == IF across_first THEN across ELSE along
        second == IF across_first THEN along ELSE across
    IN  IF p.x = q.x THEN (IF along \in exclude THEN NoDirection ELSE along)
        ELSE IF first \in exclude THEN second ELSE first

ChooseDirections(p, q) ==
    LET first == ChooseDirection(p, q, {NoDirection})
    IN  SelectSeq(<<first, ChooseDirection(p, q, {first})>>, LAMBDA d : d # NoDirection)

DistanceInDirection(p, towards, target) ==
    LET foot == IF towards \in {"Up", "Down"} THEN Point(p.x, target.y)
                ELSE Point(target.x, p.y)
    IN  IF towards # NoDirection /\ LiesInDirection(target, towards, p)
           /\ foot # NullPoint
        THEN AxisLength(Line(p, foot)) ELSE Infinity

(* Down, for a line without length.                                        *)
DirectionOfLine(l) == IF IsValid(l) THEN DirectionOf(l) ELSE "Down"

(* qRound() of a distance and of its half.                                 *)
Rounded(distance, junk) == IF distance = Infinity THEN junk ELSE distance

RoundedHalf(distance, junk) ==
    IF distance = Infinity THEN junk ELSE (distance + 1) \div 2

RayInDirection(p, towards) ==
    Line(p, CASE towards = "Up" -> Point(p.x, 0)
              [] towards = "Down" -> Point(p.x, Bottom(problem.canvas))
              [] towards = "ToLeft" -> Point(0, p.y)
              [] towards = "ToRight" -> Point(Right(problem.canvas), p.y)
              [] OTHER -> NullPoint)

(* The line ends level with the target if it runs past it.                 *)
ReduceLineToTarget(l, towards, target) ==
    CASE towards \in {"Up", "Down"} /\ LiesInDirection(l.p2, towards, target) ->
           Line(l.p1, Point(l.p2.x, target.y))
      [] towards \in {"ToLeft", "ToRight"} /\ LiesInDirection(l.p2, towards, target) ->
           Line(l.p1, Point(target.x, l.p2.y))
      [] OTHER -> l

(* Away from the origin by margins, as long as that is on the canvas,      *)
(* until a ray on the other axis, of the limit's length if there is one,   *)
(* is clear.  With a limit the line returned goes to the end of the ray.   *)
SeekClearLine(p, moveAxis, seekAxis, limit, fresh, junk) ==
    LET first == IF fresh /\ problem.firstSegmentLength # 0
                 THEN problem.firstSegmentLength ELSE problem.routingMargin
        at(n) == IF n = 0 THEN p
                 ELSE MovePoint(p, moveAxis, first + (n - 1) * problem.routingMargin)
        whole(n) == RayInDirection(at(n), seekAxis)
        ray(n) == IF limit = 0 THEN whole(n)
                  ELSE IF IsValid(whole(n))
                  THEN LineInDirection(at(n), DirectionOf(whole(n)), limit)
                  ELSE Line(at(n), Point(junk, junk))
        steps == Greater(problem.canvas.w, problem.canvas.h) \div problem.routingMargin + 2
        clear == {n \in 1 .. steps :
                    /\ RectContains(problem.canvas, p)
                    /\ RectContains(problem.canvas, at(n - 1))
                    /\ ~LineCrossesObstacle(ray(n), {destinationObstacle})}
    IN  IF clear = {} THEN NoLine
        ELSE Line(p, IF limit = 0 THEN at(Min(clear)) ELSE ray(Min(clear)).p2)

-----------------------------------------------------------------------------
(* Lists of lines.                                                         *)

(* A run of lines on one axis becomes one line in the direction of its     *)
(* first, across all of them, but to the start of the line that follows.   *)
Merged(run, following) ==
    LET l == run[1]
        low == Point(Min({MinX(run[n]) : n \in DOMAIN run}), Min({MinY(run[n]) : n \in DOMAIN run}))
        high == Point(Max({MaxX(run[n]) : n \in DOMAIN run}), Max({MaxY(run[n]) : n \in DOMAIN run}))
        new == CASE DirectionOf(l) \in {"Down", "ToRight"} -> Line(low, high)
                 [] DirectionOf(l) \in {"Up", "ToLeft"} -> Line(high, low)
                 [] OTHER -> Line(Point(-1, l.p1.y), Point(-1, l.p1.y))
    IN  IF following = <<>> THEN new ELSE Line(new.p1, following[1].p1)

MergeAdjacentLines(lines) ==
    LET end(n) == Min({m \in n + 1 .. Len(lines) : ~SharesAxisWith(lines[n], lines[m])}
                      \cup {Len(lines) + 1})
        from[n \in 1 .. Len(lines) + 1] ==
            IF n > Len(lines) THEN <<>>
            ELSE <<IF end(n) = n + 1 THEN lines[n]
                   ELSE Merged(SubSeq(lines, n, end(n) - 1),
                               SubSeq(lines, end(n), Len(lines)))>>
                 \o from[end(n)]
    IN  from[1]

CountAdjacentLines(lines) ==
    Cardinality({n \in 1 .. Len(lines) - 1 : SharesAxisWith(lines[n], lines[n + 1])})

(* "count" lines from "index" on, or as many as there are, are replaced.   *)
ReplaceLines(index, count, newLines) ==
    SubSeq(pathLines, 1, index - 1) \o newLines
        \o SubSeq(pathLines, index + count, Len(pathLines))

Constrained(l) ==
    IF /\ problem.verticalConstraint >= 0
       /\ l.p1.x < problem.verticalConstraint /\ problem.verticalConstraint < l.p2.x
    THEN Line(l.p1, Point(problem.verticalConstraint, l.p2.y)) ELSE l

AppendPathLines(lines) ==
    pathLines' = pathLines \o [n \in DOMAIN lines |-> Constrained(lines[n])]

-----------------------------------------------------------------------------
Init ==
    /\ problem = <<>> /\ pathLines = <<>>
    /\ direction = NoDirection /\ forceDirection = NoDirection
    /\ initialDirectionForced = FALSE /\ complete = FALSE
    /\ originObstacle = NullRectangle /\ destinationObstacle = NullRectangle
    /\ a = NullPoint /\ cycles = 0
    /\ i = 0 /\ triesAtIndex = <<>>
    /\ phase = "none"

Configure ==
    /\ phase = "none"
    /\ problem' \in Problems
    /\ forceDirection' = problem'.initialDirection
    /\ phase' = "new"
    /\ UNCHANGED <<pathLines, direction, initialDirectionForced, complete,
                   originObstacle, destinationObstacle, a, cycles, i, triesAtIndex>>

(* Pass 1: the steps of a cycle, until one adds a line.                    *)
StartPass1 ==
    /\ phase = "new"
    /\ initialDirectionForced' = (forceDirection # NoDirection)
    /\ originObstacle' = ObstacleAround(problem.origin)
    /\ destinationObstacle' = ObstacleAround(b)
    /\ a' = problem.origin
    /\ phase' = "direct"
    /\ UNCHANGED <<problem, pathLines, direction, forceDirection, complete, cycles,
                   i, triesAtIndex>>

InPass1(from) ==
    /\ phase = from
    /\ UNCHANGED <<problem, initialDirectionForced, originObstacle,
                   destinationObstacle, a, cycles, i, triesAtIndex>>

FindDirectShot ==
    /\ InPass1("direct")
    /\ IF /\ IsPerpendicular(Line(a, b))
          /\ ~LineCrossesObstacle(Line(a, b), {originObstacle, destinationObstacle})
       THEN AppendPathLines(<<Line(a, b)>>) /\ complete' = TRUE /\ phase' = "added"
       ELSE UNCHANGED <<pathLines, complete>> /\ phase' = "choose"
    /\ UNCHANGED <<direction, forceDirection>>

(* To the closest corner of the obstacle; it lies in some direction.       *)
TakeClosestCorner(obstacle) ==
    /\ AppendPathLines(<<Line(a, ClosestCorner(obstacle, a))>>)
    /\ direction' = ChooseDirection(a, ClosestCorner(obstacle, a), {NoDirection})

ChooseNextDirection ==
    LET new == ChooseDirection(a, b, {direction, OppositeDirection[direction]})
        obstacle == ObstacleWithEdgeAt(a)
    IN  /\ InPass1("choose")
        /\ forceDirection' = NoDirection
        /\ \/ /\ forceDirection # NoDirection
              /\ direction' = forceDirection
              /\ UNCHANGED pathLines /\ phase' = "lshot"
           \/ /\ forceDirection = NoDirection /\ new # NoDirection
              /\ direction' = new
              /\ UNCHANGED pathLines /\ phase' = "lshot"
           \/ /\ forceDirection = NoDirection /\ new = NoDirection
              /\ IF obstacle = NullRectangle
                 THEN UNCHANGED <<pathLines, direction>> /\ phase' = "lshot"
                 ELSE TakeClosestCorner(obstacle) /\ phase' = "added"
        /\ UNCHANGED complete

(* Half of the way in the best direction, across, and on to b.  If b lies  *)
(* at the height of a there is no distance across, and the jog is junk.    *)
LShot(best, jog, junk) ==
    LET turn == MovePoint(a, best, RoundedHalf(DistanceInDirection(a, best, b), junk))
        end == MovePoint(turn, jog, Rounded(DistanceInDirection(turn, jog, b), junk))
    IN  <<Line(a, turn), Line(turn, end), Line(end, b)>>

LShots ==
    LET directions == ChooseDirections(a, b)
    IN  IF Len(directions) < 2 THEN {<<>>}
        ELSE {LShot(directions[1], directions[2], junk) : junk \in Junk}

SimpleLShot ==
    /\ InPass1("lshot")
    /\ \E shot \in LShots :
         IF Len(shot) = 3 /\ \A l \in Range(shot) : ~LineCrossesObstacle(l, {})
         THEN AppendPathLines(shot) /\ phase' = "added"
         ELSE UNCHANGED pathLines /\ phase' = "wayoff"
    /\ UNCHANGED <<direction, forceDirection, complete>>

LastLineDirection ==
    IF pathLines = <<>> THEN NoDirection ELSE DirectionOf(Last(pathLines))

(* The directions to b, but not back to where the last line came from.     *)
TargetDirections ==
    {d \in Range(ChooseDirections(a, b)) : d # OppositeDirection[LastLineDirection]}

LiesOnAppropriateCorner(obstacle, directions) ==
    \/ a = TopRight(obstacle) /\ directions \cap {"Up", "ToRight"} # {}
    \/ a = TopLeft(obstacle) /\ directions \cap {"Up", "ToLeft"} # {}
    \/ a = BottomLeft(obstacle) /\ directions \cap {"Down", "ToLeft"} # {}
    \/ a = BottomRight(obstacle) /\ directions \cap {"Down", "ToRight"} # {}

PathOffInDirections(obstacle, directions) ==
    Shortest(SelectSeq([c \in 1 .. 4 |-> Line(a, Corners(obstacle)[c])],
                       LAMBDA l : DirectionOf(l) \in directions))

FindWayOffObstacle ==
    LET obstacle == ObstacleWithEdgeAt(a)
        edge == EdgeAt(a)
        pathOff == PathOffInDirections(obstacle, TargetDirections)
    IN  /\ InPass1("wayoff")
        /\ CASE obstacle # NullRectangle /\ obstacle = destinationObstacle
                /\ edge = ClosestEdge(destinationObstacle, b) ->
                  /\ AppendPathLines(<<Line(a, ClosestPointTo(edge, b)),
                                       Line(ClosestPointTo(edge, b), b)>>)
                  /\ UNCHANGED direction /\ phase' = "added"
             [] /\ obstacle \notin {NullRectangle, destinationObstacle}
                /\ ~LiesOnAppropriateCorner(obstacle, TargetDirections)
                /\ IsValid(pathOff) ->
                  /\ AppendPathLines(<<pathOff>>)
                  /\ direction' = DirectionOf(pathOff) /\ phase' = "added"
             [] OTHER -> UNCHANGED <<pathLines, direction>> /\ phase' = "next"
        /\ UNCHANGED <<forceDirection, complete>>

(* The ray meets an obstacle: up to the height of b if that comes first,   *)
(* off the obstacle if a lies on it, else to the obstacle or, if that      *)
(* would lead back past a, half of the way there.                          *)
GoTowardsObstacle(c) ==
    LET toB == DistanceInDirection(a, direction, b)
        toObstacle == Line(a, c.at)
        toTarget == ReduceLineToTarget(toObstacle, direction, b)
    IN  CASE toB < AxisLength(toObstacle) ->
               /\ AppendPathLines(<<LineInDirection(a, direction, toB)>>)
               /\ UNCHANGED <<direction, forceDirection>>
          [] toB >= AxisLength(toObstacle) /\ ~IsValid(toObstacle) ->
               TakeClosestCorner(c.obstacle) /\ UNCHANGED forceDirection
          [] OTHER ->
               /\ UNCHANGED direction
               /\ IF SquaredLength(toTarget) <= SquaredLength(toObstacle)
                  THEN /\ AppendPathLines(<<toTarget>>)
                       /\ forceDirection' =
                            ChooseDirection(a, b, {DirectionOfLine(toTarget)})
                  ELSE /\ AppendPathLines(<<Line(a, Midpoint(toObstacle))>>)
                       /\ UNCHANGED forceDirection

(* A clear line on the axis of b or, failing that, lines no longer than    *)
(* the distances to b: each of the two that is found starts at a.          *)
LinesToSeek(desired, junk) ==
    LET whole == SeekClearLine(a, direction, desired, 0, pathLines = <<>>, junk)
        Limited(d, fresh) ==
            LET distance == DistanceInDirection(a, d, b)
            IN  IF distance = Infinity THEN <<>>
                ELSE WithoutZeroLength(<<SeekClearLine(a, direction, d, distance, fresh, junk)>>)
        ds == ChooseDirections(a, b)
        first == Limited(ds[1], pathLines = <<>>)
        second == IF Len(ds) = 2 THEN Limited(ds[2], pathLines \o first = <<>>) ELSE <<>>
    IN  IF IsValid(whole) THEN <<whole>> ELSE first \o second

FindNextPoint ==
    LET ignored == {originObstacle, ObstacleWithEdgeAt(a)}
        ray == RayInDirection(a, direction)
        desired == ChooseDirection(a, b, {NoDirection})
    IN  /\ InPass1("next")
        /\ \/ /\ LineCrossesObstacle(ray, ignored)
              /\ GoTowardsObstacle(FirstCrossing(ray, ignored))
           \/ /\ ~LineCrossesObstacle(ray, ignored)
              /\ desired # direction
              /\ \E junk \in Junk : AppendPathLines(LinesToSeek(desired, junk))
              /\ UNCHANGED <<direction, forceDirection>>
           \/ /\ ~LineCrossesObstacle(ray, ignored)
              /\ desired = direction
              /\ AppendPathLines(<<ReduceLineToTarget(ray, direction, b)>>)
              /\ UNCHANGED <<direction, forceDirection>>
        /\ phase' = "added"
        /\ UNCHANGED complete

(* The end of a cycle.  Two equal lines at the end mean failure.  With no  *)
(* line at all last() reads beyond the list.                               *)
LastLineRepeated ==
    Len(pathLines) >= 2 /\ pathLines[Len(pathLines) - 1] = Last(pathLines)

(* A version of EndCycle that does not look at the count of cycles.        *)
EndCycleUncounted ==
    /\ phase = "added"
    /\ \/ pathLines = <<>> /\ phase' = "broken" /\ UNCHANGED <<a, cycles>>
       \/ LastLineRepeated /\ phase' = "pass2" /\ UNCHANGED <<a, cycles>>
       \/ /\ pathLines # <<>> /\ ~LastLineRepeated
          /\ a' = Last(pathLines).p2
          /\ cycles' = cycles + 1
          /\ phase' = IF complete THEN "pass2" ELSE "direct"
    /\ UNCHANGED <<problem, pathLines, direction, forceDirection, complete,
                   initialDirectionForced, originObstacle, destinationObstacle, i,
                   triesAtIndex>>

EndCycle ==
    /\ phase = "added"
    /\ \/ pathLines = <<>> /\ phase' = "broken" /\ UNCHANGED <<a, cycles>>
       \/ LastLineRepeated /\ phase' = "pass2" /\ UNCHANGED <<a, cycles>>
       \/ /\ pathLines # <<>> /\ ~LastLineRepeated
          /\ a' = Last(pathLines).p2
          /\ cycles' = cycles + 1
          /\ phase' = IF cycles > MaxCycles \/ complete THEN "pass2" ELSE "direct"
    /\ UNCHANGED <<problem, pathLines, direction, forceDirection, complete,
                   initialDirectionForced, originObstacle, destinationObstacle, i,
                   triesAtIndex>>

-----------------------------------------------------------------------------
(* Pass 2: three lines that run around a rectangle without obstacles.      *)
StartPass2 ==
    /\ phase = "pass2"
    /\ pathLines' = MergeAdjacentLines(WithoutZeroLength(pathLines))
    /\ i' = 1
    /\ phase' = IF problem.consolidate THEN "consolidate" ELSE "consolidated"
    /\ UNCHANGED <<problem, searchVars, triesAtIndex>>

(* The direction that closes three lines in three directions: the first of *)
(* those missing, as an oblique line has none.                             *)
FinalDirection(three) ==
    LET order == <<"Up", "Down", "ToLeft", "ToRight">>
        missing == {k \in 1 .. 4 : order[k] \notin {DirectionOf(l) : l \in Range(three)}}
    IN  order[Min(missing)]

(* The rectangle that the ray back to the first line closes; a crossing    *)
(* between whole coordinates is a corner of none.                          *)
RectangleOfThreeLines(three) ==
    LET ray == RayInDirection(three[3].p2, FinalDirection(three))
    IN  IF /\ Cardinality({DirectionOf(l) : l \in Range(three)}) = 3
           /\ Intersects(ray, three[1]) /\ IsWhole(ray, three[1])
        THEN FromPoints(<<Intersection(ray, three[1]), three[1].p2, three[2].p2,
                          three[3].p2>>)
        ELSE NullRectangle

(* A version of RectangleCrossesObstacle that finds every rectangle clear. *)
NoRectangleCrosses(r) == FALSE

RectangleCrossesObstacle(r) ==
    \E o \in Range(problem.obstacles) \ {r} : RectIntersects(r, o)

Consolidate ==
    LET three == SubSeq(pathLines, i, i + 2)
        corner == Intersection(RayInDirection(three[3].p2, FinalDirection(three)), three[1])
    IN  /\ phase = "consolidate"
        /\ \/ /\ i > Len(pathLines) - 2
              /\ phase' = "consolidated" /\ UNCHANGED <<pathLines, i>>
           \/ /\ i <= Len(pathLines) - 2 /\ UNCHANGED phase
              /\ IF /\ ~(i = 1 /\ initialDirectionForced)
                    /\ RectIsValid(RectangleOfThreeLines(three))
                    /\ ~RectangleCrossesObstacle(RectangleOfThreeLines(three))
                 THEN /\ pathLines' = ReplaceLines(i, 3, <<Line(three[1].p1, corner),
                                                           Line(corner, three[3].p2)>>)
                      /\ i' = Greater(1, i - 3) + 1
                 ELSE UNCHANGED pathLines /\ i' = i + 1
        /\ UNCHANGED <<problem, searchVars, triesAtIndex>>

FinishPass2 ==
    /\ phase = "consolidated"
    /\ pathLines' = MergeAdjacentLines(WithoutZeroLength(pathLines))
    /\ i' = 1
    /\ phase' = IF problem.aroundMargins THEN "pass3" ELSE "done"
    /\ UNCHANGED <<problem, searchVars, triesAtIndex>>

-----------------------------------------------------------------------------
(* Pass 3: a line that lies near an obstacle is moved off it, by a margin. *)
MaxTries == 3

(* A version of Tries that does not remember.                              *)
TriesForgotten(n) == 0

Tries(n) == IF n \in DOMAIN triesAtIndex THEN triesAtIndex[n] ELSE 0

IsNear(l, o) ==
    \E edge \in Range(IF IsVertical(l) THEN VerticalLines(o) ELSE HorizontalLines(o)) :
        \/ RectContains(FromCenterLine(l, problem.routingMargin), edge.p1)
        \/ RectContains(FromCenterLine(l, problem.routingMargin), edge.p2)
        \/ RectContains(FromCenterLine(edge, problem.routingMargin), l.p2)

NearObstacle(l) == FirstObstacle(LAMBDA o : IsNear(l, o))

DirectionOffObstacle(l, obstacle) ==
    LET choices == IF IsHorizontal(l) THEN <<"Up", "Down">> ELSE <<"ToLeft", "ToRight">>
        off == {k \in 1 .. 2 : ~ContainsAnyPoint(obstacle, MoveLine(l, choices[k], 1))}
    IN  IF off = {} THEN NoDirection ELSE choices[Min(off)]

Moved == MoveLine(pathLines[i], DirectionOffObstacle(pathLines[i], NearObstacle(pathLines[i])),
                  problem.routingMargin)

(* The line before, the moved line, and a line to where the path goes on.  *)
(* They take the place of as many lines as they are after merging.         *)
LinesMoved ==
    LET onward == IF i < Len(pathLines) THEN pathLines[i + 1].p2 ELSE pathLines[i].p2
    IN  MergeAdjacentLines(WithoutZeroLength(
            <<Line(pathLines[i - 1].p1, Moved.p1), Moved, Line(Moved.p2, onward)>>))

(* Where the moved line meets an obstacle it turns back by a margin.       *)
Obstruction == FirstCrossing(Moved, {}).at

LinesAround ==
    LET off == DirectionOffObstacle(pathLines[i], NearObstacle(pathLines[i]))
        back == MovePoint(Obstruction, OppositeDirection[off], problem.routingMargin)
    IN  <<Line(pathLines[i - 1].p1, Moved.p1), Line(Moved.p1, Obstruction),
          Line(Obstruction, back), Line(back, pathLines[i].p2)>>

CanMove ==
    /\ NearObstacle(pathLines[i]) # NullRectangle
    /\ i > 1
    /\ SquaredLength(pathLines[i - 1]) >= problem.routingMargin * problem.routingMargin

CanGoAround ==
    DistanceInDirection(Moved.p1, DirectionOf(Moved), Obstruction) >= problem.routingMargin

(* A line near an obstacle also makes the loop merge what lies on one axis *)
(* and back up, but not before the second line.                            *)
MoveOn(lines, at) ==
    LET adjacent == CountAdjacentLines(lines)
    IN  IF NearObstacle(pathLines[i]) # NullRectangle /\ i > 1 /\ adjacent > 0
        THEN /\ pathLines' = MergeAdjacentLines(lines)
             /\ i' = Greater(at - adjacent, 2) + 1
        ELSE pathLines' = lines /\ i' = at + 1

ApplyMargin ==
    /\ phase = "pass3"
    /\ i <= Len(pathLines)
    /\ \/ /\ Tries(i) >= MaxTries
          /\ i' = i + 1 /\ UNCHANGED <<pathLines, triesAtIndex>>
       \/ /\ Tries(i) < MaxTries /\ CanMove /\ ~LineCrossesObstacle(Moved, {})
          /\ MoveOn(ReplaceLines(i - 1, Len(LinesMoved), LinesMoved), i - 1)
          /\ triesAtIndex' = (i :> Tries(i) + 1) @@ triesAtIndex
       \/ /\ Tries(i) < MaxTries /\ CanMove /\ LineCrossesObstacle(Moved, {})
          /\ CanGoAround
          /\ MoveOn(ReplaceLines(i - 1, 2, LinesAround), i - 1)
          /\ triesAtIndex' = (i :> Tries(i) + 1) @@ triesAtIndex
       \/ /\ Tries(i) < MaxTries
          /\ ~CanMove \/ (LineCrossesObstacle(Moved, {}) /\ ~CanGoAround)
          /\ MoveOn(pathLines, i) /\ UNCHANGED triesAtIndex
    /\ UNCHANGED <<problem, searchVars, phase>>

FinishPass3 ==
    /\ phase = "pass3"
    /\ i > Len(pathLines)
    /\ phase' = "done"
    /\ UNCHANGED <<problem, pathLines, searchVars, i, triesAtIndex>>

Route ==
    \/ StartPass1
    \/ FindDirectShot \/ ChooseNextDirection \/ SimpleLShot
    \/ FindWayOffObstacle \/ FindNextPoint \/ EndCycle
    \/ StartPass2 \/ Consolidate \/ FinishPass2
    \/ ApplyMargin \/ FinishPass3

Next == Configure \/ Route

(* calcluatePath() is one call: it goes on until it returns.  (This is weak *)
(* fairness of Route, which can always go on but in these phases.)         *)
Progress == []<>(phase \in {"none", "done", "broken"}) \/ []<><<TRUE>>_routerVars

Spec == Init /\ [][Next]_routerVars /\ Progress

-----------------------------------------------------------------------------
Phases ==
    {"none", "new", "direct", "choose", "lshot", "wayoff", "next", "added", "pass2",
     "consolidate", "consolidated", "pass3", "done", "broken"}

(* The state is one that calcluatePath() can be in, and the bounds that    *)
(* end passes 1 and 3 are kept.                                            *)
TypeOK ==
    /\ phase \in Phases
    /\ \A l \in Range(pathLines) : {l.p1.x, l.p1.y, l.p2.x, l.p2.y} \subseteq Int
    /\ {direction, forceDirection} \subseteq Directions \cup {NoDirection}
    /\ cycles \in 0 .. MaxCycles + 2
    /\ \A n \in DOMAIN triesAtIndex : triesAtIndex[n] \in 1 .. MaxTries

(* The ends keep a margin from the obstacles, the obstacles two margins    *)
(* from each other, and nothing constrains the route.                      *)
WellPosed ==
    LET os == problem.obstacles
        grown(n) == Grown(os[n], problem.routingMargin)
    IN  /\ problem.initialDirection = NoDirection /\ problem.verticalConstraint < 0
        /\ \A n \in DOMAIN os :
             /\ ~RectContains(grown(n), problem.origin)
             /\ ~RectContains(grown(n), b)
             /\ \A m \in DOMAIN os \ {n} : ~RectIntersects(grown(n), os[m])

Connected == \A n \in 1 .. Len(pathLines) - 1 : pathLines[n].p2 = pathLines[n + 1].p1

RunsThrough(l, o) ==
    /\ IsPerpendicular(l)
    /\ MinX(l) < Right(o) /\ o.x < MaxX(l)
    /\ MinY(l) < Bottom(o) /\ o.y < MaxY(l)

OnCanvas(l) == RectContains(problem.canvas, l.p1) /\ RectContains(problem.canvas, l.p2)

BetweenPasses ==
    \/ phase = "pass2"
    \/ phase = "pass3" /\ i = 1 /\ triesAtIndex = <<>>
    \/ phase = "done" /\ ~problem.aroundMargins

(* What pass 1 finds and pass 2 shortens is one chain of lines from the    *)
(* origin, horizontal or vertical except for a jog that left the canvas;   *)
(* once complete it ends at the destination and runs through no obstacle.  *)
(* (Merging and consolidating replace lines in the middle of the chain.)   *)
RouteBeforeMargins ==
    (phase # "none" /\ WellPosed /\ BetweenPasses) =>
        /\ Connected
        /\ pathLines # <<>> => pathLines[1].p1 = problem.origin
        /\ \A l \in Range(pathLines) : OnCanvas(l) => IsPerpendicular(l)
        /\ complete => /\ pathLines = <<>> \/ Last(pathLines).p2 = b
                       /\ \A l \in Range(pathLines), o \in Range(problem.obstacles) :
                            ~RunsThrough(l, o)

(* Every call of calcluatePath() returns, or reads beyond an empty list:   *)
(* passes 2 and 3 move backwards in lists that they rewrite, and pass 1    *)
(* may turn in circles.                                                    *)
CalculationReturns == (phase = "new") ~> (phase \in {"done", "broken"})

(* pathrouter.h: calcluatePath() returns horizontal and vertical lines     *)
(* that connect the origin to the destination.  Pass 3 moves a line that   *)
(* cannot leave an obstacle to either side up, a vertical one along itself *)
(* too, and the lines before and after it are then no longer on an axis.   *)
RouteIsOrthogonal ==
    (phase = "done" /\ WellPosed /\ complete) =>
        Connected /\ \A l \in Range(pathLines) : IsPerpendicular(l)

=============================================================================
