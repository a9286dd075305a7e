-------------------------------- MODULE Shapes -------------------------------
(***************************************************************************)
(* Polygon, and what Line::List, Rectangle and FlatGeo tell of the lines   *)
(* and rectangles it can be taken apart into (geometry/polygon, line,      *)
(* rectangle, flatgeo).  A polygon grows by one point at a time; all the   *)
(* rest is computed from it.  Coordinates are whole numbers.               *)
(***************************************************************************)
EXTENDS FlatGeometry, ShapeTexts

CONSTANTS
    Vertices,       \* the points to make polygons of
    Grid,           \* the points to look for
    MaxPoints       \* bound on the points of a polygon

VARIABLE points     \* _points

Init == points = <<>>

AppendPoint(p) ==
    /\ Len(points) < MaxPoints
    /\ points' = Append(points, p)

Next == \E p \in Vertices : AppendPoint(p)

Spec == Init /\ [][Next]_points

Total(list) == FoldLeft(LAMBDA sum, n : sum + n, 0, list)

-----------------------------------------------------------------------------
(* Polygon                                                                 *)

IsPolygon == Len(points) > 2

Previous(i) == points[IF i = 1 THEN Len(points) ELSE i - 1]
Following(i) == points[IF i = Len(points) THEN 1 ELSE i + 1]

\* Twice area().
DoubleArea ==
    Total([i \in DOMAIN points |->
              points[i].x * Previous(i).y - points[i].y * Previous(i).x])

\* centroid(): where signedArea, half of the sum of the "a", is not 0, the sums are
\* divided by six times it.
PartialArea(ps, i) ==
    LET q == ps[IF i = Len(ps) THEN 1 ELSE i + 1] IN ps[i].x * q.y - q.x * ps[i].y

CentroidSums(ps) ==
    LET next(i) == ps[IF i = Len(ps) THEN 1 ELSE i + 1]
    IN  [x |-> Total([i \in DOMAIN ps |-> (ps[i].x + next(i).x) * PartialArea(ps, i)]),
         y |-> Total([i \in DOMAIN ps |-> (ps[i].y + next(i).y) * PartialArea(ps, i)]),
         area |-> Total([i \in DOMAIN ps |-> PartialArea(ps, i)])]

\* A version of CrossesBelow that counts the points at both ends of an edge.
CrossesBelowAtEnds(old, new, p) ==
    LET left == IF new.x > old.x THEN old ELSE new
        right == IF new.x > old.x THEN new ELSE old
    IN  /\ left.x <= p.x /\ p.x <= right.x
        /\ (p.y - left.y) * (right.x - left.x) < (right.y - left.y) * (p.x - left.x)

\* A line straight down from the point meets the edge from old to new.
CrossesBelow(old, new, p) ==
    LET left == IF new.x > old.x THEN old ELSE new
        right == IF new.x > old.x THEN new ELSE old
    IN  /\ (new.x < p.x) = (p.x <= old.x)
        /\ (p.y - left.y) * (right.x - left.x) < (right.y - left.y) * (p.x - left.x)

PolygonContains(p) ==
    /\ IsPolygon
    /\ FoldLeft(LAMBDA inside, i : inside # CrossesBelow(Previous(i), points[i], p),
                FALSE, [i \in DOMAIN points |-> i])

Lines == [i \in DOMAIN points |-> Line(points[i], Following(i))]

\* numeric_limits::min(), from which the right and the lower side start, is the
\* smallest positive number.
BoundingRectangle ==
    LET left == Min({points[i].x : i \in DOMAIN points})
        top == Min({points[i].y : i \in DOMAIN points})
        right == Max({0} \cup {points[i].x : i \in DOMAIN points})
        bottom == Max({0} \cup {points[i].y : i \in DOMAIN points})
    IN  Rectangle(left, top, right - left, bottom - top)

CreateFromLines(list) == [i \in DOMAIN list |-> list[i].p1]

MinimumXY == Min(UNION {{points[i].x, points[i].y} : i \in DOMAIN points})

Moved(direction, n) == [i \in DOMAIN points |-> MovePoint(points[i], direction, n)]

-----------------------------------------------------------------------------
(* Lines, and lists of them: the first of those that come in question.     *)

TopMostPoint(l) == IF IsPointAbove(l.p1, l.p2) THEN l.p1 ELSE l.p2
BottomMostPoint(l) == IF IsPointBelow(l.p1, l.p2) THEN l.p1 ELSE l.p2
LeftMostPoint(l) == IF IsPointLeftOf(l.p1, l.p2) THEN l.p1 ELSE l.p2
RightMostPoint(l) == IF IsPointRightOf(l.p1, l.p2) THEN l.p1 ELSE l.p2

IsLeftOf(l, m) == MinX(l) < MinX(m)
IsRightOf(l, m) == MaxX(l) > MaxX(m)
IsAbove(l, m) == MinY(l) < MinY(m)
IsBelow(l, m) == MaxY(l) > MaxY(m)

SharesSameEndpoints(l, m) == m \in {l, Line(l.p2, l.p1)}

ContainsLineWithSameEndpoints(list, l) ==
    \E i \in DOMAIN list : SharesSameEndpoints(list[i], l)

\* Does a line that is drawn to the right, or downwards, cross a coordinate?
CrossesX(l, x) == l.p1.x <= x /\ x <= l.p2.x
CrossesY(l, y) == l.p1.y <= y /\ y <= l.p2.y

HasXBetween(l, x1, x2) == \E p \in {l.p1, l.p2} : x1 <= p.x /\ p.x <= x2
HasYBetween(l, y1, y2) == \E p \in {l.p1, l.p2} : y1 <= p.y /\ p.y <= y2

\* makeRectangle(), of a line along an axis.
MakeRectangle(l, n) ==
    IF IsVertical(l)
    THEN Rectangle(TopMostPoint(l).x - n, TopMostPoint(l).y - n, 2 * n,
                   MaxY(l) - MinY(l) + 2 * n)
    ELSE Rectangle(LeftMostPoint(l).x - n, LeftMostPoint(l).y - n,
                   MaxX(l) - MinX(l) + 2 * n, 2 * n)

ListFromPoints(ps) == [i \in 1..(Len(ps) - 1) |-> Line(ps[i], ps[i + 1])]

\* The end that the closest point is not: the first one, if it is between the ends.
FurthestPointFrom(l, p) == IF ClosestPointTo(l, p) = l.p1 THEN l.p2 ELSE l.p1

SharesEndpointWith(l, m, squaredDistance) ==
    \E p \in {l.p1, l.p2}, q \in {m.p1, m.p2} : SquaredDistance(p, q) <= squaredDistance

IsEndpoint(l, p) == p \in {l.p1, l.p2}

\* Angles in whole degrees.  fmod() keeps the sign of what it divides, so normalize()
\* takes it twice.
FullTurn == 360

Fmod(n) == IF n < 0 THEN -((-n) % FullTurn) ELSE n % FullTurn

Normalize(degrees) == Fmod(Fmod(degrees) + FullTurn)

AngleAdd(degrees, amount) == Normalize(degrees + amount)
AngleSubtract(degrees, amount) == Normalize(degrees - amount)

DirectionToBearing == [Up |-> 0, Down |-> 180, ToLeft |-> 270, ToRight |-> 90]

AtBearing(degrees) == CHOOSE d \in Directions : DirectionToBearing[d] = degrees

\* shorten(), extend() and grow() a line along an axis, at its bearing.
BearingOf(l) == DirectionToBearing[DirectionOf(l)]

Reach(p, bearing, n) == MovePoint(p, AtBearing(bearing), n)

Shortened(l, n) ==
    IF AxisLength(l) >= n THEN Line(l.p1, Reach(l.p1, BearingOf(l), AxisLength(l) - n)) ELSE l

Extended(l, n) == Line(l.p1, Reach(l.p1, BearingOf(l), AxisLength(l) + n))

GrownLine(l, n) ==
    Line(Reach(l.p1, AngleAdd(BearingOf(l), 180), n), Reach(l.p2, BearingOf(l), n))

\* Point::moveDelta and delta, Line::List::moveDelta
MoveDelta(p, dx, dy) == Point(p.x + dx, p.y + dy)
Delta(p, q) == Point(p.x - q.x, p.y - q.y)

LineMoveDelta(l, dx, dy) == Line(MoveDelta(l.p1, dx, dy), MoveDelta(l.p2, dx, dy))

ListMoveDelta(list, dx, dy) == [i \in DOMAIN list |-> LineMoveDelta(list[i], dx, dy)]

\* Of lines along the axes.
TotalLength(list) == Total([i \in DOMAIN list |-> AxisLength(list[i])])

\* The first line along an axis in whose rectangle the point is.
LineNearPoint(list, p, margin) ==
    LET near == {i \in DOMAIN list : RectContains(MakeRectangle(list[i], margin \div 2), p)}
    IN  IF near = {} THEN NoLine ELSE list[Min(near)]

\* The last of a chain of ever better lines.
Best(list, first, Better(_, _)) ==
    FoldLeft(LAMBDA found, l : IF Better(l, found) THEN l ELSE found, first, list)

Highest(list) == Best(list, list[1], IsAbove)
Lowest(list) == Best(list, list[1], IsBelow)

Longer(l, m) == SquaredLength(l) > SquaredLength(m)

Longest(list) == Best(list, NoLine, LAMBDA l, m : ~IsValid(m) \/ Longer(l, m))
LongestHorizontalLine(list) ==
    Best(list, NoLine, LAMBDA l, m : IsHorizontal(l) /\ Longer(l, m))
LongestVerticalLine(list) ==
    Best(list, NoLine, LAMBDA l, m : IsVertical(l) /\ Longer(l, m))

ListMinX(list) == Min({MinX(list[i]) : i \in DOMAIN list})
ListMaxX(list) == Max({MaxX(list[i]) : i \in DOMAIN list})
ListMinY(list) == Min({MinY(list[i]) : i \in DOMAIN list})
ListMaxY(list) == Max({MaxY(list[i]) : i \in DOMAIN list})

ListBoundingRectangle(list) ==
    FromPoints(<<Point(ListMinX(list), ListMinY(list)), Point(ListMinX(list), ListMaxY(list)),
                 Point(ListMaxX(list), ListMinY(list)), Point(ListMaxX(list), ListMaxY(list))>>)

LineContainingPoint(list, p) ==
    LET found == {i \in DOMAIN list : ContainsPoint(list[i], p)}
    IN  IF found = {} THEN NoLine ELSE list[Min(found)]

\* Line::List::closestPointTo, for lines along the axes.
ListClosestPointTo(list, p) ==
    ClosestPointTo(list[FirstClosest(list, DOMAIN list, p)], p)

-----------------------------------------------------------------------------
(* Rectangles                                                              *)

FromTwoPoints(p, q) ==
    Rectangle(Lesser(p.x, q.x), Lesser(p.y, q.y), Absolute(p.x - q.x), Absolute(p.y - q.y))

FromCenterPoint(p, n) == Rectangle(p.x - n, p.y - n, 2 * n, 2 * n)

CenterPoint(r) == Midpoint(Line(TopLeft(r), BottomRight(r)))

Scaled(r, factor) == Rectangle(r.x, r.y, factor * r.w, factor * r.h)

\* In the order of the sides, from the top against the clock.
EdgeMap(r) ==
    <<Line(TopLeft(r), TopRight(r)), Line(TopLeft(r), BottomLeft(r)),
      Line(BottomLeft(r), BottomRight(r)), Line(TopRight(r), BottomRight(r))>>

\* The edge that a point is on.
IsPointOnEdge(r, p) == \E i \in DOMAIN Edges(r) : ContainsPoint(Edges(r)[i], p)

Sides == <<"Top", "Left", "Bottom", "Right">>

ClosestSideToPoint(r, p) == Sides[FirstClosest(EdgeMap(r), 1..4, p)]

-----------------------------------------------------------------------------
(* FlatGeo::relationTo                                                     *)

Flag(flag, condition) == IF condition THEN {flag} ELSE {}

PointToPoint(p, q) ==
    IF p = q THEN {"ContainedBy", "Contains"}
    ELSE Flag("Above", IsPointAbove(p, q)) \cup Flag("Below", IsPointBelow(p, q))
         \cup Flag("ToLeftOf", IsPointLeftOf(p, q)) \cup Flag("ToRightOf", IsPointRightOf(p, q))

RectangleToPoint(r, p) ==
    IF RectContains(r, p) THEN {"Contains"}
    ELSE Flag("Above", Bottom(r) < p.y) \cup Flag("Below", r.y > p.y)
         \cup Flag("ToLeftOf", Right(r) < p.x) \cup Flag("ToRightOf", r.x > p.x)

PointToRectangle(p, r) ==
    IF RectContains(r, p) THEN {"ContainedBy"}
    ELSE Flag("Below", Bottom(r) < p.y) \cup Flag("Above", r.y > p.y)
         \cup Flag("ToRightOf", Right(r) < p.x) \cup Flag("ToLeftOf", r.x > p.x)

RectContainsRect(r, s) ==
    /\ RectIsValid(r) /\ RectIsValid(s)
    /\ r.x <= s.x /\ Right(s) <= Right(r) /\ r.y <= s.y /\ Bottom(s) <= Bottom(r)

\* For two rectangles the sides are those of the other one, seen from the first.
RectangleToRectangle(r, s) ==
    Flag("Below", s.y > Bottom(r)) \cup Flag("Above", s.y < r.y)
    \cup Flag("ToRightOf", s.x > Right(r)) \cup Flag("ToLeftOf", s.x < r.x)
    \cup Flag("ContainedBy", RectContainsRect(s, r))
    \cup Flag("Contains", RectContainsRect(r, s))
    \cup Flag("IntersectsWith", RectIntersects(r, s))

-----------------------------------------------------------------------------
(* Correctness                                                             *)

TypeOK == points \in Seq(Vertices) /\ Len(points) <= MaxPoints

Turn(p, q, r) == (q.x - p.x) * (r.y - p.y) - (q.y - p.y) * (r.x - p.x)

OnEdge(l, p) ==
    /\ Turn(l.p1, l.p2, p) = 0
    /\ MinX(l) <= p.x /\ p.x <= MaxX(l) /\ MinY(l) <= p.y /\ p.y <= MaxY(l)

OnBoundary(p) == \E i \in DOMAIN Lines : OnEdge(Lines[i], p)

Sign(n) == IF n < 0 THEN -1 ELSE IF n > 0 THEN 1 ELSE 0

Meet(l, m) ==
    \/ /\ Sign(Turn(l.p1, l.p2, m.p1)) * Sign(Turn(l.p1, l.p2, m.p2)) < 0
       /\ Sign(Turn(m.p1, m.p2, l.p1)) * Sign(Turn(m.p1, m.p2, l.p2)) < 0
    \/ OnEdge(l, m.p1) \/ OnEdge(l, m.p2) \/ OnEdge(m, l.p1) \/ OnEdge(m, l.p2)

\* The edges meet only where one follows the other.
IsSimple ==
    /\ IsPolygon
    /\ \A i, j \in DOMAIN Lines : i < j =>
          CASE j = i + 1 -> ~OnEdge(Lines[i], Lines[j].p2) /\ ~OnEdge(Lines[j], Lines[i].p1)
            [] i = 1 /\ j = Len(Lines) ->
                  ~OnEdge(Lines[j], Lines[i].p2) /\ ~OnEdge(Lines[i], Lines[j].p1)
            [] OTHER -> ~Meet(Lines[i], Lines[j])

\* Pick's theorem: the area of a polygon that does not cross itself is the number of
\* grid points that contains() finds inside, and half of those on its boundary less
\* one.  contains() counts crossings, area() adds up triangles: each checks the other,
\* at corners, along vertical edges and for both ways round.
AreaIsContents ==
    IsSimple =>
        LET boundary == {p \in Grid : OnBoundary(p)}
            inside == {p \in Grid \ boundary : PolygonContains(p)}
        IN  Absolute(DoubleArea) = 2 * Cardinality(inside) + Cardinality(boundary) - 2

\* The centroid of a triangle is the mean of its corners, and a centroid moves with its
\* polygon, whichever way round that goes.
CentroidBalances ==
    LET c == CentroidSums(points)
    IN  /\ c.area = -DoubleArea
        /\ Len(points) = 3 =>
              /\ c.x = c.area * Total([i \in 1..3 |-> points[i].x])
              /\ c.y = c.area * Total([i \in 1..3 |-> points[i].y])
        /\ \A d \in Directions :
              LET moved == CentroidSums(Moved(d, 5))
                  by == MovePoint(NullPoint, d, 5)
              IN  /\ moved.area = c.area
                  /\ moved.x = c.x + 3 * c.area * by.x
                  /\ moved.y = c.y + 3 * c.area * by.y

\* The polygon and the list of its lines have the same bounding rectangle, unless all
\* of it lies on the negative side of an axis; the extreme lines are those that touch it.
BoundsAgree ==
    (/\ points # <<>>
     /\ \E i \in DOMAIN points : points[i].x >= 0
     /\ \E i \in DOMAIN points : points[i].y >= 0) =>
        LET r == BoundingRectangle
        IN  /\ r = ListBoundingRectangle(Lines)
            /\ MinimumXY = Lesser(r.x, r.y)
            /\ TopMostPoint(Highest(Lines)).y = r.y
            /\ BottomMostPoint(Lowest(Lines)).y = Bottom(r)
            /\ LeftMostPoint(Best(Lines, Lines[1], IsLeftOf)).x = r.x
            /\ RightMostPoint(Best(Lines, Lines[1], IsRightOf)).x = Right(r)

\* longest() is at least as long as the longest line along an axis; a polygon has an
\* edge under the same ends either way round, and is made again of its lines.  A point
\* of a line along an axis is in the rectangle around the line, in its list and where
\* the line crosses, if it crosses in the direction the code expects.
LinesAgree ==
    /\ CreateFromLines(Lines) = points
    /\ points # <<>> => ListFromPoints(points) = Front(Lines)
    /\ \A i \in DOMAIN Lines :
          /\ ~Longer(Lines[i], Longest(Lines))
          /\ IsHorizontal(Lines[i]) => ~Longer(Lines[i], LongestHorizontalLine(Lines))
          /\ IsVertical(Lines[i]) => ~Longer(Lines[i], LongestVerticalLine(Lines))
          /\ ContainsLineWithSameEndpoints(Lines, Line(Lines[i].p2, Lines[i].p1))
    /\ (\A i \in DOMAIN Lines : IsPerpendicular(Lines[i]) /\ IsValid(Lines[i])) =>
          \A p \in Grid : (points # <<>> /\ OnBoundary(p)) =>
              /\ \A l \in {Lines[i] : i \in DOMAIN Lines} : OnEdge(l, p) =>
                    /\ RectContains(MakeRectangle(l, 1), p)
                    /\ l.p1.x <= l.p2.x => CrossesX(l, p.x) /\ HasXBetween(l, MinX(l), p.x)
                    /\ l.p1.y <= l.p2.y => CrossesY(l, p.y) /\ HasYBetween(l, MinY(l), p.y)
              /\ OnEdge(LineContainingPoint(Lines, p), p)
              /\ ListClosestPointTo(Lines, p) = p

\* A polygon of lines along the axes is at least as long as its bounding rectangle is
\* around, and moves with it.  lineNearPoint() finds a line that is no further off than
\* the margin, which is the maximum distance by its comment (line.h:230-236), and misses
\* none within half of it, which is as far as the code looks.  The end furthest from a
\* point is the one further away if the other is closest.
NeighboursAgree ==
    (points # <<>> /\ \A i \in DOMAIN Lines : IsPerpendicular(Lines[i])) =>
        LET r == ListBoundingRectangle(Lines)
            moved == ListMoveDelta(Lines, 4, -3)
            margin == 3
            SquaredOff(l, p) == SquaredDistance(ClosestPointTo(l, p), p)
        IN  /\ TotalLength(Lines) >= 2 * (r.w + r.h)
            /\ TotalLength(moved) = TotalLength(Lines)
            /\ ListBoundingRectangle(moved) = [r EXCEPT !.x = @ + 4, !.y = @ - 3]
            /\ \A p \in Grid :
                  LET found == LineNearPoint(Lines, p, margin)
                      isNear == /\ SquaredOff(found, p) <= margin * margin
                                /\ \E i \in DOMAIN Lines : found = Lines[i]
                  IN  /\ found = NoLine \/ isNear
                      /\ \A i \in DOMAIN Lines :
                            4 * SquaredOff(Lines[i], p) <= margin * margin => isNear
            /\ \A i \in DOMAIN Lines : \A p \in Grid :
                  LET furthest == FurthestPointFrom(Lines[i], p)
                  IN  /\ IsEndpoint(Lines[i], furthest)
                      /\ IsEndpoint(Lines[i], ClosestPointTo(Lines[i], p)) =>
                            \A end \in {Lines[i].p1, Lines[i].p2} :
                                SquaredDistance(p, end) <= SquaredDistance(p, furthest)
                      /\ SharesEndpointWith(Lines[i], Line(p, p), 0) <=> IsEndpoint(Lines[i], p)

\* What is added to an angle can be taken away again, over any number of turns; the
\* opposite direction is half a turn away; a line along an axis that grows contains
\* what it was, and one that is extended is shortened to what it was.
TurnsAgree ==
    /\ \A i \in DOMAIN points :
          LET degrees == 97 * points[i].x
              amount == 431 * points[i].y
              sum == AngleAdd(degrees, amount)
          IN  /\ sum \in 0..(FullTurn - 1)
              /\ AngleSubtract(sum, amount) = Normalize(degrees)
              /\ (sum - degrees - amount) % FullTurn = 0
    /\ \A i \in DOMAIN Lines : IsPerpendicular(Lines[i]) /\ IsValid(Lines[i]) =>
          LET l == Lines[i]
              opposite == OppositeDirection[DirectionOf(l)]
              grown == GrownLine(l, 2)
          IN  /\ DirectionToBearing[opposite] = AngleAdd(BearingOf(l), 180)
              /\ Shortened(Extended(l, 2), 2) = l
              /\ AxisLength(l) > 1 => Extended(Shortened(l, 1), 1) = l
              /\ AxisLength(grown) = AxisLength(l) + 4
              /\ DirectionOf(grown) = DirectionOf(l) /\ SharesAxisWith(grown, l)
              /\ ContainsPoint(grown, l.p1) /\ ContainsPoint(grown, l.p2)

\* Points, lines and rectangles whose corner has no negative coordinate are read back
\* as they were written; lists of lines are if their lines are not in parentheses.
TextsReadBack ==
    /\ \A i \in DOMAIN points :
          PointFromText(PointToText(points[i])) = points[i]
    /\ \A i \in DOMAIN Lines : LineFromText(LineToText(Lines[i])) = Lines[i]
    /\ ListFromText(Joined([i \in DOMAIN Lines |-> LineToText(Lines[i])])) = Lines
    /\ Len(ListFromText(ListToText(Lines))) = Len(Lines)
    /\ Len(points) = 2 =>
          LET r == FromTwoPoints(points[1], points[2])
              back == RectFromText(RectToText(r))
          IN  /\ r.x >= 0 /\ r.y >= 0 => back = r
              /\ back.w = r.w /\ back.h = r.h

Vertical == {"Above", "Below"}
Horizontal == {"ToLeftOf", "ToRightOf"}

Opposite ==
    [Above |-> "Below", Below |-> "Above", ToLeftOf |-> "ToRightOf",
     ToRightOf |-> "ToLeftOf", Contains |-> "ContainedBy", ContainedBy |-> "Contains"]

\* The relations of a point and a rectangle are opposite to each other, and there is
\* always one: a point that is on no side of a rectangle is in it.  Of two rectangles each
\* is inside the other only if they are the same, and if they intersect they are not
\* apart.  If they are, a side tells it, and the two relations tell opposite sides:
\* whose side it is, the code and its comment see differently (flatgeo.cpp:207-221,
\* geo.h:57-60), and nothing here depends on it.
RelationsAgree ==
    Len(points) = 4 =>
        LET r == FromTwoPoints(points[1], points[2])
            s == FromTwoPoints(points[3], points[4])
            relation == RectangleToRectangle(r, s)
            converse == RectangleToRectangle(s, r)
            Tell(sides) == /\ relation \cap sides # {}
                           /\ converse \cap sides = {Opposite[f] : f \in relation \cap sides}
            apartInY == Bottom(r) < s.y \/ Bottom(s) < r.y
            apartInX == Right(r) < s.x \/ Right(s) < r.x
        IN  RectIsValid(r) =>
            /\ \A p \in {points[3], points[4], CenterPoint(s)} :
                  /\ PointToRectangle(p, r) = {Opposite[f] : f \in RectangleToPoint(r, p)}
                  /\ PointToRectangle(p, r) # {}
                  /\ PointToPoint(p, points[1]) = {Opposite[f] : f \in PointToPoint(points[1], p)}
                  /\ \A k \in {i \in 1..4 : Sides[i] = ClosestSideToPoint(r, p)} :
                        SquaredDistanceTo(EdgeMap(r)[k], p) = SquaredDistanceTo(ClosestEdge(r, p), p)
                  /\ CenterPoint(FromCenterPoint(p, 2)) = p
            /\ RectContainsRect(Scaled(r, 2), r) /\ CenterPoint(Scaled(r, 2)) = BottomRight(r)
            /\ \A p \in {points[3], points[4]} :
                  IsPointOnEdge(r, p) <=>
                      /\ RectContains(r, p)
                      /\ p.x \in {r.x, Right(r)} \/ p.y \in {r.y, Bottom(r)}
            /\ "IntersectsWith" \in relation => ~apartInY /\ ~apartInX
            /\ apartInY => Tell(Vertical)
            /\ apartInX => Tell(Horizontal)
            /\ ({"Contains", "ContainedBy"} \subseteq relation) <=> (RectIsValid(s) /\ r = s)

ShapesAgree ==
    /\ AreaIsContents /\ CentroidBalances /\ BoundsAgree /\ LinesAgree
    /\ NeighboursAgree /\ TurnsAgree /\ TextsReadBack /\ RelationsAgree

=============================================================================
