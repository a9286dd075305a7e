---------------------------- MODULE FlatGeometry ----------------------------
(***************************************************************************)
(* Points and lines of the plane (geometry/point, line, flatgeo, geo) as   *)
(* the graph search and the router use them.  Coordinates are whole        *)
(* numbers and y grows downwards.  Everything that would need a root is    *)
(* compared by its square, or belongs to lines along an axis.              *)
(***************************************************************************)
EXTENDS Integers, Sequences, SequencesExt

Point(x, y) == [x |-> x, y |-> y]

(* What QPointF() is, and what the code takes for "no point" (isNull).     *)
NullPoint == Point(0, 0)

Line(p1, p2) == [p1 |-> p1, p2 |-> p2]

Directions == {"Up", "Down", "ToLeft", "ToRight"}

NoDirection == "NoDirection"

OppositeDirection ==
    [Up |-> "Down", Down |-> "Up", ToLeft |-> "ToRight", ToRight |-> "ToLeft",
     NoDirection |-> NoDirection]

-----------------------------------------------------------------------------
IsPointLeftOf(p, q) == p.x < q.x
IsPointRightOf(p, q) == p.x > q.x
IsPointAbove(p, q) == p.y < q.y
IsPointBelow(p, q) == p.y > q.y

LiesInDirection(p, direction, q) ==
    CASE direction = "Up" -> IsPointAbove(p, q)
      [] direction = "Down" -> IsPointBelow(p, q)
      [] direction = "ToLeft" -> IsPointLeftOf(p, q)
      [] direction = "ToRight" -> IsPointRightOf(p, q)
      [] OTHER -> TRUE

Lesser(a, b) == IF a < b THEN a ELSE b
Greater(a, b) == IF a < b THEN b ELSE a

MinX(l) == Lesser(l.p1.x, l.p2.x)
MaxX(l) == Greater(l.p1.x, l.p2.x)
MinY(l) == Lesser(l.p1.y, l.p2.y)
MaxY(l) == Greater(l.p1.y, l.p2.y)

IsVertical(l) == l.p1.x = l.p2.x
IsHorizontal(l) == l.p1.y = l.p2.y
IsPerpendicular(l) == IsVertical(l) \/ IsHorizontal(l)

SquaredDistance(p, q) ==
    (p.x - q.x) * (p.x - q.x) + (p.y - q.y) * (p.y - q.y)

SquaredLength(l) == SquaredDistance(l.p1, l.p2)

(* Line::isValid: a line of length zero is the code's "no line".           *)
IsValid(l) == l.p1 # l.p2

(* The foot of the perpendicular, or the nearer end, for a line along an   *)
(* axis.  A line without length divides by zero and is never the closest.  *)
Clamp(v, low, high) == Greater(low, Lesser(v, high))

ClosestPointTo(l, p) ==
    Point(Clamp(p.x, MinX(l), MaxX(l)), Clamp(p.y, MinY(l), MaxY(l)))

-----------------------------------------------------------------------------
(* The bearing of a line, as a direction: none for an oblique line and for *)
(* one without length, whose bearing is not a number.                      *)
DirectionOf(l) ==
    CASE IsVertical(l) /\ IsPointAbove(l.p2, l.p1) -> "Up"
      [] IsVertical(l) /\ IsPointBelow(l.p2, l.p1) -> "Down"
      [] IsHorizontal(l) /\ IsPointLeftOf(l.p2, l.p1) -> "ToLeft"
      [] IsHorizontal(l) /\ IsPointRightOf(l.p2, l.p1) -> "ToRight"
      [] OTHER -> NoDirection

MovePoint(p, direction, n) ==
    CASE direction = "Up" -> [p EXCEPT !.y = @ - n]
      [] direction = "Down" -> [p EXCEPT !.y = @ + n]
      [] direction = "ToLeft" -> [p EXCEPT !.x = @ - n]
      [] direction = "ToRight" -> [p EXCEPT !.x = @ + n]
      [] OTHER -> p

(* Lines are built and moved by bearings, and no direction is bearing 0.   *)
Bearing(direction) == IF direction = NoDirection THEN "Up" ELSE direction

LineInDirection(p, direction, n) == Line(p, MovePoint(p, Bearing(direction), n))

MoveLine(l, direction, n) ==
    Line(MovePoint(l.p1, Bearing(direction), n), MovePoint(l.p2, Bearing(direction), n))

Midpoint(l) == Point(l.p2.x - (l.p2.x - l.p1.x) \div 2, l.p2.y - (l.p2.y - l.p1.y) \div 2)

Absolute(n) == IF n < 0 THEN -n ELSE n

(* The length of a line along an axis.                                     *)
AxisLength(l) == Absolute(l.p1.x - l.p2.x) + Absolute(l.p1.y - l.p2.y)

SharesAxisWith(l, m) ==
    IF IsVertical(l) /\ IsVertical(m) THEN l.p1.x = m.p1.x
    ELSE IsHorizontal(l) /\ IsHorizontal(m) /\ l.p1.y = m.p1.y

ContainsPoint(l, p) == ClosestPointTo(l, p) = p

-----------------------------------------------------------------------------
(* The intersection of two lines by Cramer's rule; parallel lines have     *)
(* none.  The coordinates are quotients by the determinant.                *)
Coefficient(l) ==
    LET a == l.p2.y - l.p1.y
        b == l.p1.x - l.p2.x
    IN  [a |-> a, b |-> b, c |-> a * l.p1.x + b * l.p1.y]

Determinant(l, m) ==
    Coefficient(l).a * Coefficient(m).b - Coefficient(m).a * Coefficient(l).b

Numerators(l, m) ==
    Point(Coefficient(m).b * Coefficient(l).c - Coefficient(l).b * Coefficient(m).c,
          Coefficient(l).a * Coefficient(m).c - Coefficient(m).a * Coefficient(l).c)

(* low <= n / d <= high                                                    *)
QuotientWithin(n, d, low, high) ==
    IF d > 0 THEN low * d <= n /\ n <= high * d ELSE high * d <= n /\ n <= low * d

(* A crossing at (0, 0) is taken for none.                                 *)
Intersects(l, m) ==
    LET d == Determinant(l, m)
        n == Numerators(l, m)
    IN  /\ d # 0
        /\ n # NullPoint
        /\ \A k \in {l, m} : /\ QuotientWithin(n.x, d, MinX(k), MaxX(k))
                             /\ QuotientWithin(n.y, d, MinY(k), MaxY(k))

IsWhole(l, m) ==
    LET d == Absolute(Determinant(l, m))
    IN  Numerators(l, m).x % d = 0 /\ Numerators(l, m).y % d = 0

Intersection(l, m) ==
    LET sign == IF Determinant(l, m) < 0 THEN -1 ELSE 1
        d == sign * Determinant(l, m)
    IN  Point((sign * Numerators(l, m).x) \div d, (sign * Numerators(l, m).y) \div d)

-----------------------------------------------------------------------------
(* Rectangles (geometry/rectangle, on Qt's QRectF).                        *)
Rectangle(x, y, w, h) == [x |-> x, y |-> y, w |-> w, h |-> h]

NullRectangle == Rectangle(0, 0, 0, 0)

Right(r) == r.x + r.w
Bottom(r) == r.y + r.h

TopLeft(r) == Point(r.x, r.y)
TopRight(r) == Point(Right(r), r.y)
BottomLeft(r) == Point(r.x, Bottom(r))
BottomRight(r) == Point(Right(r), Bottom(r))

Corners(r) == <<TopLeft(r), TopRight(r), BottomLeft(r), BottomRight(r)>>

VerticalLines(r) == <<Line(TopLeft(r), BottomLeft(r)), Line(TopRight(r), BottomRight(r))>>
HorizontalLines(r) == <<Line(TopLeft(r), TopRight(r)), Line(BottomLeft(r), BottomRight(r))>>

Edges(r) == <<Line(TopLeft(r), BottomLeft(r)), Line(TopRight(r), BottomRight(r)),
              Line(TopLeft(r), TopRight(r)), Line(BottomLeft(r), BottomRight(r))>>

RectIsValid(r) == r.w > 0 /\ r.h > 0

(* Borders belong to a rectangle, and one without an area holds nothing.   *)
RectContains(r, p) ==
    /\ r.w # 0 /\ r.h # 0
    /\ r.x <= p.x /\ p.x <= Right(r)
    /\ r.y <= p.y /\ p.y <= Bottom(r)

(* Rectangles that only touch do not intersect.                            *)
RectIntersects(r, s) ==
    /\ RectIsValid(r) /\ RectIsValid(s)
    /\ r.x < Right(s) /\ s.x < Right(r)
    /\ r.y < Bottom(s) /\ s.y < Bottom(r)

Grown(r, n) == Rectangle(r.x - n, r.y - n, r.w + 2 * n, r.h + 2 * n)

(* The line widened by a margin, which is even.                            *)
FromCenterLine(l, margin) ==
    LET half == margin \div 2
        dx == IF IsHorizontal(l) THEN 0 ELSE half
        dy == IF IsHorizontal(l) THEN half ELSE 0
    IN  Rectangle(MinX(l) - dx, MinY(l) - dy,
                  MaxX(l) - MinX(l) + 2 * dx, MaxY(l) - MinY(l) + 2 * dy)

ContainsAnyPoint(r, l) ==
    \/ RectContains(r, l.p1) \/ RectContains(r, l.p2)
    \/ \E i \in 1 .. 4 : Intersects(l, Edges(r)[i])

(* Point::List::topLeft and its like: a point replaces the one found so    *)
(* far only if it is as far out in both directions.                        *)
Outermost(points, horizontal, vertical) ==
    FoldLeft(LAMBDA found, p :
                IF /\ ~LiesInDirection(found, horizontal, p)
                   /\ ~LiesInDirection(found, vertical, p)
                THEN p ELSE found,
             points[1], points)

(* The rectangle of four corners, or one without area if they are none.    *)
FromPoints(points) ==
    LET tl == Outermost(points, "ToLeft", "Up")
        tr == Outermost(points, "ToRight", "Up")
        bl == Outermost(points, "ToLeft", "Down")
        br == Outermost(points, "ToRight", "Down")
    IN  IF tl.x = bl.x /\ tr.x = br.x /\ tl.y = tr.y /\ bl.y = br.y
        THEN Rectangle(tl.x, tl.y, tr.x - tl.x, bl.y - tl.y)
        ELSE NullRectangle

-----------------------------------------------------------------------------
(* Lists of lines.                                                         *)
NoLine == Line(NullPoint, NullPoint)

(* A line without length counts as no line: what comes after it replaces   *)
(* it whatever its length.                                                 *)
Shortest(lines) ==
    FoldLeft(LAMBDA found, l :
                IF ~IsValid(found) \/ SquaredLength(l) < SquaredLength(found)
                THEN l ELSE found,
             NoLine, lines)

ClosestCorner(r, p) ==
    Shortest([i \in 1 .. 4 |-> Line(p, Corners(r)[i])]).p2

SquaredDistanceTo(l, p) == SquaredDistance(ClosestPointTo(l, p), p)

(* The place of the first of the closest lines; 0 in an empty list.        *)
FirstClosest(lines, places, p) ==
    LET closest == {i \in places : \A j \in places :
                      SquaredDistanceTo(lines[i], p) <= SquaredDistanceTo(lines[j], p)}
    IN  IF closest = {} THEN 0 ELSE Min(closest)

ClosestEdge(r, p) == Edges(r)[FirstClosest(Edges(r), 1 .. 4, p)]

WithoutZeroLength(lines) == SelectSeq(lines, IsValid)

=============================================================================
