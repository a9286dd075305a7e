--------------------------- MODULE RoutingProblems --------------------------
(* Routes to find, on a canvas of 96 by 96 with a margin of 4, among the   *)
(* obstacles of a few layouts.                                             *)
EXTENDS FlatGeometry

RoutingProblem(origin, destination, obstacles, initialDirection) ==
    [origin |-> origin, destination |-> destination, obstacles |-> obstacles,
     initialDirection |-> initialDirection,
     canvas |-> Rectangle(0, 0, 96, 96), routingMargin |-> 4, firstSegmentLength |-> 0,
     verticalConstraint |-> -1, consolidate |-> TRUE, aroundMargins |-> TRUE]

Block == <<Rectangle(40, 24, 16, 16)>>
Wall  == <<Rectangle(40, 8, 16, 64)>>
Row   == <<Rectangle(64, 20, 8, 8), Rectangle(44, 20, 16, 8)>>
Apart == <<Rectangle(20, 20, 8, 32), Rectangle(44, 44, 16, 8)>>

Open ==
    {RoutingProblem(Point(ox, oy), Point(dx, dy), obstacles, NoDirection) :
        ox \in {16, 36}, oy \in {12, 60}, dx \in {32, 88}, dy \in {12, 36, 88},
        obstacles \in {Block, Wall, Row, Apart}}

Forced ==
    {RoutingProblem(Point(16, oy), Point(dx, 36), obstacles, d) :
        oy \in {12, 60}, dx \in {32, 88}, obstacles \in {Block, Wall}, d \in Directions}

\* Pass 1 alone, with a first segment of another length.
Plain ==
    {[p EXCEPT !.consolidate = FALSE, !.aroundMargins = FALSE, !.firstSegmentLength = 8] :
        p \in {q \in Open : q.origin.x = 16}}

\* From a point on an obstacle, as a connector of a block diagram has it.
OnEdge ==
    {RoutingProblem(Point(40, oy), Point(dx, dy), obstacles, NoDirection) :
        oy \in {24, 32, 40}, dx \in {56, 88}, dy \in {24, 32, 72},
        obstacles \in {Block, Row}}

\* A path that has no first line, one by a corner, one that goes on until MaxCycles,
\* and one that ends with the same line twice.
Odd ==
    {RoutingProblem(Point(32, 16), Point(32, 80), <<Rectangle(24, 24, 16, 16)>>, "Up"),
     RoutingProblem(Point(32, 16), Point(32, 80), <<Rectangle(24, 24, 16, 16)>>, "Down"),
     RoutingProblem(Point(48, 16), Point(32, 80), <<Rectangle(24, 24, 32, 32)>>, "Up"),
     RoutingProblem(Point(32, 16), Point(32, 48),
                    <<Rectangle(16, 24, 16, 16), Rectangle(40, 8, 16, 48)>>, NoDirection)}

MCProblems == Open \cup Forced \cup Plain \cup OnEdge \cup Odd

\* Around a block, with room on all sides.
MCBlocked == {RoutingProblem(Point(36, 12), Point(88, 36), Row, NoDirection)}

\* What the conversion of infinity to int is taken to give.
MCJunk == {-1000}

=============================================================================
