------------------------------ MODULE MCLibrary -----------------------------
(* The parts of the library on small instances: see also RoutingProblems.  *)
EXTENDS Library, RoutingProblems

\* SpanningTree: a ring with a tail, two networks that do not meet, and a hook.
Segment(x1, y1, x2, y2) == Line(Point(x1, y1), Point(x2, y2))

MCNetworks ==
    {<<Segment(0, 1, 6, 1), Segment(6, 1, 6, 5), Segment(0, 1, 0, 5), Segment(0, 5, 6, 5)>>,
     <<Segment(0, 0, 4, 0), Segment(4, 0, 4, 4), Segment(6, 6, 6, 2)>>,
     <<Segment(0, 0, 4, 0), Segment(4, 0, 4, 3), Segment(4, 3, 0, 3)>>}

MCAdHocPoints == {Point(2, 2), Point(1, 3), Point(8, 3)}

\* Shapes: corners on both sides of the axes, and every whole point around them.
MCVertices == {Point(x, y) : x \in {-2, 0, 3}, y \in {-1, 0, 2}}
MCGrid     == {Point(x, y) : x \in -3..4, y \in -2..3}

\* TimeSpan: days up to where years begin, and every unit at its limits.
MCParts ==
    {<<d, h, m, s, 5, 0, 1>> : d \in {0, 12, 99, 100, 149, 200}, h \in {0, 1},
                               m \in {0, 59}, s \in {0, 12}}
    \cup {<<0, 0, 0, 0, 0, u, n>> : u \in {0, 1, 9}, n \in {0, 3, 9}}
    \cup {<<0, 0, 0, s, 9, 9, 9>> : s \in {0, 59}}
    \cup {<<0, 1, 59, 59, 9, 9, 9>>, <<149, 0, 0, 0, 9, 9, 9>>,
          <<200, 0, 0, 0, 0, 0, -1>>, <<0, -1, -2, -3, 0, 0, 0>>}

MCSpanTexts ==
    {<<"1", "0", "0", "h", " ", "5", "m">>, <<"1", "2", "h", "3", "0", "m">>, <<"4", "2">>,
     <<"x">>, <<"5", " ", "m", "s">>, <<"-", "1", "h", " ", "5", "m">>, <<"5", "x">>}

\* Files: two in directories that allow a new file, one in a directory that does not.
MCPaths       == {<<"d", "/", "f">>, <<"e", "/", "f">>, <<"p", "/", "g">>}
MCDirectories == {<<"d">>, <<"e", "/">>}
MCProtected   == {<<"p", "/", "g">>}
MCFileTexts   == {<< <<"a">>, <<>> >>, << <<"b", "~">> >>}

=============================================================================
