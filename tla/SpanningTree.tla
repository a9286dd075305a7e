---------------------------- MODULE SpanningTree ----------------------------
(***************************************************************************)
(* SpanningTree (geometry/spanningtree, geometry/treepathvertice): a       *)
(* network of lines as a graph, an origin and a destination that are       *)
(* attached to it as ad hoc vertices, and Dijkstra's search.  A            *)
(* TreePathVertice is named by its place in "vertices", which only grows:  *)
(* a vertice that leaves the index is never deleted.                       *)
(***************************************************************************)
EXTENDS FlatGeometry, Functions

CONSTANTS Networks,     \* sequences of lines to build a tree from
          AdHocPoints,  \* points to route from and to
          Preferred,    \* preferred directions of setOrigin
          Infinity,     \* above every length
          MaxCalls      \* bound on the calls of setOrigin and setDestination

(* Lines lie along an axis and meet at their ends only.                    *)
Inside(l, p) ==
    /\ ClosestPointTo(l, p) = p
    /\ p \notin {l.p1, l.p2}

Positions == [x : Int, y : Int]

NetworkAssumption ==
    /\ Networks \subseteq Seq([p1 : Positions, p2 : Positions])
    /\ AdHocPoints \subseteq Positions
    /\ \A network \in Networks : \A l \in Range(network) :
         /\ IsPerpendicular(l) /\ IsValid(l)
         /\ \A m \in Range(network) : ~Inside(l, m.p1) /\ ~Inside(l, m.p2)
    /\ Preferred \subseteq Directions \cup {NoDirection}
    /\ Infinity \in Nat /\ MaxCalls \in Nat

VARIABLES network,      \* the lines given to the constructor
          lines,        \* _lines
          vertices,     \* every TreePathVertice ever made
          index,        \* _vertices: the vertices by position
          origin, destination,  \* _origin, _destination
          unvisited,    \* _unvisited
          phase,        \* where computePath() is
          path,         \* what computePath() returned last
          calls         \* the calls of setOrigin() and setDestination()

treeVars == <<network, lines, vertices, index, origin, destination, unvisited,
              phase, path, calls>>

Null == 0

Types == {"Standard", "AdHocOrigin", "AdHocDestination"}

Vertice(position, type) ==
    [position |-> position, type |-> type, neighbors |-> <<>>,
     distance |-> Infinity, visited |-> FALSE, source |-> Null]

-----------------------------------------------------------------------------
(* The graph, as pairs [vertices, index].                                  *)

Inserted(map, key, value) ==
    [k \in DOMAIN map \cup {key} |-> IF k = key THEN value ELSE map[k]]

(* Neighbors are kept under the name, that is the position, they had when  *)
(* they were added.                                                        *)
TryAddNeighbor(vs, v, n) ==
    IF vs[n].position \in DOMAIN vs[v].neighbors THEN vs
    ELSE [vs EXCEPT ![v].neighbors = Inserted(@, vs[n].position, n)]

(* The new neighbor takes the name of the old one.                         *)
TryReplaceNeighbor(vs, v, n, new) ==
    [vs EXCEPT ![v].neighbors = Inserted(@, vs[n].position, new)]

AddVertice(graph, position, type) ==
    [vertices |-> Append(graph.vertices, Vertice(position, type)),
     index |-> Inserted(graph.index, position, Len(graph.vertices) + 1)]

Standard(graph, position) ==
    IF position \in DOMAIN graph.index THEN graph
    ELSE AddVertice(graph, position, "Standard")

AddLine(graph, l) ==
    LET both == Standard(Standard(graph, l.p1), l.p2)
        v1 == both.index[l.p1]
        v2 == both.index[l.p2]
    IN  [both EXCEPT !.vertices =
            TryAddNeighbor(TryAddNeighbor(@, v1, v2), v2, v1)]

InitializeFromLines(ls) ==
    LET built[i \in 0..Len(ls)] ==
            IF i = 0 THEN [vertices |-> <<>>, index |-> <<>>]
            ELSE AddLine(built[i - 1], ls[i])
    IN  built[Len(ls)]

-----------------------------------------------------------------------------
(* The first of the closest lines of those in the preferred direction; 0   *)
(* if there is none.                                                       *)
Eligible(ls, p, direction) ==
    {i \in DOMAIN ls : LiesInDirection(ClosestPointTo(ls[i], p), direction, p)}

FindClosestLine(ls, p, direction) ==
    FirstClosest(ls, Eligible(ls, p, direction), p)

ClearAdHocVertices(type) ==
    RestrictValues(index, LAMBDA v : vertices[v].type # type)

(* The line l is split at the point where the new vertice v1 meets it.     *)
Split(graph, l, point, v1, type) ==
    LET lv1 == graph.index[l.p1]
        lv2 == graph.index[l.p2]
        g == AddVertice(graph, point, type)
        v2 == g.index[point]
        a == TryReplaceNeighbor(g.vertices, lv1, lv2, v2)
        b == TryReplaceNeighbor(a, lv2, lv1, v2)
        c == TryAddNeighbor(TryAddNeighbor(b, v2, lv1), v2, lv2)
    IN  [g EXCEPT !.vertices = TryAddNeighbor(TryAddNeighbor(c, v2, v1), v1, v2)]

Join(graph, v1, v2) ==
    [graph EXCEPT !.vertices = TryAddNeighbor(TryAddNeighbor(@, v1, v2), v2, v1)]

(* A version of SplitLines that keeps the line as well.                    *)
SplitAndKept(l, point) == lines \o <<Line(l.p1, point), Line(point, l.p2)>>

SplitLines(l, point) ==
    RemoveFirst(lines, l) \o <<Line(l.p1, point), Line(point, l.p2)>>

(* The vertice for the point, the graph and the lines.  The result is Null *)
(* if the ends of the closest line are not in the index, which throws: the *)
(* new vertice stays where it is.                                          *)
AddAdHocVertice(point, type, direction) ==
    LET graph == AddVertice([vertices |-> vertices,
                             index |-> ClearAdHocVertices(type)], point, type)
        v1 == graph.index[point]
        found == FindClosestLine(lines, point, direction)
        l == lines[found]
        closest == ClosestPointTo(l, point)
        Outcome(result, g, ls) ==
            [result |-> result, vertices |-> g.vertices, index |-> g.index, lines |-> ls]
    IN  IF point \in DOMAIN index
        THEN Outcome(index[point], [vertices |-> vertices, index |-> index], lines)
        ELSE IF found = 0 \/ closest = NullPoint THEN Outcome(v1, graph, lines)
        ELSE IF closest \in DOMAIN graph.index
        THEN Outcome(v1, Join(graph, v1, graph.index[closest]), lines)
        ELSE IF {l.p1, l.p2} \subseteq DOMAIN graph.index
        THEN Outcome(v1, Split(graph, l, closest, v1, type), SplitLines(l, closest))
        ELSE Outcome(Null, graph, lines)

-----------------------------------------------------------------------------
Init ==
    /\ network = <<>> /\ lines = <<>>
    /\ vertices = <<>> /\ index = <<>>
    /\ origin = Null /\ destination = Null
    /\ unvisited = {}
    /\ phase = "none"
    /\ path = <<>>
    /\ calls = <<>>

Construct(ls) ==
    /\ phase = "none"
    /\ network' = ls /\ lines' = ls
    /\ LET graph == InitializeFromLines(ls)
       IN  vertices' = graph.vertices /\ index' = graph.index
    /\ phase' = "idle"
    /\ UNCHANGED <<origin, destination, unvisited, path, calls>>

Attach(call, outcome) ==
    /\ phase \in {"idle", "done"}
    /\ Len(calls) < MaxCalls
    /\ vertices' = outcome.vertices
    /\ index' = outcome.index
    /\ lines' = outcome.lines
    /\ calls' = Append(calls, call)
    /\ phase' = "idle"
    /\ UNCHANGED <<network, unvisited, path>>

Kept(old, result) == IF result = Null THEN old ELSE result

SetOrigin(point, direction) ==
    LET outcome == AddAdHocVertice(point, "AdHocOrigin", direction)
    IN  /\ Attach([of |-> "origin", point |-> point, direction |-> direction], outcome)
        /\ origin' = Kept(origin, outcome.result)
        /\ UNCHANGED destination

SetDestination(point) ==
    LET outcome == AddAdHocVertice(point, "AdHocDestination", NoDirection)
    IN  /\ Attach([of |-> "destination", point |-> point, direction |-> NoDirection],
                  outcome)
        /\ destination' = Kept(destination, outcome.result)
        /\ UNCHANGED origin

(* Only the vertices of the index start afresh.                            *)
InitializeVertices ==
    [v \in DOMAIN vertices |->
        IF v \in Range(index)
        THEN [vertices[v] EXCEPT !.distance = IF v = origin THEN 0 ELSE Infinity,
                                 !.visited = FALSE, !.source = Null]
        ELSE vertices[v]]

ComputePath ==
    /\ phase \in {"idle", "done"}
    /\ IF origin = Null \/ destination = Null
       THEN path' = <<>> /\ phase' = "done" /\ UNCHANGED <<vertices, unvisited>>
       ELSE /\ vertices' = InitializeVertices
            /\ unvisited' = Range(index)
            /\ phase' = "searching"
            /\ UNCHANGED path
    /\ UNCHANGED <<network, lines, index, origin, destination, calls>>

(* A length that the search adds up.  Only the one edge of an ad hoc       *)
(* vertice can lie across the axes; its length is rounded down, which adds *)
(* the same error to every way.                                            *)
Distance(p, q) ==
    CHOOSE d \in 0 .. SquaredDistance(p, q) :
        d * d <= SquaredDistance(p, q) /\ SquaredDistance(p, q) < (d + 1) * (d + 1)

(* The vertices are visited in the order of their names: of the nearest    *)
(* ones, the last.                                                         *)
NameBefore(p, q) == p.x < q.x \/ (p.x = q.x /\ p.y < q.y)

(* A version of Nearest that goes by the names alone.                      *)
LastByName(candidates) ==
    CHOOSE v \in candidates : \A w \in candidates \ {v} :
        NameBefore(vertices[w].position, vertices[v].position)

Nearest(candidates) ==
    CHOOSE v \in candidates : \A w \in candidates \ {v} :
        \/ vertices[v].distance < vertices[w].distance
        \/ /\ vertices[v].distance = vertices[w].distance
           /\ NameBefore(vertices[w].position, vertices[v].position)

Improves(current, n) ==
    /\ n \in Range(vertices[current].neighbors)
    /\ ~vertices[n].visited
    /\ vertices[current].distance
         + Distance(vertices[current].position, vertices[n].position)
       < vertices[n].distance

Relax(current) ==
    [n \in DOMAIN vertices |->
        IF Improves(current, n)
        THEN [vertices[n] EXCEPT
                !.distance = vertices[current].distance
                    + Distance(vertices[current].position, vertices[n].position),
                !.source = current,
                !.visited = n = current]
        ELSE IF n = current THEN [vertices[n] EXCEPT !.visited = TRUE]
        ELSE vertices[n]]

Cycle ==
    /\ phase = "searching"
    /\ unvisited # {}
    /\ LET current == Nearest(unvisited)
       IN  /\ vertices' = IF vertices[current].distance # Infinity
                          THEN Relax(current) ELSE vertices
           /\ unvisited' = unvisited \ {current}
    /\ UNCHANGED <<network, lines, index, origin, destination, phase, path, calls>>

(* Back along the sources to the origin, or as far as they go: after k     *)
(* steps, none of which comes to a vertice twice.                          *)
WayTo(v) ==
    LET back[k \in 0 .. Len(vertices)] ==
            IF k = 0 THEN <<v>>
            ELSE LET first == back[k - 1][1]
                 IN  IF first = origin \/ vertices[first].source = Null THEN back[k - 1]
                     ELSE <<vertices[first].source>> \o back[k - 1]
    IN  back[Len(vertices)]

LinesThrough(points) == [i \in 1 .. Len(points) - 1 |-> Line(points[i], points[i + 1])]

GetPath ==
    /\ phase = "searching"
    /\ unvisited = {}
    /\ LET way == WayTo(destination)
       IN  path' = LinesThrough([i \in DOMAIN way |-> vertices[way[i]].position])
    /\ phase' = "done"
    /\ UNCHANGED <<network, lines, vertices, index, origin, destination, unvisited,
                   calls>>

Next ==
    \/ \E ls \in Networks : Construct(ls)
    \/ \E p \in AdHocPoints, d \in Preferred : SetOrigin(p, d)
    \/ \E p \in AdHocPoints : SetDestination(p)
    \/ ComputePath
    \/ Cycle
    \/ GetPath

Spec == Init /\ [][Next]_treeVars

-----------------------------------------------------------------------------
(* What a search promises.                                                 *)

Ids == DOMAIN vertices

(* The objects point at objects, and the index names each by its place.    *)
TypeOK ==
    /\ phase \in {"none", "idle", "searching", "done"}
    /\ \A v \in Ids :
         /\ vertices[v].type \in Types
         /\ vertices[v].distance \in 0 .. Infinity
         /\ vertices[v].source \in Ids \cup {Null}
         /\ Range(vertices[v].neighbors) \subseteq Ids
    /\ \A p \in DOMAIN index : index[p] \in Ids /\ vertices[index[p]].position = p
    /\ {origin, destination} \subseteq Ids \cup {Null}
    /\ unvisited \subseteq Range(index)

(* Dijkstra's invariant: no visited vertice can still be improved by an    *)
(* edge between visited ones, and none is farther away than a vertice      *)
(* that waits (cycle() takes the nearest, and looks at waiting neighbors   *)
(* only).                                                                  *)
VisitedIsFinal ==
    \A v \in Range(index) : vertices[v].visited =>
        /\ \A n \in Range(vertices[v].neighbors) :
             n \in Range(index) /\ vertices[n].visited =>
                 vertices[n].distance <= vertices[v].distance
                     + Distance(vertices[v].position, vertices[n].position)
        /\ phase = "searching" => \A w \in unvisited :
                vertices[v].distance <= vertices[w].distance

Ends == UNION {{l.p1, l.p2} : l \in Range(network)}

OnLine(l, p) == p \in {l.p1, l.p2} \/ Inside(l, p)

(* Where a point may meet the network: the closest points of the closest   *)
(* lines in its direction.                                                 *)
Meetings(call) ==
    LET eligible == Eligible(network, call.point, call.direction)
        nearest == {i \in eligible : \A j \in eligible :
                      SquaredDistanceTo(network[i], call.point)
                        <= SquaredDistanceTo(network[j], call.point)}
    IN  IF call.point \in Ends THEN {call.point}
        ELSE {ClosestPointTo(network[i], call.point) : i \in nearest}

(* The length of the shortest way along the lines from a to b: what can be *)
(* reached from a by k legs, and by no shorter ones.                       *)
AlongLines(a, b) ==
    LET stops == Ends \cup {a, b}
        Legs(r) == {[at |-> p, length |-> r.length + Distance(r.at, p)] : p \in
                      {q \in stops : \E l \in Range(network) :
                                        OnLine(l, r.at) /\ OnLine(l, q)}}
        reached[k \in 0 .. Cardinality(stops)] ==
            IF k = 0 THEN {[at |-> a, length |-> 0]}
            ELSE LET all == UNION {Legs(r) : r \in reached[k - 1]}
                 IN  {r \in all : \A s \in all : s.at = r.at => r.length <= s.length}
    IN  Min({Infinity} \cup {r.length : r \in {s \in reached[Cardinality(stops)] : s.at = b}})

LengthOfPath == FoldLeft(LAMBDA n, l : n + Distance(l.p1, l.p2), 0, path)

LeadsFromTo(p, q) ==
    /\ path # <<>>
    /\ path[1].p1 = p
    /\ path[Len(path)].p2 = q
    /\ \A i \in 1 .. Len(path) - 1 : path[i].p2 = path[i + 1].p1

(* A point that meets the network somewhere other than (0, 0), which the   *)
(* code takes for no point, and that is not itself inside a line.          *)
Routable(call) ==
    /\ Meetings(call) \notin {{}, {NullPoint}}
    /\ \A l \in Range(network) : ~Inside(l, call.point)

CallFor(what) == CHOOSE i \in DOMAIN calls : calls[i].of = what

(* computePath() of a tree whose origin and destination were set once, in  *)
(* any order, returns a chain along the lines of the network, and no other *)
(* way is shorter.  The splits that both calls make, of one line or of     *)
(* two, do not change the distances.  (A direction is preferred for the    *)
(* closest points of whole lines: after a split it may find others.)       *)
ShortestPathFound ==
    (/\ phase = "done"
     /\ Len(calls) = 2 /\ calls[1].of # calls[2].of
     /\ calls[2].direction = NoDirection
     /\ Routable(calls[1]) /\ Routable(calls[2])) =>
        LET from == calls[CallFor("origin")]
            to == calls[CallFor("destination")]
        IN  IF from.point = to.point THEN path = <<>>
            ELSE \E a \in Meetings(from), b \in Meetings(to) :
                    IF AlongLines(a, b) = Infinity THEN path = <<>>
                    ELSE /\ LeadsFromTo(from.point, to.point)
                         /\ LengthOfPath = Distance(from.point, a) + AlongLines(a, b)
                                             + Distance(b, to.point)
                         /\ \A i \in 2 .. Len(path) - 1 :
                              \E l \in Range(network) :
                                  OnLine(l, path[i].p1) /\ OnLine(l, path[i].p2)

=============================================================================
