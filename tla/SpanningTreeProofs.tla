------------------------- MODULE SpanningTreeProofs -------------------------
(***************************************************************************)
(* Proofs about SpanningTree: the search never goes back on a vertice that *)
(* it has visited, and of all ways along the links of the tree the path is *)
(* one of the shortest.                                                    *)
(***************************************************************************)
EXTENDS SpanningTree, FiniteSetTheorems, SequenceTheorems, WellFoundedInduction, TLAPS

-----------------------------------------------------------------------------
(* Recursion without induction                                             *)

\* What fails for some number fails for a least one.
LEMMA LeastExists ==
    ASSUME NEW T, T \subseteq Nat, T # {}
    PROVE  \E m \in T : \A k \in T : m <= k
<1> DEFINE R == OpToRel(<, Nat)
<1>1. IsWellFoundedOn(R, Nat)
  BY NatLessThanWellFounded
<1>2. PICK m \in T : \A k \in T : ~ (<<k, m>> \in R)
  <2> HIDE DEF R
  <2> QED
    BY <1>1, WFMin
<1>3. \A k \in T : ~ (k < m)
  BY <1>2 DEF OpToRel
<1> QED
  BY <1>3

\* What a rule computes step by step from a base exists, for any number of steps.
Computes(f, S, n, base, rule) ==
    /\ f \in [0..n -> S]
    /\ f[0] = base
    /\ \A x \in 1..n : f[x] = rule[x][f[x - 1]]

LEMMA StepsExist ==
    ASSUME NEW S, NEW n \in Nat, NEW base \in S, NEW rule \in [1..n -> [S -> S]]
    PROVE  \E f : Computes(f, S, n, base, rule)
<1> DEFINE Begins(f, m) ==
               f[0] = base /\ \A x \in 1..m : f[x] = rule[x][f[x - 1]]
           Missing == {m \in 0..n : ~\E f \in [0..m -> S] : Begins(f, m)}
<1>1. SUFFICES ASSUME Missing # {} PROVE FALSE
  <2>1. n \in 0..n /\ n \notin Missing
    <3>1. Missing = {}
      BY <1>1
    <3>2. n \in 0..n
      OBVIOUS
    <3> HIDE DEF Missing
    <3> QED
      BY <3>1, <3>2
  <2>2. PICK f \in [0..n -> S] : Begins(f, n)
    BY <2>1
  <2>3. Computes(f, S, n, base, rule)
    BY <2>2 DEF Computes
  <2> QED
    BY <2>3
<1>2. PICK m \in Missing : \A k \in Missing : m <= k
  <2>1. Missing \subseteq Nat
    OBVIOUS
  <2> HIDE DEF Missing
  <2> QED
    BY <1>1, <2>1, LeastExists
<1>3. m # 0
  <2>1. [x \in 0..0 |-> base] \in [0..0 -> S] /\ Begins([x \in 0..0 |-> base], 0)
    OBVIOUS
  <2> QED
    BY <2>1
<1>4. m - 1 \in 0..n /\ m - 1 \notin Missing /\ m \in 1..n
  BY <1>2, <1>3
<1>5. PICK g \in [0..(m - 1) -> S] : Begins(g, m - 1)
  BY <1>4
<1> DEFINE f == [x \in 0..m |-> IF x = m THEN rule[m][g[m - 1]] ELSE g[x]]
<1>6. f \in [0..m -> S]
  BY <1>4, <1>5
<1>7. Begins(f, m)
  <2>1. f[0] = base
    BY <1>4, <1>5
  <2>2. ASSUME NEW x \in 1..m PROVE f[x] = rule[x][f[x - 1]]
    <3>1. CASE x = m
      BY <1>4, <3>1
    <3>2. CASE x # m
      BY <1>4, <1>5, <3>2
    <3> QED
      BY <3>1, <3>2
  <2> QED
    BY <2>1, <2>2
<1> QED
  BY <1>2, <1>6, <1>7

-----------------------------------------------------------------------------
(* The spanning tree: what holds of it                                     *)

\* Maps from positions to vertices, and what a vertice consists of.
Links == UNION {[D -> Nat] : D \in SUBSET Positions}

VerticeSet ==
    [position : Positions, type : Types, neighbors : Links, distance : Nat,
     visited : BOOLEAN, source : Nat]

\* The vertices vs under the index ix: all that is pointed at is there.
Fits(vs, ix) ==
    /\ vs \in Seq(VerticeSet)
    /\ \A v \in 1..Len(vs) : Range(vs[v].neighbors) \subseteq 1..Len(vs)
    /\ ix \in Links
    /\ \A p \in DOMAIN ix : ix[p] \in 1..Len(vs) /\ vs[ix[p]].position = p

\* What the calls between two searches make of the vertices vs: new ones are added,
\* unvisited, and an old one gets no new neighbor but these.
Enlarged(vs, ws) ==
    /\ Len(vs) <= Len(ws)
    /\ \A v \in 1..Len(vs) :
          /\ ws[v].position = vs[v].position
          /\ ws[v].distance = vs[v].distance
          /\ ws[v].visited = vs[v].visited
          /\ \A n \in Range(ws[v].neighbors) :
                 n \in Range(vs[v].neighbors) \/ n > Len(vs)
    /\ \A v \in 1..Len(ws) : v > Len(vs) => ~ws[v].visited

EnlargedTo(vs, ws, ix) == Fits(ws, ix) /\ Enlarged(vs, ws)

\* While a search goes on, none of the vertices that wait was visited, and no neighbor of
\* a visited one, be it visited or not, can be improved from there.
Relaxed ==
    \A v \in Range(index) :
        /\ v \in unvisited => ~vertices[v].visited
        /\ vertices[v].visited =>
               \A n \in Range(vertices[v].neighbors) \cap Range(index) :
                   vertices[n].distance <= vertices[v].distance
                       + Distance(vertices[v].position, vertices[n].position)

TreeInv ==
    /\ Fits(vertices, index)
    /\ unvisited \subseteq Range(index)
    /\ phase # "searching" => unvisited = {}
    /\ phase = "searching" => Relaxed
    /\ VisitedIsFinal

-----------------------------------------------------------------------------
(* The graph                                                               *)

LEMMA LinkFits ==
    ASSUME NEW vs \in Seq(VerticeSet), NEW ws, NEW ix, EnlargedTo(vs, ws, ix),
           NEW u \in 1..Len(ws), NEW b \in 1..Len(ws), NEW key \in Positions,
           u > Len(vs) \/ b > Len(vs)
    PROVE  LET ns == [ws EXCEPT ![u].neighbors = Inserted(@, key, b)]
           IN  EnlargedTo(vs, ns, ix) /\ Len(ns) = Len(ws)
<1> DEFINE n == Inserted(ws[u].neighbors, key, b)
           ns == [ws EXCEPT ![u].neighbors = Inserted(@, key, b)]
<1>1. /\ ws \in Seq(VerticeSet) /\ Len(ws) \in Nat /\ Len(vs) \in Nat /\ Enlarged(vs, ws)
      /\ \A v \in 1..Len(ws) : Range(ws[v].neighbors) \subseteq 1..Len(ws)
      /\ \A v \in 1..Len(ws) : ws[v] \in VerticeSet
      /\ ix \in Links
      /\ \A p \in DOMAIN ix : ix[p] \in 1..Len(ws) /\ ws[ix[p]].position = p
  BY DEF EnlargedTo, Fits
<1>2. n \in Links
  <2>1. ws[u].neighbors \in Links
    BY <1>1 DEF VerticeSet
  <2>2. PICK D \in SUBSET Positions : ws[u].neighbors \in [D -> Nat]
    BY <2>1 DEF Links
  <2>3. D \cup {key} \in SUBSET Positions /\ n \in [D \cup {key} -> Nat]
    BY <1>1, <2>2 DEF Inserted
  <2> QED
    BY <2>3 DEF Links
<1>3. Range(n) \subseteq Range(ws[u].neighbors) \cup {b}
  BY DEF Inserted, Range
<1> HIDE DEF n
<1> DEFINE r == [ws[u] EXCEPT !.neighbors = n]
<1>4. ns = [ws EXCEPT ![u] = r]
  BY DEF n
<1>5. /\ r \in VerticeSet /\ r.neighbors = n /\ r.position = ws[u].position
      /\ r.distance = ws[u].distance /\ r.visited = ws[u].visited
  BY <1>1, <1>2 DEF VerticeSet
<1> HIDE DEF r
<1>6. /\ ns \in Seq(VerticeSet) /\ Len(ns) = Len(ws) /\ ns[u] = r
      /\ \A v \in 1..Len(ws) : v # u => ns[v] = ws[v]
  <2> HIDE DEF ns
  <2> QED
    BY <1>1, <1>4, <1>5
<1> HIDE DEF ns
<1>7. /\ \A v \in 1..Len(ws) : /\ ns[v].position = ws[v].position
                               /\ ns[v].distance = ws[v].distance
                               /\ ns[v].visited = ws[v].visited
      /\ \A v \in 1..Len(ws) :
            Range(ns[v].neighbors) \subseteq Range(ws[v].neighbors) \cup {b}
      /\ \A v \in 1..Len(ws) : v # u => ns[v].neighbors = ws[v].neighbors
  BY <1>3, <1>5, <1>6
<1>8. Fits(ns, ix)
  <2>1. ASSUME NEW v \in 1..Len(ns)
        PROVE  Range(ns[v].neighbors) \subseteq 1..Len(ns)
    <3>1. v \in 1..Len(ws) /\ 1..Len(ns) = 1..Len(ws)
      BY <1>6
    <3>2. Range(ns[v].neighbors) \subseteq Range(ws[v].neighbors) \cup {b}
      BY <1>7, <3>1
    <3>3. Range(ws[v].neighbors) \subseteq 1..Len(ws)
      BY <1>1, <3>1
    <3> QED
      BY <3>1, <3>2, <3>3
  <2>2. \A p \in DOMAIN ix : ix[p] \in 1..Len(ns) /\ ns[ix[p]].position = p
    BY <1>1, <1>6, <1>7
  <2> QED
    BY <1>1, <1>6, <2>1, <2>2 DEF Fits
<1>9. Enlarged(vs, ns)
  <2>1. ASSUME NEW v \in 1..Len(vs), NEW m \in Range(ns[v].neighbors)
        PROVE  m \in Range(vs[v].neighbors) \/ m > Len(vs)
    <3>1. v \in 1..Len(ws)
      BY <1>1 DEF Enlarged
    <3>2. CASE m \in Range(ws[v].neighbors)
      BY <1>1, <3>2 DEF Enlarged
    <3>3. CASE m \notin Range(ws[v].neighbors)
      <4>1. m = b /\ v = u
        BY <1>7, <2>1, <3>1, <3>3
      <4> QED
        BY <1>1, <4>1
    <3> QED
      BY <3>2, <3>3
  <2>2. /\ Len(vs) <= Len(ns)
        /\ \A v \in 1..Len(vs) : /\ ns[v].position = vs[v].position
                                 /\ ns[v].distance = vs[v].distance
                                 /\ ns[v].visited = vs[v].visited
        /\ \A v \in 1..Len(ns) : v > Len(vs) => ~ns[v].visited
    BY <1>1, <1>6, <1>7 DEF Enlarged
  <2> QED
    BY <2>1, <2>2 DEF Enlarged
<1> QED
  BY <1>6, <1>8, <1>9 DEF EnlargedTo, ns

LEMMA NeighborFits ==
    ASSUME NEW vs \in Seq(VerticeSet), NEW ws, NEW ix, EnlargedTo(vs, ws, ix),
           NEW u \in 1..Len(ws), NEW b \in 1..Len(ws), u > Len(vs) \/ b > Len(vs)
    PROVE  LET ns == TryAddNeighbor(ws, u, b)
           IN  EnlargedTo(vs, ns, ix) /\ Len(ns) = Len(ws)
<1>1. ws[b].position \in Positions
  <2>1. ws[b] \in VerticeSet
    BY DEF EnlargedTo, Fits
  <2> QED
    BY <2>1 DEF VerticeSet
<1>2. CASE ws[b].position \in DOMAIN ws[u].neighbors
  BY <1>2 DEF TryAddNeighbor
<1>3. CASE ws[b].position \notin DOMAIN ws[u].neighbors
  BY <1>1, <1>3, LinkFits DEF TryAddNeighbor
<1> QED
  BY <1>2, <1>3

\* A pair of vertices is joined in both directions.
LEMMA JoinFits ==
    ASSUME NEW vs \in Seq(VerticeSet), NEW ws, NEW ix, EnlargedTo(vs, ws, ix),
           NEW u \in 1..Len(ws), NEW b \in 1..Len(ws), u > Len(vs) \/ b > Len(vs)
    PROVE  LET ns == TryAddNeighbor(TryAddNeighbor(ws, u, b), b, u)
           IN  EnlargedTo(vs, ns, ix) /\ Len(ns) = Len(ws)
<1> DEFINE ms == TryAddNeighbor(ws, u, b)
<1>1. EnlargedTo(vs, ms, ix) /\ Len(ms) = Len(ws)
  BY NeighborFits
<1> HIDE DEF ms
<1>2. /\ EnlargedTo(vs, TryAddNeighbor(ms, b, u), ix)
      /\ Len(TryAddNeighbor(ms, b, u)) = Len(ws)
  BY <1>1, NeighborFits
<1> QED
  BY <1>2 DEF ms

LEMMA ReplacedFits ==
    ASSUME NEW vs \in Seq(VerticeSet), NEW ws, NEW ix, EnlargedTo(vs, ws, ix),
           NEW u \in 1..Len(ws), NEW b \in 1..Len(ws), NEW c \in 1..Len(ws), c > Len(vs)
    PROVE  LET ns == TryReplaceNeighbor(ws, u, b, c)
           IN  EnlargedTo(vs, ns, ix) /\ Len(ns) = Len(ws)
<1>1. ws[b].position \in Positions
  <2>1. ws[b] \in VerticeSet
    BY DEF EnlargedTo, Fits
  <2> QED
    BY <2>1 DEF VerticeSet
<1> QED
  BY <1>1, LinkFits DEF TryReplaceNeighbor

\* A new vertice.
LEMMA AddedFits ==
    ASSUME NEW vs \in Seq(VerticeSet), NEW ws, NEW ix, EnlargedTo(vs, ws, ix),
           NEW p \in Positions, NEW type \in Types, Infinity \in Nat
    PROVE  LET g == AddVertice([vertices |-> ws, index |-> ix], p, type)
           IN  /\ EnlargedTo(vs, g.vertices, g.index)
               /\ Len(g.vertices) = Len(ws) + 1
               /\ g.index[p] = Len(ws) + 1
               /\ DOMAIN g.index = DOMAIN ix \cup {p}
               /\ \A q \in DOMAIN ix : q # p => g.index[q] = ix[q]
<1> DEFINE new == Vertice(p, type)
           ns == Append(ws, new)
           jx == Inserted(ix, p, Len(ws) + 1)
<1>1. /\ ws \in Seq(VerticeSet) /\ Len(ws) \in Nat /\ Len(vs) \in Nat /\ Enlarged(vs, ws)
      /\ \A v \in 1..Len(ws) : Range(ws[v].neighbors) \subseteq 1..Len(ws)
      /\ ix \in Links
      /\ \A q \in DOMAIN ix : ix[q] \in 1..Len(ws) /\ ws[ix[q]].position = q
  BY DEF EnlargedTo, Fits
<1>2. /\ new \in VerticeSet /\ new.position = p /\ new.visited = FALSE
      /\ Range(new.neighbors) = {}
  <2>1. <<>> \in Links
    <3>1. <<>> \in [{} -> Nat] /\ {} \in SUBSET Positions
      OBVIOUS
    <3> QED
      BY <3>1 DEF Links
  <2>2. new \in VerticeSet
    BY <2>1 DEF Vertice, VerticeSet, Null
  <2> QED
    BY <2>2 DEF Vertice, Range
<1> HIDE DEF new
<1>3. /\ ns \in Seq(VerticeSet) /\ Len(ns) = Len(ws) + 1 /\ ns[Len(ws) + 1] = new
      /\ \A v \in 1..Len(ws) : ns[v] = ws[v]
  BY <1>1, <1>2
<1>4. /\ DOMAIN jx = DOMAIN ix \cup {p} /\ jx[p] = Len(ws) + 1
      /\ \A q \in DOMAIN ix : q # p => jx[q] = ix[q]
  BY DEF Inserted
<1>5. jx \in Links
  <2>1. PICK D \in SUBSET Positions : ix \in [D -> Nat]
    BY <1>1 DEF Links
  <2>2. D \cup {p} \in SUBSET Positions /\ jx \in [D \cup {p} -> Nat]
    BY <1>1, <2>1 DEF Inserted
  <2> QED
    BY <2>2 DEF Links
<1> HIDE DEF ns, jx
<1>6. Fits(ns, jx)
  <2>1. ASSUME NEW v \in 1..Len(ns) PROVE Range(ns[v].neighbors) \subseteq 1..Len(ns)
    <3>1. CASE v \in 1..Len(ws)
      <4>1. Range(ws[v].neighbors) \subseteq 1..Len(ws) /\ ns[v] = ws[v]
        BY <1>1, <1>3, <3>1
      <4> QED
        BY <1>1, <1>3, <4>1
    <3>2. CASE v = Len(ws) + 1
      BY <1>2, <1>3, <3>2
    <3> QED
      BY <1>1, <1>3, <3>1, <3>2
  <2>2. \A q \in DOMAIN jx : jx[q] \in 1..Len(ns) /\ ns[jx[q]].position = q
    BY <1>1, <1>2, <1>3, <1>4
  <2> QED
    BY <1>3, <1>5, <2>1, <2>2 DEF Fits
<1>7. Enlarged(vs, ns)
  <2>1. \A v \in 1..Len(vs) : v \in 1..Len(ws) /\ ns[v] = ws[v]
    BY <1>1, <1>3 DEF Enlarged
  <2>2. \A v \in 1..Len(ns) : v > Len(vs) => ~ns[v].visited
    <3>1. ASSUME NEW v \in 1..Len(ns), v > Len(vs) PROVE ~ns[v].visited
      <4>1. CASE v \in 1..Len(ws)
        BY <1>1, <1>3, <3>1, <4>1 DEF Enlarged
      <4>2. CASE v = Len(ws) + 1
        BY <1>2, <1>3, <4>2
      <4> QED
        BY <1>1, <1>3, <3>1, <4>1, <4>2
    <3> QED
      BY <3>1
  <2> QED
    BY <1>1, <1>3, <2>1, <2>2 DEF Enlarged
<1>8. LET g == AddVertice([vertices |-> ws, index |-> ix], p, type)
      IN  g.vertices = ns /\ g.index = jx
  BY DEF AddVertice, ns, jx, new
<1> QED
  BY <1>3, <1>4, <1>6, <1>7, <1>8 DEF EnlargedTo

-----------------------------------------------------------------------------
(* Building the tree                                                       *)

LineSet == [p1 : Positions, p2 : Positions]

NoVertices == <<>>

\* Graphs of which no vertice was ever visited.
Drawn ==
    {g \in [vertices : Seq(VerticeSet), index : Links] :
        EnlargedTo(NoVertices, g.vertices, g.index)}

LEMMA StandardFits ==
    ASSUME NEW g \in Drawn, NEW p \in Positions, Infinity \in Nat
    PROVE  /\ Standard(g, p) \in Drawn
           /\ DOMAIN Standard(g, p).index = DOMAIN g.index \cup {p}
<1>1. /\ EnlargedTo(NoVertices, g.vertices, g.index)
      /\ g = [vertices |-> g.vertices, index |-> g.index]
  BY DEF Drawn
<1>2. CASE p \in DOMAIN g.index
  BY <1>2 DEF Standard
<1>3. CASE p \notin DOMAIN g.index
  <2> DEFINE h == AddVertice([vertices |-> g.vertices, index |-> g.index], p, "Standard")
  <2>1. Standard(g, p) = h /\ h = [vertices |-> h.vertices, index |-> h.index]
    BY <1>1, <1>3 DEF Standard, AddVertice
  <2>2. EnlargedTo(NoVertices, h.vertices, h.index) /\ DOMAIN h.index = DOMAIN g.index \cup {p}
    <3>1. "Standard" \in Types /\ NoVertices \in Seq(VerticeSet)
      BY DEF Types, NoVertices
    <3> QED
      BY <1>1, <3>1, AddedFits
  <2> HIDE DEF h
  <2>3. h.vertices \in Seq(VerticeSet) /\ h.index \in Links
    BY <2>2 DEF EnlargedTo, Fits
  <2> QED
    BY <2>1, <2>2, <2>3 DEF Drawn
<1> QED
  BY <1>2, <1>3

LEMMA AddLineFits ==
    ASSUME NEW g \in Drawn, NEW l \in LineSet, Infinity \in Nat
    PROVE  AddLine(g, l) \in Drawn
<1> DEFINE both == Standard(Standard(g, l.p1), l.p2)
           v1 == both.index[l.p1]
           v2 == both.index[l.p2]
           ns == TryAddNeighbor(TryAddNeighbor(both.vertices, v1, v2), v2, v1)
<1>0. l.p1 \in Positions /\ l.p2 \in Positions
  BY DEF LineSet
<1>1. both \in Drawn /\ {l.p1, l.p2} \subseteq DOMAIN both.index
  BY <1>0, StandardFits
<1>2. AddLine(g, l) = [both EXCEPT !.vertices = ns]
  BY DEF AddLine
<1> HIDE DEF both
<1>3. /\ EnlargedTo(NoVertices, both.vertices, both.index)
      /\ both = [vertices |-> both.vertices, index |-> both.index]
  BY <1>1 DEF Drawn
<1>4. v1 \in 1..Len(both.vertices) /\ v2 \in 1..Len(both.vertices)
  BY <1>1, <1>3 DEF EnlargedTo, Fits
<1> HIDE DEF v1, v2
<1>5. EnlargedTo(NoVertices, ns, both.index)
  <2>1. v1 > Len(NoVertices) /\ NoVertices \in Seq(VerticeSet)
    BY <1>4 DEF NoVertices
  <2> QED
    BY <1>3, <1>4, <2>1, JoinFits
<1> HIDE DEF ns
<1>6. ns \in Seq(VerticeSet) /\ both.index \in Links
  BY <1>5 DEF EnlargedTo, Fits
<1>7. AddLine(g, l) = [vertices |-> ns, index |-> both.index]
  BY <1>2, <1>3
<1> QED
  BY <1>5, <1>6, <1>7 DEF Drawn

-----------------------------------------------------------------------------
(* Ad hoc vertices                                                         *)

LEMMA ClosestFits ==
    ASSUME NEW l, l.p1 \in Positions, l.p2 \in Positions, NEW p \in Positions
    PROVE  ClosestPointTo(l, p) \in Positions
BY DEF ClosestPointTo, Point, Clamp, Greater, Lesser, MinX,
       MaxX, MinY, MaxY, Positions

\* What setOrigin() and setDestination() make of the graph.
LEMMA AdHocFits ==
    ASSUME Fits(vertices, index), NEW point \in Positions, NEW type \in Types,
           NEW dir, Infinity \in Nat
    PROVE  LET o == AddAdHocVertice(point, type, dir)
           IN  /\ EnlargedTo(vertices, o.vertices, o.index)
               /\ \A v \in Range(o.index) : v \in Range(index) \/ v > Len(vertices)
<1> DEFINE cleared == ClearAdHocVertices(type)
           graph == AddVertice([vertices |-> vertices, index |-> cleared], point, type)
           v1 == graph.index[point]
           l == lines[FindClosestLine(lines, point, dir)]
           closest == ClosestPointTo(l, point)
           joined == Join(graph, v1, graph.index[closest])
           split == Split(graph, l, closest, v1, type)
           o == AddAdHocVertice(point, type, dir)
           n == Len(vertices)
<1>0. /\ vertices \in Seq(VerticeSet) /\ n \in Nat /\ Enlarged(vertices, vertices)
      /\ index \in Links
      /\ \A p \in DOMAIN index : index[p] \in 1..n /\ vertices[index[p]].position = p
  <2>1. /\ vertices \in Seq(VerticeSet) /\ n \in Nat /\ index \in Links
        /\ \A p \in DOMAIN index : index[p] \in 1..n /\ vertices[index[p]].position = p
    BY DEF Fits
  <2>2. Enlarged(vertices, vertices)
    BY <2>1 DEF Enlarged
  <2> QED
    BY <2>1, <2>2
<1>1. /\ DOMAIN cleared \subseteq DOMAIN index
      /\ \A p \in DOMAIN cleared : cleared[p] = index[p]
      /\ cleared \in Links
  <2>1. /\ DOMAIN cleared \subseteq DOMAIN index
        /\ \A p \in DOMAIN cleared : cleared[p] = index[p]
        /\ cleared = [p \in DOMAIN cleared |-> cleared[p]]
    BY DEF ClearAdHocVertices, RestrictValues, Restrict
  <2> HIDE DEF cleared
  <2>2. PICK D \in SUBSET Positions : index \in [D -> Nat]
    BY <1>0 DEF Links
  <2>3. DOMAIN cleared \in SUBSET Positions /\ cleared \in [DOMAIN cleared -> Nat]
    BY <2>1, <2>2
  <2> QED
    BY <2>1, <2>3 DEF Links
<1> HIDE DEF cleared
<1>2. EnlargedTo(vertices, vertices, cleared)
  <2>1. Fits(vertices, cleared)
    BY <1>1 DEF Fits
  <2> QED
    BY <1>0, <2>1 DEF EnlargedTo
<1>3. /\ EnlargedTo(vertices, graph.vertices, graph.index)
      /\ Len(graph.vertices) = n + 1 /\ v1 = n + 1
      /\ DOMAIN graph.index = DOMAIN cleared \cup {point}
      /\ \A q \in DOMAIN cleared : q # point => graph.index[q] = cleared[q]
  <2> HIDE DEF n
  <2> QED
    BY <1>0, <1>2, AddedFits DEF n
<1>4. /\ graph.vertices \in Seq(VerticeSet) /\ graph.index \in Links
      /\ \A p \in DOMAIN graph.index : graph.index[p] \in 1..(n + 1)
  <2> HIDE DEF graph
  <2> QED
    BY <1>3 DEF EnlargedTo, Fits
<1>5. \A v \in Range(graph.index) : v \in Range(index) \/ v > n
  <2> HIDE DEF graph
  <2> QED
    BY <1>0, <1>1, <1>3 DEF Range
<1>6. CASE point \in DOMAIN index
  <2>1. o.vertices = vertices /\ o.index = index
    BY <1>6 DEF AddAdHocVertice
  <2> QED
    BY <1>0, <2>1 DEF EnlargedTo
<1>7. ASSUME o.vertices = graph.vertices, o.index = graph.index
      PROVE  EnlargedTo(vertices, o.vertices, o.index)
             /\ \A v \in Range(o.index) : v \in Range(index) \/ v > n
  BY <1>3, <1>5, <1>7
<1>8. ASSUME closest \in DOMAIN graph.index, o.vertices = joined.vertices,
             o.index = joined.index
      PROVE  EnlargedTo(vertices, o.vertices, o.index)
             /\ \A v \in Range(o.index) : v \in Range(index) \/ v > n
  <2> DEFINE w == graph.index[closest]
             ns == TryAddNeighbor(TryAddNeighbor(graph.vertices, v1, w), w, v1)
  <2>1. joined.vertices = ns /\ joined.index = graph.index
    BY DEF Join, AddVertice
  <2>2. w \in 1..Len(graph.vertices) /\ v1 \in 1..Len(graph.vertices) /\ v1 > n
    BY <1>0, <1>3, <1>4, <1>8
  <2>3. EnlargedTo(vertices, ns, graph.index)
    <3> HIDE DEF graph, w, v1
    <3> QED
      BY <1>0, <1>3, <2>2, JoinFits
  <2> HIDE DEF ns, joined, o, graph
  <2> QED
    BY <1>5, <1>8, <2>1, <2>3
<1>9. ASSUME {l.p1, l.p2} \subseteq DOMAIN graph.index, o.vertices = split.vertices,
             o.index = split.index
      PROVE  EnlargedTo(vertices, o.vertices, o.index)
             /\ \A v \in Range(o.index) : v \in Range(index) \/ v > n
  <2> DEFINE g == AddVertice(graph, closest, type)
             lv1 == graph.index[l.p1]
             lv2 == graph.index[l.p2]
             v2 == g.index[closest]
             ma == TryReplaceNeighbor(g.vertices, lv1, lv2, v2)
             mb == TryReplaceNeighbor(ma, lv2, lv1, v2)
             mc == TryAddNeighbor(mb, v2, lv1)
             md == TryAddNeighbor(mc, v2, lv2)
             ns == TryAddNeighbor(TryAddNeighbor(md, v2, v1), v1, v2)
  <2>1. split.vertices = ns /\ split.index = g.index
    BY DEF Split, AddVertice
  <2>2. closest \in Positions
    <3>1. DOMAIN graph.index \subseteq Positions
      <4> HIDE DEF graph
      <4> QED
        BY <1>4 DEF Links
    <3> HIDE DEF graph, l
    <3> QED
      BY <1>9, <3>1, ClosestFits
  <2>3. lv1 \in 1..(n + 1) /\ lv2 \in 1..(n + 1)
    BY <1>4, <1>9
  <2>4. graph = [vertices |-> graph.vertices, index |-> graph.index]
    BY DEF AddVertice
  <2> HIDE DEF graph, closest, l, lv1, lv2, v1, split, o
  <2>5. /\ EnlargedTo(vertices, g.vertices, g.index) /\ Len(g.vertices) = n + 2 /\ v2 = n + 2
        /\ DOMAIN g.index = DOMAIN graph.index \cup {closest}
        /\ \A q \in DOMAIN graph.index : q # closest => g.index[q] = graph.index[q]
    <3> HIDE DEF g
    <3>1. /\ EnlargedTo(vertices, g.vertices, g.index)
          /\ Len(g.vertices) = Len(graph.vertices) + 1 /\ v2 = Len(graph.vertices) + 1
          /\ DOMAIN g.index = DOMAIN graph.index \cup {closest}
          /\ \A q \in DOMAIN graph.index : q # closest => g.index[q] = graph.index[q]
      BY <1>0, <1>3, <2>2, <2>4, AddedFits DEF g
    <3> QED
      BY <1>0, <1>3, <3>1
  <2>6. lv1 \in 1..(n + 2) /\ lv2 \in 1..(n + 2) /\ v1 \in 1..(n + 2) /\ v2 \in 1..(n + 2)
        /\ v2 > n
    BY <1>0, <1>3, <2>3, <2>5
  <2> HIDE DEF g, v2, n
  <2>7. EnlargedTo(vertices, ma, g.index) /\ Len(ma) = n + 2
    BY <1>0, <2>5, <2>6, ReplacedFits DEF n
  <2> HIDE DEF ma
  <2>8. EnlargedTo(vertices, mb, g.index) /\ Len(mb) = n + 2
    BY <1>0, <2>6, <2>7, ReplacedFits DEF n
  <2> HIDE DEF mb
  <2>9. EnlargedTo(vertices, mc, g.index) /\ Len(mc) = n + 2
    BY <1>0, <2>6, <2>8, NeighborFits DEF n
  <2> HIDE DEF mc
  <2>10. EnlargedTo(vertices, md, g.index) /\ Len(md) = n + 2
    BY <1>0, <2>6, <2>9, NeighborFits DEF n
  <2> HIDE DEF md
  <2>11. EnlargedTo(vertices, ns, g.index)
    BY <1>0, <2>6, <2>10, JoinFits DEF n
  <2> HIDE DEF ns
  <2>12. \A v \in Range(g.index) : v \in Range(index) \/ v > n
    <3>1. ASSUME NEW q \in DOMAIN g.index
          PROVE  g.index[q] \in Range(index) \/ g.index[q] > n
      <4>1. CASE q = closest
        <5>1. g.index[q] = n + 2
          BY <2>5, <4>1 DEF v2
        <5> QED
          BY <1>0, <5>1
      <4>2. CASE q # closest
        <5>1. q \in DOMAIN graph.index /\ g.index[q] = graph.index[q]
          BY <2>5, <3>1, <4>2
        <5>2. graph.index[q] \in Range(graph.index)
          BY <5>1 DEF Range
        <5> QED
          BY <1>5, <5>1, <5>2
      <4> QED
        BY <4>1, <4>2
    <3> QED
      BY <3>1 DEF Range
  <2> QED
    BY <1>9, <2>1, <2>11, <2>12
<1>10. \/ point \in DOMAIN index
       \/ o.vertices = graph.vertices /\ o.index = graph.index
       \/ closest \in DOMAIN graph.index /\ o.vertices = joined.vertices
          /\ o.index = joined.index
       \/ {l.p1, l.p2} \subseteq DOMAIN graph.index /\ o.vertices = split.vertices
          /\ o.index = split.index
  BY DEF AddAdHocVertice, cleared
<1> HIDE DEF o, graph, joined, split, closest, l
<1> QED
  BY <1>6, <1>7, <1>8, <1>9, <1>10 DEF o

-----------------------------------------------------------------------------
(* Recursion on the lines of the network                                   *)

\* The graph of any lines.
LEMMA BuiltFits ==
    ASSUME NEW ls \in Seq(LineSet), Infinity \in Nat
    PROVE  InitializeFromLines(ls) \in Drawn
<1> DEFINE n == Len(ls)
           empty == [vertices |-> <<>>, index |-> <<>>]
           rule == [x \in 1..n |-> [g \in Drawn |-> AddLine(g, ls[x])]]
           Builds(f) ==
               f = [x \in 0..n |-> IF x = 0 THEN empty ELSE AddLine(f[x - 1], ls[x])]
<1>n. n \in Nat /\ n = Len(ls)
  OBVIOUS
<1>1. empty \in Drawn
  <2>1. <<>> \in Links
    <3>1. <<>> \in [{} -> Nat] /\ {} \in SUBSET Positions
      OBVIOUS
    <3> QED
      BY <3>1 DEF Links
  <2>2. <<>> \in Seq(VerticeSet) /\ Len(<<>>) = 0
    OBVIOUS
  <2>3. EnlargedTo(NoVertices, <<>>, <<>>)
    BY <2>1, <2>2 DEF EnlargedTo, Fits, Enlarged, NoVertices
  <2> QED
    BY <2>1, <2>2, <2>3 DEF Drawn
<1>2. ASSUME NEW x \in 1..n, NEW g \in Drawn PROVE AddLine(g, ls[x]) \in Drawn
  <2>1. ls[x] \in LineSet
    OBVIOUS
  <2> QED
    BY <2>1, AddLineFits
<1> HIDE DEF n, empty
<1>3. rule \in [1..n -> [Drawn -> Drawn]]
  BY <1>2
<1>4. PICK f : Computes(f, Drawn, n, empty, rule)
  <2> HIDE DEF rule
  <2> QED
    BY <1>n, <1>1, <1>3, StepsExist
<1>5. Builds(f)
  <2>1. ASSUME NEW x \in 1..n PROVE f[x] = AddLine(f[x - 1], ls[x])
    <3>1. x - 1 \in 0..n /\ f[x - 1] \in Drawn
      BY <1>n, <1>4 DEF Computes
    <3> QED
      BY <1>4, <3>1 DEF Computes
  <2>2. f = [x \in 0..n |-> f[x]] /\ f[0] = empty
    BY <1>4 DEF Computes
  <2>3. \A x \in 0..n : x # 0 => x \in 1..n
    BY <1>n
  <2>4. \A x \in 0..n : f[x] = IF x = 0 THEN empty ELSE AddLine(f[x - 1], ls[x])
    BY <2>1, <2>2, <2>3
  <2> QED
    BY <2>2, <2>4
<1>6. ASSUME NEW f1, Builds(f1) PROVE f1[n] \in Drawn
  <2> DEFINE Bad == {x \in 0..n : f1[x] \notin Drawn}
  <2>1. SUFFICES ASSUME Bad # {} PROVE FALSE
    BY <1>n
  <2>2. PICK x \in Bad : \A j \in Bad : x <= j
    <3>1. Bad \subseteq Nat
      OBVIOUS
    <3> HIDE DEF Bad
    <3> QED
      BY <2>1, <3>1, LeastExists
  <2>3. \A j \in 0..n : f1[j] = IF j = 0 THEN empty ELSE AddLine(f1[j - 1], ls[j])
    BY <1>6
  <2>4. x \in 0..n /\ f1[x] \notin Drawn
    OBVIOUS
  <2>5. x # 0
    BY <1>1, <2>3, <2>4
  <2>6. x \in 1..n /\ x - 1 \in 0..n /\ x - 1 \notin Bad
    BY <1>n, <2>2, <2>4, <2>5
  <2>7. f1[x - 1] \in Drawn
    BY <2>6
  <2>8. f1[x] = AddLine(f1[x - 1], ls[x])
    BY <2>3, <2>4, <2>5
  <2> QED
    BY <1>2, <2>4, <2>6, <2>7, <2>8
<1> QED
  <2>1. Builds(CHOOSE g : Builds(g))
    <3> HIDE DEF Builds
    <3> QED
      BY <1>5
  <2> QED
    BY <1>6, <2>1 DEF InitializeFromLines, n, empty

-----------------------------------------------------------------------------
(* The search                                                              *)

\* A distance rounded down.
LEMMA DistanceFits ==
    ASSUME NEW p \in Positions, NEW q \in Positions
    PROVE  Distance(p, q) \in Nat /\ (p # q => Distance(p, q) # 0)
<1> DEFINE n == SquaredDistance(p, q)
           Above == {d \in Nat : n < (d + 1) * (d + 1)}
           Root(d) == d * d <= n /\ n < (d + 1) * (d + 1)
<1>1. n \in Nat
  <2>1. \A k \in Int : k * k \in Nat
    OBVIOUS
  <2>2. p.x - q.x \in Int /\ p.y - q.y \in Int
    BY DEF Positions
  <2>3. (p.x - q.x) * (p.x - q.x) \in Nat /\ (p.y - q.y) * (p.y - q.y) \in Nat
    BY <2>1, <2>2
  <2> QED
    BY <2>3 DEF SquaredDistance
<1> HIDE DEF n
<1>2. n \in Above
  BY <1>1
<1>3. PICK d \in Above : \A k \in Above : d <= k
  <2>1. Above \subseteq Nat
    OBVIOUS
  <2> HIDE DEF Above
  <2> QED
    BY <1>2, <2>1, LeastExists
<1>4. d * d <= n
  <2>1. CASE d = 0
    BY <1>1, <2>1
  <2>2. CASE d # 0
    <3>1. d - 1 \in Nat /\ d - 1 \notin Above /\ (d - 1) + 1 = d
      BY <1>3, <2>2
    <3> QED
      BY <1>1, <3>1
  <2> QED
    BY <2>1, <2>2
<1>5. d \in 0..n /\ Root(d)
  BY <1>1, <1>2, <1>3, <1>4
<1>6. Distance(p, q) \in 0..n /\ Root(Distance(p, q))
  <2>1. Distance(p, q) = CHOOSE x \in 0..n : Root(x)
    BY DEF Distance, n
  <2> HIDE DEF Root
  <2> QED
    BY <1>5, <2>1
<1>7. p # q => n # 0
  <2>1. p = [x |-> p.x, y |-> p.y] /\ q = [x |-> q.x, y |-> q.y]
    BY DEF Positions
  <2>2. p.x - q.x \in Int /\ p.y - q.y \in Int /\ (p # q => p.x - q.x # 0 \/ p.y - q.y # 0)
    BY <2>1 DEF Positions
  <2>3. \A k \in Int : k * k \in Nat /\ (k # 0 => k * k # 0)
    OBVIOUS
  <2>4. /\ (p.x - q.x) * (p.x - q.x) \in Nat /\ (p.y - q.y) * (p.y - q.y) \in Nat
        /\ p # q => (p.x - q.x) * (p.x - q.x) # 0 \/ (p.y - q.y) * (p.y - q.y) # 0
    BY <2>2, <2>3
  <2> QED
    BY <2>4 DEF SquaredDistance, n
<1> QED
  BY <1>1, <1>6, <1>7

\* Of the vertices that wait one is the nearest.
LEMMA NearestFits ==
    ASSUME Fits(vertices, index), NEW S, S \subseteq Range(index), S # {}
    PROVE  /\ Nearest(S) \in S
           /\ \A w \in S : vertices[Nearest(S)].distance <= vertices[w].distance
<1> DEFINE n == Len(vertices)
           d(v) == vertices[v].distance
           Better(v, w) == \/ d(v) < d(w)
                           \/ /\ d(v) = d(w)
                              /\ NameBefore(vertices[w].position, vertices[v].position)
           Best(T) == \E v \in T : \A w \in T \ {v} : Better(v, w)
           UpTo(k) == {v \in S : v <= k}
           Bad == {k \in 0..n : UpTo(k) # {} /\ ~Best(UpTo(k))}
<1>0. n \in Nat /\ \A v \in 1..n : vertices[v] \in VerticeSet
  BY DEF Fits
<1>1. ASSUME NEW v \in S
      PROVE  v \in 1..n /\ d(v) \in Nat /\ vertices[v].position \in Positions
  <2>1. v \in 1..n
    BY DEF Fits, Range
  <2> QED
    BY <1>0, <2>1 DEF VerticeSet
<1>2. ASSUME NEW v \in S, NEW w \in S, v # w
      PROVE  vertices[v].position # vertices[w].position
  <2>1. PICK p \in DOMAIN index : v = index[p]
    BY DEF Range
  <2>2. PICK q \in DOMAIN index : w = index[q]
    BY DEF Range
  <2>3. vertices[v].position = p /\ vertices[w].position = q
    BY <2>1, <2>2 DEF Fits
  <2> QED
    BY <1>2, <2>1, <2>2, <2>3
<1>3. ASSUME NEW v \in S, NEW w \in S, v # w
      PROVE  Better(v, w) \/ Better(w, v)
  <2>1. \A p, q \in Positions : p # q => NameBefore(p, q) \/ NameBefore(q, p)
    BY DEF NameBefore, Positions
  <2>2. NameBefore(vertices[v].position, vertices[w].position)
        \/ NameBefore(vertices[w].position, vertices[v].position)
    BY <1>1, <1>2, <1>3, <2>1
  <2>3. d(v) \in Nat /\ d(w) \in Nat
    BY <1>1
  <2> HIDE DEF d
  <2> QED
    BY <2>2, <2>3
<1>4. ASSUME NEW v \in S, NEW w \in S, NEW u \in S, Better(v, w), Better(w, u)
      PROVE  Better(v, u)
  <2>1. \A p, q, r \in Positions :
            NameBefore(p, q) /\ NameBefore(q, r) => NameBefore(p, r)
    BY DEF NameBefore, Positions
  <2>2. /\ vertices[v].position \in Positions /\ vertices[w].position \in Positions
        /\ vertices[u].position \in Positions
        /\ d(v) \in Nat /\ d(w) \in Nat /\ d(u) \in Nat
    BY <1>1
  <2> HIDE DEF d
  <2> QED
    BY <1>4, <2>1, <2>2
<1> HIDE DEF Better
<1>5. Best(S)
  <2>1. UpTo(n) = S
    BY <1>1
  <2>2. SUFFICES ASSUME Bad # {} PROVE FALSE
    BY <1>0, <2>1
  <2>3. PICK k \in Bad : \A j \in Bad : k <= j
    <3>1. Bad \subseteq Nat
      OBVIOUS
    <3> HIDE DEF Bad
    <3> QED
      BY <2>2, <3>1, LeastExists
  <2>4. k \in 0..n /\ UpTo(k) # {} /\ ~Best(UpTo(k))
    OBVIOUS
  <2>5. k # 0
    BY <1>1, <2>4
  <2>6. k - 1 \in 0..n /\ (UpTo(k - 1) = {} \/ Best(UpTo(k - 1)))
    <3>1. k - 1 \in 0..n /\ k - 1 \notin Bad
      BY <1>0, <2>3, <2>4, <2>5
    <3> QED
      BY <3>1
  <2>7. \A v \in UpTo(k) : v \in UpTo(k - 1) \/ v = k
    BY <1>1, <2>4
  <2>8. UpTo(k - 1) \subseteq UpTo(k) /\ UpTo(k) \subseteq S
    BY <1>1, <2>4
  <2> HIDE DEF UpTo, Bad
  <2>9. CASE k \notin UpTo(k)
    <3>1. UpTo(k) = UpTo(k - 1)
      BY <2>7, <2>8, <2>9
    <3> QED
      BY <2>4, <2>6, <3>1
  <2>10. CASE k \in UpTo(k) /\ UpTo(k - 1) = {}
    <3>1. \A v \in UpTo(k) : v = k
      BY <2>7, <2>10
    <3> QED
      BY <2>4, <2>10, <3>1
  <2>11. CASE k \in UpTo(k) /\ UpTo(k - 1) # {}
    <3>1. PICK b \in UpTo(k - 1) : \A w \in UpTo(k - 1) \ {b} : Better(b, w)
      BY <2>6, <2>11
    <3>2. CASE b = k \/ Better(b, k)
      <4>1. \A w \in UpTo(k) \ {b} : Better(b, w)
        BY <2>7, <3>1, <3>2
      <4> QED
        BY <2>4, <2>8, <4>1
    <3>3. CASE b # k /\ Better(k, b)
      <4>1. ASSUME NEW w \in UpTo(k) \ {k} PROVE Better(k, w)
        <5>1. w \in UpTo(k - 1)
          BY <2>7
        <5>2. CASE w = b
          BY <3>3, <5>2
        <5>3. CASE w # b
          BY <1>4, <2>8, <2>11, <3>1, <3>3, <5>1, <5>3
        <5> QED
          BY <5>2, <5>3
      <4> QED
        BY <2>4, <2>11, <4>1
    <3> QED
      BY <1>3, <2>8, <2>11, <3>2, <3>3
  <2> QED
    BY <2>9, <2>10, <2>11
<1>6. Nearest(S) \in S /\ \A w \in S \ {Nearest(S)} : Better(Nearest(S), w)
  <2>1. Nearest(S) = CHOOSE v \in S : \A w \in S \ {v} : Better(v, w)
    BY DEF Nearest, Better
  <2> HIDE DEF Better
  <2> QED
    BY <1>5, <2>1
<1> DEFINE c == Nearest(S)
<1> HIDE DEF c
<1>7. c \in S /\ \A w \in S \ {c} : Better(c, w)
  BY <1>6 DEF c
<1>8. ASSUME NEW w \in S PROVE d(c) <= d(w)
  <2>1. d(c) \in Nat /\ d(w) \in Nat
    BY <1>1, <1>7
  <2>2. c = w \/ d(c) < d(w) \/ d(c) = d(w)
    BY <1>7 DEF Better
  <2> HIDE DEF d
  <2> QED
    BY <2>1, <2>2
<1> QED
  BY <1>6, <1>8 DEF c

-----------------------------------------------------------------------------
\* What a visit of the vertice c does to the vertices.
LEMMA RelaxFits ==
    ASSUME Fits(vertices, index), NEW c \in 1..Len(vertices)
    PROVE  /\ Relax(c) \in Seq(VerticeSet) /\ Len(Relax(c)) = Len(vertices)
           /\ \A n \in 1..Len(vertices) :
                 /\ Relax(c)[n].position = vertices[n].position
                 /\ Relax(c)[n].neighbors = vertices[n].neighbors
                 /\ Relax(c)[n].distance <= vertices[n].distance
                 /\ \/ Relax(c)[n].distance = vertices[n].distance
                    \/ vertices[c].distance <= Relax(c)[n].distance
                 /\ Relax(c)[n].visited = (vertices[n].visited \/ n = c)
                 /\ vertices[n].visited => Relax(c)[n].distance = vertices[n].distance
                 /\ n \in Range(vertices[c].neighbors) /\ ~vertices[n].visited =>
                       Relax(c)[n].distance
                           <= vertices[c].distance
                                + Distance(vertices[c].position, vertices[n].position)
           /\ Relax(c)[c].distance = vertices[c].distance
<1> DEFINE D(n) == Distance(vertices[c].position, vertices[n].position)
           far(n) == vertices[c].distance + D(n)
           r == Relax(c)
<1>0. /\ vertices \in Seq(VerticeSet) /\ Len(vertices) \in Nat
      /\ \A n \in 1..Len(vertices) : vertices[n] \in VerticeSet
  BY DEF Fits
<1>1. ASSUME NEW n \in 1..Len(vertices)
      PROVE  /\ vertices[n].distance \in Nat /\ vertices[n].visited \in BOOLEAN
             /\ vertices[n].position \in Positions
  <2>1. vertices[n] \in VerticeSet
    BY <1>0
  <2> QED
    BY <2>1 DEF VerticeSet
<1>2. ASSUME NEW n \in 1..Len(vertices)
      PROVE  D(n) \in Nat /\ far(n) \in Nat
  <2>1. D(n) \in Nat
    BY <1>1, DistanceFits
  <2> QED
    BY <1>1, <2>1
<1> HIDE DEF D
<1>3. ASSUME NEW n \in 1..Len(vertices)
      PROVE  r[n] = IF Improves(c, n)
                    THEN [vertices[n] EXCEPT !.distance = far(n), !.source = c,
                                             !.visited = n = c]
                    ELSE IF n = c THEN [vertices[n] EXCEPT !.visited = TRUE]
                    ELSE vertices[n]
  <2>1. n \in DOMAIN vertices
    BY <1>0
  <2> QED
    BY <2>1, Zenon DEF Relax, D
<1>4. r = [n \in 1..Len(vertices) |-> r[n]]
  BY <1>0 DEF Relax
<1> HIDE DEF r
<1>5. ASSUME NEW n \in 1..Len(vertices), Improves(c, n)
      PROVE  /\ n # c /\ n \in Range(vertices[c].neighbors) /\ ~vertices[n].visited
             /\ far(n) < vertices[n].distance
  <2>1. n \in Range(vertices[c].neighbors) /\ ~vertices[n].visited
        /\ far(n) < vertices[n].distance
    BY <1>5 DEF Improves, D
  <2>2. n # c
    BY <1>1, <1>2, <2>1
  <2> QED
    BY <2>1, <2>2
<1>6. ASSUME NEW n \in 1..Len(vertices)
      PROVE  /\ r[n] \in VerticeSet
             /\ r[n].position = vertices[n].position
             /\ r[n].neighbors = vertices[n].neighbors
             /\ r[n].distance = IF Improves(c, n) THEN far(n) ELSE vertices[n].distance
             /\ r[n].visited = (vertices[n].visited \/ n = c)
  <2>1. CASE Improves(c, n)
    <3>1. r[n] = [vertices[n] EXCEPT !.distance = far(n), !.source = c, !.visited = FALSE]
      BY <1>3, <1>5, <2>1
    <3>2. vertices[n] \in VerticeSet /\ far(n) \in Nat /\ c \in Nat
      BY <1>0, <1>2
    <3> HIDE DEF far
    <3>3. /\ r[n] \in VerticeSet /\ r[n].position = vertices[n].position
          /\ r[n].neighbors = vertices[n].neighbors
          /\ r[n].distance = far(n) /\ r[n].visited = FALSE
      BY <3>1, <3>2 DEF VerticeSet
    <3>4. ~vertices[n].visited /\ n # c
      BY <1>5, <2>1
    <3> QED
      BY <2>1, <3>3, <3>4
  <2>2. CASE ~Improves(c, n) /\ n = c
    <3>1. r[n] = [vertices[n] EXCEPT !.visited = TRUE] /\ vertices[n] \in VerticeSet
      BY <1>0, <1>3, <2>2
    <3>2. /\ r[n] \in VerticeSet /\ r[n].position = vertices[n].position
          /\ r[n].neighbors = vertices[n].neighbors
          /\ r[n].distance = vertices[n].distance /\ r[n].visited = TRUE
      BY <3>1 DEF VerticeSet
    <3> QED
      BY <2>2, <3>2
  <2>3. CASE ~Improves(c, n) /\ n # c
    <3>1. r[n] = vertices[n] /\ vertices[n] \in VerticeSet
      BY <1>0, <1>3, <2>3
    <3>2. vertices[n].visited \in BOOLEAN
      BY <1>1
    <3> QED
      BY <2>3, <3>1, <3>2
  <2> QED
    BY <2>1, <2>2, <2>3
<1>7. r \in Seq(VerticeSet) /\ Len(r) = Len(vertices)
  <2>1. \A n \in 1..Len(vertices) : r[n] \in VerticeSet
    BY <1>6
  <2> QED
    BY <1>0, <1>4, <2>1
<1>8. ASSUME NEW n \in 1..Len(vertices)
      PROVE  /\ r[n].distance <= vertices[n].distance
             /\ r[n].distance = vertices[n].distance \/ vertices[c].distance <= r[n].distance
             /\ vertices[n].visited => r[n].distance = vertices[n].distance
             /\ n \in Range(vertices[c].neighbors) /\ ~vertices[n].visited =>
                    r[n].distance <= far(n)
             /\ n = c => r[n].distance = vertices[n].distance
  <2>1. CASE Improves(c, n)
    <3>1. r[n].distance = far(n) /\ far(n) < vertices[n].distance /\ ~vertices[n].visited
          /\ n # c
      BY <1>5, <1>6, <2>1
    <3>2. vertices[c].distance <= far(n)
      BY <1>1, <1>2
    <3>3. far(n) \in Nat /\ vertices[n].distance \in Nat
      BY <1>1, <1>2
    <3> HIDE DEF far
    <3> QED
      BY <3>1, <3>2, <3>3
  <2>2. CASE ~Improves(c, n)
    <3>1. r[n].distance = vertices[n].distance
      BY <1>6, <2>2
    <3>2. vertices[n].distance \in Nat /\ far(n) \in Nat
      BY <1>1, <1>2
    <3>3. n \in Range(vertices[c].neighbors) /\ ~vertices[n].visited =>
              ~(far(n) < vertices[n].distance)
      BY <2>2 DEF Improves, D
    <3> HIDE DEF far
    <3> QED
      BY <3>1, <3>2, <3>3
  <2> QED
    BY <2>1, <2>2
<1> QED
  BY <1>6, <1>7, <1>8 DEF r, D

-----------------------------------------------------------------------------
(* The steps                                                               *)

LEMMA TreeAtInit == Init => TreeInv
<1> SUFFICES ASSUME Init PROVE TreeInv
  OBVIOUS
<1>1. Range(index) = {} /\ vertices = <<>> /\ index = <<>>
  BY DEF Init, Range
<1>2. <<>> \in Links
  <2>1. <<>> \in [{} -> Nat] /\ {} \in SUBSET Positions
    OBVIOUS
  <2> QED
    BY <2>1 DEF Links
<1>3. Fits(vertices, index)
  BY <1>1, <1>2 DEF Fits
<1> QED
  BY <1>1, <1>3 DEF Init, TreeInv, VisitedIsFinal

\* What is final stays so when the network grows.
LEMMA FinalStays ==
    ASSUME Fits(vertices, index), VisitedIsFinal, NEW ws, NEW jx,
           EnlargedTo(vertices, ws, jx),
           \A v \in Range(jx) : v \in Range(index) \/ v > Len(vertices),
           NEW v \in Range(jx), ws[v].visited, NEW n \in Range(ws[v].neighbors),
           n \in Range(jx), ws[n].visited
    PROVE  ws[n].distance <= ws[v].distance + Distance(ws[v].position, ws[n].position)
<1>1. /\ Len(vertices) \in Nat
      /\ \A u \in Range(index) : u \in 1..Len(vertices)
      /\ \A u \in Range(jx) : u \in 1..Len(ws)
  BY DEF Fits, EnlargedTo, Range
<1>2. v \in Range(index) /\ n \in Range(index)
  <2>1. ~(v > Len(vertices)) /\ ~(n > Len(vertices))
    BY <1>1 DEF EnlargedTo, Enlarged
  <2> QED
    BY <2>1
<1>3. /\ ws[v].position = vertices[v].position /\ ws[n].position = vertices[n].position
      /\ ws[v].distance = vertices[v].distance /\ ws[n].distance = vertices[n].distance
      /\ ws[v].visited = vertices[v].visited /\ ws[n].visited = vertices[n].visited
      /\ n \in Range(vertices[v].neighbors)
  <2>1. v \in 1..Len(vertices) /\ n \in 1..Len(vertices) /\ ~(n > Len(vertices))
    BY <1>1, <1>2
  <2> QED
    BY <2>1 DEF EnlargedTo, Enlarged
<1> QED
  BY <1>2, <1>3 DEF VisitedIsFinal

\* The search begins with no vertice visited.
LEMMA InitializedFits ==
    ASSUME Fits(vertices, index), Infinity \in Nat
    PROVE  /\ Fits(InitializeVertices, index)
           /\ \A v \in Range(index) : ~InitializeVertices[v].visited
<1> DEFINE ns == InitializeVertices
<1>0. /\ vertices \in Seq(VerticeSet) /\ Len(vertices) \in Nat
      /\ \A v \in 1..Len(vertices) : vertices[v] \in VerticeSet
      /\ \A v \in 1..Len(vertices) : Range(vertices[v].neighbors) \subseteq 1..Len(vertices)
      /\ index \in Links
      /\ \A p \in DOMAIN index :
            index[p] \in 1..Len(vertices) /\ vertices[index[p]].position = p
      /\ DOMAIN vertices = 1..Len(vertices)
  BY DEF Fits
<1>1. ns = [v \in 1..Len(vertices) |-> ns[v]]
  BY <1>0 DEF InitializeVertices
<1>2. ASSUME NEW v \in 1..Len(vertices)
      PROVE  ns[v] = IF v \in Range(index)
                     THEN [vertices[v] EXCEPT !.distance = IF v = origin THEN 0 ELSE Infinity,
                                              !.visited = FALSE, !.source = Null]
                     ELSE vertices[v]
  <2>1. v \in DOMAIN vertices
    BY <1>0
  <2> QED
    BY <2>1, Zenon DEF InitializeVertices
<1> HIDE DEF ns
<1>3. ASSUME NEW v \in 1..Len(vertices)
      PROVE  /\ ns[v] \in VerticeSet /\ ns[v].position = vertices[v].position
             /\ ns[v].neighbors = vertices[v].neighbors
             /\ v \in Range(index) => ns[v].visited = FALSE
  <2> DEFINE d == IF v = origin THEN 0 ELSE Infinity
  <2>1. d \in Nat /\ vertices[v] \in VerticeSet /\ Null \in Nat
    BY <1>0 DEF Null
  <2> HIDE DEF d
  <2>2. CASE v \in Range(index)
    <3>1. ns[v] = [vertices[v] EXCEPT !.distance = d, !.visited = FALSE, !.source = Null]
      BY <1>2, <2>2 DEF d
    <3> QED
      BY <2>1, <3>1 DEF VerticeSet
  <2>3. CASE v \notin Range(index)
    BY <1>2, <2>1, <2>3
  <2> QED
    BY <2>2, <2>3
<1>4. ns \in Seq(VerticeSet) /\ Len(ns) = Len(vertices)
  <2>1. \A v \in 1..Len(vertices) : ns[v] \in VerticeSet
    BY <1>3
  <2> QED
    BY <1>0, <1>1, <2>1
<1>5. Fits(ns, index)
  BY <1>0, <1>3, <1>4 DEF Fits
<1>6. \A v \in Range(index) : v \in 1..Len(vertices)
  BY <1>0 DEF Range
<1> QED
  BY <1>3, <1>5, <1>6 DEF ns

\* A cycle visits the nearest of the vertices that wait.
LEMMA CycleFits == ASSUME TreeInv, Cycle PROVE TreeInv'
<1> DEFINE c == Nearest(unvisited)
           d(v) == vertices[v].distance
           D(v, n) == Distance(vertices[v].position, vertices[n].position)
<1>0. /\ Fits(vertices, index) /\ unvisited \subseteq Range(index) /\ Relaxed
      /\ phase = "searching" /\ phase' = phase /\ index' = index
      /\ unvisited # {} /\ unvisited' = unvisited \ {c}
      /\ vertices' = IF vertices[c].distance # Infinity THEN Relax(c) ELSE vertices
      /\ \A v \in Range(index) : vertices[v].visited => \A w \in unvisited : d(v) <= d(w)
  BY DEF TreeInv, Cycle, VisitedIsFinal
<1>1. c \in unvisited /\ \A w \in unvisited : d(c) <= d(w)
  BY <1>0, NearestFits
<1> HIDE DEF c
<1>2. /\ Len(vertices) \in Nat
      /\ \A v \in 1..Len(vertices) : d(v) \in Nat /\ vertices[v].visited \in BOOLEAN
                                     /\ vertices[v].position \in Positions
      /\ \A v \in Range(index) : v \in 1..Len(vertices)
  <2>1. Len(vertices) \in Nat /\ \A v \in 1..Len(vertices) : vertices[v] \in VerticeSet
    BY <1>0 DEF Fits
  <2>2. \A v \in 1..Len(vertices) : d(v) \in Nat /\ vertices[v].visited \in BOOLEAN
                                    /\ vertices[v].position \in Positions
    BY <2>1 DEF VerticeSet
  <2>3. \A v \in Range(index) : v \in 1..Len(vertices)
    BY <1>0 DEF Fits, Range
  <2> QED
    BY <2>1, <2>2, <2>3
<1>c. c \in 1..Len(vertices) /\ c \in Range(index) /\ ~vertices[c].visited
  BY <1>0, <1>1, <1>2 DEF Relaxed
<1>3. CASE vertices[c].distance = Infinity
  <2>1. vertices' = vertices
    BY <1>0, <1>3
  <2>2. Relaxed'
    BY <1>0, <2>1 DEF Relaxed
  <2>3. VisitedIsFinal'
    BY <1>0, <2>1 DEF TreeInv, VisitedIsFinal
  <2> QED
    BY <1>0, <2>1, <2>2, <2>3 DEF TreeInv
<1>4. CASE vertices[c].distance # Infinity
  <2> DEFINE r == vertices'
             dr(v) == r[v].distance
  <2>1. /\ r \in Seq(VerticeSet) /\ Len(r) = Len(vertices)
        /\ \A n \in 1..Len(vertices) :
              /\ r[n].position = vertices[n].position
              /\ r[n].neighbors = vertices[n].neighbors
              /\ dr(n) <= d(n)
              /\ dr(n) = d(n) \/ d(c) <= dr(n)
              /\ r[n].visited = (vertices[n].visited \/ n = c)
              /\ vertices[n].visited => dr(n) = d(n)
              /\ n \in Range(vertices[c].neighbors) /\ ~vertices[n].visited =>
                    dr(n) <= d(c) + D(c, n)
        /\ dr(c) = d(c)
    <3>1. r = Relax(c)
      BY <1>0, <1>4
    <3>2. Fits(vertices, index) /\ c \in 1..Len(vertices)
      BY <1>0, <1>c
    <3> HIDE DEF c
    <3> QED
      BY <3>1, <3>2, RelaxFits
  <2>2. ASSUME NEW n \in 1..Len(vertices) PROVE dr(n) \in Nat
    <3>1. r[n] \in VerticeSet
      BY <2>1
    <3> QED
      BY <3>1 DEF VerticeSet
  <2>3. ASSUME NEW v \in 1..Len(vertices), NEW n \in 1..Len(vertices) PROVE D(v, n) \in Nat
    BY <1>2, DistanceFits
  <2> HIDE DEF r, dr
  <2>4. Fits(r, index)
    BY <1>0, <2>1 DEF Fits
  <2> HIDE DEF d, D
  <2>5. ASSUME NEW v \in Range(index), r[v].visited,
               NEW n \in Range(r[v].neighbors) \cap Range(index)
        PROVE  dr(n) <= dr(v) + D(v, n)
    <3>1. v \in 1..Len(vertices) /\ n \in 1..Len(vertices)
          /\ n \in Range(vertices[v].neighbors)
      BY <1>2, <2>1, <2>5
    <3>2. /\ d(v) \in Nat /\ d(n) \in Nat /\ d(c) \in Nat /\ dr(v) \in Nat /\ dr(n) \in Nat
          /\ D(v, n) \in Nat
      BY <1>2, <1>c, <2>2, <2>3, <3>1
    <3>3. CASE vertices[v].visited
      <4>1. d(n) <= d(v) + D(v, n)
        BY <1>0, <2>5, <3>1, <3>3 DEF Relaxed, d, D
      <4>2. dr(v) = d(v) /\ dr(n) <= d(n)
        BY <2>1, <3>1, <3>3
      <4> QED
        BY <3>2, <4>1, <4>2
    <3>4. CASE v = c /\ ~vertices[n].visited
      BY <2>1, <3>1, <3>4
    <3>5. CASE v = c /\ vertices[n].visited
      <4>1. d(n) <= d(c) /\ dr(n) = d(n) /\ dr(v) = d(c)
        BY <1>0, <1>1, <2>1, <2>5, <3>1, <3>5
      <4> QED
        BY <3>2, <4>1
    <3> QED
      BY <2>1, <2>5, <3>1, <3>3, <3>4, <3>5
  <2>6. ASSUME NEW v \in Range(index), r[v].visited, NEW w \in unvisited \ {c}
        PROVE  dr(v) <= dr(w)
    <3>1. v \in 1..Len(vertices) /\ w \in 1..Len(vertices) /\ w \in unvisited
      BY <1>0, <1>2
    <3>2. /\ d(v) \in Nat /\ d(w) \in Nat /\ d(c) \in Nat /\ dr(v) \in Nat /\ dr(w) \in Nat
      BY <1>2, <1>c, <2>2, <3>1
    <3>3. dr(v) = d(v) /\ d(v) <= d(c) /\ d(v) <= d(w)
      <4>1. CASE vertices[v].visited
        BY <1>0, <1>1, <2>1, <3>1, <4>1
      <4>2. CASE v = c
        BY <1>1, <2>1, <3>1, <3>2, <4>2
      <4> QED
        BY <2>1, <2>6, <3>1, <4>1, <4>2
    <3>4. dr(w) = d(w) \/ d(c) <= dr(w)
      BY <2>1, <3>1
    <3> QED
      BY <3>2, <3>3, <3>4
  <2>7. ASSUME NEW v \in unvisited \ {c} PROVE ~r[v].visited
    <3>1. v \in 1..Len(vertices) /\ ~vertices[v].visited
      BY <1>0, <1>2 DEF Relaxed
    <3> QED
      BY <2>1, <3>1
  <2>8. \A v, n \in Range(index) :
            D(v, n) = Distance(vertices'[v].position, vertices'[n].position)
    BY <1>2, <2>1 DEF D, r
  <2>9. Relaxed'
    BY <1>0, <2>5, <2>7, <2>8 DEF Relaxed, r, dr
  <2>10. VisitedIsFinal'
    BY <1>0, <2>5, <2>6, <2>8 DEF VisitedIsFinal, r, dr
  <2>11. unvisited' \subseteq Range(index')
    BY <1>0
  <2> QED
    BY <1>0, <2>4, <2>9, <2>10, <2>11 DEF TreeInv, r
<1> QED
  BY <1>3, <1>4

\* Every step of the tree keeps the invariant.
LEMMA TreeKept ==
    ASSUME NetworkAssumption, TreeInv, [Next]_treeVars
    PROVE  TreeInv'
<1>0. /\ Infinity \in Nat /\ Networks \subseteq Seq(LineSet) /\ AdHocPoints \subseteq Positions
  BY DEF NetworkAssumption, LineSet
<1>1. ASSUME NEW ls \in Networks, Construct(ls) PROVE TreeInv'
  <2> DEFINE g == InitializeFromLines(ls)
  <2>1. g \in Drawn
    BY <1>0, BuiltFits
  <2>2. vertices' = g.vertices /\ index' = g.index /\ phase' = "idle" /\ unvisited' = {}
    BY <1>1 DEF Construct, TreeInv
  <2> HIDE DEF g
  <2>3. EnlargedTo(NoVertices, vertices', index')
    BY <2>1, <2>2 DEF Drawn
  <2>4. Fits(vertices', index')
    BY <2>3 DEF EnlargedTo
  <2>5. \A v \in Range(index') : ~vertices'[v].visited
    <3>1. \A v \in Range(index') : v \in 1..Len(vertices')
      BY <2>4 DEF Fits, Range
    <3>2. \A v \in 1..Len(vertices') : v > Len(NoVertices)
      BY DEF NoVertices
    <3> QED
      BY <2>3, <3>1, <3>2 DEF EnlargedTo, Enlarged
  <2>6. VisitedIsFinal'
    BY <2>5 DEF VisitedIsFinal
  <2> QED
    BY <2>2, <2>4, <2>6 DEF TreeInv
<1>2. ASSUME NEW p \in AdHocPoints, NEW type \in Types, NEW dir, NEW call,
             Attach(call, AddAdHocVertice(p, type, dir))
      PROVE  TreeInv'
  <2> DEFINE o == AddAdHocVertice(p, type, dir)
  <2>0. Fits(vertices, index) /\ VisitedIsFinal /\ p \in Positions
    BY <1>0 DEF TreeInv
  <2>1. EnlargedTo(vertices, o.vertices, o.index)
        /\ \A v \in Range(o.index) : v \in Range(index) \/ v > Len(vertices)
    BY <1>0, <2>0, AdHocFits
  <2>2. vertices' = o.vertices /\ index' = o.index /\ phase' = "idle" /\ unvisited' = {}
    BY <1>2 DEF Attach, TreeInv
  <2> HIDE DEF o
  <2>3. EnlargedTo(vertices, vertices', index')
        /\ \A v \in Range(index') : v \in Range(index) \/ v > Len(vertices)
    BY <2>1, <2>2
  <2>4. VisitedIsFinal'
    <3>1. ASSUME NEW v \in Range(index'), vertices'[v].visited,
                 NEW n \in Range(vertices'[v].neighbors),
                 n \in Range(index'), vertices'[n].visited
          PROVE  vertices'[n].distance <= vertices'[v].distance
                     + Distance(vertices'[v].position, vertices'[n].position)
      BY <2>0, <2>3, <3>1, FinalStays
    <3> QED
      BY <2>2, <3>1 DEF VisitedIsFinal
  <2>5. Fits(vertices', index')
    BY <2>3 DEF EnlargedTo
  <2> QED
    BY <2>2, <2>4, <2>5 DEF TreeInv
<1>3. ASSUME NEW p \in AdHocPoints, NEW d \in Preferred, SetOrigin(p, d) PROVE TreeInv'
  BY <1>2, <1>3 DEF SetOrigin, Types
<1>4. ASSUME NEW p \in AdHocPoints, SetDestination(p) PROVE TreeInv'
  BY <1>2, <1>4 DEF SetDestination, Types
<1>5. ASSUME ComputePath PROVE TreeInv'
  <2>1. CASE vertices' = vertices /\ unvisited' = unvisited /\ phase' = "done"
    BY <1>5, <2>1 DEF ComputePath, TreeInv, VisitedIsFinal
  <2>2. CASE /\ vertices' = InitializeVertices
             /\ unvisited' = Range(index) /\ phase' = "searching"
    <3>1. index' = index
      BY <1>5 DEF ComputePath
    <3>2. Fits(vertices', index') /\ \A v \in Range(index') : ~vertices'[v].visited
      BY <1>0, <2>2, <3>1, InitializedFits DEF TreeInv
    <3>3. Relaxed' /\ VisitedIsFinal'
      BY <3>2 DEF Relaxed, VisitedIsFinal
    <3> QED
      BY <2>2, <3>1, <3>2, <3>3 DEF TreeInv
  <2> QED
    BY <1>5, <2>1, <2>2 DEF ComputePath
<1>6. ASSUME GetPath PROVE TreeInv'
  BY <1>6 DEF GetPath, TreeInv, VisitedIsFinal
<1>7. ASSUME UNCHANGED treeVars PROVE TreeInv'
  BY <1>7 DEF treeVars, TreeInv, VisitedIsFinal, Relaxed
<1> QED
  BY <1>1, <1>3, <1>4, <1>5, <1>6, <1>7, CycleFits DEF Next

\* Dijkstra's search never goes back on a vertice that it has visited, for any network,
\* points and calls: no edge between visited vertices improves one of them, and while
\* the search goes on none of them is farther away than a vertice that waits, through
\* every order in which ends are set, reset and searched for
\* (spanningtree.cpp, treepathvertice.cpp).
THEOREM TreeVisitedIsFinalHolds ==
    ASSUME NetworkAssumption
    PROVE  Spec => []VisitedIsFinal
<1>1. Init => TreeInv
  BY TreeAtInit
<1>2. TreeInv /\ [Next]_treeVars => TreeInv'
  BY TreeKept
<1>3. TreeInv => VisitedIsFinal
  BY DEF TreeInv
<1> QED
  BY <1>1, <1>2, <1>3, PTL DEF Spec

-----------------------------------------------------------------------------
(* The ways that the search finds                                          *)

Leg(u, v) == Distance(vertices[u].position, vertices[v].position)

\* The vertice s is the one that v was reached from.
ReachedFrom(s, v) ==
    /\ s \in Range(index) /\ vertices[s].visited
    /\ v \in Range(vertices[s].neighbors)
    /\ vertices[v].distance = vertices[s].distance + Leg(s, v)
    /\ vertices[s].distance < vertices[v].distance

\* While a search goes on a vertice is visited, or it waits, or it cannot be reached, and
\* neither can those that still wait.  One that was reached lies behind its source.
Reckoned ==
    \A v \in Range(index) :
        /\ vertices[v].distance <= Infinity
        /\ v = origin => vertices[v].distance = 0
        /\ vertices[v].visited => vertices[v].distance # Infinity
        /\ \/ vertices[v].visited
           \/ v \in unvisited
           \/ \A w \in unvisited \cup {v} : vertices[w].distance = Infinity
        /\ v # origin /\ vertices[v].distance = Infinity => vertices[v].source = Null
        /\ v # origin /\ vertices[v].distance # Infinity => ReachedFrom(vertices[v].source, v)

SearchInv == TreeInv /\ (phase = "searching" => Reckoned)

\* Vertices of the index lie apart.
LEMMA LegPositive ==
    ASSUME Fits(vertices, index), NEW v \in 1..Len(vertices), NEW w \in 1..Len(vertices)
    PROVE  /\ Leg(v, w) \in Nat
           /\ v \in Range(index) /\ w \in Range(index) /\ v # w =>
                  Leg(v, w) # 0
<1>1. vertices[v].position \in Positions /\ vertices[w].position \in Positions
  <2>1. vertices[v] \in VerticeSet /\ vertices[w] \in VerticeSet
    BY DEF Fits
  <2> QED
    BY <2>1 DEF VerticeSet
<1>2. Leg(v, w) \in Nat
  BY <1>1, DistanceFits DEF Leg
<1>3. ASSUME v \in Range(index), w \in Range(index), v # w
      PROVE  Leg(v, w) # 0
  <2>1. PICK p \in DOMAIN index : v = index[p]
    BY <1>3 DEF Range
  <2>2. PICK q \in DOMAIN index : w = index[q]
    BY <1>3 DEF Range
  <2>3. vertices[v].position = p /\ vertices[w].position = q /\ p # q
    BY <1>3, <2>1, <2>2 DEF Fits
  <2> QED
    BY <1>1, <2>3, DistanceFits DEF Leg
<1> QED
  BY <1>2, <1>3

\* A visit of c moves a vertice behind c, or leaves its distance and its source alone.
LEMMA RelaxSources ==
    ASSUME Fits(vertices, index), NEW c \in 1..Len(vertices), NEW n \in 1..Len(vertices)
    PROVE  \/ /\ Relax(c)[n].distance = vertices[n].distance
              /\ Relax(c)[n].source = vertices[n].source
           \/ /\ n # c /\ n \in Range(vertices[c].neighbors)
              /\ Relax(c)[n].source = c
              /\ Relax(c)[n].distance = vertices[c].distance + Leg(c, n)
              /\ Relax(c)[n].distance < vertices[n].distance
<1> DEFINE far == vertices[c].distance + Leg(c, n)
           r == Relax(c)
<1>1. vertices[n] \in VerticeSet /\ vertices[c] \in VerticeSet /\ n \in DOMAIN vertices
  BY DEF Fits
<1>2. /\ vertices[n].distance \in Nat /\ vertices[c].distance \in Nat /\ Leg(c, n) \in Nat
      /\ far \in Nat
  BY <1>1, LegPositive DEF VerticeSet
<1>3. r[n] = IF Improves(c, n)
             THEN [vertices[n] EXCEPT !.distance = far, !.source = c, !.visited = n = c]
             ELSE IF n = c THEN [vertices[n] EXCEPT !.visited = TRUE]
             ELSE vertices[n]
  BY <1>1, Zenon DEF Relax, Leg
<1> HIDE DEF r
<1>4. CASE Improves(c, n)
  <2>1. n \in Range(vertices[c].neighbors) /\ far < vertices[n].distance
    BY <1>4 DEF Improves, Leg
  <2>2. n # c
    BY <1>2, <2>1
  <2>3. r[n] = [vertices[n] EXCEPT !.distance = far, !.source = c, !.visited = FALSE]
    BY <1>3, <1>4, <2>2
  <2> HIDE DEF far
  <2>4. r[n].distance = far /\ r[n].source = c
    BY <1>1, <2>3 DEF VerticeSet
  <2> QED
    BY <2>1, <2>2, <2>4 DEF r, far
<1>5. CASE ~Improves(c, n)
  <2>1. r[n].distance = vertices[n].distance /\ r[n].source = vertices[n].source
    BY <1>1, <1>3, <1>5 DEF VerticeSet
  <2> QED
    BY <2>1 DEF r
<1> QED
  BY <1>4, <1>5

\* Where a search begins only the origin is reached.
LEMMA InitializedReckons ==
    ASSUME TreeInv, Infinity \in Nat, ComputePath, phase' = "searching"
    PROVE  Reckoned'
<1>1. /\ vertices' = InitializeVertices /\ unvisited' = Range(index)
      /\ index' = index /\ origin' = origin /\ Infinity' = Infinity
  BY DEF ComputePath
<1>2. ASSUME NEW v \in Range(index)
      PROVE  /\ vertices'[v].distance = IF v = origin THEN 0 ELSE Infinity
             /\ vertices'[v].visited = FALSE /\ vertices'[v].source = Null
  <2> DEFINE d == IF v = origin THEN 0 ELSE Infinity
  <2>1. v \in DOMAIN vertices /\ vertices[v] \in VerticeSet
    BY DEF TreeInv, Fits, Range
  <2>2. vertices'[v] = [vertices[v] EXCEPT !.distance = d, !.visited = FALSE,
                                           !.source = Null]
    BY <1>1, <2>1, Zenon DEF InitializeVertices
  <2> HIDE DEF d
  <2>3. vertices'[v].distance = d /\ vertices'[v].visited = FALSE
        /\ vertices'[v].source = Null
    BY <2>1, <2>2 DEF VerticeSet
  <2> QED
    BY <2>3 DEF d
<1>3. ASSUME NEW v \in Range(index)
      PROVE  vertices'[v].distance <= Infinity
  <2>1. CASE v = origin
    <3>1. vertices'[v].distance = 0
      BY <1>2, <2>1
    <3> QED
      BY <3>1
  <2>2. CASE v # origin
    <3>1. vertices'[v].distance = Infinity
      BY <1>2, <2>2
    <3> QED
      BY <3>1
  <2> QED
    BY <2>1, <2>2
<1> QED
  BY <1>1, <1>2, <1>3 DEF Reckoned

\* A cycle settles the nearest of the vertices that wait.
LEMMA CycleReckons ==
    ASSUME TreeInv, Reckoned, Infinity \in Nat, Cycle
    PROVE  Reckoned'
<1> DEFINE ix == Range(index)
           d(v) == vertices[v].distance
           dr(v) == vertices'[v].distance
<1>c. PICK c : c = Nearest(unvisited)
  OBVIOUS
<1>0. /\ Fits(vertices, index) /\ unvisited \subseteq ix /\ Relaxed
      /\ index' = index /\ origin' = origin
      /\ unvisited # {} /\ unvisited' = unvisited \ {c}
      /\ vertices' = IF vertices[c].distance # Infinity THEN Relax(c) ELSE vertices
  BY <1>c DEF TreeInv, Cycle
<1>1. c \in unvisited /\ \A w \in unvisited : d(c) <= d(w)
  BY <1>0, <1>c, NearestFits
<1>2. /\ Len(vertices) \in Nat /\ \A v \in 1..Len(vertices) : vertices[v] \in VerticeSet
      /\ \A v \in ix : v \in 1..Len(vertices)
  BY <1>0 DEF Fits, Range
<1>3. \A v \in 1..Len(vertices) : d(v) \in Nat /\ vertices[v].visited \in BOOLEAN
  BY <1>2 DEF VerticeSet
<1>4. c \in 1..Len(vertices) /\ c \in ix /\ ~vertices[c].visited /\ d(c) <= Infinity
  BY <1>0, <1>1, <1>2 DEF Relaxed, Reckoned
<1>5. CASE vertices[c].distance = Infinity
  <2>1. vertices' = vertices
    BY <1>0, <1>5
  <2>2. ASSUME NEW w \in unvisited PROVE d(w) = Infinity
    <3>1. d(w) \in Nat /\ d(w) <= Infinity /\ d(c) <= d(w) /\ d(c) = Infinity
      BY <1>0, <1>1, <1>2, <1>3, <1>5 DEF Reckoned
    <3> HIDE DEF d
    <3> QED
      BY <3>1
  <2>3. ASSUME NEW v \in ix
        PROVE  \/ vertices[v].visited
               \/ v \in unvisited \ {c}
               \/ \A w \in (unvisited \ {c}) \cup {v} : d(w) = Infinity
    BY <1>5, <2>2 DEF Reckoned
  <2> QED
    BY <1>0, <2>1, <2>3 DEF Reckoned, ReachedFrom, Leg
<1>6. CASE vertices[c].distance # Infinity
  <2>1. vertices' = Relax(c)
    BY <1>0, <1>6
  <2>2. ASSUME NEW n \in 1..Len(vertices)
        PROVE  /\ vertices'[n].position = vertices[n].position
               /\ vertices'[n].neighbors = vertices[n].neighbors
               /\ dr(n) <= d(n) /\ dr(n) \in Nat
               /\ vertices'[n].visited = (vertices[n].visited \/ n = c)
               /\ vertices[n].visited => dr(n) = d(n)
    <3>1. Relax(c)[n] \in VerticeSet
      BY <1>0, <1>4, RelaxFits
    <3>2. Relax(c)[n].distance \in Nat
      BY <3>1 DEF VerticeSet
    <3> QED
      BY <1>0, <1>4, <2>1, <3>2, RelaxFits
  <2>3. dr(c) = d(c)
    BY <1>0, <1>4, <2>1, RelaxFits
  <2>4. ASSUME NEW n \in 1..Len(vertices)
        PROVE  \/ dr(n) = d(n) /\ vertices'[n].source = vertices[n].source
               \/ /\ n # c /\ n \in Range(vertices[c].neighbors)
                  /\ vertices'[n].source = c /\ dr(n) = d(c) + Leg(c, n) /\ dr(n) < d(n)
    BY <1>0, <1>4, <2>1, RelaxSources
  <2>5. ASSUME NEW v \in ix, NEW w \in ix
        PROVE  Leg(v, w)' = Leg(v, w)
    BY <1>2, <2>2 DEF Leg
  <2>6. ASSUME NEW v \in ix
        PROVE  vertices[v].visited \/ v \in unvisited
    BY <1>1, <1>6 DEF Reckoned
  <2>7. ASSUME NEW s \in ix, NEW v \in ix, ReachedFrom(s, v), dr(v) = d(v)
        PROVE  ReachedFrom(s, v)'
    <3>1. s \in 1..Len(vertices) /\ vertices[s].visited
      BY <1>2, <2>7 DEF ReachedFrom
    <3>2. dr(s) = d(s) /\ vertices'[s].visited /\ vertices'[s].neighbors = vertices[s].neighbors
      BY <2>2, <3>1
    <3>3. Leg(s, v)' = Leg(s, v)
      BY <2>5
    <3> QED
      BY <1>0, <2>7, <3>2, <3>3 DEF ReachedFrom
  <2>8. ASSUME NEW v \in ix, v # c, v \in Range(vertices[c].neighbors),
               dr(v) = d(c) + Leg(c, v)
        PROVE  ReachedFrom(c, v)'
    <3>1. Leg(c, v) \in Nat /\ Leg(c, v) # 0 /\ v \in 1..Len(vertices)
      BY <1>0, <1>2, <1>4, <2>8, LegPositive
    <3>2. /\ dr(c) = d(c) /\ d(c) \in Nat /\ vertices'[c].visited
          /\ vertices'[c].neighbors = vertices[c].neighbors
      BY <1>3, <1>4, <2>2, <2>3
    <3>3. dr(v) = dr(c) + Leg(c, v) /\ dr(c) < dr(v)
      <4> HIDE DEF d, dr
      <4> QED
        BY <2>8, <3>1, <3>2
    <3>4. Leg(c, v)' = Leg(c, v)
      BY <1>4, <2>5
    <3> QED
      BY <1>0, <1>4, <2>8, <3>2, <3>3, <3>4 DEF ReachedFrom
  <2>9. ASSUME NEW v \in ix
        PROVE  /\ dr(v) <= Infinity
               /\ v = origin => dr(v) = 0
               /\ vertices'[v].visited => dr(v) # Infinity
               /\ vertices'[v].visited \/ v \in unvisited \ {c}
               /\ v # origin /\ dr(v) = Infinity => vertices'[v].source = Null
               /\ v # origin /\ dr(v) # Infinity =>
                      \E s \in ix : s = vertices'[v].source /\ ReachedFrom(s, v)'
    <3>1. /\ v \in 1..Len(vertices) /\ d(v) \in Nat /\ dr(v) \in Nat /\ dr(v) <= d(v)
          /\ d(v) <= Infinity
      BY <1>2, <1>3, <2>2 DEF Reckoned
    <3>2. dr(v) <= Infinity /\ (v = origin => dr(v) = 0)
      <4>1. v = origin => d(v) = 0
        BY DEF Reckoned
      <4> HIDE DEF d, dr
      <4> QED
        BY <3>1, <4>1
    <3>3. vertices'[v].visited => dr(v) # Infinity
      BY <1>6, <2>2, <2>3, <3>1 DEF Reckoned
    <3>4. vertices'[v].visited \/ v \in unvisited \ {c}
      BY <2>2, <2>6, <3>1
    <3>5. CASE dr(v) = d(v) /\ vertices'[v].source = vertices[v].source
      <4>1. v # origin /\ dr(v) = Infinity => vertices'[v].source = Null
        BY <3>5 DEF Reckoned
      <4>2. ASSUME v # origin, dr(v) # Infinity
            PROVE  \E s \in ix : s = vertices'[v].source /\ ReachedFrom(s, v)'
        <5>1. PICK s \in ix : s = vertices[v].source /\ ReachedFrom(s, v)
          BY <3>5, <4>2 DEF Reckoned, ReachedFrom
        <5>2. ReachedFrom(s, v)'
          BY <2>7, <3>5, <5>1
        <5> QED
          BY <3>5, <5>1, <5>2
      <4> QED
        BY <3>2, <3>3, <3>4, <4>1, <4>2
    <3>6. CASE /\ v # c /\ v \in Range(vertices[c].neighbors)
               /\ vertices'[v].source = c /\ dr(v) = d(c) + Leg(c, v) /\ dr(v) < d(v)
      <4>1. ReachedFrom(c, v)'
        BY <2>8, <3>6
      <4>2. dr(v) # Infinity
        <5> HIDE DEF d, dr
        <5> QED
          BY <3>1, <3>6
      <4>3. c \in ix /\ c = vertices'[v].source
        BY <1>4, <3>6
      <4> QED
        BY <3>2, <3>3, <3>4, <4>1, <4>2, <4>3
    <3> QED
      BY <2>4, <3>1, <3>5, <3>6
  <2> QED
    BY <1>0, <2>9 DEF Reckoned
<1> QED
  BY <1>5, <1>6

LEMMA SearchKept ==
    ASSUME NetworkAssumption, SearchInv, [Next]_treeVars
    PROVE  SearchInv'
<1>0. TreeInv /\ TreeInv' /\ Infinity \in Nat
  BY TreeKept DEF SearchInv, NetworkAssumption
<1>1. SUFFICES ASSUME phase' = "searching"
               PROVE  Reckoned'
  BY <1>0 DEF SearchInv
<1>2. CASE ComputePath
  BY <1>0, <1>1, <1>2, InitializedReckons
<1>3. CASE Cycle
  <2>1. Reckoned
    BY <1>3 DEF Cycle, SearchInv
  <2> QED
    BY <1>0, <1>3, <2>1, CycleReckons
<1>4. CASE UNCHANGED treeVars
  BY <1>1, <1>4 DEF treeVars, SearchInv, Reckoned, ReachedFrom, Leg
<1> QED
  BY <1>1, <1>2, <1>3, <1>4 DEF Next, Construct, Attach, SetOrigin,
     SetDestination, GetPath

-----------------------------------------------------------------------------
\* The ways from the origin along the links of the index: where each one goes, and how
\* long it is up to there.
Ways ==
    {w \in Seq([at : Range(index), length : Nat]) :
        /\ w # <<>> /\ w[1] = [at |-> origin, length |-> 0]
        /\ \A k \in 1..Len(w) - 1 :
              /\ w[k + 1].at \in Range(vertices[w[k].at].neighbors)
              /\ w[k + 1].length = w[k].length + Leg(w[k].at, w[k + 1].at)}

Arrival(w) == w[Len(w)]

SearchOver == phase = "searching" /\ unvisited = {}

\* No way to a vertice is shorter than the distance that the search leaves there.
LEMMA NoWayShorter ==
    ASSUME SearchInv, Infinity \in Nat, SearchOver, NEW w \in Ways
    PROVE  vertices[Arrival(w).at].distance <= Arrival(w).length
<1> DEFINE n == Len(w)
           d(k) == vertices[w[k].at].distance
           len(k) == w[k].length
           Bad == {k \in 1..n : ~(d(k) <= len(k))}
<1>1. /\ Fits(vertices, index) /\ Relaxed /\ Reckoned
      /\ \A v \in Range(index) : v \in 1..Len(vertices)
  BY DEF SearchInv, SearchOver, TreeInv, Fits, Range
<1>2. /\ w \in Seq([at : Range(index), length : Nat]) /\ n \in Nat /\ n # 0
      /\ w[1] = [at |-> origin, length |-> 0]
      /\ \A k \in 1..n - 1 :
            /\ w[k + 1].at \in Range(vertices[w[k].at].neighbors)
            /\ w[k + 1].length = w[k].length + Leg(w[k].at, w[k + 1].at)
  <2> DEFINE R == [at : Range(index), length : Nat]
  <2>1. w \in Seq(R) /\ w # <<>>
    BY DEF Ways
  <2> HIDE DEF R
  <2>2. n \in Nat /\ n # 0
    BY <2>1
  <2> HIDE DEF n
  <2> QED
    BY <2>1, <2>2 DEF Ways, R, n
<1>3. ASSUME NEW k \in 1..n
      PROVE  /\ w[k].at \in Range(index) /\ w[k].at \in 1..Len(vertices)
             /\ d(k) \in Nat /\ len(k) \in Nat /\ d(k) <= Infinity
  <2>1. w[k] \in [at : Range(index), length : Nat]
    <3> DEFINE R == [at : Range(index), length : Nat]
    <3>1. w \in Seq(R)
      BY <1>2
    <3> HIDE DEF R
    <3>2. w[k] \in R
      BY <3>1
    <3> QED
      BY <3>2 DEF R
  <2>2. w[k].at \in Range(index) /\ len(k) \in Nat
    BY <2>1
  <2>3. vertices[w[k].at] \in VerticeSet
    BY <1>1, <2>2 DEF Fits
  <2> QED
    BY <1>1, <2>2, <2>3 DEF VerticeSet, Reckoned
<1>4. SUFFICES ASSUME Bad # {} PROVE FALSE
  BY <1>2 DEF Arrival
<1>5. PICK k \in Bad : \A j \in Bad : k <= j
  <2>1. Bad \subseteq Nat
    BY <1>2
  <2> HIDE DEF Bad
  <2> QED
    BY <1>4, <2>1, LeastExists
<1>6. k \in 1..n /\ ~(d(k) <= len(k))
  OBVIOUS
<1>7. k # 1
  <2>1. ASSUME k = 1 PROVE FALSE
    <3>1. w[1].at = origin /\ len(1) = 0
      BY <1>2
    <3>2. d(1) = 0
      BY <1>1, <1>3, <1>6, <2>1, <3>1 DEF Reckoned
    <3> QED
      BY <1>6, <2>1, <3>1, <3>2
  <2> QED
    BY <2>1
<1>8. PICK j \in 1..n - 1 : k = j + 1 /\ j \in 1..n /\ j \notin Bad
  <2>1. k - 1 \in 1..n - 1 /\ k = (k - 1) + 1 /\ k - 1 \in 1..n /\ k - 1 \notin Bad
    BY <1>2, <1>5, <1>6, <1>7
  <2> QED
    BY <2>1
<1> DEFINE u == w[j].at
           v == w[k].at
<1>9. /\ d(j) <= len(j) /\ v \in Range(vertices[u].neighbors)
      /\ len(k) = len(j) + Leg(u, v) /\ Leg(u, v) \in Nat
  <2>1. d(j) <= len(j)
    BY <1>8
  <2>2. v \in Range(vertices[u].neighbors) /\ len(k) = len(j) + Leg(u, v)
    BY <1>2, <1>8
  <2>3. u \in 1..Len(vertices) /\ v \in 1..Len(vertices)
    BY <1>3, <1>6, <1>8
  <2> HIDE DEF u, v
  <2> QED
    BY <1>1, <2>1, <2>2, <2>3, LegPositive
<1>10. /\ d(j) \in Nat /\ len(j) \in Nat /\ d(k) \in Nat /\ len(k) \in Nat /\ d(k) <= Infinity
  BY <1>3, <1>6, <1>8
<1>11. d(k) <= d(j) + Leg(u, v) \/ d(j) = Infinity
  <2>1. u \in Range(index) /\ v \in Range(index)
    BY <1>3, <1>6, <1>8
  <2>2. CASE vertices[u].visited
    BY <1>1, <1>9, <2>1, <2>2 DEF Relaxed, Leg
  <2>3. CASE ~vertices[u].visited
    BY <1>1, <2>1, <2>3 DEF Reckoned, SearchOver
  <2> QED
    BY <2>2, <2>3
<1> HIDE DEF d, len, u, v
<1> QED
  BY <1>6, <1>9, <1>10, <1>11

\* The sources lead back from a vertice that was reached to the origin.
LEMMA WayBack ==
    ASSUME SearchInv, Infinity \in Nat, SearchOver, NEW v \in Range(index),
           vertices[v].distance # Infinity
    PROVE  \E w \in Ways : /\ Arrival(w) = [at |-> v, length |-> vertices[v].distance]
                           /\ WayTo(v) = [k \in 1..Len(w) |-> w[k].at]
<1> DEFINE n == Len(vertices)
           ix == Range(index)
           d(u) == vertices[u].distance
           Reaches(q) == q[1] = origin \/ vertices[q[1]].source = Null
           Step(q) == IF Reaches(q) THEN q ELSE <<vertices[q[1]].source>> \o q
           Traced == {q \in Seq(ix) :
                        /\ q # <<>> /\ q[Len(q)] = v
                        /\ \A k \in 1..Len(q) : d(q[k]) # Infinity
                        /\ \A k \in 1..Len(q) - 1 : ReachedFrom(q[k], q[k + 1])
                        /\ \A j, k \in 1..Len(q) : j < k => d(q[j]) < d(q[k])}
           rule == [x \in 1..n |-> [q \in Traced |-> Step(q)]]
           Builds(f) == f = [k \in 0..n |-> IF k = 0 THEN <<v>> ELSE Step(f[k - 1])]
<1>1. /\ Fits(vertices, index) /\ Reckoned /\ n \in Nat
      /\ \A u \in ix : u \in 1..n /\ d(u) \in Nat
  <2>1. /\ Fits(vertices, index) /\ Reckoned /\ n \in Nat
        /\ \A u \in ix : u \in 1..n /\ vertices[u] \in VerticeSet
    BY DEF SearchInv, SearchOver, TreeInv, Fits, Range
  <2> QED
    BY <2>1 DEF VerticeSet
<1>2. <<v>> \in Traced /\ Len(<<v>>) = 1
  OBVIOUS
<1>3. ASSUME NEW q \in Traced, ~Reaches(q)
      PROVE  /\ Step(q) \in Traced
             /\ Len(Step(q)) = Len(q) + 1
  <2> DEFINE s == vertices[q[1]].source
             p == <<s>> \o q
  <2>1. /\ q \in Seq(ix) /\ Len(q) \in Nat /\ Len(q) # 0 /\ q[Len(q)] = v
        /\ \A k \in 1..Len(q) : d(q[k]) # Infinity
        /\ \A k \in 1..Len(q) - 1 : ReachedFrom(q[k], q[k + 1])
        /\ \A j, k \in 1..Len(q) : j < k => d(q[j]) < d(q[k])
    OBVIOUS
  <2>2. q[1] \in ix /\ q[1] # origin /\ d(q[1]) # Infinity
    BY <1>3, <2>1
  <2>3. ReachedFrom(s, q[1])
    BY <1>1, <2>2 DEF Reckoned
  <2>4. s \in ix /\ d(s) # Infinity /\ d(s) < d(q[1])
    BY <1>1, <2>3 DEF ReachedFrom, Reckoned
  <2>5. Step(q) = p
    BY <1>3
  <2> HIDE DEF s, Reaches, Step, Traced
  <2>6. /\ p \in Seq(ix) /\ Len(p) = Len(q) + 1 /\ p[1] = s
        /\ \A k \in 1..Len(q) : p[k + 1] = q[k]
    BY <2>1, <2>4
  <2> HIDE DEF p
  <2>7. p # <<>> /\ p[Len(p)] = v
    BY <2>1, <2>6
  <2>8. ASSUME NEW k \in 1..Len(p) PROVE k = 1 \/ \E m \in 1..Len(q) : k = m + 1 /\ p[k] = q[m]
    <3>1. CASE k # 1
      <4>1. k - 1 \in 1..Len(q) /\ k = (k - 1) + 1 /\ p[(k - 1) + 1] = q[k - 1]
        BY <2>1, <2>6, <3>1
      <4> QED
        BY <4>1
    <3> QED
      BY <3>1
  <2>9. \A k \in 1..Len(p) : d(p[k]) # Infinity
    BY <2>1, <2>4, <2>6, <2>8
  <2>10. ASSUME NEW k \in 1..Len(p) - 1 PROVE ReachedFrom(p[k], p[k + 1])
    <3>1. CASE k = 1
      <4>1. p[k] = s /\ p[k + 1] = q[1]
        BY <2>1, <2>6, <3>1
      <4> QED
        BY <2>3, <4>1
    <3>2. CASE k # 1
      <4>1. PICK m \in 1..Len(q) : k = m + 1 /\ p[k] = q[m]
        BY <2>1, <2>6, <2>8, <3>2
      <4>2. m \in 1..Len(q) - 1 /\ m + 1 \in 1..Len(q) /\ p[k + 1] = q[m + 1]
        BY <2>1, <2>6, <4>1
      <4> QED
        BY <2>1, <4>1, <4>2
    <3> QED
      BY <3>1, <3>2
  <2>11. ASSUME NEW j \in 1..Len(p), NEW k \in 1..Len(p), j < k PROVE d(p[j]) < d(p[k])
    <3>1. PICK m \in 1..Len(q) : k = m + 1 /\ p[k] = q[m]
      BY <2>1, <2>6, <2>8, <2>11
    <3>2. CASE j = 1
      <4>1. p[j] = s /\ d(s) < d(q[1])
        BY <2>4, <2>6, <3>2
      <4>a. m = 1 \/ d(q[1]) < d(q[m])
        <5>1. 1 \in 1..Len(q) /\ (m = 1 \/ 1 < m)
          BY <2>1
        <5>2. 1 < m => d(q[1]) < d(q[m])
          <6> HIDE DEF d
          <6> QED
            BY <2>1, <5>1
        <5> QED
          BY <5>1, <5>2
      <4>2. d(s) \in Nat /\ d(q[1]) \in Nat /\ d(q[m]) \in Nat
        <5>1. s \in ix /\ q[1] \in ix /\ q[m] \in ix
          BY <2>1, <2>2, <2>4
        <5> HIDE DEF d, ix
        <5> QED
          BY <1>1, <5>1
      <4> HIDE DEF d
      <4> QED
        BY <3>1, <4>1, <4>a, <4>2
    <3>3. CASE j # 1
      <4>1. PICK h \in 1..Len(q) : j = h + 1 /\ p[j] = q[h]
        BY <2>8, <3>3
      <4>2. h < m
        BY <2>11, <3>1, <4>1
      <4> QED
        BY <2>1, <3>1, <4>1, <4>2
    <3> QED
      BY <3>2, <3>3
  <2> QED
    BY <2>5, <2>6, <2>7, <2>9, <2>10, <2>11 DEF Traced
<1>4. \A q \in Traced : Step(q) \in Traced
  BY <1>3
<1>5. ASSUME NEW q \in Traced PROVE Len(q) <= n
  <2>1. q \in Seq(ix) /\ Len(q) \in Nat /\ \A j, k \in 1..Len(q) : j < k => d(q[j]) < d(q[k])
    OBVIOUS
  <2>2. q \in [1..Len(q) -> 1..n]
    BY <1>1, <2>1
  <2>3. ASSUME NEW j \in 1..Len(q), NEW k \in 1..Len(q), j # k PROVE q[j] # q[k]
    <3>1. d(q[j]) \in Nat /\ d(q[k]) \in Nat
      BY <1>1, <2>1
    <3>2. d(q[j]) < d(q[k]) \/ d(q[k]) < d(q[j])
      BY <2>1, <2>3
    <3> QED
      BY <3>1, <3>2
  <2>4. /\ IsFiniteSet(1..Len(q)) /\ Cardinality(1..Len(q)) = Len(q)
        /\ IsFiniteSet(1..n) /\ Cardinality(1..n) = n
    <3>1. ASSUME NEW m \in Nat PROVE IsFiniteSet(1..m) /\ Cardinality(1..m) = m
      <4>0. 1 \in Int /\ m \in Int
        OBVIOUS
      <4>1. IsFiniteSet(1..m) /\ Cardinality(1..m) = IF 1 > m THEN 0 ELSE m - 1 + 1
        BY <4>0, FS_Interval, Zenon
      <4> QED
        BY <4>1
    <3> QED
      BY <1>1, <2>1, <3>1
  <2>5. ASSUME n < Len(q) PROVE FALSE
    <3> DEFINE S == 1..Len(q)
               T == 1..n
    <3>0. IsFiniteSet(S) /\ IsFiniteSet(T) /\ Cardinality(T) < Cardinality(S) /\ q \in [S -> T]
      BY <2>2, <2>4, <2>5
    <3> HIDE DEF S, T
    <3>1. \E j, k \in S : j # k /\ q[j] = q[k]
      BY <3>0, FS_PigeonHole
    <3> QED
      BY <2>3, <3>1 DEF S
  <2> QED
    BY <1>1, <2>1, <2>5
<1> HIDE DEF Traced, Step, n
<1>6. rule \in [1..n -> [Traced -> Traced]]
  BY <1>4
<1>7. PICK f : Computes(f, Traced, n, <<v>>, rule)
  <2> HIDE DEF rule
  <2> QED
    BY <1>1, <1>2, <1>6, StepsExist
<1>8. Builds(f)
  <2>1. ASSUME NEW x \in 1..n PROVE f[x] = Step(f[x - 1])
    <3>1. x - 1 \in 0..n /\ f[x - 1] \in Traced
      BY <1>1, <1>7 DEF Computes
    <3> QED
      BY <1>7, <3>1 DEF Computes
  <2>2. f = [x \in 0..n |-> f[x]] /\ f[0] = <<v>>
    BY <1>7 DEF Computes
  <2>3. \A x \in 0..n : x # 0 => x \in 1..n
    BY <1>1
  <2> QED
    BY <2>1, <2>2, <2>3
<1>9. ASSUME NEW g, Builds(g)
      PROVE  g[n] \in Traced /\ Reaches(g[n])
  <2> DEFINE Good(k) == g[k] \in Traced /\ (Reaches(g[k]) \/ Len(g[k]) = k + 1)
             Bad == {k \in 0..n : ~Good(k)}
  <2>1. \A k \in 0..n : g[k] = IF k = 0 THEN <<v>> ELSE Step(g[k - 1])
    BY <1>9
  <2>2. Bad = {}
    <3>1. SUFFICES ASSUME Bad # {} PROVE FALSE
      OBVIOUS
    <3>2. PICK k \in Bad : \A j \in Bad : k <= j
      <4>1. Bad \subseteq Nat
        OBVIOUS
      <4> HIDE DEF Bad
      <4> QED
        BY <3>1, <4>1, LeastExists
    <3>3. k \in 0..n /\ ~Good(k)
      OBVIOUS
    <3> HIDE DEF Reaches
    <3>4. k # 0
      <4>1. ASSUME k = 0 PROVE FALSE
        <5>1. g[k] = <<v>>
          BY <2>1, <3>3, <4>1
        <5> QED
          BY <1>2, <3>3, <4>1, <5>1
      <4> QED
        BY <4>1
    <3>5. k - 1 \in 0..n /\ k - 1 \notin Bad
      BY <1>1, <3>2, <3>3, <3>4
    <3>6. Good(k - 1) /\ g[k] = Step(g[k - 1])
      BY <2>1, <3>3, <3>4, <3>5
    <3>7. CASE Reaches(g[k - 1])
      <4>1. g[k] = g[k - 1]
        BY <3>6, <3>7 DEF Step
      <4> QED
        BY <3>3, <3>6, <3>7, <4>1
    <3>8. CASE ~Reaches(g[k - 1])
      <4>1. g[k] \in Traced /\ Len(g[k]) = Len(g[k - 1]) + 1 /\ Len(g[k - 1]) = (k - 1) + 1
        BY <1>3, <3>6, <3>8
      <4> QED
        BY <3>3, <4>1
    <3> QED
      BY <3>7, <3>8
  <2>3. Good(n)
    BY <1>1, <2>2
  <2>4. Len(g[n]) # n + 1
    BY <1>1, <1>5, <2>3
  <2> QED
    BY <2>3, <2>4
<1> DEFINE q == WayTo(v)
<1>10. q \in Traced /\ Reaches(q)
  <2>1. Builds(CHOOSE g : Builds(g))
    <3> HIDE DEF Builds
    <3> QED
      BY <1>8
  <2>2. q = (CHOOSE g : Builds(g))[n]
    BY DEF WayTo, Step, n
  <2> HIDE DEF Builds, q, Reaches
  <2> QED
    BY <1>9, <2>1, <2>2
<1> HIDE DEF q
<1>11. /\ q \in Seq(ix) /\ Len(q) \in Nat /\ Len(q) # 0 /\ q[Len(q)] = v
       /\ \A k \in 1..Len(q) : q[k] \in ix /\ d(q[k]) # Infinity
       /\ \A k \in 1..Len(q) - 1 : ReachedFrom(q[k], q[k + 1])
  BY <1>10 DEF Traced
<1>12. q[1] = origin
  <2>1. ASSUME q[1] # origin PROVE FALSE
    <3>1. vertices[q[1]].source = Null /\ q[1] \in ix /\ d(q[1]) # Infinity
      BY <1>10, <1>11, <2>1
    <3>2. ReachedFrom(Null, q[1])
      BY <1>1, <2>1, <3>1 DEF Reckoned
    <3>3. Null \in 1..n
      BY <1>1, <3>2 DEF ReachedFrom
    <3> QED
      BY <1>1, <3>3 DEF Null
  <2> QED
    BY <2>1
<1> DEFINE w == [k \in 1..Len(q) |-> [at |-> q[k], length |-> d(q[k])]]
<1>13. /\ w \in Seq([at : ix, length : Nat]) /\ Len(w) = Len(q)
       /\ \A k \in 1..Len(q) : w[k] = [at |-> q[k], length |-> d(q[k])]
  <2>1. \A k \in 1..Len(q) : [at |-> q[k], length |-> d(q[k])] \in [at : ix, length : Nat]
    BY <1>1, <1>11
  <2> QED
    BY <1>11, <2>1
<1>14. w \in Ways
  <2>1. d(q[1]) = 0
    BY <1>1, <1>11, <1>12 DEF Reckoned
  <2> HIDE DEF w, d
  <2>2. w # <<>> /\ w[1] = [at |-> origin, length |-> 0]
    BY <1>11, <1>12, <1>13, <2>1
  <2>3. ASSUME NEW k \in 1..Len(w) - 1
        PROVE  /\ w[k + 1].at \in Range(vertices[w[k].at].neighbors)
               /\ w[k + 1].length = w[k].length + Leg(w[k].at, w[k + 1].at)
    <3>1. k \in 1..Len(q) /\ k + 1 \in 1..Len(q) /\ k \in 1..Len(q) - 1
      BY <1>11, <1>13
    <3>2. /\ w[k].at = q[k] /\ w[k].length = d(q[k])
          /\ w[k + 1].at = q[k + 1] /\ w[k + 1].length = d(q[k + 1])
      <4>1. /\ w[k] = [at |-> q[k], length |-> d(q[k])]
            /\ w[k + 1] = [at |-> q[k + 1], length |-> d(q[k + 1])]
        BY <1>13, <3>1
      <4> QED
        BY <4>1
    <3>3. ReachedFrom(q[k], q[k + 1])
      BY <1>11, <3>1
    <3> QED
      BY <3>2, <3>3 DEF ReachedFrom, d
  <2> QED
    BY <1>13, <2>2, <2>3 DEF Ways
<1>15. Arrival(w) = [at |-> v, length |-> d(v)]
  BY <1>11, <1>13 DEF Arrival
<1>16. q = [k \in 1..Len(w) |-> w[k].at]
  <2>1. q = [k \in 1..Len(q) |-> q[k]]
    BY <1>11
  <2>2. \A k \in 1..Len(q) : w[k].at = q[k]
    BY <1>13
  <2> HIDE DEF w
  <2> QED
    BY <1>13, <2>1, <2>2
<1> QED
  <2> HIDE DEF w
  <2> QED
    BY <1>14, <1>15, <1>16 DEF q

\* From a vertice without a source there is no way back, and the origin is one itself.
LEMMA NoWayBack ==
    ASSUME Len(vertices) \in Nat, NEW v, v = origin \/ vertices[v].source = Null
    PROVE  WayTo(v) = <<v>>
<1> DEFINE n == Len(vertices)
           Reaches(q) == q[1] = origin \/ vertices[q[1]].source = Null
           Step(q) == IF Reaches(q) THEN q ELSE <<vertices[q[1]].source>> \o q
           Builds(f) == f = [k \in 0..n |-> IF k = 0 THEN <<v>> ELSE Step(f[k - 1])]
<1>0. n \in Nat
  OBVIOUS
<1> HIDE DEF n
<1>1. Step(<<v>>) = <<v>>
  OBVIOUS
<1> HIDE DEF Step
<1>2. Builds([k \in 0..n |-> <<v>>])
  <2> DEFINE f == [k \in 0..n |-> <<v>>]
  <2>1. \A k \in 0..n : k # 0 => k - 1 \in 0..n
    BY <1>0
  <2>2. \A k \in 0..n : f[k] = IF k = 0 THEN <<v>> ELSE Step(f[k - 1])
    BY <1>1, <2>1
  <2> QED
    BY <2>2
<1>3. ASSUME NEW g, Builds(g)
      PROVE  g[n] = <<v>>
  <2> DEFINE Bad == {k \in 0..n : g[k] # <<v>>}
  <2>1. \A k \in 0..n : g[k] = IF k = 0 THEN <<v>> ELSE Step(g[k - 1])
    BY <1>3
  <2>2. SUFFICES ASSUME Bad # {} PROVE FALSE
    BY <1>0
  <2>3. PICK k \in Bad : \A j \in Bad : k <= j
    <3>1. Bad \subseteq Nat
      OBVIOUS
    <3> HIDE DEF Bad
    <3> QED
      BY <2>2, <3>1, LeastExists
  <2>4. k \in 0..n /\ g[k] # <<v>> /\ k # 0
    BY <2>1
  <2>5. k - 1 \in 0..n /\ k - 1 \notin Bad
    BY <1>0, <2>3, <2>4
  <2>6. g[k - 1] = <<v>> /\ g[k] = Step(g[k - 1])
    BY <2>1, <2>4, <2>5
  <2> QED
    BY <1>1, <2>4, <2>6
<1>4. Builds(CHOOSE g : Builds(g))
  <2> HIDE DEF Builds
  <2> QED
    BY <1>2
<1>5. WayTo(v) = (CHOOSE g : Builds(g))[n]
  BY DEF WayTo, Step, n
<1> HIDE DEF Builds
<1> QED
  BY <1>3, <1>4, <1>5

\* The path runs along a way to the destination, and no other way is shorter; or it is
\* empty, and no way is shorter than what counts as out of reach.
TakesShortestWay ==
    LET Arriving == {w \in Ways : Arrival(w).at = destination}
    IN  \/ path' = <<>> /\ \A o \in Arriving : Infinity <= Arrival(o).length
        \/ \E w \in Arriving :
              /\ path' = LinesThrough([k \in 1..Len(w) |-> vertices[w[k].at].position])
              /\ \A o \in Arriving : Arrival(w).length <= Arrival(o).length

ShortestWayTaken ==
    [][GetPath /\ {origin, destination} \subseteq Range(index) =>
           TakesShortestWay]_treeVars

LEMMA PathTaken ==
    ASSUME SearchInv, Infinity \in Nat, GetPath,
           {origin, destination} \subseteq Range(index)
    PROVE  TakesShortestWay
<1> DEFINE Arriving == {w \in Ways : Arrival(w).at = destination}
           d == vertices[destination].distance
           way == WayTo(destination)
<1>1. /\ SearchOver /\ Len(vertices) \in Nat
      /\ path' = LinesThrough([k \in DOMAIN way |-> vertices[way[k]].position])
  BY DEF GetPath, SearchOver, SearchInv, TreeInv, Fits
<1>2. \A o \in Arriving : d <= Arrival(o).length
  BY <1>1, NoWayShorter
<1>3. CASE d = Infinity
  <2>1. destination = origin \/ vertices[destination].source = Null
    BY <1>1, <1>3 DEF SearchInv, SearchOver, Reckoned
  <2>2. way = <<destination>>
    BY <1>1, <2>1, NoWayBack
  <2> HIDE DEF way
  <2>3. path' = <<>>
    <3> DEFINE ps == [k \in DOMAIN way |-> vertices[way[k]].position]
    <3>1. ps = <<vertices[destination].position>>
      BY <2>2
    <3>2. Len(ps) = 1
      BY <3>1
    <3> HIDE DEF ps
    <3>3. LinesThrough(ps) = <<>>
      BY <3>2 DEF LinesThrough
    <3> QED
      BY <1>1, <3>3 DEF ps
  <2> QED
    BY <1>2, <1>3, <2>3 DEF TakesShortestWay
<1>4. CASE d # Infinity
  <2>1. PICK w \in Ways : /\ Arrival(w) = [at |-> destination, length |-> d]
                          /\ way = [k \in 1..Len(w) |-> w[k].at]
    BY <1>1, <1>4, WayBack
  <2> HIDE DEF way
  <2>2. [k \in DOMAIN way |-> vertices[way[k]].position]
            = [k \in 1..Len(w) |-> vertices[w[k].at].position]
    BY <2>1
  <2>3. w \in Arriving /\ Arrival(w).length = d
    BY <2>1
  <2> HIDE DEF d
  <2> QED
    BY <1>1, <1>2, <2>2, <2>3 DEF TakesShortestWay
<1> QED
  BY <1>3, <1>4

\* What computePath() returns is a shortest of all ways from the origin to the destination
\* along the links of the tree, for any network, points and calls: the search leaves no
\* shorter way out, and the sources lead back along one of that length.  When it returns
\* no line though the two are apart, no way joins them that is shorter than what counts
\* as out of reach (spanningtree.cpp, treepathvertice.cpp).
THEOREM ShortestWayTakenHolds ==
    ASSUME NetworkAssumption
    PROVE  Spec => ShortestWayTaken
<1>1. Infinity \in Nat
  BY DEF NetworkAssumption
<1>2. Init => SearchInv
  <2>1. Init => phase # "searching"
    BY DEF Init
  <2> QED
    BY <2>1, TreeAtInit DEF SearchInv
<1>3. SearchInv /\ [Next]_treeVars => SearchInv'
  BY SearchKept
<1>4. SearchInv => (GetPath /\ {origin, destination} \subseteq Range(index) =>
                      TakesShortestWay)
  BY <1>1, PathTaken
<1> QED
  BY <1>2, <1>3, <1>4, PTL DEF Spec, ShortestWayTaken

=============================================================================
