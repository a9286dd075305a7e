-------------------------- MODULE AlgorithmProofs --------------------------
(***************************************************************************)
(* Proofs about the parts of Library that work on lists and graphs: the    *)
(* rate monitor counts what is in its window, ranges keep their times when *)
(* they are consolidated, and what is proved of the spanning tree on its   *)
(* own holds of the library.                                               *)
(***************************************************************************)
EXTENDS Library, SequenceTheorems, TLAPS

\* The spanning tree of Library, with the facts that are proved of it.
TreeProofs == INSTANCE SpanningTreeProofs
    WITH index <- treeIndex, phase <- treePhase, calls <- routingCalls,
         Infinity <- Beyond, MaxCalls <- MaxRoutingCalls

-----------------------------------------------------------------------------
(* The rate monitor                                                        *)

\* The window is never shorter than the shortest there ever was, and no thread has
\* read a time that is still to come.
ReadingsPast ==
    /\ narrowest <= evaluationMsecs
    /\ \A u \in Threads : now[u] <= clock

RateInv == Rate!TypeOK /\ ReadingsPast /\ Rate!RecentKept

\* Pruning drops events from the front, all of them before the window.
LEMMA PrunedFront ==
    ASSUME NEW es \in Seq(Nat), NEW t \in Nat, evaluationMsecs \in Nat
    PROVE  /\ Rate!Pruned(es, t) \in Seq(Nat)
           /\ \E k \in 0..Len(es) :
                 /\ Rate!Pruned(es, t) = SubSeq(es, k + 1, Len(es))
                 /\ \A m \in 1..k : es[m] < t - evaluationMsecs
<1> DEFINE kept == {m \in DOMAIN es : es[m] >= t - evaluationMsecs}
<1>1. CASE kept = {}
  <2>1. Rate!Pruned(es, t) = <<>>
    BY <1>1 DEF Rate!Pruned
  <2>2. SubSeq(es, Len(es) + 1, Len(es)) = <<>>
    OBVIOUS
  <2>3. \A m \in 1..Len(es) : es[m] < t - evaluationMsecs
    BY <1>1
  <2> QED
    BY <2>1, <2>2, <2>3
<1>2. CASE kept # {}
  <2> DEFINE first == CHOOSE m \in kept : \A j \in kept : m <= j
  <2>1. \E m \in kept : \A j \in kept : m <= j
    <3>1. kept \subseteq Nat
      OBVIOUS
    <3> HIDE DEF kept
    <3> QED
      BY <1>2, <3>1, TreeProofs!LeastExists
  <2>2. first \in kept /\ \A j \in kept : first <= j
    <3> HIDE DEF kept
    <3> QED
      BY <2>1
  <2>3. Rate!Pruned(es, t) = SubSeq(es, first, Len(es))
    BY <1>2 DEF Rate!Pruned
  <2> HIDE DEF first
  <2>4. first \in 1..Len(es)
    BY <2>2
  <2>5. \A m \in 1..(first - 1) : m \notin kept
    BY <2>2, <2>4
  <2>6. \A m \in 1..(first - 1) : es[m] < t - evaluationMsecs
    BY <2>4, <2>5
  <2>7. first - 1 \in 0..Len(es) /\ (first - 1) + 1 = first
    BY <2>4
  <2>8. SubSeq(es, first, Len(es)) \in Seq(Nat)
    BY <2>4, SubSeqProperties
  <2> QED
    BY <2>3, <2>6, <2>7, <2>8
<1> QED
  BY <1>1, <1>2

\* The elements of a suffix.
LEMMA SuffixElements ==
    ASSUME NEW h \in Seq(Nat), NEW d \in 0..Len(h)
    PROVE  LET s == SubSeq(h, d + 1, Len(h))
           IN  s \in Seq(Nat) /\ Len(s) = Len(h) - d /\ \A m \in 1..(Len(h) - d) : s[m] = h[d + m]
<1> DEFINE n == Len(h)
           s == SubSeq(h, d + 1, n)
<1>1. \A m \in (d + 1)..n : h[m] \in Nat
  OBVIOUS
<1>2. /\ s \in Seq(Nat)
      /\ Len(s) = IF d + 1 <= n THEN n - (d + 1) + 1 ELSE 0
      /\ \A m \in 1..(n - (d + 1) + 1) : s[m] = h[d + 1 + m - 1]
  BY <1>1, SubSeqProperties
<1> HIDE DEF s
<1>3. \A m \in 1..(n - d) : m \in 1..(n - (d + 1) + 1) /\ d + 1 + m - 1 = d + m
  OBVIOUS
<1>4. \A m \in 1..(n - d) : s[m] = h[d + m]
  BY <1>2, <1>3
<1>5. s \in Seq(Nat) /\ Len(s) = n - d
  BY <1>2
<1> QED
  BY <1>4, <1>5 DEF s

\* What is left of a suffix without its first elements is a suffix.
LEMMA SuffixOfSuffix ==
    ASSUME NEW h \in Seq(Nat), NEW d \in 0..Len(h), NEW s, s = SubSeq(h, d + 1, Len(h)),
           NEW k \in 0..Len(s)
    PROVE  d + k \in 0..Len(h) /\ SubSeq(s, k + 1, Len(s)) = SubSeq(h, d + k + 1, Len(h))
<1> DEFINE left == SubSeq(s, k + 1, Len(s))
           right == SubSeq(h, d + k + 1, Len(h))
<1>1. s \in Seq(Nat) /\ Len(s) = Len(h) - d /\ \A m \in 1..(Len(h) - d) : s[m] = h[d + m]
  BY SuffixElements
<1>2. left \in Seq(Nat) /\ Len(left) = Len(s) - k /\ \A m \in 1..(Len(s) - k) : left[m] = s[k + m]
  BY <1>1, SuffixElements
<1>3. d + k \in 0..Len(h)
  BY <1>1
<1>4. /\ right \in Seq(Nat) /\ Len(right) = Len(h) - (d + k)
      /\ \A m \in 1..(Len(h) - (d + k)) : right[m] = h[d + k + m]
  BY <1>3, SuffixElements
<1> HIDE DEF left, right
<1>5. ASSUME NEW m \in 1..Len(left)
      PROVE  left[m] = right[m]
  <2>0. Len(s) \in Nat /\ Len(h) \in Nat /\ Len(s) = Len(h) - d /\ m \in 1..(Len(s) - k)
    <3>1. Len(s) \in Nat /\ Len(h) \in Nat
      BY <1>1
    <3>2. Len(s) = Len(h) - d
      BY <1>1
    <3>3. Len(left) = Len(s) - k
      BY <1>2
    <3> QED
      BY <3>1, <3>2, <3>3
  <2>1. k + m \in 1..(Len(h) - d) /\ m \in 1..(Len(s) - k) /\ m \in 1..(Len(h) - (d + k))
    BY <2>0
  <2>2. d + (k + m) = d + k + m
    BY <2>1
  <2> QED
    BY <1>1, <1>2, <1>4, <2>1, <2>2
<1>6. Len(left) = Len(right)
  BY <1>1, <1>2, <1>4
<1>7. left = right
  BY <1>2, <1>4, <1>5, <1>6, SeqEqual
<1> QED
  BY <1>3, <1>7 DEF left, right

\* An element appended to a sequence is appended to each suffix of it.
LEMMA SuffixOfAppend ==
    ASSUME NEW h \in Seq(Nat), NEW x \in Nat, NEW d \in 0..Len(h)
    PROVE  LET g == Append(h, x)
           IN  Append(SubSeq(h, d + 1, Len(h)), x) = SubSeq(g, d + 1, Len(g))
<1> DEFINE s == SubSeq(h, d + 1, Len(h))
           g == Append(h, x)
           left == Append(s, x)
           right == SubSeq(g, d + 1, Len(g))
<1>1. s \in Seq(Nat) /\ Len(s) = Len(h) - d /\ \A m \in 1..(Len(h) - d) : s[m] = h[d + m]
  BY SuffixElements
<1>2. /\ g \in Seq(Nat) /\ Len(g) = Len(h) + 1 /\ g[Len(h) + 1] = x
      /\ \A m \in 1..Len(h) : g[m] = h[m]
  BY AppendProperties
<1>3. d \in 0..Len(g)
  BY <1>2
<1> HIDE DEF s, g
<1>4. /\ left \in Seq(Nat) /\ Len(left) = Len(s) + 1 /\ left[Len(s) + 1] = x
      /\ \A m \in 1..Len(s) : left[m] = s[m]
  BY <1>1, AppendProperties
<1>5. right \in Seq(Nat) /\ Len(right) = Len(g) - d /\ \A m \in 1..(Len(g) - d) : right[m] = g[d + m]
  BY <1>2, <1>3, SuffixElements
<1> HIDE DEF left, right
<1>6. ASSUME NEW m \in 1..Len(left)
      PROVE  left[m] = right[m]
  <2>1. right[m] = g[d + m]
    BY <1>1, <1>2, <1>4, <1>5
  <2>2. CASE m = Len(s) + 1
    <3>1. d + m = Len(h) + 1
      BY <1>1, <2>2
    <3> QED
      BY <1>2, <1>4, <2>1, <2>2, <3>1
  <2>3. CASE m # Len(s) + 1
    <3>1. m \in 1..Len(s) /\ m \in 1..(Len(h) - d) /\ d + m \in 1..Len(h)
      BY <1>1, <1>4, <2>3
    <3> QED
      BY <1>1, <1>2, <1>4, <2>1, <3>1
  <2> QED
    BY <2>2, <2>3
<1>7. Len(left) = Len(right)
  BY <1>1, <1>2, <1>4, <1>5
<1>8. left = right
  BY <1>4, <1>5, <1>6, <1>7, SeqEqual
<1> QED
  BY <1>8 DEF left, right, s, g

\* The events are a suffix of the history, and all before it is out of the window that
\* ends at t.
IsWindow(es, h, t) ==
    \E dropped \in 0..Len(h) :
        /\ es = SubSeq(h, dropped + 1, Len(h))
        /\ \A m \in 1..dropped : h[m] < t - narrowest

\* Pruning with a time that has passed leaves such a suffix.
LEMMA PruningKeeps ==
    ASSUME NEW h \in Seq(Nat), NEW es \in Seq(Nat), NEW t \in Nat,
           Rate!TypeOK, Rate!RateAssumption, ReadingsPast, t <= clock, IsWindow(es, h, clock)
    PROVE  Rate!Pruned(es, t) \in Seq(Nat) /\ IsWindow(Rate!Pruned(es, t), h, clock)
<1>1. clock \in Nat /\ evaluationMsecs \in Nat /\ narrowest \in Nat /\ narrowest <= evaluationMsecs
  BY DEF Rate!TypeOK, ReadingsPast, Rate!RateAssumption
<1>2. PICK d \in 0..Len(h) : /\ es = SubSeq(h, d + 1, Len(h))
                             /\ \A m \in 1..d : h[m] < clock - narrowest
  BY DEF IsWindow
<1>3. Rate!Pruned(es, t) \in Seq(Nat)
  BY <1>1, PrunedFront
<1>4. PICK k \in 0..Len(es) : /\ Rate!Pruned(es, t) = SubSeq(es, k + 1, Len(es))
                              /\ \A m \in 1..k : es[m] < t - evaluationMsecs
  BY <1>1, PrunedFront
<1>5. d + k \in 0..Len(h) /\ Rate!Pruned(es, t) = SubSeq(h, d + k + 1, Len(h))
  <2>1. /\ d + k \in 0..Len(h)
        /\ SubSeq(es, k + 1, Len(es)) = SubSeq(h, d + k + 1, Len(h))
    <3>1. es = SubSeq(h, d + 1, Len(h))
      BY <1>2
    <3> QED
      BY <3>1, SuffixOfSuffix
  <2> QED
    BY <1>4, <2>1
<1>6. Len(es) = Len(h) - d /\ \A m \in 1..(Len(h) - d) : es[m] = h[d + m]
  BY <1>2, SuffixElements
<1>7. ASSUME NEW m \in 1..(d + k)
      PROVE  h[m] < clock - narrowest
  <2>1. CASE m <= d
    BY <1>2, <2>1
  <2>2. CASE m > d
    <3>1. m - d \in 1..k /\ m - d \in 1..(Len(h) - d) /\ d + (m - d) = m
      BY <1>6, <2>2
    <3>2. h[m] = es[m - d] /\ es[m - d] < t - evaluationMsecs
      BY <1>4, <1>6, <3>1
    <3>3. h[m] \in Nat
      BY <1>5
    <3> QED
      BY <1>1, <3>2, <3>3
  <2> QED
    BY <2>1, <2>2
<1> QED
  BY <1>3, <1>5, <1>7 DEF IsWindow

\* Every variable has its type in the first state, and nothing is dropped.
LEMMA RateAtInit ==
    ASSUME Rate!RateAssumption, Rate!Init
    PROVE  RateInv
<1>1. Rate!TypeOK
  BY EmptySeq DEF Rate!Init, Rate!TypeOK, Rate!RateAssumption
<1>2. ReadingsPast
  BY DEF Rate!Init, ReadingsPast, Rate!RateAssumption
<1>3. Rate!RecentKept
  <2>1. 0 \in 0..Len(history) /\ events = SubSeq(history, 0 + 1, Len(history))
    BY DEF Rate!Init
  <2>2. \A j \in 1..0 : history[j] < clock - narrowest
    OBVIOUS
  <2> QED
    BY <2>1, <2>2 DEF Rate!RecentKept
<1> QED
  BY <1>1, <1>2, <1>3 DEF RateInv

\* A step leaves every variable of its type.
LEMMA RateTypeKept ==
    ASSUME Rate!RateAssumption, RateInv, [Rate!Next]_Rate!rateVars
    PROVE  Rate!TypeOK'
<1> USE DEF Rate!TypeOK
<1>1. Rate!TypeOK /\ ReadingsPast /\ Rate!RecentKept
  BY DEF RateInv
<1>2. Windows \subseteq Nat
  BY DEF Rate!RateAssumption
<1>3. CASE Rate!Tick
  BY <1>1, <1>3 DEF Rate!Tick
<1>4. CASE \E w \in Windows : Rate!SetEvaluationTime(w)
  BY <1>1, <1>4 DEF Rate!SetEvaluationTime
<1>5. CASE \E u \in Threads : Rate!ReadClock(u, "addEvent") \/ Rate!ReadClock(u, "eventsPerSecond")
  <2>1. PICK u \in Threads : Rate!ReadClock(u, "addEvent") \/ Rate!ReadClock(u, "eventsPerSecond")
    BY <1>5
  <2>2. now' = [now EXCEPT ![u] = clock] /\ clock \in Nat /\ now \in [Threads -> Nat]
    BY <1>1, <2>1 DEF Rate!ReadClock
  <2>3. now' \in [Threads -> Nat]
    BY <2>2
  <2>4. rateCall' \in [Threads -> {"none", "addEvent", "eventsPerSecond"}]
    BY <1>1, <2>1 DEF Rate!ReadClock
  <2>5. UNCHANGED <<clock, evaluationMsecs, events, lastPruneTime, rate, history, narrowest>>
    BY <2>1 DEF Rate!ReadClock
  <2> QED
    BY <1>1, <2>3, <2>4, <2>5
<1>6. CASE \E u \in Threads : Rate!AddEvent(u)
  <2>1. PICK u \in Threads : Rate!AddEvent(u)
    BY <1>6
  <2>2. now[u] \in Nat /\ Append(events, now[u]) \in Seq(Nat) /\ Append(history, now[u]) \in Seq(Nat)
    BY <1>1
  <2>3. events' \in Seq(Nat)
    <3>1. evaluationMsecs \in Nat
      BY <1>1, <1>2
    <3>2. Rate!Pruned(Append(events, now[u]), now[u]) \in Seq(Nat)
      BY <2>2, <3>1, PrunedFront
    <3>3. events' \in {Rate!Pruned(Append(events, now[u]), now[u]), Append(events, now[u])}
      BY <2>1 DEF Rate!AddEvent
    <3> QED
      BY <2>2, <3>2, <3>3
  <2>4. /\ history' \in Seq(Nat) /\ lastPruneTime' \in Nat
        /\ rateCall' \in [Threads -> {"none", "addEvent", "eventsPerSecond"}]
        /\ now' \in [Threads -> Nat]
    BY <1>1, <2>1, <2>2 DEF Rate!AddEvent, Rate!Return
  <2> QED
    BY <1>1, <2>1, <2>3, <2>4 DEF Rate!AddEvent
<1>7. CASE \E u \in Threads : Rate!EventsPerSecond(u)
  <2>1. PICK u \in Threads : Rate!EventsPerSecond(u)
    BY <1>7
  <2>2. now[u] \in Nat
    BY <1>1
  <2>3. events' \in Seq(Nat)
    BY <1>1, <1>2, <2>1, <2>2, PrunedFront DEF Rate!EventsPerSecond
  <2>4. rate' \in [count : Nat, elapsed : Int]
    <3>1. PICK window \in Windows :
              rate' = [count |-> Len(events'),
                       elapsed |-> IF events' = <<>> THEN window ELSE now[u] - Head(events')]
      BY <2>1 DEF Rate!EventsPerSecond
    <3>2. Len(events') \in Nat
      BY <2>3
    <3>3. events' # <<>> => Head(events') \in Nat
      BY <2>3
    <3>4. (IF events' = <<>> THEN window ELSE now[u] - Head(events')) \in Int
      BY <1>2, <2>2, <3>3
    <3> QED
      BY <3>1, <3>2, <3>4
  <2>5. /\ lastPruneTime' \in Nat
        /\ rateCall' \in [Threads -> {"none", "addEvent", "eventsPerSecond"}]
        /\ now' \in [Threads -> Nat]
    BY <1>1, <2>1, <2>2 DEF Rate!EventsPerSecond, Rate!Return
  <2> QED
    BY <1>1, <2>1, <2>3, <2>4, <2>5 DEF Rate!EventsPerSecond
<1>8. CASE UNCHANGED Rate!rateVars
  BY <1>1, <1>8 DEF Rate!rateVars
<1> QED
  BY <1>3, <1>4, <1>5, <1>6, <1>7, <1>8 DEF Rate!Next

\* The clock only moves on, and the shortest window only shrinks.
LEMMA ReadingsKept ==
    ASSUME Rate!RateAssumption, RateInv, [Rate!Next]_Rate!rateVars
    PROVE  ReadingsPast'
<1>1. Rate!TypeOK /\ ReadingsPast
  BY DEF RateInv
<1>2. /\ Windows \subseteq Nat /\ clock \in Nat /\ now \in [Threads -> Nat]
      /\ evaluationMsecs \in Nat /\ narrowest \in Nat
  BY <1>1 DEF Rate!RateAssumption, Rate!TypeOK
<1> USE DEF ReadingsPast
<1>3. CASE Rate!Tick
  BY <1>1, <1>2, <1>3 DEF Rate!Tick
<1>4. CASE \E w \in Windows : Rate!SetEvaluationTime(w)
  BY <1>1, <1>2, <1>4 DEF Rate!SetEvaluationTime
<1>5. CASE \E u \in Threads : Rate!ReadClock(u, "addEvent") \/ Rate!ReadClock(u, "eventsPerSecond")
  BY <1>1, <1>2, <1>5 DEF Rate!ReadClock
<1>6. CASE \E u \in Threads : Rate!AddEvent(u) \/ Rate!EventsPerSecond(u)
  BY <1>1, <1>2, <1>6 DEF Rate!AddEvent, Rate!EventsPerSecond, Rate!Return
<1>7. CASE UNCHANGED Rate!rateVars
  BY <1>1, <1>7 DEF Rate!rateVars
<1> QED
  BY <1>3, <1>4, <1>5, <1>6, <1>7 DEF Rate!Next

\* No step drops an event of the window.
LEMMA RateRecentStays ==
    ASSUME Rate!RateAssumption, RateInv, [Rate!Next]_Rate!rateVars
    PROVE  Rate!RecentKept'
<1>1. Rate!TypeOK /\ ReadingsPast /\ Rate!RecentKept
  BY DEF RateInv
<1>2. PICK d \in 0..Len(history) :
          /\ events = SubSeq(history, d + 1, Len(history))
          /\ \A j \in 1..d : history[j] < clock - narrowest
  BY <1>1 DEF Rate!RecentKept
<1>3. /\ clock \in Nat /\ narrowest \in Nat /\ Windows \subseteq Nat
      /\ events \in Seq(Nat) /\ history \in Seq(Nat)
  BY <1>1 DEF Rate!TypeOK, Rate!RateAssumption
<1>4. \A j \in 1..d : history[j] \in Nat
  BY <1>3
<1>5. IsWindow(events, history, clock)
  BY <1>1 DEF Rate!RecentKept, IsWindow
<1>6. CASE Rate!Tick
  <2>1. clock' = clock + 1 /\ UNCHANGED <<events, history, narrowest>>
    BY <1>6 DEF Rate!Tick
  <2>2. \A j \in 1..d : history[j] < (clock + 1) - narrowest
    BY <1>2, <1>3, <1>4
  <2> QED
    BY <1>2, <2>1, <2>2 DEF Rate!RecentKept
<1>7. CASE \E w \in Windows : Rate!SetEvaluationTime(w)
  <2>1. narrowest' \in Nat /\ narrowest' <= narrowest /\ UNCHANGED <<events, history, clock>>
    BY <1>3, <1>7 DEF Rate!SetEvaluationTime
  <2>2. \A j \in 1..d : history[j] < clock - narrowest'
    BY <1>2, <1>3, <1>4, <2>1
  <2> QED
    BY <1>2, <2>1, <2>2 DEF Rate!RecentKept
<1>8. CASE \E u \in Threads : Rate!ReadClock(u, "addEvent") \/ Rate!ReadClock(u, "eventsPerSecond")
  BY <1>1, <1>8 DEF Rate!ReadClock, Rate!RecentKept
<1>9. CASE \E u \in Threads : Rate!AddEvent(u)
  <2>1. PICK u \in Threads : Rate!AddEvent(u)
    BY <1>9
  <2> DEFINE more == Append(events, now[u])
  <2>2. now[u] \in Nat /\ now[u] <= clock
    BY <1>1 DEF Rate!TypeOK, ReadingsPast
  <2>3. history' = Append(history, now[u]) /\ UNCHANGED <<clock, narrowest>>
    BY <2>1 DEF Rate!AddEvent
  <2>4. /\ history' \in Seq(Nat) /\ Len(history') = Len(history) + 1
        /\ \A j \in 1..Len(history) : history'[j] = history[j]
    BY <1>3, <2>2, <2>3, AppendProperties
  <2>5. more \in Seq(Nat)
    BY <1>3, <2>2
  <2>6. IsWindow(more, history', clock)
    <3>1. more = SubSeq(history', d + 1, Len(history'))
      BY <1>2, <1>3, <2>2, <2>3, SuffixOfAppend
    <3>2. d \in 0..Len(history')
      BY <1>3, <2>4
    <3>3. ASSUME NEW j \in 1..d
          PROVE  history'[j] < clock - narrowest
      <4>1. history'[j] = history[j]
        BY <1>3, <2>4
      <4>2. history[j] < clock - narrowest
        BY <1>2
      <4> QED
        BY <4>1, <4>2
    <3> QED
      BY <3>1, <3>2, <3>3 DEF IsWindow
  <2> HIDE DEF more
  <2>7. IsWindow(Rate!Pruned(more, now[u]), history', clock)
    BY <1>1, <2>2, <2>4, <2>5, <2>6, PruningKeeps
  <2>8. events' = more \/ events' = Rate!Pruned(more, now[u])
    BY <2>1 DEF Rate!AddEvent, more
  <2>9. IsWindow(events', history', clock)
    BY <2>6, <2>7, <2>8
  <2> QED
    BY <2>3, <2>9 DEF IsWindow, Rate!RecentKept
<1>10. CASE \E u \in Threads : Rate!EventsPerSecond(u)
  <2>1. PICK u \in Threads : Rate!EventsPerSecond(u)
    BY <1>10
  <2>2. now[u] \in Nat /\ now[u] <= clock
    BY <1>1 DEF Rate!TypeOK, ReadingsPast
  <2>3. IsWindow(Rate!Pruned(events, now[u]), history, clock)
    BY <1>1, <1>3, <1>5, <2>2, PruningKeeps
  <2>4. events' = Rate!Pruned(events, now[u]) /\ UNCHANGED <<clock, narrowest, history>>
    BY <2>1 DEF Rate!EventsPerSecond
  <2>5. IsWindow(events', history, clock)
    BY <2>3, <2>4
  <2> QED
    BY <2>4, <2>5 DEF IsWindow, Rate!RecentKept
<1>11. CASE UNCHANGED Rate!rateVars
  BY <1>1, <1>11 DEF Rate!rateVars, Rate!RecentKept
<1> QED
  BY <1>6, <1>7, <1>8, <1>9, <1>10, <1>11 DEF Rate!Next

\* The monitor counts a suffix of the events that were added, and what is before it has
\* left every window: for any threads, any windows and any bounds, and whatever the
\* order in which threads that read the clock before the lock get it.
THEOREM RateRecentKeptHolds == ASSUME Rate!RateAssumption PROVE Rate!Spec => []Rate!RecentKept
<1>1. Rate!Init => RateInv
  BY RateAtInit
<1>2. RateInv /\ [Rate!Next]_Rate!rateVars => RateInv'
  BY RateTypeKept, ReadingsKept, RateRecentStays DEF RateInv
<1>3. RateInv => Rate!RecentKept
  BY DEF RateInv
<1> QED
  BY <1>1, <1>2, <1>3, PTL DEF Rate!Spec

\* A step of the library is one of the rate monitor, or of a part that does not touch it.
LEMMA RateMonitorSteps == [Next]_libraryVars => [Rate!Next]_Rate!rateVars
<1> SUFFICES ASSUME [Next]_libraryVars
             PROVE  [Rate!Next]_Rate!rateVars
  OBVIOUS
<1>1. CASE RateStep
  BY <1>1 DEF RateStep
<1>2. CASE UdpStep
  BY <1>2 DEF UdpStep, Shared, rateVars, Rate!rateVars
<1>3. CASE RouteStep
  BY <1>3 DEF RouteStep, Shared, rateVars, Rate!rateVars
<1>4. CASE TreeStep
  BY <1>4 DEF TreeStep, Shared, rateVars, Rate!rateVars
<1>5. CASE ShapeStep
  BY <1>5 DEF ShapeStep, Shared, rateVars, Rate!rateVars
<1>6. CASE SpanStep
  BY <1>6 DEF SpanStep, Shared, rateVars, Rate!rateVars
<1>7. CASE RangeStep
  BY <1>7 DEF RangeStep, Shared, rateVars, Rate!rateVars
<1>8. CASE StringStep
  BY <1>8 DEF StringStep, Shared, rateVars, Rate!rateVars
<1>9. CASE FileStep
  BY <1>9 DEF FileStep, Shared, rateVars, Rate!rateVars
<1>10. CASE ClientStep
  BY <1>10 DEF ClientStep, Shared, rateVars, Rate!rateVars
<1>11. CASE MetadataStep
  BY <1>11 DEF MetadataStep, Shared, rateVars, Rate!rateVars
<1>12. CASE UNCHANGED libraryVars
  BY <1>12 DEF libraryVars, Shared, rateVars, Rate!rateVars
<1> QED
  BY <1>1, <1>2, <1>3, <1>4, <1>5, <1>6, <1>7, <1>8, <1>9, <1>10, <1>11, <1>12 DEF Next

\* However the clock readings of several threads cross, the rate monitor of the library
\* counts every event of its window, for any threads, windows and bounds.
THEOREM RecentKeptHolds == Spec => []RecentKept
<1>1. Rate!RateAssumption
  BY LibraryAssumption DEF LibraryAssumption
<1>2. Init => RateInv
  BY <1>1, RateAtInit DEF Init
<1>3. RateInv /\ [Next]_libraryVars => RateInv'
  BY <1>1, RateMonitorSteps, RateTypeKept, ReadingsKept, RateRecentStays DEF RateInv
<1>4. RateInv => RecentKept
  BY DEF RecentKept, RateInv
<1> QED
  BY <1>2, <1>3, <1>4, PTL DEF Spec

-----------------------------------------------------------------------------
(* Ranges of times                                                         *)

RangeSet == [start : Int, end : Int, valid : BOOLEAN]

\* The times of a list of ranges, and ranges in order that do not touch.
Covered(rs, p) == \E n \in 1..Len(rs) : rs[n].start <= p /\ p <= rs[n].end

Apart(rs) == \A n \in 1..(Len(rs) - 1) : rs[n].end < rs[n + 1].start

AllValid(rs) == \A n \in 1..Len(rs) : rs[n].valid

\* Merging takes a range into the last of a list or appends it.
LEMMA MergeFits ==
    ASSUME NEW rs \in Seq(RangeSet), rs # <<>>, NEW s \in RangeSet
    PROVE  /\ Ranges!Merge(rs, s) \in Seq(RangeSet)
           /\ Ranges!Merge(rs, s) # <<>>
<1>1. Len(rs) \in Nat \ {0} /\ rs[Len(rs)] \in RangeSet
  BY EmptySeq
<1> DEFINE last == rs[Len(rs)]
           joined == Ranges!Between(last.start, Ranges!Later(last.end, s.end))
<1>2. joined \in RangeSet
  BY <1>1 DEF RangeSet, Ranges!Between, Ranges!Later
<1>3. CASE last.end >= s.start
  <2>1. Ranges!Merge(rs, s) = [rs EXCEPT ![Len(rs)] = joined]
    BY <1>3 DEF Ranges!Merge, Ranges!Last
  <2> HIDE DEF joined, last
  <2>2. [rs EXCEPT ![Len(rs)] = joined] \in Seq(RangeSet)
        /\ Len([rs EXCEPT ![Len(rs)] = joined]) = Len(rs)
    BY <1>1, <1>2, ExceptSeq
  <2> QED
    BY <1>1, <2>1, <2>2
<1>4. CASE ~(last.end >= s.start)
  <2>1. Ranges!Merge(rs, s) = Append(rs, s)
    BY <1>4 DEF Ranges!Merge, Ranges!Last
  <2>2. Append(rs, s) \in Seq(RangeSet) /\ Len(Append(rs, s)) = Len(rs) + 1
    BY AppendProperties
  <2> QED
    BY <1>1, <2>1, <2>2
<1> QED
  BY <1>3, <1>4

\* What merging a range does to a list none of whose ranges starts later.
MergedRight(rs, s, ms) ==
    /\ ms[Len(ms)].start <= s.start
    /\ Apart(rs) => Apart(ms)
    /\ AllValid(rs) /\ s.valid => AllValid(ms)
    /\ \A p \in Int : Covered(ms, p) <=> Covered(rs, p) \/ (s.start <= p /\ p <= s.end)

LEMMA MergeKeeps ==
    ASSUME NEW rs \in Seq(RangeSet), rs # <<>>, NEW s \in RangeSet,
           rs[Len(rs)].start <= s.start
    PROVE  MergedRight(rs, s, Ranges!Merge(rs, s))
<1> DEFINE m == Len(rs)
           last == rs[m]
           joined == Ranges!Between(last.start, Ranges!Later(last.end, s.end))
<1>1. m \in Nat \ {0} /\ m = Len(rs)
  BY EmptySeq
<1>2. /\ last \in RangeSet /\ last.start \in Int /\ last.end \in Int /\ last = rs[m]
      /\ s.start \in Int /\ s.end \in Int /\ last.start <= s.start
  <2>1. last \in RangeSet
    BY <1>1
  <2>2. \A r \in RangeSet : r.start \in Int /\ r.end \in Int
    BY DEF RangeSet
  <2> QED
    BY <1>1, <2>1, <2>2
<1>3. CASE last.end >= s.start
  <2> DEFINE ms == [rs EXCEPT ![m] = joined]
  <2>1. Ranges!Merge(rs, s) = ms
    BY <1>3 DEF Ranges!Merge, Ranges!Last
  <2>2. /\ joined.start = last.start /\ joined.valid /\ joined.end \in Int
        /\ \A p \in Int : p <= joined.end <=> p <= last.end \/ p <= s.end
    BY <1>2 DEF Ranges!Between, Ranges!Later
  <2>3. joined \in RangeSet
    BY <1>2, <2>2 DEF RangeSet, Ranges!Between
  <2> HIDE DEF joined, last, m
  <2>4. Len(ms) = m /\ ms[m] = joined /\ \A n \in 1..m : n # m => ms[n] = rs[n]
    BY <1>1, <2>3, ExceptSeq
  <2> HIDE DEF ms
  <2>5. ms[Len(ms)].start <= s.start
    BY <1>2, <2>2, <2>4
  <2>6. ASSUME Apart(rs) PROVE Apart(ms)
    <3>1. ASSUME NEW n \in 1..(Len(ms) - 1)
          PROVE  ms[n].end < ms[n + 1].start
      <4>1. n \in 1..m /\ n # m /\ n + 1 \in 1..m /\ n \in 1..(Len(rs) - 1)
        BY <1>1, <2>4, <3>1
      <4>2. ms[n] = rs[n] /\ rs[n].end < rs[n + 1].start
        BY <2>4, <2>6, <4>1 DEF Apart
      <4>3. CASE n + 1 = m
        BY <1>2, <2>2, <2>4, <4>2, <4>3
      <4>4. CASE n + 1 # m
        BY <2>4, <4>1, <4>2, <4>4
      <4> QED
        BY <4>3, <4>4
    <3> QED
      BY <3>1 DEF Apart
  <2>7. ASSUME AllValid(rs) PROVE AllValid(ms)
    <3>1. ASSUME NEW n \in 1..Len(ms) PROVE ms[n].valid
      <4>1. n \in 1..m /\ n \in 1..Len(rs)
        BY <1>1, <2>4, <3>1
      <4>2. CASE n = m
        BY <2>2, <2>4, <4>2
      <4>3. CASE n # m
        BY <2>4, <2>7, <4>1, <4>3 DEF AllValid
      <4> QED
        BY <4>2, <4>3
    <3> QED
      BY <3>1 DEF AllValid
  <2>8. ASSUME NEW p \in Int
        PROVE  Covered(ms, p) <=> Covered(rs, p) \/ (s.start <= p /\ p <= s.end)
    <3>1. (joined.start <= p /\ p <= joined.end)
            <=> (last.start <= p /\ p <= last.end) \/ (s.start <= p /\ p <= s.end)
      <4>1. s.start <= p => last.start <= p
        BY <1>2
      <4>2. last.start <= p /\ p <= s.end => p <= last.end \/ s.start <= p
        BY <1>2, <1>3
      <4> QED
        BY <2>2, <4>1, <4>2
    <3>2. ASSUME Covered(ms, p)
          PROVE  Covered(rs, p) \/ (s.start <= p /\ p <= s.end)
      <4>1. PICK n \in 1..Len(ms) : ms[n].start <= p /\ p <= ms[n].end
        BY <3>2 DEF Covered
      <4>2. n \in 1..m /\ n \in 1..Len(rs)
        BY <1>1, <2>4, <4>1
      <4>3. CASE n = m
        BY <1>2, <2>4, <3>1, <4>1, <4>2, <4>3 DEF Covered
      <4>4. CASE n # m
        BY <2>4, <4>1, <4>2, <4>4 DEF Covered
      <4> QED
        BY <4>3, <4>4
    <3>3. ASSUME Covered(rs, p)
          PROVE  Covered(ms, p)
      <4>1. PICK n \in 1..Len(rs) : rs[n].start <= p /\ p <= rs[n].end
        BY <3>3 DEF Covered
      <4>2. n \in 1..m /\ n \in 1..Len(ms)
        BY <1>1, <2>4, <4>1
      <4>3. CASE n = m
        BY <1>2, <2>4, <3>1, <4>1, <4>2, <4>3 DEF Covered
      <4>4. CASE n # m
        BY <2>4, <4>1, <4>2, <4>4 DEF Covered
      <4> QED
        BY <4>3, <4>4
    <3>4. ASSUME s.start <= p, p <= s.end
          PROVE  Covered(ms, p)
      <4>1. m \in 1..Len(ms)
        BY <1>1, <2>4
      <4> QED
        BY <2>4, <3>1, <3>4, <4>1 DEF Covered
    <3> QED
      BY <3>2, <3>3, <3>4
  <2> QED
    BY <2>1, <2>5, <2>6, <2>7, <2>8 DEF MergedRight
<1>4. CASE ~(last.end >= s.start)
  <2> DEFINE ms == Append(rs, s)
  <2>1. Ranges!Merge(rs, s) = ms
    BY <1>4 DEF Ranges!Merge, Ranges!Last
  <2> HIDE DEF joined, last, m
  <2>2. Len(ms) = m + 1 /\ ms[m + 1] = s /\ \A n \in 1..m : ms[n] = rs[n]
    BY <1>1, AppendProperties
  <2> HIDE DEF ms
  <2>3. last.end < s.start
    BY <1>2, <1>4
  <2>4. ms[Len(ms)].start <= s.start
    BY <1>2, <2>2
  <2>5. ASSUME Apart(rs) PROVE Apart(ms)
    <3>1. ASSUME NEW n \in 1..(Len(ms) - 1)
          PROVE  ms[n].end < ms[n + 1].start
      <4>1. n \in 1..m /\ n + 1 \in 1..(m + 1)
        BY <1>1, <2>2, <3>1
      <4>2. CASE n = m
        BY <1>2, <2>2, <2>3, <4>1, <4>2
      <4>3. CASE n # m
        <5>1. n \in 1..(Len(rs) - 1) /\ n + 1 \in 1..m
          BY <1>1, <4>1, <4>3
        <5> QED
          BY <2>2, <2>5, <4>1, <5>1 DEF Apart
      <4> QED
        BY <4>2, <4>3
    <3> QED
      BY <3>1 DEF Apart
  <2>6. ASSUME AllValid(rs), s.valid PROVE AllValid(ms)
    <3>1. ASSUME NEW n \in 1..Len(ms) PROVE ms[n].valid
      <4>1. CASE n = m + 1
        BY <2>2, <2>6, <4>1
      <4>2. CASE n # m + 1
        <5>1. n \in 1..m /\ n \in 1..Len(rs)
          BY <1>1, <2>2, <3>1, <4>2
        <5> QED
          BY <2>2, <2>6, <5>1 DEF AllValid
      <4> QED
        BY <4>1, <4>2
    <3> QED
      BY <3>1 DEF AllValid
  <2>7. ASSUME NEW p \in Int
        PROVE  Covered(ms, p) <=> Covered(rs, p) \/ (s.start <= p /\ p <= s.end)
    <3>1. ASSUME Covered(ms, p)
          PROVE  Covered(rs, p) \/ (s.start <= p /\ p <= s.end)
      <4>1. PICK n \in 1..Len(ms) : ms[n].start <= p /\ p <= ms[n].end
        BY <3>1 DEF Covered
      <4>2. CASE n = m + 1
        BY <2>2, <4>1, <4>2
      <4>3. CASE n # m + 1
        <5>1. n \in 1..m /\ n \in 1..Len(rs)
          BY <1>1, <2>2, <4>1, <4>3
        <5> QED
          BY <2>2, <4>1, <5>1 DEF Covered
      <4> QED
        BY <4>2, <4>3
    <3>2. ASSUME Covered(rs, p)
          PROVE  Covered(ms, p)
      <4>1. PICK n \in 1..Len(rs) : rs[n].start <= p /\ p <= rs[n].end
        BY <3>2 DEF Covered
      <4>2. n \in 1..m /\ n \in 1..Len(ms)
        BY <1>1, <2>2, <4>1
      <4> QED
        BY <2>2, <4>1, <4>2 DEF Covered
    <3>3. ASSUME s.start <= p, p <= s.end
          PROVE  Covered(ms, p)
      <4>1. m + 1 \in 1..Len(ms)
        BY <1>1, <2>2
      <4> QED
        BY <2>2, <3>3, <4>1 DEF Covered
    <3> QED
      BY <3>1, <3>2, <3>3
  <2> QED
    BY <2>1, <2>4, <2>5, <2>6, <2>7 DEF MergedRight
<1> QED
  BY <1>3, <1>4

\* What consolidated() makes of the first ranges of a list.
ConsolidatedRight(rs, n, cs) ==
    /\ cs \in Seq(RangeSet) /\ cs # <<>>
    /\ cs[Len(cs)].start <= rs[n].start
    /\ Apart(cs) /\ AllValid(cs)
    /\ \A p \in Int : Covered(cs, p) <=> \E k \in 1..n : rs[k].start <= p /\ p <= rs[k].end

\* The ranges of a list in order are consolidated to ranges that are in order, do not
\* touch and cover the same times, however many they are.
LEMMA ConsolidatedKeeps ==
    ASSUME NEW rs \in Seq(RangeSet), rs # <<>>, AllValid(rs),
           \A n, m \in 1..Len(rs) : n < m => rs[n].start <= rs[m].start
    PROVE  ConsolidatedRight(rs, Len(rs), Ranges!Consolidated(rs))
<1> DEFINE others == Len(rs) - 1
           base == <<Head(rs)>>
           S == Seq(RangeSet) \ {<<>>}
           rule == [x \in 1..others |-> [ms \in S |-> Ranges!Merge(ms, rs[x + 1])]]
           Merges(f) ==
               f = [x \in 0..others |->
                       IF x = 0 THEN base ELSE Ranges!Merge(f[x - 1], rs[x + 1])]
<1>1. /\ others \in Nat /\ Len(rs) = others + 1 /\ 1 \in 1..Len(rs)
      /\ \A x \in 1..others : x + 1 \in 1..Len(rs)
  <2>1. Len(rs) \in Nat \ {0}
    BY EmptySeq
  <2> QED
    BY <2>1
<1>2. \A n \in 1..Len(rs) : rs[n] \in RangeSet /\ rs[n].start \in Int /\ rs[n].end \in Int
  <2>1. \A r \in RangeSet : r.start \in Int /\ r.end \in Int
    BY DEF RangeSet
  <2>2. \A n \in 1..Len(rs) : rs[n] \in RangeSet
    OBVIOUS
  <2> QED
    BY <2>1, <2>2
<1>3. base \in S /\ base = <<rs[1]>> /\ Len(base) = 1 /\ base[1] = rs[1]
  <2>1. Head(rs) = rs[1] /\ rs[1] \in RangeSet
    BY <1>1, <1>2
  <2>2. <<rs[1]>> \in Seq(RangeSet) /\ Len(<<rs[1]>>) = 1 /\ <<rs[1]>>[1] = rs[1]
    BY <2>1
  <2>3. <<rs[1]>> # <<>>
    BY <2>2
  <2> QED
    BY <2>1, <2>2, <2>3
<1>4. ASSUME NEW x \in 1..others, NEW ms \in S PROVE Ranges!Merge(ms, rs[x + 1]) \in S
  <2>1. rs[x + 1] \in RangeSet
    BY <1>1, <1>2
  <2> QED
    BY <2>1, MergeFits
<1> HIDE DEF others, base, S
<1>5. rule \in [1..others -> [S -> S]]
  BY <1>4
<1>6. PICK f : TreeProofs!Computes(f, S, others, base, rule)
  <2> HIDE DEF rule
  <2> QED
    BY <1>1, <1>3, <1>5, TreeProofs!StepsExist
<1>7. Merges(f)
  <2>1. ASSUME NEW x \in 1..others PROVE f[x] = Ranges!Merge(f[x - 1], rs[x + 1])
    <3>1. x - 1 \in 0..others /\ f[x - 1] \in S
      BY <1>1, <1>6 DEF TreeProofs!Computes
    <3> QED
      BY <1>6, <3>1 DEF TreeProofs!Computes
  <2>2. f = [x \in 0..others |-> f[x]] /\ f[0] = base
    BY <1>6 DEF TreeProofs!Computes
  <2>3. \A x \in 0..others : x # 0 => x \in 1..others
    BY <1>1
  <2>4. \A x \in 0..others :
            f[x] = IF x = 0 THEN base ELSE Ranges!Merge(f[x - 1], rs[x + 1])
    BY <2>1, <2>2, <2>3
  <2> QED
    BY <2>2, <2>4
<1>8. ConsolidatedRight(rs, 1, base)
  <2> HIDE DEF S
  <2>1. base \in Seq(RangeSet) /\ base # <<>>
    BY <1>3 DEF S
  <2>2. base[Len(base)].start <= rs[1].start
    BY <1>1, <1>2, <1>3
  <2>3. Apart(base)
    BY <1>3 DEF Apart
  <2>4. AllValid(base)
    BY <1>1, <1>3 DEF AllValid
  <2>5. ASSUME NEW p \in Int
        PROVE  Covered(base, p) <=> \E k \in 1..1 : rs[k].start <= p /\ p <= rs[k].end
    BY <1>3 DEF Covered
  <2> QED
    BY <2>1, <2>2, <2>3, <2>4, <2>5 DEF ConsolidatedRight
<1>9. ASSUME NEW x \in 1..others, NEW ms, ConsolidatedRight(rs, x, ms)
      PROVE  ConsolidatedRight(rs, x + 1, Ranges!Merge(ms, rs[x + 1]))
  <2> DEFINE s == rs[x + 1]
             cs == Ranges!Merge(ms, s)
  <2>1. x + 1 \in 1..Len(rs) /\ x \in 1..Len(rs) /\ x < x + 1 /\ x \in Nat
    BY <1>1
  <2>2. s \in RangeSet /\ s.start \in Int /\ s.valid /\ rs[x].start \in Int
    BY <1>2, <2>1 DEF AllValid
  <2>3. ms \in Seq(RangeSet) /\ ms # <<>>
    BY <1>9 DEF ConsolidatedRight
  <2>4. ms[Len(ms)].start <= s.start
    <3>1. rs[x].start <= s.start
      BY <2>1
    <3>2. ms[Len(ms)].start <= rs[x].start
      BY <1>9 DEF ConsolidatedRight
    <3>3. ms[Len(ms)].start \in Int
      <4>1. Len(ms) \in Nat \ {0}
        BY <2>3, EmptySeq
      <4>2. ms[Len(ms)] \in RangeSet
        BY <2>3, <4>1
      <4> QED
        BY <4>2 DEF RangeSet
    <3> HIDE DEF s
    <3> QED
      BY <2>2, <3>1, <3>2, <3>3
  <2> HIDE DEF s
  <2>5. cs \in Seq(RangeSet) /\ cs # <<>>
    BY <2>2, <2>3, MergeFits
  <2>6. MergedRight(ms, s, cs)
    BY <2>2, <2>3, <2>4, MergeKeeps
  <2> HIDE DEF cs
  <2>7. Apart(cs) /\ AllValid(cs) /\ cs[Len(cs)].start <= s.start
    BY <1>9, <2>2, <2>6 DEF ConsolidatedRight, MergedRight
  <2>8. ASSUME NEW p \in Int
        PROVE  Covered(cs, p) <=> \E k \in 1..(x + 1) : rs[k].start <= p /\ p <= rs[k].end
    <3>1. Covered(cs, p) <=> Covered(ms, p) \/ (s.start <= p /\ p <= s.end)
      BY <2>6 DEF MergedRight
    <3>2. Covered(ms, p) <=> \E k \in 1..x : rs[k].start <= p /\ p <= rs[k].end
      BY <1>9 DEF ConsolidatedRight
    <3>3. \A k : k \in 1..(x + 1) <=> k \in 1..x \/ k = x + 1
      BY <2>1
    <3> QED
      BY <3>1, <3>2, <3>3 DEF s
  <2> QED
    BY <2>5, <2>7, <2>8 DEF ConsolidatedRight, s, cs
<1>10. ASSUME NEW g, Merges(g)
       PROVE  ConsolidatedRight(rs, others + 1, g[others])
  <2> DEFINE Bad == {x \in 0..others : ~ConsolidatedRight(rs, x + 1, g[x])}
  <2>1. SUFFICES ASSUME Bad # {} PROVE FALSE
    BY <1>1
  <2>2. PICK x \in Bad : \A j \in Bad : x <= j
    <3>1. Bad \subseteq Nat
      OBVIOUS
    <3> HIDE DEF Bad
    <3> QED
      BY <2>1, <3>1, TreeProofs!LeastExists
  <2>3. \A j \in 0..others :
            g[j] = IF j = 0 THEN base ELSE Ranges!Merge(g[j - 1], rs[j + 1])
    BY <1>10
  <2>4. x \in 0..others /\ ~ConsolidatedRight(rs, x + 1, g[x])
    OBVIOUS
  <2>5. x # 0
    BY <1>8, <2>3, <2>4
  <2>6. x \in 1..others /\ x - 1 \in 0..others /\ x - 1 \notin Bad /\ x - 1 + 1 = x
    BY <1>1, <2>2, <2>4, <2>5
  <2>7. ConsolidatedRight(rs, x, g[x - 1])
    BY <2>6
  <2>8. g[x] = Ranges!Merge(g[x - 1], rs[x + 1])
    BY <2>3, <2>4, <2>5
  <2> QED
    BY <1>9, <2>4, <2>6, <2>7, <2>8
<1> DEFINE all == CHOOSE g : Merges(g)
<1>11. Merges(all)
  <2> HIDE DEF Merges
  <2> QED
    BY <1>7
<1>12. CASE Len(rs) < 2
  <2>1. Ranges!Consolidated(rs) = rs /\ others = 0
    BY <1>1, <1>12 DEF Ranges!Consolidated
  <2>2. rs = base
    <3>1. base \in Seq(RangeSet) /\ rs \in Seq(RangeSet) /\ Len(rs) = Len(base)
      BY <1>1, <1>3, <2>1 DEF S
    <3>2. \A k \in 1..Len(rs) : rs[k] = base[k]
      BY <1>1, <1>3, <2>1
    <3> QED
      BY <3>1, <3>2, SeqEqual
  <2> QED
    BY <1>1, <1>8, <2>1, <2>2
<1>13. CASE ~(Len(rs) < 2)
  <2>1. Ranges!Consolidated(rs) = all[others]
    BY <1>13 DEF Ranges!Consolidated, others, base
  <2>2. ConsolidatedRight(rs, others + 1, all[others])
    <3> HIDE DEF all, Merges
    <3> QED
      BY <1>10, <1>11
  <2> QED
    BY <1>1, <2>1, <2>2
<1> QED
  BY <1>12, <1>13

\* Amounts of time are whole, and not negative if the span is not.
LEMMA AmountFits ==
    ASSUME Ranges!RangeAssumption, NEW d \in Int
    PROVE  /\ Ranges!Half(d) \in Int /\ Ranges!Amount(d) \in Int
           /\ d >= 0 => Ranges!Half(d) >= 0 /\ Ranges!Amount(d) >= 0
<1>1. ASSUME NEW n \in Int, NEW m \in Nat \ {0}
      PROVE  /\ Ranges!Quotient(n, m) \in Int
             /\ n >= 0 => Ranges!Quotient(n, m) >= 0
  BY DEF Ranges!Quotient
<1>2. Ranges!Half(d) \in Int /\ (d >= 0 => Ranges!Half(d) >= 0)
  BY <1>1 DEF Ranges!Half
<1>3. PerMillisecond \in Nat \ {0}
  BY DEF Ranges!RangeAssumption
<1>4. Ranges!Amount(d) \in Int /\ (d >= 0 => Ranges!Amount(d) >= 0)
  BY <1>1, <1>3 DEF Ranges!Amount
<1> QED
  BY <1>2, <1>4

\* A half of what is twice something.
LEMMA HalfOfTwice ==
    ASSUME NEW n \in Int, n >= 0
    PROVE  Ranges!Half(n + n) = n
BY DEF Ranges!Half, Ranges!Quotient

\* Two ranges have in common what subRange() says, and merged() has both; moving to and
\* fro and the midpoint are exact: for any ranges and any unit of the points.
AgreeOn(r, s) ==
    LET common == Ranges!SubRange(r, s)
    IN  /\ (kind = "DateRange" \/ common # Ranges!Empty) =>
               \A p \in Times : Ranges!InRange(common, p) =>
                   Ranges!InRange(r, p) /\ Ranges!InRange(s, p) /\ Ranges!Intersects(r, s)
        /\ common = Ranges!Empty =>
               ~\E p \in Times : p < r.end /\ p > r.start /\ p < s.end /\ p > s.start
        /\ \A p \in Times : Ranges!InRange(r, p) \/ Ranges!InRange(s, p) =>
               Ranges!InRange(Ranges!Merged(r, s), p)
        /\ \A d \in Spans : Ranges!Minus(Ranges!Plus(r, d), d) = r
        /\ \A d \in Spans : d >= 0 =>
               Ranges!Midpoint(Ranges!FromMidpoint(r.start, d)) = r.start

LEMMA RangesAgreeOnTwo ==
    ASSUME Ranges!RangeAssumption, kind \in {"DateRange", "TimeSpanRange"},
           NEW r \in RangeSet, NEW s \in RangeSet, r.valid, s.valid
    PROVE  AgreeOn(r, s)
<1> DEFINE low == Ranges!Later(r.start, s.start)
           high == Ranges!Earlier(r.end, s.end)
           common == Ranges!SubRange(r, s)
<1>1. /\ r.start \in Int /\ r.end \in Int /\ s.start \in Int /\ s.end \in Int
      /\ Times \subseteq Int /\ Spans \subseteq Int
  BY DEF RangeSet, Ranges!RangeAssumption
<1>2. /\ low \in Int /\ high \in Int
      /\ \A p \in Int : p >= low <=> p >= r.start /\ p >= s.start
      /\ \A p \in Int : p <= high <=> p <= r.end /\ p <= s.end
      /\ low \in {r.start, s.start} /\ high \in {r.end, s.end}
  BY <1>1 DEF Ranges!Later, Ranges!Earlier
<1>3. common = IF high > low THEN Ranges!Between(low, high) ELSE Ranges!Empty
  BY DEF Ranges!SubRange, Ranges!Between
<1> HIDE DEF low, high, common
<1>4. ASSUME kind = "DateRange" \/ common # Ranges!Empty,
             NEW p \in Times, Ranges!InRange(common, p)
      PROVE  Ranges!InRange(r, p) /\ Ranges!InRange(s, p) /\ Ranges!Intersects(r, s)
  <2>1. p \in Int
    BY <1>1
  <2>2. common = Ranges!Between(low, high)
    <3>1. CASE high > low
      BY <1>3, <3>1
    <3>2. CASE ~(high > low)
      <4>1. common = Ranges!Empty
        BY <1>3, <3>2
      <4>2. kind = "DateRange"
        BY <1>4, <4>1
      <4>3. ~Ranges!IsValid(common)
        BY <4>1, <4>2 DEF Ranges!Empty, Ranges!IsValid
      <4> QED
        BY <1>4, <4>3 DEF Ranges!InRange
    <3> QED
      BY <3>1, <3>2
  <2>3. p >= low /\ p <= high
    BY <1>4, <2>2 DEF Ranges!InRange, Ranges!ContainsPoint, Ranges!Between
  <2>4. p >= r.start /\ p >= s.start /\ p <= r.end /\ p <= s.end
    BY <1>2, <2>1, <2>3
  <2>5. Ranges!InRange(r, p) /\ Ranges!InRange(s, p)
    BY <2>4 DEF Ranges!InRange, Ranges!IsValid, Ranges!ContainsPoint
  <2>6. Ranges!Intersects(r, s)
    BY <1>1, <2>1, <2>4 DEF Ranges!Intersects, Ranges!ContainsPoint
  <2> QED
    BY <2>5, <2>6
<1>5. ASSUME common = Ranges!Empty,
             NEW p \in Times, p < r.end, p > r.start, p < s.end, p > s.start
      PROVE  FALSE
  <2>1. p \in Int
    BY <1>1
  <2>2. low < p /\ p < high
    BY <1>1, <1>2, <1>5, <2>1
  <2>3. high > low
    BY <1>2, <2>1, <2>2
  <2>4. Ranges!Between(low, high) = Ranges!Empty
    BY <1>3, <1>5, <2>3
  <2>5. low = 0 /\ high = 0
    BY <2>4 DEF Ranges!Between, Ranges!Empty
  <2> QED
    BY <2>3, <2>5
<1>6. ASSUME NEW p \in Times, Ranges!InRange(r, p) \/ Ranges!InRange(s, p)
      PROVE  Ranges!InRange(Ranges!Merged(r, s), p)
  <2>1. p \in Int
    BY <1>1
  <2> QED
    BY <1>1, <1>6, <2>1 DEF Ranges!InRange, Ranges!IsValid, Ranges!ContainsPoint,
      Ranges!Merged, Ranges!Between, Ranges!Earlier, Ranges!Later
<1>7. ASSUME NEW d \in Spans
      PROVE  Ranges!Minus(Ranges!Plus(r, d), d) = r
  <2> DEFINE n == Ranges!Amount(d)
  <2>1. n \in Int
    BY <1>1, AmountFits
  <2>2. Ranges!Minus(Ranges!Plus(r, d), d)
          = [start |-> (r.start + n) - n, end |-> (r.end + n) - n, valid |-> TRUE]
    BY DEF Ranges!Minus, Ranges!Plus, Ranges!Between
  <2> HIDE DEF n
  <2>3. (r.start + n) - n = r.start /\ (r.end + n) - n = r.end
    BY <1>1, <2>1
  <2>4. r = [start |-> r.start, end |-> r.end, valid |-> TRUE]
    BY DEF RangeSet
  <2> QED
    BY <2>2, <2>3, <2>4
<1>8. ASSUME NEW d \in Spans, d >= 0
      PROVE  Ranges!Midpoint(Ranges!FromMidpoint(r.start, d)) = r.start
  <2> DEFINE n == Ranges!Amount(Ranges!Half(d))
             around == Ranges!FromMidpoint(r.start, d)
  <2>1. n \in Int /\ n >= 0
    BY <1>1, <1>8, AmountFits
  <2>2. around.start = r.start - n /\ around.end = r.start + n
    BY DEF Ranges!FromMidpoint, Ranges!Between
  <2> HIDE DEF n, around
  <2>3. Ranges!Duration(around) = n + n
    BY <1>1, <2>1, <2>2 DEF Ranges!Duration
  <2>4. Ranges!Half(n + n) = n
    BY <2>1, HalfOfTwice
  <2>5. Ranges!Midpoint(around) = (r.start - n) + n
    BY <2>2, <2>3, <2>4 DEF Ranges!Midpoint
  <2> QED
    BY <1>1, <2>1, <2>5 DEF around
<1> QED
  BY <1>4, <1>5, <1>6, <1>7, <1>8 DEF AgreeOn, common

\* The lists that can be made, and what consolidated() made of one.
RangesInv ==
    /\ kind \in {"DateRange", "TimeSpanRange"}
    /\ list \in Seq(RangeSet)
    /\ Ranges!ConsolidatedKeepsTimes

LEMMA RangesAgreed ==
    ASSUME Ranges!RangeAssumption, RangesInv
    PROVE  Ranges!RangesAgree
<1>1. ASSUME NEW n \in DOMAIN list, NEW m \in DOMAIN list,
             Ranges!IsValid(list[n]), Ranges!IsValid(list[m])
      PROVE  AgreeOn(list[n], list[m])
  <2>1. list[n] \in RangeSet /\ list[m] \in RangeSet
    BY DEF RangesInv
  <2> QED
    BY <1>1, <2>1, RangesAgreeOnTwo DEF RangesInv, Ranges!IsValid
<1> QED
  BY <1>1 DEF Ranges!RangesAgree, AgreeOn

LEMMA RangesAtInit == Ranges!Init => RangesInv
BY DEF Ranges!Init, RangesInv, Ranges!ConsolidatedKeepsTimes

\* A step adds a range, changes the last one or consolidates the list.
LEMMA RangesKept ==
    ASSUME Ranges!RangeAssumption, RangesInv, [Ranges!Next]_Ranges!rangeVars
    PROVE  RangesInv'
<1>1. Times \subseteq Int /\ Spans \subseteq Int
  BY DEF Ranges!RangeAssumption
<1>2. ASSUME NEW r, r \in RangeSet, Ranges!Collect(r)
      PROVE  RangesInv'
  BY <1>2, AppendProperties DEF RangesInv, Ranges!Collect, Ranges!ConsolidatedKeepsTimes
<1>3. ASSUME NEW r \in RangeSet, list # <<>>, consolidated = <<>>,
             list' = [list EXCEPT ![Len(list)] = r], UNCHANGED <<kind, consolidated>>
      PROVE  RangesInv'
  <2>1. Len(list) \in 1..Len(list)
    BY <1>3, EmptySeq DEF RangesInv
  <2>2. list' \in Seq(RangeSet)
    BY <1>3, <2>1, ExceptSeq DEF RangesInv
  <2> QED
    BY <1>3, <2>2 DEF RangesInv, Ranges!ConsolidatedKeepsTimes
<1>4. ASSUME NEW n, NEW m
      PROVE  n \in Int /\ m \in Int => Ranges!Between(n, m) \in RangeSet
  BY DEF Ranges!Between, RangeSet
<1>5. CASE Ranges!Construct
  BY <1>1, <1>2, <1>4, <1>5 DEF Ranges!Construct
<1>6. CASE Ranges!StartFrom \/ Ranges!Straddle
  <2>1. ASSUME NEW p \in Times, NEW d \in Spans
        PROVE  /\ Ranges!FromStartAndDuration(p, d) \in RangeSet
               /\ Ranges!FromMidpoint(p, d) \in RangeSet
    <3>1. /\ Ranges!Amount(d) \in Int /\ Ranges!Amount(Ranges!Half(d)) \in Int
          /\ p \in Int
      BY <1>1, AmountFits
    <3> QED
      BY <1>4, <3>1 DEF Ranges!FromStartAndDuration, Ranges!FromMidpoint
  <2> QED
    BY <1>2, <1>6, <2>1 DEF Ranges!StartFrom, Ranges!Straddle
<1>7. CASE Ranges!Move \/ Ranges!Narrow \/ Ranges!Widen
  <2>1. PICK r : /\ list # <<>> /\ consolidated = <<>>
                 /\ \/ \E d \in Spans : r \in {Ranges!Plus(Ranges!Last(list), d),
                                               Ranges!Minus(Ranges!Last(list), d)}
                    \/ /\ Len(list) > 1
                       /\ r \in {Ranges!SubRange(Ranges!Last(list), list[1]),
                                 Ranges!Merged(Ranges!Last(list), list[1])}
                 /\ list' = [list EXCEPT ![Len(list)] = r]
                 /\ UNCHANGED <<kind, consolidated>>
    BY <1>7 DEF Ranges!Move, Ranges!Narrow, Ranges!Widen, Ranges!Change
  <2>2. Ranges!Last(list) \in RangeSet
    BY <2>1, EmptySeq DEF RangesInv, Ranges!Last
  <2>3. \A s \in RangeSet : s.start \in Int /\ s.end \in Int
    BY DEF RangeSet
  <2>4. r \in RangeSet
    <3>1. ASSUME NEW d \in Spans, r \in {Ranges!Plus(Ranges!Last(list), d),
                                         Ranges!Minus(Ranges!Last(list), d)}
          PROVE  r \in RangeSet
      <4>1. Ranges!Amount(d) \in Int
        BY <1>1, AmountFits
      <4> QED
        BY <1>4, <2>2, <2>3, <3>1, <4>1 DEF Ranges!Plus, Ranges!Minus
    <3>2. ASSUME Len(list) > 1, r \in {Ranges!SubRange(Ranges!Last(list), list[1]),
                                       Ranges!Merged(Ranges!Last(list), list[1])}
          PROVE  r \in RangeSet
      <4>1. list[1] \in RangeSet
        BY <3>2 DEF RangesInv
      <4>2. Ranges!Empty \in RangeSet
        BY DEF RangeSet, Ranges!Empty
      <4>3. ASSUME NEW n \in Int, NEW m \in Int
            PROVE  Ranges!Later(n, m) \in Int /\ Ranges!Earlier(n, m) \in Int
        BY DEF Ranges!Later, Ranges!Earlier
      <4>4. /\ Ranges!Last(list).start \in Int /\ Ranges!Last(list).end \in Int
            /\ list[1].start \in Int /\ list[1].end \in Int
        BY <2>2, <2>3, <4>1
      <4>5. Ranges!Merged(Ranges!Last(list), list[1]) \in RangeSet
        BY <1>4, <4>3, <4>4 DEF Ranges!Merged
      <4>6. Ranges!Between(Ranges!Later(Ranges!Last(list).start, list[1].start),
                           Ranges!Earlier(Ranges!Last(list).end, list[1].end)) \in RangeSet
        BY <1>4, <4>3, <4>4
      <4>7. Ranges!SubRange(Ranges!Last(list), list[1]) \in RangeSet
        BY <4>2, <4>6 DEF Ranges!SubRange
      <4> QED
        BY <3>2, <4>5, <4>7
    <3> QED
      BY <2>1, <3>1, <3>2
  <2> QED
    BY <1>3, <2>1, <2>4
<1>8. CASE Ranges!Consolidate
  <2>1. /\ list # <<>> /\ AllValid(list) /\ list \in Seq(RangeSet)
        /\ consolidated' = Ranges!Consolidated(list) /\ list' = list /\ kind' = kind
    BY <1>8 DEF Ranges!Consolidate, RangesInv, AllValid, Ranges!IsValid
  <2>2. ASSUME Ranges!Sorted
        PROVE  ConsolidatedRight(list, Len(list), Ranges!Consolidated(list))
    BY <2>1, <2>2, ConsolidatedKeeps DEF Ranges!Sorted
  <2> DEFINE cs == Ranges!Consolidated(list)
  <2>3. ASSUME Ranges!Sorted
        PROVE  /\ \A p \in Times : Ranges!InList(cs, p) <=> Ranges!InList(list, p)
               /\ \A n \in 1..(Len(cs) - 1) : cs[n].end < cs[n + 1].start
    <3> HIDE DEF cs
    <3>1. ConsolidatedRight(list, Len(list), cs)
      BY <2>2, <2>3 DEF cs
    <3>2. ASSUME NEW rs \in Seq(RangeSet), AllValid(rs), NEW p \in Times
          PROVE  Ranges!InList(rs, p) <=> Covered(rs, p)
      <4>1. ASSUME NEW n \in 1..Len(rs)
            PROVE  Ranges!InRange(rs[n], p) <=> rs[n].start <= p /\ p <= rs[n].end
        <5>1. rs[n].valid /\ rs[n] \in RangeSet
          BY <3>2 DEF AllValid
        <5>2. p \in Int /\ rs[n].start \in Int
          BY <1>1, <5>1 DEF RangeSet
        <5> QED
          BY <5>1, <5>2 DEF Ranges!InRange, Ranges!IsValid, Ranges!ContainsPoint
      <4>2. DOMAIN rs = 1..Len(rs)
        OBVIOUS
      <4> QED
        BY <4>1, <4>2 DEF Ranges!InList, Covered
    <3>3. ASSUME NEW p \in Times
          PROVE  Ranges!InList(cs, p) <=> Ranges!InList(list, p)
      <4>1. Covered(cs, p) <=> Covered(list, p)
        BY <1>1, <3>1 DEF ConsolidatedRight, Covered
      <4> QED
        BY <2>1, <3>1, <3>2, <4>1 DEF ConsolidatedRight
    <3>4. \A n \in 1..(Len(cs) - 1) : cs[n].end < cs[n + 1].start
      BY <3>1 DEF ConsolidatedRight, Apart
    <3> QED
      BY <3>3, <3>4
  <2>4. Ranges!ConsolidatedKeepsTimes'
    <3>1. Ranges!Sorted' <=> Ranges!Sorted
      BY <2>1 DEF Ranges!Sorted
    <3>2. \A p : Ranges!InList(list, p)' <=> Ranges!InList(list, p)
      BY <2>1 DEF Ranges!InList, Ranges!InRange, Ranges!IsValid, Ranges!ContainsPoint
    <3> QED
      BY <2>1, <2>3, <3>1
      DEF Ranges!ConsolidatedKeepsTimes, Ranges!InList, Ranges!InRange, Ranges!IsValid,
        Ranges!ContainsPoint
  <2> QED
    BY <2>1, <2>4 DEF RangesInv
<1>9. CASE UNCHANGED Ranges!rangeVars
  BY <1>9 DEF Ranges!rangeVars, RangesInv, Ranges!ConsolidatedKeepsTimes, Ranges!Sorted,
    Ranges!InList, Ranges!InRange, Ranges!IsValid, Ranges!ContainsPoint
<1> QED
  BY <1>5, <1>6, <1>7, <1>8, <1>9 DEF Ranges!Next

\* A step of the library is one on ranges, or of a part that does not touch them.
LEMMA RangeSteps == [Next]_libraryVars => [Ranges!Next]_Ranges!rangeVars
<1> SUFFICES ASSUME [Next]_libraryVars
             PROVE  [Ranges!Next]_Ranges!rangeVars
  OBVIOUS
<1> USE DEF Values, rangeVars, Ranges!rangeVars
<1>1. CASE RouteStep
  BY <1>1 DEF RouteStep
<1>2. CASE TreeStep
  BY <1>2 DEF TreeStep
<1>3. CASE ShapeStep
  BY <1>3 DEF ShapeStep
<1>4. CASE SpanStep
  BY <1>4 DEF SpanStep
<1>5. CASE RangeStep
  BY <1>5 DEF RangeStep
<1>6. CASE StringStep
  BY <1>6 DEF StringStep
<1>7. CASE FileStep
  BY <1>7 DEF FileStep
<1>8. CASE UdpStep
  BY <1>8 DEF UdpStep
<1>9. CASE ClientStep
  BY <1>9 DEF ClientStep
<1>10. CASE RateStep
  BY <1>10 DEF RateStep
<1>11. CASE MetadataStep
  BY <1>11 DEF MetadataStep
<1>12. CASE UNCHANGED libraryVars
  BY <1>12 DEF libraryVars
<1> QED
  BY <1>1, <1>2, <1>3, <1>4, <1>5, <1>6, <1>7, <1>8, <1>9, <1>10, <1>11, <1>12 DEF Next

\* Common parts, midpoints and moves of ranges are right, and consolidated() keeps the
\* times of every list in order: of any times, spans and number of ranges.
THEOREM TimesAgreeHolds == Spec => []TimesAgree
<1>1. Ranges!RangeAssumption
  BY LibraryAssumption DEF LibraryAssumption
<1>2. Init => RangesInv
  BY RangesAtInit DEF Init
<1>3. RangesInv /\ [Next]_libraryVars => RangesInv'
  BY <1>1, RangeSteps, RangesKept
<1>4. RangesInv => TimesAgree
  BY <1>1, RangesAgreed DEF TimesAgree, RangesInv
<1> QED
  BY <1>2, <1>3, <1>4, PTL DEF Spec

-----------------------------------------------------------------------------
(* The spanning tree                                                       *)

\* Both instances of SpanningTree are the same.
LEMMA SameTree ==
    /\ Tree!NetworkAssumption <=> TreeProofs!NetworkAssumption
    /\ Tree!Init <=> TreeProofs!Init
    /\ Tree!Next <=> TreeProofs!Next
    /\ Tree!VisitedIsFinal <=> TreeProofs!VisitedIsFinal
<1>TryAddNeighbor. \A vs, v, n :
      Tree!TryAddNeighbor(vs, v, n) = TreeProofs!TryAddNeighbor(vs, v, n)
  BY Zenon DEF
    Tree!TryAddNeighbor, Tree!Inserted, TreeProofs!TryAddNeighbor, TreeProofs!Inserted
<1>TryReplaceNeighbor. \A vs, v, n, new :
      Tree!TryReplaceNeighbor(vs, v, n, new) = TreeProofs!TryReplaceNeighbor(vs, v, n, new)
  BY Zenon DEF
    Tree!TryReplaceNeighbor, Tree!Inserted, TreeProofs!TryReplaceNeighbor,
    TreeProofs!Inserted
<1>AddVertice. \A graph, p, t :
      Tree!AddVertice(graph, p, t) = TreeProofs!AddVertice(graph, p, t)
  BY Zenon DEF
    Tree!AddVertice, Tree!Inserted, Tree!Vertice, Tree!Null, TreeProofs!AddVertice,
    TreeProofs!Inserted, TreeProofs!Vertice, TreeProofs!Null
<1>ClosestPointTo. \A l, p : Tree!ClosestPointTo(l, p) = TreeProofs!ClosestPointTo(l, p)
  BY Zenon DEF
    Tree!ClosestPointTo, Tree!Point, Tree!Clamp, Tree!MinX, Tree!MaxX, Tree!MinY,
    Tree!MaxY, Tree!Lesser, Tree!Greater, TreeProofs!ClosestPointTo, TreeProofs!Point,
    TreeProofs!Clamp, TreeProofs!MinX, TreeProofs!MaxX, TreeProofs!MinY, TreeProofs!MaxY,
    TreeProofs!Lesser, TreeProofs!Greater
<1>Standard. \A graph, p : Tree!Standard(graph, p) = TreeProofs!Standard(graph, p)
  BY Zenon DEF
    Tree!Standard, Tree!AddVertice, Tree!Inserted, Tree!Vertice, Tree!Null,
    TreeProofs!Standard, TreeProofs!AddVertice, TreeProofs!Inserted, TreeProofs!Vertice,
    TreeProofs!Null
<1>AddLine. \A graph, l : Tree!AddLine(graph, l) = TreeProofs!AddLine(graph, l)
  BY <1>TryAddNeighbor, <1>Standard DEF Tree!AddLine, TreeProofs!AddLine
<1>InitializeFromLines. \A ls :
      Tree!InitializeFromLines(ls) = TreeProofs!InitializeFromLines(ls)
  <2> SUFFICES ASSUME NEW ls
               PROVE  Tree!InitializeFromLines(ls) = TreeProofs!InitializeFromLines(ls)
    OBVIOUS
  <2> DEFINE none == [vertices |-> <<>>, index |-> <<>>]
             Builds(f) == f = [k \in 0..Len(ls) |->
                            IF k = 0 THEN none ELSE Tree!AddLine(f[k - 1], ls[k])]
             BuildsToo(f) == f = [k \in 0..Len(ls) |->
                            IF k = 0 THEN none ELSE TreeProofs!AddLine(f[k - 1], ls[k])]
  <2>1. /\ Tree!InitializeFromLines(ls) = (CHOOSE f : Builds(f))[Len(ls)]
        /\ TreeProofs!InitializeFromLines(ls) = (CHOOSE f : BuildsToo(f))[Len(ls)]
    BY Zenon DEF Tree!InitializeFromLines, TreeProofs!InitializeFromLines
  <2>2. \A f : Builds(f) <=> BuildsToo(f)
    BY <1>AddLine
  <2> HIDE DEF Builds, BuildsToo
  <2>3. (CHOOSE f : Builds(f)) = (CHOOSE f : BuildsToo(f))
    BY <2>2, Zenon
  <2> QED
    BY <2>1, <2>3
<1>Eligible. \A ls, p, d : Tree!Eligible(ls, p, d) = TreeProofs!Eligible(ls, p, d)
  <2> SUFFICES ASSUME NEW ls, NEW p, NEW d
               PROVE  Tree!Eligible(ls, p, d) = TreeProofs!Eligible(ls, p, d)
    OBVIOUS
  <2>1. \A q : Tree!LiesInDirection(q, d, p) <=> TreeProofs!LiesInDirection(q, d, p)
    BY Zenon DEF
      Tree!LiesInDirection, Tree!IsPointLeftOf, Tree!IsPointRightOf, Tree!IsPointAbove,
      Tree!IsPointBelow, TreeProofs!LiesInDirection, TreeProofs!IsPointLeftOf,
      TreeProofs!IsPointRightOf, TreeProofs!IsPointAbove, TreeProofs!IsPointBelow
  <2> QED
    BY <1>ClosestPointTo, <2>1 DEF Tree!Eligible, TreeProofs!Eligible
<1>SquaredDistanceTo. \A l, p :
      Tree!SquaredDistanceTo(l, p) = TreeProofs!SquaredDistanceTo(l, p)
  <2>1. \A p, q : Tree!SquaredDistance(p, q) = TreeProofs!SquaredDistance(p, q)
    BY Zenon DEF Tree!SquaredDistance, TreeProofs!SquaredDistance
  <2> QED
    BY <1>ClosestPointTo, <2>1 DEF Tree!SquaredDistanceTo, TreeProofs!SquaredDistanceTo
<1>Min. \A S : Tree!Min(S) = TreeProofs!Min(S)
  BY Zenon DEF Tree!Min, TreeProofs!Min
<1>FirstClosest. \A ls, S, p :
      Tree!FirstClosest(ls, S, p) = TreeProofs!FirstClosest(ls, S, p)
  <2> SUFFICES ASSUME NEW ls, NEW S, NEW p
               PROVE  Tree!FirstClosest(ls, S, p) = TreeProofs!FirstClosest(ls, S, p)
    OBVIOUS
  <2> DEFINE c == {k \in S : \A m \in S : Tree!SquaredDistanceTo(ls[k], p)
                                              <= Tree!SquaredDistanceTo(ls[m], p)}
             e == {k \in S : \A m \in S : TreeProofs!SquaredDistanceTo(ls[k], p)
                                              <= TreeProofs!SquaredDistanceTo(ls[m], p)}
  <2>1. c = e
    BY <1>SquaredDistanceTo
  <2>2. /\ Tree!FirstClosest(ls, S, p) = IF c = {} THEN 0 ELSE Tree!Min(c)
        /\ TreeProofs!FirstClosest(ls, S, p) = IF e = {} THEN 0 ELSE TreeProofs!Min(e)
    BY Zenon DEF Tree!FirstClosest, TreeProofs!FirstClosest
  <2> HIDE DEF c, e
  <2> QED
    BY <1>Min, <2>1, <2>2
<1>FindClosestLine. \A ls, p, d :
      Tree!FindClosestLine(ls, p, d) = TreeProofs!FindClosestLine(ls, p, d)
  BY <1>Eligible, <1>FirstClosest DEF Tree!FindClosestLine, TreeProofs!FindClosestLine
<1>ClearAdHocVertices. \A t : Tree!ClearAdHocVertices(t) = TreeProofs!ClearAdHocVertices(t)
  BY Zenon DEF
    Tree!ClearAdHocVertices, Tree!RestrictValues, Tree!Restrict,
    TreeProofs!ClearAdHocVertices, TreeProofs!RestrictValues, TreeProofs!Restrict
<1>Split. \A graph, l, p, v, t :
      Tree!Split(graph, l, p, v, t) = TreeProofs!Split(graph, l, p, v, t)
  BY <1>TryAddNeighbor, <1>TryReplaceNeighbor, <1>AddVertice, SMTT(60) DEF
    Tree!Split, TreeProofs!Split
<1>Join. \A graph, v, w : Tree!Join(graph, v, w) = TreeProofs!Join(graph, v, w)
  BY <1>TryAddNeighbor, Zenon DEF
    Tree!Join, TreeProofs!Join
<1>SplitLines. \A l, p : Tree!SplitLines(l, p) = TreeProofs!SplitLines(l, p)
  BY Zenon DEF
    Tree!SplitLines, Tree!RemoveFirst, Tree!RemoveAt, Tree!SelectInSeq, Tree!Line,
    Tree!Min, TreeProofs!SplitLines, TreeProofs!RemoveFirst, TreeProofs!RemoveAt,
    TreeProofs!SelectInSeq, TreeProofs!Line, TreeProofs!Min
<1>NullPoint. Tree!NullPoint = TreeProofs!NullPoint
  BY Zenon DEF
    Tree!NullPoint, Tree!Point, TreeProofs!NullPoint, TreeProofs!Point
<1>AddAdHocVertice. \A p, t, d :
      Tree!AddAdHocVertice(p, t, d) = TreeProofs!AddAdHocVertice(p, t, d)
  BY <1>AddVertice, <1>FindClosestLine, <1>ClearAdHocVertices, <1>Split, <1>Join,
     <1>SplitLines, <1>ClosestPointTo, <1>NullPoint, SMTT(60) DEF
    Tree!AddAdHocVertice, Tree!Null, TreeProofs!AddAdHocVertice, TreeProofs!Null
<1>Init. Tree!Init <=> TreeProofs!Init
  BY Zenon DEF
    Tree!Init, Tree!Null, TreeProofs!Init, TreeProofs!Null
<1>Construct. \A ls : Tree!Construct(ls) <=> TreeProofs!Construct(ls)
  BY <1>InitializeFromLines, Zenon DEF
    Tree!Construct, TreeProofs!Construct
<1>SetOrigin. \A p, d : Tree!SetOrigin(p, d) <=> TreeProofs!SetOrigin(p, d)
  BY <1>AddAdHocVertice, Zenon DEF
    Tree!SetOrigin, Tree!Attach, Tree!Kept, Tree!Null, TreeProofs!SetOrigin,
    TreeProofs!Attach, TreeProofs!Kept, TreeProofs!Null
<1>SetDestination. \A p : Tree!SetDestination(p) <=> TreeProofs!SetDestination(p)
  BY <1>AddAdHocVertice, Zenon DEF
    Tree!SetDestination, Tree!Attach, Tree!Kept, Tree!Null, Tree!NoDirection,
    TreeProofs!SetDestination, TreeProofs!Attach, TreeProofs!Kept, TreeProofs!Null,
    TreeProofs!NoDirection
<1>ComputePath. Tree!ComputePath <=> TreeProofs!ComputePath
  BY Zenon DEF
    Tree!ComputePath, Tree!InitializeVertices, Tree!Range, Tree!Null,
    TreeProofs!ComputePath, TreeProofs!InitializeVertices, TreeProofs!Range,
    TreeProofs!Null
<1>Cycle. Tree!Cycle <=> TreeProofs!Cycle
  BY Zenon DEF
    Tree!Cycle, Tree!Nearest, Tree!NameBefore, Tree!Relax, Tree!Improves, Tree!Distance,
    Tree!SquaredDistance, Tree!Range, TreeProofs!Cycle, TreeProofs!Nearest,
    TreeProofs!NameBefore, TreeProofs!Relax, TreeProofs!Improves, TreeProofs!Distance,
    TreeProofs!SquaredDistance, TreeProofs!Range
<1>GetPath. Tree!GetPath <=> TreeProofs!GetPath
  BY Zenon DEF
    Tree!GetPath, Tree!WayTo, Tree!LinesThrough, Tree!Line, Tree!Null, TreeProofs!GetPath,
    TreeProofs!WayTo, TreeProofs!LinesThrough, TreeProofs!Line, TreeProofs!Null
<1>Next. Tree!Next <=> TreeProofs!Next
  BY <1>Construct, <1>SetOrigin, <1>SetDestination, <1>ComputePath, <1>Cycle, <1>GetPath,
     Zenon DEF
    Tree!Next, Tree!NoDirection, TreeProofs!Next, TreeProofs!NoDirection
<1>NetworkAssumption. Tree!NetworkAssumption <=> TreeProofs!NetworkAssumption
  <2>1. \A l : (Tree!IsPerpendicular(l) <=> TreeProofs!IsPerpendicular(l))
              /\ (Tree!IsValid(l) <=> TreeProofs!IsValid(l))
    BY Zenon DEF
      Tree!IsPerpendicular, Tree!IsVertical, Tree!IsHorizontal, Tree!IsValid,
      TreeProofs!IsPerpendicular, TreeProofs!IsVertical, TreeProofs!IsHorizontal,
      TreeProofs!IsValid
  <2>2. \A l, p : Tree!Inside(l, p) <=> TreeProofs!Inside(l, p)
    BY <1>ClosestPointTo, Zenon DEF Tree!Inside, TreeProofs!Inside
  <2> QED
    BY <2>1, <2>2, Zenon DEF
      Tree!NetworkAssumption, Tree!Positions, Tree!Range, Tree!Directions,
      Tree!NoDirection, TreeProofs!NetworkAssumption, TreeProofs!Positions,
      TreeProofs!Range, TreeProofs!Directions, TreeProofs!NoDirection
<1>VisitedIsFinal. Tree!VisitedIsFinal <=> TreeProofs!VisitedIsFinal
  BY Zenon DEF
    Tree!VisitedIsFinal, Tree!Range, Tree!Distance, Tree!SquaredDistance,
    TreeProofs!VisitedIsFinal, TreeProofs!Range, TreeProofs!Distance,
    TreeProofs!SquaredDistance
<1> QED
  BY <1>NetworkAssumption, <1>Init, <1>Next, <1>VisitedIsFinal

\* A step of the library is one of the tree, or of a part that does not touch it.
LEMMA SpanningTreeSteps == [Next]_libraryVars => [TreeProofs!Next]_TreeProofs!treeVars
<1> SUFFICES ASSUME [Next]_libraryVars
             PROVE  [TreeProofs!Next]_TreeProofs!treeVars
  OBVIOUS
<1> USE DEF Geometry, treeVars, TreeProofs!treeVars
<1>1. CASE TreeStep
  BY <1>1, SameTree DEF TreeStep
<1>2. CASE RouteStep
  BY <1>2 DEF RouteStep
<1>3. CASE ShapeStep
  BY <1>3 DEF ShapeStep
<1>4. CASE SpanStep
  BY <1>4 DEF SpanStep
<1>5. CASE RangeStep
  BY <1>5 DEF RangeStep
<1>6. CASE StringStep
  BY <1>6 DEF StringStep
<1>7. CASE FileStep
  BY <1>7 DEF FileStep
<1>8. CASE UdpStep
  BY <1>8 DEF UdpStep
<1>9. CASE ClientStep
  BY <1>9 DEF ClientStep
<1>10. CASE RateStep
  BY <1>10 DEF RateStep
<1>11. CASE MetadataStep
  BY <1>11 DEF MetadataStep
<1>12. CASE UNCHANGED libraryVars
  BY <1>12 DEF libraryVars
<1> QED
  BY <1>1, <1>2, <1>3, <1>4, <1>5, <1>6, <1>7, <1>8, <1>9, <1>10, <1>11, <1>12 DEF Next

\* In the library Dijkstra's search never goes back on a vertice that it has visited, for
\* any network, points and calls (spanningtree.cpp, treepathvertice.cpp).
THEOREM VisitedIsFinalHolds == Spec => []VisitedIsFinal
<1>1. TreeProofs!NetworkAssumption
  BY LibraryAssumption, SameTree DEF LibraryAssumption
<1>2. Init => TreeProofs!TreeInv
  <2>1. Init => TreeProofs!Init
    BY SameTree DEF Init
  <2> QED
    BY <2>1, TreeProofs!TreeAtInit
<1>3. TreeProofs!TreeInv /\ [Next]_libraryVars => TreeProofs!TreeInv'
  BY <1>1, SpanningTreeSteps, TreeProofs!TreeKept
<1>4. TreeProofs!TreeInv => VisitedIsFinal
  BY SameTree DEF TreeProofs!TreeInv, VisitedIsFinal
<1> QED
  BY <1>2, <1>3, <1>4, PTL DEF Spec

\* And the path that computePath() returns runs along a shortest of all ways from the
\* origin to the destination (spanningtree.cpp, treepathvertice.cpp).
THEOREM ShortestWayInLibrary == Spec => TreeProofs!ShortestWayTaken
<1>1. TreeProofs!NetworkAssumption /\ Beyond \in Nat
  BY LibraryAssumption, SameTree DEF LibraryAssumption, TreeProofs!NetworkAssumption
<1>2. Init => TreeProofs!SearchInv
  <2>1. Init => TreeProofs!Init
    BY SameTree DEF Init
  <2>2. Init => treePhase # "searching"
    BY <2>1 DEF TreeProofs!Init
  <2> QED
    BY <2>1, <2>2, TreeProofs!TreeAtInit DEF TreeProofs!SearchInv
<1>3. TreeProofs!SearchInv /\ [Next]_libraryVars => TreeProofs!SearchInv'
  BY <1>1, SpanningTreeSteps, TreeProofs!SearchKept
<1>4. TreeProofs!SearchInv /\ [Next]_libraryVars => 
        [TreeProofs!GetPath /\ {origin, destination} \subseteq TreeProofs!Range(treeIndex) =>
           TreeProofs!TakesShortestWay]_TreeProofs!treeVars
  BY <1>1, TreeProofs!PathTaken
<1> QED
  BY <1>2, <1>3, <1>4, PTL DEF Spec, TreeProofs!ShortestWayTaken

=============================================================================
