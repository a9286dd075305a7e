------------------------ MODULE LockingQueueProofs --------------------------
(***************************************************************************)
(* Proofs about LockingQueue, for any finite set of threads and any set of *)
(* elements: no wakeup is lost, and the queue implements FifoQueue.        *)
(***************************************************************************)
EXTENDS LockingQueueHistory, FiniteSetTheorems, TLAPS

\* Type correctness of the queue.
THEOREM TypeCorrect == Spec => []TypeOK
<1>1. HistoryInit => TypeOK
  BY DEF HistoryInit, Init, TypeOK, Locations
<1>2. TypeOK /\ [Next]_queueVars => TypeOK'
  <2> SUFFICES ASSUME TypeOK, [Next]_queueVars
               PROVE  TypeOK'
    OBVIOUS
  <2> USE DEF TypeOK, Locations, Goto
  <2>1. ASSUME NEW t \in Threads, Take(t)
        PROVE  TypeOK'
    BY <2>1 DEF Take
  <2>2. ASSUME NEW t \in Threads, Block(t)
        PROVE  TypeOK'
    BY <2>2 DEF Block
  <2>3. ASSUME NEW t \in Threads, NEW v \in Values, LoggedEnqueue(t, v)
        PROVE  TypeOK'
    BY <2>3 DEF LoggedEnqueue, Enqueue
  <2>4. ASSUME NEW t \in Threads, Expire(t) \/ GiveUp(t)
        PROVE  TypeOK'
    BY <2>4 DEF Expire, GiveUp
  <2>5. ASSUME NEW t \in Threads, Notify(t)
        PROVE  TypeOK'
    BY <2>5 DEF Notify, At
  <2>6. CASE LoggedClear
    BY <2>6 DEF LoggedClear, Clear
  <2>7. CASE UNCHANGED queueVars
    BY <2>7 DEF queueVars
  <2> QED
    BY <2>1, <2>2, <2>3, <2>4, <2>5, <2>6, <2>7
       DEF Next, CountedStep, Dequeue, Resume, SilentStep
<1> QED
  BY <1>1, <1>2, PTL DEF Spec

-----------------------------------------------------------------------------
\* The threads at a location are finitely many.
LEMMA AtFinite ==
    ASSUME NEW l
    PROVE  /\ IsFiniteSet(At(l))
           /\ Cardinality(At(l)) \in Nat
<1>1. At(l) \subseteq Threads
  BY DEF At
<1> QED
  BY <1>1, QueueAssumption, FS_Subset, FS_CardinalityType

\* Every interleaving of enqueue(), dequeue(), deadlines and clear() keeps each
\* element covered by a woken consumer or by a notification still to come.
THEOREM NoLostWakeupHolds == Spec => []NoLostWakeup
<1> DEFINE Woken == Cardinality(At("woken"))
           Notifying == Cardinality(At("notify"))
<1>1. HistoryInit => NoLostWakeup
  BY DEF HistoryInit, Init, NoLostWakeup, At
<1>2. TypeOK /\ NoLostWakeup /\ [Next]_queueVars => NoLostWakeup'
  <2> SUFFICES ASSUME TypeOK, NoLostWakeup, [Next]_queueVars, (At("blocked") # {})'
               PROVE  Len(items') <= Woken' + Notifying'
    BY DEF NoLostWakeup
  <2>0. /\ Woken \in Nat /\ Notifying \in Nat
        /\ IsFiniteSet(At("woken")) /\ IsFiniteSet(At("notify"))
    BY AtFinite
  <2>n. Woken' \in Nat /\ Notifying' \in Nat
    <3>1. At("woken")' \subseteq Threads /\ At("notify")' \subseteq Threads
      BY DEF At
    <3> QED
      BY <3>1, QueueAssumption, FS_Subset, FS_CardinalityType
  <2>1. ASSUME NEW t \in Threads, Take(t), pc[t] = "idle" \/ pc[t] = "woken"
        PROVE  Len(items') <= Woken' + Notifying'
    <3>1. Len(items') = Len(items) - 1
      BY <2>1 DEF Take, TypeOK
    <3>2. /\ At("blocked")' = At("blocked")
          /\ At("notify")' = At("notify")
          /\ At("woken")' = At("woken") \ {t}
      BY <2>1 DEF Take, Goto, TypeOK, At
    <3>3. Woken' >= Woken - 1
      <4>1. CASE t \in At("woken")
        <5>1. Cardinality(At("woken") \ {t}) = Woken - 1
          BY <4>1, <2>0, FS_RemoveElement
        <5>2. Woken' = Woken - 1
          BY <5>1, <3>2
        <5> QED
          BY <5>2, <2>0
      <4>2. CASE t \notin At("woken")
        <5>1. At("woken")' = At("woken")
          BY <4>2, <3>2
        <5> QED
          BY <5>1, <2>0
      <4> QED
        BY <4>1, <4>2
    <3>4. Len(items) <= Woken + Notifying
      BY <3>2 DEF NoLostWakeup
    <3>5. Notifying' = Notifying
      BY <3>2
    <3>6. Len(items) \in Nat
      BY DEF TypeOK
    <3> QED
      BY <3>1, <3>3, <3>4, <3>5, <3>6, <2>0, <2>n
  <2>2. ASSUME NEW t \in Threads, Block(t)
        PROVE  Len(items') <= Woken' + Notifying'
    BY <2>2, <2>n DEF Block
  <2>3. ASSUME NEW t \in Threads, NEW v \in Values, LoggedEnqueue(t, v)
        PROVE  Len(items') <= Woken' + Notifying'
    <3>1. Len(items') = Len(items) + 1 /\ Len(items) \in Nat
      BY <2>3 DEF LoggedEnqueue, Enqueue, TypeOK
    <3>2. /\ At("blocked")' = At("blocked")
          /\ At("woken")' = At("woken")
          /\ At("notify")' = At("notify") \cup {t}
          /\ t \notin At("notify")
      BY <2>3 DEF LoggedEnqueue, Enqueue, Goto, TypeOK, At
    <3>3. Notifying' = Notifying + 1
      BY <3>2, <2>0, FS_AddElement
    <3>4. Len(items) <= Woken + Notifying
      BY <3>2 DEF NoLostWakeup
    <3>5. Woken' = Woken
      BY <3>2
    <3> QED
      BY <3>1, <3>3, <3>4, <3>5, <2>0
  <2>4. ASSUME NEW t \in Threads, Expire(t) \/ GiveUp(t)
        PROVE  Len(items') <= Woken' + Notifying'
    <3>1. At("blocked")' \subseteq At("blocked")
      BY <2>4 DEF Expire, GiveUp, Goto, TypeOK, At
    <3>2. items' = items /\ At("woken")' = At("woken") /\ At("notify")' = At("notify")
      BY <2>4 DEF Expire, GiveUp, Goto, TypeOK, At
    <3> QED
      BY <3>1, <3>2 DEF NoLostWakeup
  <2>5. ASSUME NEW t \in Threads, Notify(t)
        PROVE  Len(items') <= Woken' + Notifying'
    <3>1. CASE At("blocked") = {}
      <4>1. At("blocked")' = {}
        BY <2>5, <3>1 DEF Notify, Goto, TypeOK, At
      <4> QED
        BY <4>1
    <3>2. CASE At("blocked") # {}
      <4>1. PICK c \in At("blocked") : pc' = [pc EXCEPT ![t] = "idle", ![c] = "woken"]
        BY <2>5, <3>2 DEF Notify
      <4>2. /\ At("woken")' = At("woken") \cup {c}
            /\ c \notin At("woken")
            /\ At("notify")' = At("notify") \ {t}
            /\ t \in At("notify")
        BY <2>5, <4>1 DEF Notify, TypeOK, At
      <4>3. Woken' = Woken + 1 /\ Notifying' = Notifying - 1
        BY <4>2, <2>0, FS_AddElement, FS_RemoveElement
      <4>4. items' = items
        BY <2>5 DEF Notify
      <4>5. Len(items) <= Woken + Notifying
        BY <3>2 DEF NoLostWakeup
      <4> QED
        BY <4>3, <4>4, <4>5, <2>0
    <3> QED
      BY <3>1, <3>2
  <2>6. CASE LoggedClear
    BY <2>6, <2>n DEF LoggedClear, Clear
  <2>7. CASE UNCHANGED queueVars
    <3>1. items' = items /\ At("woken")' = At("woken") /\ At("notify")' = At("notify")
          /\ At("blocked")' = At("blocked")
      BY <2>7 DEF queueVars, At
    <3> QED
      BY <3>1 DEF NoLostWakeup
  <2> QED
    BY <2>1, <2>2, <2>3, <2>4, <2>5, <2>6, <2>7
       DEF Next, CountedStep, Dequeue, Resume, SilentStep
<1> QED
  BY <1>1, <1>2, TypeCorrect, PTL DEF Spec

-----------------------------------------------------------------------------
\* The queue is the part of the log that has not left.
LogInv ==
    /\ log \in Seq(Values)
    /\ left \in Nat
    /\ Len(log) = left + Len(items)
    /\ \A i \in 1..Len(items) : items[i] = log[left + i]

\* Every step keeps the queue a part of the log.
LEMMA LogInvariant == Spec => []LogInv
<1> USE DEF LogInv
<1>1. HistoryInit => LogInv
  BY DEF HistoryInit, Init
<1>2. TypeOK /\ LogInv /\ [Next]_queueVars => LogInv'
  <2> SUFFICES ASSUME TypeOK, LogInv, [Next]_queueVars
               PROVE  LogInv'
    OBVIOUS
  <2>0. items \in Seq(Values)
    BY DEF TypeOK
  <2>1. ASSUME NEW t \in Threads, CountedStep(Take(t))
        PROVE  LogInv'
    <3>1. /\ items # <<>> /\ items' = Tail(items)
          /\ log' = log /\ left' = left + 1
      BY <2>1, <2>0 DEF CountedStep, Take
    <3>2. /\ Len(items') = Len(items) - 1
          /\ Len(items) \in Nat
          /\ \A i \in 1..Len(items') : items'[i] = items[i + 1]
      BY <3>1, <2>0
    <3>3. ASSUME NEW i \in 1..Len(items')
          PROVE  items'[i] = log[left' + i]
      <4>1. i \in Nat /\ i + 1 \in 1..Len(items) /\ left' + i = left + (i + 1)
        BY <3>1, <3>2
      <4> QED
        BY <4>1, <3>2
    <3>4. Len(log') = left' + Len(items')
      BY <3>1, <3>2
    <3> QED
      BY <3>1, <3>3, <3>4
  <2>2. ASSUME NEW t \in Threads, CountedStep(Block(t))
        PROVE  LogInv'
    BY <2>2 DEF CountedStep, Block
  <2>3. ASSUME NEW t \in Threads, NEW v \in Values, LoggedEnqueue(t, v)
        PROVE  LogInv'
    <3>1. items' = Append(items, v) /\ log' = Append(log, v) /\ left' = left
      BY <2>3 DEF LoggedEnqueue, Enqueue
    <3>2. /\ Len(items) \in Nat
          /\ Len(items') = Len(items) + 1 /\ items'[Len(items) + 1] = v
          /\ \A i \in 1..Len(items) : items'[i] = items[i]
      BY <3>1, <2>0
    <3>3. /\ log' \in Seq(Values)
          /\ Len(log') = Len(log) + 1 /\ log'[Len(log) + 1] = v
          /\ \A i \in 1..Len(log) : log'[i] = log[i]
      BY <3>1
    <3>4. ASSUME NEW i \in 1..Len(items')
          PROVE  items'[i] = log'[left' + i]
      <4>1. CASE i \in 1..Len(items)
        <5>1. left + i \in 1..Len(log)
          BY <4>1, <3>2
        <5> QED
          BY <4>1, <5>1, <3>1, <3>2, <3>3
      <4>2. CASE i = Len(items) + 1
        BY <4>2, <3>1, <3>2, <3>3
      <4> QED
        BY <4>1, <4>2, <3>2
    <3>5. Len(log') = left' + Len(items')
      BY <3>1, <3>2, <3>3
    <3>6. left' \in Nat /\ log' \in Seq(Values)
      BY <3>1, <3>3
    <3> HIDE DEF LogInv
    <3> QED
      BY <3>4, <3>5, <3>6 DEF LogInv
  <2>4. ASSUME NEW t \in Threads, SilentStep(t)
        PROVE  LogInv'
    BY <2>4 DEF SilentStep, Expire, GiveUp, Notify
  <2>5. CASE LoggedClear
    BY <2>5 DEF LoggedClear, Clear
  <2>6. CASE UNCHANGED queueVars
    BY <2>6 DEF queueVars
  <2> QED
    BY <2>1, <2>2, <2>3, <2>4, <2>5, <2>6
       DEF Next, CountedStep, Dequeue, Resume
<1> QED
  BY <1>1, <1>2, TypeCorrect, PTL DEF Spec

\* LockingQueue implements FifoQueue: every step of every interleaving is a
\* step of the abstract queue or changes nothing it speaks of.
THEOREM ImplementsFifoQueue == Spec => ImplementsFifo
<1> DEFINE waiting == At("blocked") \cup At("woken") \cup At("expired")
           late == At("expired")
<1>1. HistoryInit => Fifo!Init
  BY DEF HistoryInit, Init, Fifo!Init, At
<1>2. TypeOK /\ LogInv /\ [Next]_queueVars => [Fifo!Next]_(Fifo!vars)
  <2> SUFFICES ASSUME TypeOK, LogInv, [Next]_queueVars
               PROVE  Fifo!Next \/ UNCHANGED Fifo!vars
    OBVIOUS
  <2>0. items \in Seq(Values) /\ pc \in [Threads -> Locations]
    BY DEF TypeOK
  <2>1. ASSUME NEW t \in Threads, CountedStep(Take(t)),
               pc[t] \in {"idle", "woken"}
        PROVE  Fifo!Take(t)
    <3>1. /\ items # <<>> /\ Head(items) = items[1] /\ items' # items
          /\ 1 \in 1..Len(items)
      BY <2>1, <2>0 DEF CountedStep, Take
    <3>2. Head(items) = log[left + 1] /\ left # Len(log)
      BY <3>1, <2>0 DEF LogInv
    <3>3. waiting' = waiting \ {t} /\ late' = late \ {t}
      BY <2>1, <2>0 DEF CountedStep, Take, Goto, At
    <3> QED
      BY <2>1, <3>1, <3>2, <3>3 DEF CountedStep, Take, Fifo!Take, Fifo!Empty
  <2>2. ASSUME NEW t \in Threads, CountedStep(Block(t)),
               pc[t] \in {"idle", "woken"}
        PROVE  Fifo!Wait(t) \/ UNCHANGED Fifo!vars
    <3>1. /\ left = Len(log) /\ left' = left /\ log' = log /\ got' = got
      BY <2>2 DEF CountedStep, Block, LogInv
    <3>2. waiting' = waiting \cup {t} /\ late' = late
      BY <2>2, <2>0 DEF CountedStep, Block, Goto, At
    <3> QED
      BY <3>1, <3>2 DEF Fifo!Wait, Fifo!Empty, Fifo!vars
  <2>3. ASSUME NEW t \in Threads, NEW v \in Values, LoggedEnqueue(t, v)
        PROVE  Fifo!Put(v)
    <3>1. waiting' = waiting /\ late' = late
      BY <2>3, <2>0 DEF LoggedEnqueue, Enqueue, Goto, At
    <3> QED
      BY <3>1, <2>3 DEF LoggedEnqueue, Enqueue, Fifo!Put
  <2>4. ASSUME NEW t \in Threads, SilentStep(t)
        PROVE  Fifo!Next \/ UNCHANGED Fifo!vars
    <3>1. CASE Expire(t)
      <4>1. t \in waiting \ late /\ waiting' = waiting /\ late' = late \cup {t}
        BY <3>1, <2>0 DEF Expire, Goto, At
      <4>2. Fifo!DeadlinePasses(t)
        BY <4>1, <3>1, <2>4 DEF SilentStep, Expire, Fifo!DeadlinePasses
      <4> QED
        BY <4>2 DEF Fifo!Next
    <3>2. CASE GiveUp(t)
      <4>1. t \in late /\ waiting' = waiting \ {t} /\ late' = late \ {t}
        BY <3>2, <2>0 DEF GiveUp, Goto, At
      <4>2. Fifo!Fail(t)
        BY <4>1, <3>2, <2>4 DEF SilentStep, GiveUp, Fifo!Fail
      <4> QED
        BY <4>2 DEF Fifo!Next
    <3>3. CASE Notify(t)
      <4>1. waiting' = waiting /\ late' = late
        BY <3>3, <2>0 DEF Notify, Goto, At
      <4> QED
        BY <4>1, <3>3, <2>4 DEF SilentStep, Notify, Fifo!vars
    <3> QED
      BY <2>4, <3>1, <3>2, <3>3 DEF SilentStep
  <2>5. CASE LoggedClear
    <3>1. waiting' = waiting /\ late' = late
      BY <2>5 DEF LoggedClear, Clear, At
    <3> QED
      BY <3>1, <2>5 DEF LoggedClear, Clear, Fifo!Discard, Fifo!Next
  <2>6. CASE UNCHANGED queueVars
    <3>1. waiting' = waiting /\ late' = late
      BY <2>6 DEF queueVars, At
    <3> QED
      BY <3>1, <2>6 DEF queueVars, Fifo!vars
  <2> QED
    BY <2>1, <2>2, <2>3, <2>4, <2>5, <2>6
       DEF Next, CountedStep, Dequeue, Resume, Fifo!Next
<1> QED
  BY <1>1, <1>2, TypeCorrect, LogInvariant, PTL DEF Spec, ImplementsFifo, Fifo!Spec

=============================================================================
