----------------------------- MODULE RateMonitor ----------------------------
(***************************************************************************)
(* RateMonitor (ratemonitor.h, ratemonitor.cpp): counts events over the    *)
(* last _evaluationMsecs.  addEvent() and eventsPerSecond() read the clock *)
(* before they take _lock, so that several threads append and prune with   *)
(* times that are out of order by then; setEvaluationTime() takes no lock. *)
(***************************************************************************)
EXTENDS Integers, Sequences, SequencesExt

CONSTANTS
    Users,                  \* the threads that use the monitor
    Windows,                \* values of _evaluationMsecs
    PruneIntervalMsecs,
    MaxEvents,              \* bound on the events added
    MaxTime                 \* bound on the clock

RateAssumption ==
    /\ Windows \subseteq Nat \ {0} /\ Windows # {}
    /\ PruneIntervalMsecs \in Nat
    /\ MaxEvents \in Nat /\ MaxTime \in Nat

VARIABLES
    clock,          \* QDateTime::currentMSecsSinceEpoch()
    evaluationMsecs,
    events,         \* _events: a timestamp for each, of count 1
    lastPruneTime,  \* _lastPruneTime
    call,           \* the method each user is in
    now,            \* the time it read
    rate,           \* what eventsPerSecond() last divided: [count, elapsed]
    history,        \* the timestamps of all events ever added
    narrowest       \* the shortest window there ever was

rateVars == <<clock, evaluationMsecs, events, lastPruneTime, call, now, rate,
              history, narrowest>>

TypeOK ==
    /\ clock \in Nat
    /\ evaluationMsecs \in Windows /\ narrowest \in Windows
    /\ events \in Seq(Nat) /\ history \in Seq(Nat)
    /\ lastPruneTime \in Nat
    /\ call \in [Users -> {"none", "addEvent", "eventsPerSecond"}]
    /\ now \in [Users -> Nat]
    /\ rate \in [count : Nat, elapsed : Int]

\* The epoch itself, 0, stands for no event: the clock is past it.
Init ==
    /\ clock = 1
    /\ evaluationMsecs \in Windows
    /\ narrowest = evaluationMsecs
    /\ events = <<>> /\ history = <<>>
    /\ lastPruneTime = 0
    /\ call = [u \in Users |-> "none"] /\ now = [u \in Users |-> 0]
    /\ rate = [count |-> 0, elapsed |-> evaluationMsecs]

\* The clock is not set back.
Tick ==
    /\ clock < MaxTime
    /\ clock' = clock + 1
    /\ UNCHANGED <<evaluationMsecs, events, lastPruneTime, call, now, rate, history,
                   narrowest>>

SetEvaluationTime(w) ==
    /\ evaluationMsecs' = w
    /\ narrowest' = IF w < narrowest THEN w ELSE narrowest
    /\ UNCHANGED <<clock, events, lastPruneTime, call, now, rate, history>>

\* Either method begins with the clock, and without the lock.
ReadClock(u, method) ==
    /\ call[u] = "none"
    /\ call' = [call EXCEPT ![u] = method]
    /\ now' = [now EXCEPT ![u] = clock]
    /\ UNCHANGED <<clock, evaluationMsecs, events, lastPruneTime, rate, history,
                   narrowest>>

Return(u) == call' = [call EXCEPT ![u] = "none"] /\ now' = [now EXCEPT ![u] = 0]

\* A version of Pruned that compares with the last prune.
PrunedSince(es, t) ==
    LET kept == {i \in DOMAIN es : es[i] >= lastPruneTime}
    IN  IF kept = {} THEN <<>>
        ELSE SubSeq(es, CHOOSE i \in kept : \A j \in kept : i <= j, Len(es))

\* pruneOldEvents(): from the front up to the first event in the window.
Pruned(es, t) ==
    LET kept == {i \in DOMAIN es : es[i] >= t - evaluationMsecs}
    IN  IF kept = {} THEN <<>>
        ELSE SubSeq(es, CHOOSE i \in kept : \A j \in kept : i <= j, Len(es))

AddEvent(u) ==
    /\ call[u] = "addEvent"
    /\ Len(history) < MaxEvents
    /\ history' = Append(history, now[u])
    /\ IF now[u] - lastPruneTime > PruneIntervalMsecs
       THEN /\ events' = Pruned(Append(events, now[u]), now[u])
            /\ lastPruneTime' = now[u]
       ELSE /\ events' = Append(events, now[u])
            /\ UNCHANGED lastPruneTime
    /\ Return(u)
    /\ UNCHANGED <<clock, evaluationMsecs, rate, narrowest>>

\* What the count is divided by is the time since the first event left or, if there
\* is none, _evaluationMsecs, read again after the unlock.  It may be zero, and it
\* is negative if a thread that read the clock later was first.
EventsPerSecond(u) ==
    /\ call[u] = "eventsPerSecond"
    /\ events' = Pruned(events, now[u])
    /\ lastPruneTime' = now[u]
    /\ \E window \in Windows :
           rate' = [count |-> Len(events'),
                    elapsed |-> IF events' = <<>> THEN window
                                ELSE now[u] - Head(events')]
    /\ Return(u)
    /\ UNCHANGED <<clock, evaluationMsecs, history, narrowest>>

Next ==
    \/ Tick
    \/ \E w \in Windows : SetEvaluationTime(w)
    \/ \E u \in Users :
          \/ ReadClock(u, "addEvent") \/ ReadClock(u, "eventsPerSecond")
          \/ AddEvent(u) \/ EventsPerSecond(u)

Spec == Init /\ [][Next]_rateVars

-----------------------------------------------------------------------------
(* Correctness                                                             *)

\* The monitor counts the latest events, as many times as they were added, and every
\* event of the (shortest) window is among them, whatever the order in which threads
\* that read the clock earlier and later get the lock.
RecentKept ==
    \E dropped \in 0..Len(history) :
        /\ events = SubSeq(history, dropped + 1, Len(history))
        /\ \A i \in 1..dropped : history[i] < clock - narrowest

=============================================================================
