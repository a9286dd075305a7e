------------------------ MODULE LockingQueueHistory -------------------------
(***************************************************************************)
(* LockingQueue with the log of what was enqueued, its specification, its  *)
(* properties and the refinement of FifoQueue.                             *)
(***************************************************************************)
EXTENDS LockingQueue

CONSTANT MaxEnqueues    \* bound on the calls of enqueue()

VARIABLES
    log,        \* every element enqueued, in order
    left        \* how many of them have left the queue

queueVars == <<items, pc, got, log, left>>

HistoryInit ==
    /\ Init
    /\ log = <<>>
    /\ left = 0

LoggedEnqueue(t, v) ==
    /\ Len(log) < MaxEnqueues
    /\ Enqueue(t, v)
    /\ log' = Append(log, v)
    /\ UNCHANGED left

\* A step of dequeue(): one element has left if the step took one.
CountedStep(step) ==
    /\ step
    /\ left' = IF items' = items THEN left ELSE left + 1
    /\ UNCHANGED log

LoggedClear ==
    /\ Clear
    /\ left' = Len(log)
    /\ UNCHANGED log

SilentStep(t) ==
    /\ Expire(t) \/ GiveUp(t) \/ Notify(t)
    /\ UNCHANGED <<log, left>>

Next ==
    \/ \E t \in Threads, v \in Values : LoggedEnqueue(t, v)
    \/ \E t \in Threads : CountedStep(Dequeue(t))
    \/ \E t \in Threads : CountedStep(Resume(t))
    \/ \E t \in Threads : SilentStep(t)
    \/ LoggedClear

Spec == HistoryInit /\ [][Next]_queueVars

\* The scheduler lets a thread inside a method run on: enqueue() gets to its
\* notification and a notified consumer gets the lock.  No deadline has to
\* pass, so nothing below relies on timeouts.
Fairness ==
    \A t \in Threads : WF_queueVars(Notify(t) /\ UNCHANGED <<log, left>>)
                       /\ WF_queueVars(CountedStep(Resume(t)))

FairSpec == Spec /\ Fairness

-----------------------------------------------------------------------------
\* No wakeup is lost although enqueue() notifies outside the lock and the
\* deadline of a notified consumer may pass: while some consumer sleeps, each
\* element in the queue is covered by a consumer that was woken or by an
\* enqueue() that has still to notify (lockingqueue.h:43-56, 67-70).
NoLostWakeup ==
    At("blocked") # {} =>
        Len(items) <= Cardinality(At("woken")) + Cardinality(At("notify"))

\* LockingQueue implements a FIFO queue: elements leave in the order they were
\* appended, each to one thread, and a dequeue() fails only if it has seen the
\* queue empty and its deadline has passed (lockingqueue.h:30-35).
Fifo == INSTANCE FifoQueue WITH
            waiting <- At("blocked") \cup At("woken") \cup At("expired"),
            late <- At("expired")

ImplementsFifo == Fifo!Spec

\* The queue never rests with elements in it and a consumer asleep
\* (lockingqueue.h:62: enqueue wakes one waiting consumer).
NeverStuck == []<>(items = <<>> \/ At("blocked") = {})

=============================================================================
