----------------------------- MODULE FifoQueue ------------------------------
(***************************************************************************)
(* What LockingQueue promises its users (include/Kanoop/lockingqueue.h,    *)
(* 16-25, 30-35, 61-64, 93-95): a first-in first-out queue.  The queue is  *)
(* the part of everything ever enqueued that has not left yet, so an       *)
(* element can leave only once, only in its turn and only to one thread.   *)
(***************************************************************************)
EXTENDS Naturals, Sequences

CONSTANTS
    Threads,    \* the threads that call dequeue()
    Values,     \* the elements
    NoValue     \* what an unsuccessful dequeue() returns: T()

VARIABLES
    log,        \* every element enqueued, in order
    left,       \* how many of them have left the queue
    waiting,    \* the threads whose dequeue() has seen the queue empty
    late,       \* those of them whose deadline has passed
    got         \* what each thread's last completed dequeue() returned

vars == <<log, left, waiting, late, got>>

Init ==
    /\ log = <<>>
    /\ left = 0
    /\ waiting = {} /\ late = {}
    /\ got = [t \in Threads |-> NoValue]

Empty == left = Len(log)

Put(v) ==
    /\ log' = Append(log, v)
    /\ UNCHANGED <<left, waiting, late, got>>

\* dequeue() succeeds, at once or after waiting.
Take(t) ==
    /\ ~Empty
    /\ left' = left + 1
    /\ got' = [got EXCEPT ![t] = log[left + 1]]
    /\ waiting' = waiting \ {t}
    /\ late' = late \ {t}
    /\ UNCHANGED log

Wait(t) ==
    /\ Empty
    /\ t \notin waiting
    /\ waiting' = waiting \cup {t}
    /\ UNCHANGED <<log, left, late, got>>

DeadlinePasses(t) ==
    /\ t \in waiting \ late
    /\ late' = late \cup {t}
    /\ UNCHANGED <<log, left, waiting, got>>

\* dequeue() fails only after it has seen the queue empty and its deadline has
\* passed.
Fail(t) ==
    /\ t \in late
    /\ waiting' = waiting \ {t}
    /\ late' = late \ {t}
    /\ got' = [got EXCEPT ![t] = NoValue]
    /\ UNCHANGED <<log, left>>

Discard ==
    /\ left' = Len(log)
    /\ UNCHANGED <<log, waiting, late, got>>

Next ==
    \/ \E v \in Values : Put(v)
    \/ \E t \in Threads : Take(t) \/ Wait(t) \/ DeadlinePasses(t) \/ Fail(t)
    \/ Discard

Spec == Init /\ [][Next]_vars

=============================================================================
