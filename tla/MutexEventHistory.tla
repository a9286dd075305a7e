------------------------- MODULE MutexEventHistory --------------------------
(***************************************************************************)
(* A MutexEvent with its history: what the calls of set() were worth and   *)
(* how many waits returned true.  The history relates what the setters     *)
(* gave to what the waiters got, which no single state of the event shows. *)
(***************************************************************************)
EXTENDS MutexEvent, Naturals, FiniteSets

CONSTANT MaxWorth   \* bound on the history: no set() that would exceed it

ASSUME HistoryAssumption ==
    /\ MaxWorth \in Nat
    /\ IsFiniteSet(Threads)

VARIABLES
    worth,      \* the waits that the calls of set() so far could let through
    grants      \* the waits that returned true so far

history == <<worth, grants>>
historyVars == <<isset, isWaiting, wakeAll, waiter, worth, grants>>

\* The waits that one call of set() can let through: one notified thread and,
\* since the flag stays up until that thread has the mutex, one that calls
\* wait() in between; or every thread and the flag.
SetWorth == IF wakeAll THEN Cardinality(Threads) + 1 ELSE 2

HistoryInit ==
    /\ Init
    /\ worth = 0
    /\ grants = 0

CountedSet ==
    /\ worth + SetWorth <= MaxWorth
    /\ Set
    /\ worth' = worth + SetWorth
    /\ UNCHANGED grants

CountedReturn(t) ==
    /\ WaitReturns(t)
    /\ grants' = grants + 1
    /\ UNCHANGED worth

CountedWake(t) ==
    /\ WaitWakes(t)
    /\ grants' = IF Granted(t) THEN grants + 1 ELSE grants
    /\ UNCHANGED worth

Uncounted ==
    /\ \/ Clear
       \/ \E value \in BOOLEAN : SetWakeAllWaiters(value)
       \/ \E t \in Threads, kind \in Kinds : WaitBlocks(t, kind)
       \/ \E t \in Threads : Expire(t)
    /\ UNCHANGED history

HistoryNext ==
    \/ CountedSet
    \/ \E t \in Threads : CountedReturn(t) \/ CountedWake(t)
    \/ Uncounted

HistorySpec == HistoryInit /\ [][HistoryNext]_historyVars

-----------------------------------------------------------------------------
HistoryTypeOK ==
    /\ TypeOK
    /\ worth \in Nat
    /\ grants \in Nat

\* The waits that what was signalled so far can still let through: the threads
\* notified and, while the flag is up, the next thread to call wait().
Outstanding == Cardinality(Notified(waiter)) + (IF isset THEN 1 ELSE 0)

\* No wait returns true out of nothing: the waits granted and those that can
\* still be granted never exceed what the calls of set() were worth, in any
\* interleaving of waiters, timeouts, clear() and changes of the wake mode
\* (mutexevent.cpp:4-46).
GrantsBounded == grants + Outstanding <= worth

=============================================================================
