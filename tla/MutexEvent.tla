----------------------------- MODULE MutexEvent -----------------------------
(***************************************************************************)
(* MutexEvent (include/Kanoop/mutexevent.h, src/Kanoop/mutexevent.cpp): a  *)
(* mutex, a condition variable and a flag, waited for by any number of     *)
(* threads.                                                                *)
(*                                                                         *)
(* Each critical section under _checkMutex is one step.  A wait() that     *)
(* finds the flag down releases the mutex inside QWaitCondition::wait(),   *)
(* so it is two critical sections with a blocked thread between them, and  *)
(* a thread that left the condition's queue (notified, or expired because  *)
(* its timeout elapsed) has still to take the mutex back: other threads    *)
(* run in that window.                                                     *)
(*                                                                         *)
(* The actions are written over this module's own variables so that a      *)
(* class that owns an event composes them with INSTANCE.                   *)
(***************************************************************************)
CONSTANT Threads    \* the threads that may call wait()

VARIABLES
    isset,      \* _isset
    isWaiting,  \* _isWaiting, what isWaiting() returns
    wakeAll,    \* _wakeAllWaiters: set() releases every waiter, or one
    waiter      \* where each thread is inside wait()

vars == <<isset, isWaiting, wakeAll, waiter>>

\* wait(msecs) with msecs > 0 is "timed"; with zero or less it is "untimed".
Kinds == {"timed", "untimed"}

Blocked(w)  == {t \in Threads : w[t] \in Kinds}
Notified(w) == {t \in Threads : w[t] = "notified"}

TypeOK ==
    /\ isset \in BOOLEAN
    /\ isWaiting \in BOOLEAN
    /\ wakeAll \in BOOLEAN
    /\ waiter \in [Threads -> Kinds \cup {"none", "notified", "expired"}]

\* The constructor is given the wake mode, which setWakeAllWaiters() may change.
Init ==
    /\ isset = FALSE
    /\ isWaiting = FALSE
    /\ wakeAll \in BOOLEAN
    /\ waiter = [t \in Threads |-> "none"]

-----------------------------------------------------------------------------
\* The wait queue of QWaitCondition (external): a notification releases one
\* blocked thread of the implementation's choice, or all of them, and is lost
\* when nobody is blocked.  Qt filters the spurious wakeups of the platform.
NotifyAll(w) ==
    [t \in Threads |-> IF t \in Blocked(w) THEN "notified" ELSE w[t]]

NotifiedOutcomes(w) ==
    IF Blocked(w) = {} THEN {w}
    ELSE IF wakeAll THEN {NotifyAll(w)}
    ELSE {[w EXCEPT ![t] = "notified"] : t \in Blocked(w)}

\* A version of Set that forgets the waiters.
SetSilently ==
    /\ isset' = TRUE
    /\ UNCHANGED <<isWaiting, wakeAll, waiter>>

\* set()
Set ==
    /\ isset' = TRUE
    /\ waiter' \in NotifiedOutcomes(waiter)
    /\ UNCHANGED <<isWaiting, wakeAll>>

\* setWakeAllWaiters(value), which takes no lock.
SetWakeAllWaiters(value) ==
    /\ wakeAll' = value
    /\ UNCHANGED <<isset, isWaiting, waiter>>

\* clear()
Clear ==
    /\ isset' = FALSE
    /\ UNCHANGED <<isWaiting, wakeAll, waiter>>

\* A version of WaitReturns that leaves the signal for the next thread.
WaitReturnsKeeping(t) ==
    /\ waiter[t] = "none"
    /\ isset
    /\ isWaiting' = FALSE
    /\ UNCHANGED <<isset, wakeAll, waiter>>

\* wait() that finds the event signalled: it consumes the signal, returns true.
WaitReturns(t) ==
    /\ waiter[t] = "none"
    /\ isset
    /\ isset' = FALSE
    /\ isWaiting' = FALSE
    /\ UNCHANGED <<wakeAll, waiter>>

\* A version of WaitBlocks that hands a timeout of zero to the condition as it is.
WaitBlocksForZero(t, kind) ==
    /\ waiter[t] = "none"
    /\ ~isset
    /\ isWaiting' = TRUE
    /\ waiter' = [waiter EXCEPT ![t] = IF kind = "timed" THEN "timed" ELSE "zero"]
    /\ UNCHANGED <<isset, wakeAll>>

\* wait() that finds the event unsignalled, up to the release of the mutex.
WaitBlocks(t, kind) ==
    /\ waiter[t] = "none"
    /\ ~isset
    /\ isWaiting' = TRUE
    /\ waiter' = [waiter EXCEPT ![t] = kind]
    /\ UNCHANGED <<isset, wakeAll>>

\* The timeout of a timed wait elapses: the thread leaves the queue, and does
\* not hold the mutex yet.
Expire(t) ==
    /\ waiter[t] = "timed"
    /\ waiter' = [waiter EXCEPT ![t] = "expired"]
    /\ UNCHANGED <<isset, isWaiting, wakeAll>>

\* The second critical section of wait().  The flag is not tested again; it is
\* reset whatever the reason of the wakeup.  wait() returns Granted(t).
WaitWakes(t) ==
    /\ waiter[t] \in {"notified", "expired"}
    /\ isset' = FALSE
    /\ isWaiting' = FALSE
    /\ waiter' = [waiter EXCEPT ![t] = "none"]
    /\ UNCHANGED wakeAll

\* The result of the wait that t is about to leave through WaitWakes.
Granted(t) == waiter[t] = "notified"

WaitStep(t) ==
    \/ WaitReturns(t)
    \/ \E kind \in Kinds : WaitBlocks(t, kind)
    \/ Expire(t)
    \/ WaitWakes(t)

Next ==
    \/ Set
    \/ Clear
    \/ \E value \in BOOLEAN : SetWakeAllWaiters(value)
    \/ \E t \in Threads : WaitStep(t)

Spec == Init /\ [][Next]_vars

-----------------------------------------------------------------------------
\* A signal is never left standing in front of sleeping threads: when the flag
\* is up and some thread is blocked in wait(), a released thread is still on
\* its way out of wait() (mutexevent.cpp:6-12, 24-37).
NoStrandedSignal ==
    isset /\ Blocked(waiter) # {} => Notified(waiter) # {}

\* What AutoResetEvent promises (mutexevent.h:7, 25): only a wait that was
\* granted, or clear(), takes the signal away.  A wait that times out leaves it
\* for the next waiter.
TimedOutWaitKeepsSignal ==
    [][\A t \in Threads :
          waiter[t] = "expired" /\ waiter'[t] = "none" => isset' = isset]_vars

=============================================================================
