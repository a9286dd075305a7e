---------------------------- MODULE LockingQueue ----------------------------
(***************************************************************************)
(* LockingQueue<T> (include/Kanoop/lockingqueue.h): a blocking queue for   *)
(* any number of producers and consumers.                                  *)
(*                                                                         *)
(* A step is a critical section under _queueLock.  enqueue() notifies      *)
(* after it has released the lock, so it is two steps.  A dequeue() that   *)
(* finds the queue empty blocks in QWaitCondition::wait(); it comes back   *)
(* either notified, and then looks again, or because its deadline has      *)
(* passed, and then fails without looking.  Other threads run before it    *)
(* has the lock back.                                                      *)
(***************************************************************************)
EXTENDS Naturals, Sequences, FiniteSets

CONSTANTS
    Threads,    \* the threads that use the queue
    Values,     \* the elements
    NoValue     \* the default-constructed T of an unsuccessful dequeue()

ASSUME QueueAssumption ==
    /\ IsFiniteSet(Threads)
    /\ NoValue \notin Values

VARIABLES
    items,      \* _items
    pc,         \* where each thread is inside the queue's methods
    got         \* what each thread's last completed dequeue() returned

vars == <<items, pc, got>>

Locations == {"idle", "notify", "blocked", "woken", "expired"}

At(loc) == {t \in Threads : pc[t] = loc}

Goto(t, loc) == pc' = [pc EXCEPT ![t] = loc]

TypeOK ==
    /\ items \in Seq(Values)
    /\ pc \in [Threads -> Locations]
    /\ got \in [Threads -> Values \cup {NoValue}]

Init ==
    /\ items = <<>>
    /\ pc = [t \in Threads |-> "idle"]
    /\ got = [t \in Threads |-> NoValue]

-----------------------------------------------------------------------------
\* takeFirst() and return: the loop of dequeue() finds an element.
Take(t) ==
    /\ items # <<>>
    /\ got' = [got EXCEPT ![t] = Head(items)]
    /\ items' = Tail(items)
    /\ Goto(t, "idle")

\* The loop of dequeue() finds nothing: the thread waits on the condition.
Block(t) ==
    /\ items = <<>>
    /\ Goto(t, "blocked")
    /\ UNCHANGED <<items, got>>

\* dequeue(): the call and its first look at the queue.
Dequeue(t) ==
    /\ pc[t] = "idle"
    /\ Take(t) \/ Block(t)

\* A version of Resume that takes for granted that an element is there.
ResumeOnce(t) ==
    /\ pc[t] = "woken"
    /\ got' = [got EXCEPT ![t] = IF items = <<>> THEN NoValue ELSE Head(items)]
    /\ items' = IF items = <<>> THEN items ELSE Tail(items)
    /\ Goto(t, "idle")

\* The wait was notified: the loop looks again, and waits again if a thread
\* that was faster left nothing.
Resume(t) ==
    /\ pc[t] = "woken"
    /\ Take(t) \/ Block(t)

\* The deadline passes: the thread leaves the condition without the lock.
Expire(t) ==
    /\ pc[t] = "blocked"
    /\ Goto(t, "expired")
    /\ UNCHANGED <<items, got>>

\* The wait reports the timeout: dequeue() fails, whatever the queue holds now.
GiveUp(t) ==
    /\ pc[t] = "expired"
    /\ got' = [got EXCEPT ![t] = NoValue]
    /\ Goto(t, "idle")
    /\ UNCHANGED items

\* A version of Enqueue that stores a default-constructed element.
EnqueueDefault(t, v) ==
    /\ pc[t] = "idle"
    /\ items' = Append(items, NoValue)
    /\ Goto(t, "notify")
    /\ UNCHANGED got

\* enqueue(v), up to the release of the lock.
Enqueue(t, v) ==
    /\ pc[t] = "idle"
    /\ items' = Append(items, v)
    /\ Goto(t, "notify")
    /\ UNCHANGED got

\* A version of Notify that only wakes a consumer when one element is there,
\* as an "it was empty before" shortcut would.
NotifyFirstOnly(t) ==
    /\ pc[t] = "notify"
    /\ IF At("blocked") = {} \/ Len(items) # 1
       THEN Goto(t, "idle")
       ELSE \E c \in At("blocked") :
                pc' = [pc EXCEPT ![t] = "idle", ![c] = "woken"]
    /\ UNCHANGED <<items, got>>

\* notify_one(), after the lock is released: one blocked consumer is woken, if
\* there is one, and the notification is lost otherwise.
Notify(t) ==
    /\ pc[t] = "notify"
    /\ IF At("blocked") = {}
       THEN Goto(t, "idle")
       ELSE \E c \in At("blocked") :
                pc' = [pc EXCEPT ![t] = "idle", ![c] = "woken"]
    /\ UNCHANGED <<items, got>>

\* clear()
Clear ==
    /\ items' = <<>>
    /\ UNCHANGED <<pc, got>>

=============================================================================
