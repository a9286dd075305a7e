--------------------------- MODULE ThreadLifecycle --------------------------
(***************************************************************************)
(* What AbstractThreadClass promises to those who use it.                  *)
(***************************************************************************)
EXTENDS AbstractThreadClass

\* _stopEvent stands for the end of a run: in the first run of an object,
\* whoever waits for it, in whatever order, a signal that is up or that has
\* released a waiter means that threadFinished() is over
\* (abstractthreadclass.cpp:163, 184, 238-248).
EndSignalled ==
    \/ stopIsset
    \/ \E c \in Callers \cup {Worker} : stopWaiter[c] = "notified"

SignalMeansWoundDown ==
    runs <= 1 /\ EndSignalled => at \in WoundDown \cup {"off"}

\* stop() and waitForCompletion() that are about to return true in the first run
\* of an object do so after threadFinished(), so the owner may release what the
\* worker used (abstractthreadclass.h:71, 81).
StopMeansWoundDown ==
    \A c \in Callers :
        runs <= 1 /\ cpc[c] \in {"stop.true", "completion.true"}
            => at \in WoundDown \cup {"off"}

\* A (first) run that nobody cancels and whose object is not being destroyed reaches
\* its finish phase with threadAboutToFinish() run, never twice, whether stop() or
\* finishAndStop() came first, and with the hook's deleteLater() objects gone
\* (abstractthreadclass.cpp:145-162, 197-202, 267-272).  A hook that was posted too
\* late for one run ends the next.
OrderlyFinish ==
    alive = "alive" /\ runs <= 1 /\ ~cancelled =>
        /\ hookRuns <= 1
        /\ at \in WindingDown \cup WoundDown => hookRuns = 1 /\ ~deferred

\* The first completion wins: once finishAndStop() has recorded a result, the (first)
\* run keeps it, however slots, queued results and stop() interleave, unless a
\* stop() that timed out has cancelled the thread and reopened _stopping
\* (abstractthreadclass.cpp:197-204).  A later run begins with the result of the
\* one before.
ResultKept ==
    runs <= 1 /\ outcome # "none" /\ ~cancelled => outcome' = outcome

FirstCompletionWins == [][ResultKept]_vars

\* When the thread has ended and no call is in progress, nothing of the run is
\* left: _stopping is clear, so that the next run can be stopped, and the
\* registry of running threads does not hold the object
\* (abstractthreadclass.cpp:169, 250-254).
RunLeavesNothing ==
    thread = "none" /\ (\A c \in Callers : cpc[c] = "idle")
        => stopping = 0 /\ ~registered

\* The destructor outlives the worker: when the members are gone, no code of the
\* worker is left to run on them, although isRunning() is false in the finish
\* phase, unless the join of 500 ms was given up (abstractthreadclass.cpp:46-70,
\* abstractthreadclass.h:230-235).
MembersOutliveWorker ==
    alive = "destroyed" /\ ~abandoned => at = "off" /\ ~registered

\* start(), stop(), abort() and the destructor return, with or without a timeout,
\* whatever the worker was doing when they were called
\* (abstractthreadclass.cpp:41-73, 112-179).
InMethod(c) == cpc[c] \notin {"idle", "waitForStart", "waitForCompletion"}

CallsReturn == \A c \in Callers : InMethod(c) ~> ~InMethod(c)

-----------------------------------------------------------------------------
(* The life of the object as its users see it, and the contract with them. *)

\* ~QThread met a running thread, because the join had been given up.
Wrecked == alive = "destroyed" /\ abandoned /\ thread # "none"

LifeOfThread ==
    IF runs = 0 THEN "new"
    ELSE IF at \in Launched \cup WindingDown THEN "running"
    ELSE IF at = "clear" THEN "winding"
    ELSE IF at \in {"unregister", "ending"} THEN "ending"
    ELSE "ended"

ObjectLife ==
    IF Wrecked THEN "wrecked"
    ELSE IF alive = "destroyed" THEN "free" ELSE LifeOfThread

ObjectRuns == IF ObjectLife = "free" THEN 0 ELSE runs

ToldStopped == {c \in Callers : cpc[c] = "stop.true"}

WorkersLife == INSTANCE WorkerLife WITH
    Users <- Callers, life <- ObjectLife, runs <- ObjectRuns,
    told <- ToldStopped, doomed <- alive = "destroying" \/ Wrecked

\* AbstractThreadClass keeps the contract that TcpServer relies on: one order of
\* life for every run, stop() true in the first run only past the announcement of
\* its end, no start of an object that is destroyed, and its members gone only
\* when its thread is, unless the join of 500 ms was given up
\* (abstractthreadclass.cpp:41-73, 112-179, 236-255).
ImplementsWorkerLife == WorkersLife!Spec

-----------------------------------------------------------------------------
(* The inductive invariants behind the proofs of these properties.         *)

\* The QThread and the place of the worker tell the same story.
ThreadMatchesWorker ==
    /\ thread = "none" <=> at = "off"
    /\ thread = "running" <=> at \in Launched
    /\ runs = 0 => at = "off"

\* From the call of the destructor on, its caller is alone with the object.
Dtor == {"dtor.quit", "dtor.join", "dtor.wait", "dtor.quietJoin", "dtor.set",
         "dtor.members"}

DestroyerIsAlone ==
    /\ \A c \in Callers : cpc[c] \in Dtor => alive = "destroying"
    /\ alive # "alive" => \A c \in Callers : cpc[c] \in Dtor \cup {"idle"}
    /\ \A c, d \in Callers : cpc[c] \in Dtor /\ cpc[d] \in Dtor => c = d

\* Past its join the destructor is right that the thread has ended, or has
\* given up on it.
DestroyerJoined ==
    /\ \A c \in Callers :
           \/ cpc[c] = "dtor.set"
           \/ cpc[c] \in {"dtor.wait", "dtor.members"} /\ ~abandoned
           => thread = "none"
    /\ alive = "destroyed" /\ ~abandoned => thread = "none"

\* The registry holds the object only while the worker is between the two ends
\* of a run.
RegisteredWhileAtWork == registered => at \notin {"off", "entry", "ending"}

\* Before the first run only the destructor signals _stopEvent.
NoSignalBeforeUse == runs = 0 /\ EndSignalled => alive # "alive"

\* While _stopping is set, somebody is left who will clear it: the worker in its
\* finish phase, or a caller inside stop().
InStop == {"stop.post", "stop.wait", "stop.terminate", "stop.true", "stop.false"}

StoppingHasAnEnd ==
    stopping # 0 => \/ at \in Launched \cup WindingDown \cup {"clear"}
                    \/ \E c \in Callers : cpc[c] \in InStop

-----------------------------------------------------------------------------
\* stop() returns true if the thread stopped (abstractthreadclass.h:71), also
\* for an object whose thread is started again.
StopMeansStopped ==
    \A c \in Callers :
        cpc[c] = "stop.true" => thread # "running"

\* A caller of stop() that finds _stopping set takes the hook for already run and
\* only quits the worker (abstractthreadclass.cpp:159-161): no run that nobody
\* cancels winds down without threadAboutToFinish().
HookBeforeFinish ==
    alive = "alive" /\ ~cancelled /\ at \in WindingDown => hookRuns > 0

\* waitForCompletion() blocks until the worker thread finishes
\* (abstractthreadclass.h:79): called when it has finished, it returns.
CompletionReturns ==
    \A c \in Callers :
        cpc[c] = "waitForCompletion" /\ runs > 0 /\ thread = "none"
            ~> cpc[c] # "waitForCompletion"

=============================================================================
