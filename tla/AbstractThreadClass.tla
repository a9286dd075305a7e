------------------------- MODULE AbstractThreadClass ------------------------
(***************************************************************************)
(* AbstractThreadClass (include/Kanoop/utility/abstractthreadclass.h,      *)
(* src/Kanoop/utility/abstractthreadclass.cpp): the lifecycle of an object *)
(* that lives on its own QThread.  Owner threads call start(), stop(),     *)
(* waitForCompletion(), abort() and the destructor; the worker runs the    *)
(* hooks, may end itself with finishAndStop(), and announces its progress  *)
(* through two MutexEvents.                                                *)
(*                                                                         *)
(* One step reads or writes shared state once: the flag _stopping, one of  *)
(* the events, or the QThread.  QThread and its event loop are external    *)
(* and modelled as Qt documents and implements them:                       *)
(*   - isRunning() is false during the finish phase, in which finished()   *)
(*     handlers still run on the worker; wait() returns after that phase;  *)
(*   - quit() is remembered until the event loop looks at it, and start()  *)
(*     forgets an older one;                                               *)
(*   - an event posted to a thread without a loop stays in the queue;      *)
(*   - terminate() acts once the worker is past started(), and never in    *)
(*     the finish phase, which then follows as it does after a quit().     *)
(***************************************************************************)
EXTENDS Naturals, FiniteSets

CONSTANTS
    Callers,        \* the threads that use the object from outside
    Worker,         \* the identity of the worker as a waiter of _stopEvent
    Calls,          \* the methods the callers use
    Timeouts,       \* the timeouts they pass: {"none", "timed", "untimed"}
    Results,        \* what the worker's code may pass to finishAndStop()
    SelfStop,       \* the worker's code may call stop() on its own object
    MaxRuns,        \* bound on the number of times the thread is launched
    MaxPosted       \* bound on queued hooks: no stop() begins beyond it

AllCalls == {"start", "stop", "waitForStart", "waitForCompletion", "abort",
             "destroy"}

ASSUME CallersAssumption ==
    /\ Worker \notin Callers
    /\ Calls \subseteq AllCalls
    /\ Timeouts \subseteq {"none", "timed", "untimed"}
    /\ Results \subseteq {"succeeded", "failed"}
    /\ SelfStop \in BOOLEAN
    /\ MaxRuns \in Nat /\ MaxPosted \in Nat

VARIABLES
    thread,         \* the QThread: "none", "running" or "finishing"
    exitRequested,  \* quit() was called and not yet acted upon
    posted,         \* queued calls of invokeThreadAboutToFinishAndQuit()
    cancelled,      \* terminate() was called on the running thread
    runs,           \* how many times the thread was launched
    at,             \* where the worker is
    ctx,            \* who called invokeThreadAboutToFinish() on the worker
    stopping,       \* _stopping
    outcome,        \* _success and _message: "none" until finishAndStop()
    hookRuns,       \* calls of threadAboutToFinish() in this run, up to 2
    deferred,       \* deleteLater() objects of the hook not yet deleted
    registered,     \* in _RunningThreads, and counted in _RunningThreadCount
    abandoned,      \* the destructor's join of 500 ms timed out
    alive,          \* the object: "alive", "destroying" or "destroyed"
    startIsset, startIsWaiting, startWakeAll, startWaiter,  \* _startEvent
    stopIsset, stopIsWaiting, stopWakeAll, stopWaiter,      \* _stopEvent
    cpc,            \* where each caller is
    timeout         \* the timeout of its current or last call

qthread    == <<thread, exitRequested, posted, cancelled, runs>>
run        == <<outcome, hookRuns, deferred>>
object     == <<registered, abandoned, alive>>
startVars  == <<startIsset, startIsWaiting, startWakeAll, startWaiter>>
stopVars   == <<stopIsset, stopIsWaiting, stopWakeAll, stopWaiter>>
events     == <<startVars, stopVars>>
callerVars == <<cpc, timeout>>

vars == <<qthread, at, ctx, stopping, run, object, events, callerVars>>

StartEvent == INSTANCE MutexEvent WITH
    Threads <- Callers, isset <- startIsset, isWaiting <- startIsWaiting,
    wakeAll <- startWakeAll, waiter <- startWaiter

StopEvent == INSTANCE MutexEvent WITH
    Threads <- Callers \cup {Worker}, isset <- stopIsset,
    isWaiting <- stopIsWaiting, wakeAll <- stopWakeAll, waiter <- stopWaiter

-----------------------------------------------------------------------------
\* Where the worker runs code of its own before the finish phase.
Launched == {"entry", "started", "exec", "loop",
             "hook", "drain", "quit", "selfWait", "selfReset"}

\* The finish phase up to the announcement of the end, and from it on.
WindingDown == {"finished", "signal"}
WoundDown   == {"clear", "unregister", "ending"}

WorkerLocations == {"off"} \cup Launched \cup WindingDown \cup WoundDown

CallerLocations ==
    {"idle", "start.launch", "start.wait", "waitForStart",
     "stop.join", "stop.race", "stop.post", "stop.wait", "stop.terminate",
     "stop.true", "stop.false", "waitForCompletion", "completion.true",
     "abort.join", "dtor.quit", "dtor.join", "dtor.wait", "dtor.quietJoin",
     "dtor.set", "dtor.members"}

IsRunning == thread = "running"

TypeOK ==
    /\ thread \in {"none", "running", "finishing"}
    /\ exitRequested \in BOOLEAN /\ cancelled \in BOOLEAN
    /\ posted \in Nat /\ runs \in Nat
    /\ at \in WorkerLocations
    /\ ctx \in {"started", "slot", "stop"}
    /\ stopping \in {0, 1}
    /\ outcome \in {"none", "succeeded", "failed"}
    /\ hookRuns \in 0..2
    /\ deferred \in BOOLEAN /\ registered \in BOOLEAN /\ abandoned \in BOOLEAN
    /\ alive \in {"alive", "destroying", "destroyed"}
    /\ StartEvent!TypeOK
    /\ StopEvent!TypeOK
    /\ cpc \in [Callers -> CallerLocations]
    /\ timeout \in [Callers -> {"none", "timed", "untimed"}]

\* A constructed object: commonInit() has connected the signals and made
\* _startEvent wake all its waiters.
Init ==
    /\ thread = "none" /\ exitRequested = FALSE /\ posted = 0
    /\ cancelled = FALSE /\ runs = 0
    /\ at = "off" /\ ctx = "slot"
    /\ stopping = 0 /\ outcome = "none" /\ hookRuns = 0 /\ deferred = FALSE
    /\ registered = FALSE /\ abandoned = FALSE /\ alive = "alive"
    /\ StartEvent!Init /\ startWakeAll
    /\ StopEvent!Init /\ ~stopWakeAll
    /\ cpc = [c \in Callers |-> "idle"]
    /\ timeout = [c \in Callers |-> "none"]

-----------------------------------------------------------------------------
(* What callers share.                                                     *)

\* c calls a method of the object, which nobody is destroying.
Call(c, method, t) ==
    /\ method \in Calls
    /\ alive = "alive"
    /\ cpc[c] = "idle"
    /\ timeout' = [timeout EXCEPT ![c] = t]

\* A step of a caller that only moves that caller.
NothingElse == UNCHANGED <<qthread, at, ctx, stopping, run, object, events>>

Goto(c, loc) == cpc' = [cpc EXCEPT ![c] = loc]

Step(c, from, to) == cpc[c] = from /\ Goto(c, to) /\ UNCHANGED timeout

\* QThread::terminate(): nothing to cancel unless the thread is running.
Terminate ==
    /\ cancelled' = (cancelled \/ IsRunning)
    /\ UNCHANGED <<thread, exitRequested, posted, runs>>

\* QThread::quit()
Quit ==
    /\ exitRequested' = TRUE
    /\ UNCHANGED <<thread, posted, cancelled, runs>>

\* c waits for _stopEvent at loc: it goes on at granted with the result true, or
\* at expired with the result false.
AwaitStopEvent(c, loc, granted, expired) ==
    /\ cpc[c] = loc
    /\ \/ StopEvent!WaitReturns(c) /\ Goto(c, granted)
       \/ StopEvent!WaitBlocks(c, timeout[c]) /\ UNCHANGED cpc
       \/ StopEvent!Expire(c) /\ UNCHANGED cpc
       \/ /\ StopEvent!WaitWakes(c)
          /\ Goto(c, IF StopEvent!Granted(c) THEN granted ELSE expired)
    /\ UNCHANGED <<qthread, at, ctx, stopping, run, object, startVars, timeout>>

-----------------------------------------------------------------------------
(* start() and waitForStart()                                              *)

\* start(): a running thread is left alone.  A timeout of "none" is the zero
\* timeout without setBlockingStart(true).
StartCall(c, t) ==
    /\ runs < MaxRuns
    /\ Call(c, "start", t)
    /\ Goto(c, IF IsRunning THEN "idle" ELSE "start.launch")
    /\ NothingElse

\* QThread::start() on a thread that does not run.
Launch ==
    /\ thread' = "running" /\ exitRequested' = FALSE /\ cancelled' = FALSE
    /\ runs' = runs + 1
    /\ at' = "entry"
    /\ hookRuns' = 0
    /\ UNCHANGED posted

\* QThread::start() waits for the finish phase of an earlier run, and does
\* nothing if another caller launched the thread in the meantime.
StartLaunch(c) ==
    /\ thread # "finishing"
    /\ Step(c, "start.launch",
            IF timeout[c] = "none" THEN "idle" ELSE "start.wait")
    /\ IF IsRunning THEN UNCHANGED <<qthread, at, hookRuns>> ELSE Launch
    /\ UNCHANGED <<ctx, stopping, outcome, deferred, object, events>>

WaitForStartCall(c, t) ==
    /\ Call(c, "waitForStart", t)
    /\ Goto(c, "waitForStart")
    /\ NothingElse

\* _startEvent.wait(timeout), with which both methods end.
StartWait(c) ==
    /\ cpc[c] \in {"start.wait", "waitForStart"}
    /\ \/ StartEvent!WaitReturns(c) /\ Goto(c, "idle")
       \/ StartEvent!WaitBlocks(c, timeout[c]) /\ UNCHANGED cpc
       \/ StartEvent!Expire(c) /\ UNCHANGED cpc
       \/ StartEvent!WaitWakes(c) /\ Goto(c, "idle")
    /\ UNCHANGED <<qthread, at, ctx, stopping, run, object, stopVars, timeout>>

-----------------------------------------------------------------------------
(* stop(), called from a thread other than the worker                      *)

StopCall(c, t) ==
    /\ posted < MaxPosted
    /\ Call(c, "stop", t)
    /\ Goto(c, IF IsRunning THEN "stop.race" ELSE "stop.join")
    /\ NothingElse

\* The thread was not running: join what may be left of the finish phase.
StopJoin(c) == thread = "none" /\ Step(c, "stop.join", "stop.true") /\ NothingElse

\* _stopping.testAndSetOrdered(0, 1) by the caller: the winner posts the hook,
\* the loser trusts the worker to be shutting itself down, and only quits it.
StopRace(c) ==
    /\ IF stopping = 0
       THEN stopping' = 1 /\ Step(c, "stop.race", "stop.post") /\ UNCHANGED qthread
       ELSE Quit /\ Step(c, "stop.race", "stop.wait") /\ UNCHANGED stopping
    /\ UNCHANGED <<at, ctx, run, object, events>>

\* invokeMethod() queues the hook with the quit behind it.
StopPost(c) ==
    /\ Step(c, "stop.post", "stop.wait")
    /\ posted' = posted + 1
    /\ UNCHANGED <<thread, exitRequested, cancelled, runs>>
    /\ UNCHANGED <<at, ctx, stopping, run, object, events>>

StopWait(c) == AwaitStopEvent(c, "stop.wait", "stop.true", "stop.terminate")

StopTerminate(c) ==
    /\ Step(c, "stop.terminate", "stop.false")
    /\ Terminate
    /\ UNCHANGED <<at, ctx, stopping, run, object, events>>

\* A version of StopReset that leaves the flag to the worker.
StopResetNot(c) ==
    /\ Step(c, "stop.true", "idle") \/ Step(c, "stop.false", "idle")
    /\ NothingElse

\* A version of StopReset that counts the flag down.
StopResetByOne(c) ==
    /\ Step(c, "stop.true", "idle") \/ Step(c, "stop.false", "idle")
    /\ stopping' = stopping - 1
    /\ UNCHANGED <<qthread, at, ctx, run, object, events>>

\* _stopping is cleared and stop() returns true or false.
StopReset(c) ==
    /\ Step(c, "stop.true", "idle") \/ Step(c, "stop.false", "idle")
    /\ stopping' = 0
    /\ UNCHANGED <<qthread, at, ctx, run, object, events>>

-----------------------------------------------------------------------------
(* waitForCompletion() and abort()                                         *)

CompletionCall(c, t) ==
    /\ Call(c, "waitForCompletion", t)
    /\ Goto(c, "waitForCompletion")
    /\ NothingElse

CompletionWait(c) ==
    AwaitStopEvent(c, "waitForCompletion", "completion.true", "idle")

\* waitForCompletion() returns true.
CompletionTells(c) == Step(c, "completion.true", "idle") /\ NothingElse

AbortCall(c) ==
    /\ Call(c, "abort", "none")
    /\ Goto(c, "abort.join")
    /\ Terminate
    /\ UNCHANGED <<at, ctx, stopping, run, object, events>>

AbortJoin(c) == thread = "none" /\ Step(c, "abort.join", "idle") /\ NothingElse

-----------------------------------------------------------------------------
(* ~AbstractThreadClass().  C++ asks of the owner that nobody else uses    *)
(* the object from here on.                                                *)

DestroyCall(c) ==
    /\ \A other \in Callers \ {c} : cpc[other] = "idle"
    /\ Call(c, "destroy", "timed")
    /\ alive' = "destroying"
    /\ Goto(c, IF IsRunning THEN "dtor.quit" ELSE "dtor.quietJoin")
    /\ UNCHANGED <<qthread, at, ctx, stopping, run, registered, abandoned, events>>

DestroyQuit(c) ==
    /\ Step(c, "dtor.quit", "dtor.join")
    /\ Quit
    /\ UNCHANGED <<at, ctx, stopping, run, object, events>>

\* _thread.wait(500): joined, or the 500 ms are over.
DestroyJoin(c) ==
    /\ Step(c, "dtor.join", "dtor.wait")
    /\ abandoned' = (thread # "none")
    /\ UNCHANGED <<qthread, at, ctx, stopping, run, registered, alive, events>>

\* _stopEvent.wait(500): its result only changes what is logged.
DestroyWait(c) == AwaitStopEvent(c, "dtor.wait", "dtor.members", "dtor.members")

\* A version of DestroyQuietJoin that believes isRunning().
DestroyWithoutJoin(c) == Step(c, "dtor.quietJoin", "dtor.set") /\ NothingElse

\* The thread was not running: join what may be left of the finish phase.
DestroyQuietJoin(c) ==
    thread = "none" /\ Step(c, "dtor.quietJoin", "dtor.set") /\ NothingElse

DestroySet(c) ==
    /\ Step(c, "dtor.set", "dtor.members")
    /\ StopEvent!Set
    /\ UNCHANGED <<qthread, at, ctx, stopping, run, object, startVars>>

\* The members go, _stopEvent first and the QThread last.  With a worker still
\* there, ~QThread aborts the process: nothing moves after this step.
DestroyMembers(c) ==
    /\ Step(c, "dtor.members", "idle")
    /\ alive' = "destroyed"
    /\ UNCHANGED <<qthread, at, ctx, stopping, run, registered, abandoned, events>>

-----------------------------------------------------------------------------
(* The worker.                                                             *)

WorkerStep(from, to) == at = from /\ at' = to

\* onThreadStarted(): into the registry; started() and threadStarted() follow ...
Register ==
    /\ WorkerStep("entry", "started")
    /\ registered' = TRUE
    /\ UNCHANGED <<qthread, ctx, stopping, run, abandoned, alive, events, callerVars>>

\* ... and when they have returned, the announcement.
SignalStarted ==
    /\ WorkerStep("started", "exec")
    /\ StartEvent!Set
    /\ UNCHANGED <<qthread, ctx, stopping, run, object, stopVars, callerVars>>

\* exec() enters the loop unless the thread was asked to quit before.
EnterLoop ==
    /\ ~exitRequested
    /\ WorkerStep("exec", "loop")
    /\ UNCHANGED <<qthread, ctx, stopping, run, object, events, callerVars>>

\* A version of FinishAndStop without the test of _stopping.
FinishAndStopAgain(result) ==
    /\ at \in {"started", "loop"}
    /\ stopping' = 1
    /\ outcome' = result
    /\ ctx' = IF at = "loop" THEN "slot" ELSE "started"
    /\ at' = "hook"
    /\ UNCHANGED <<qthread, hookRuns, deferred, object, events, callerVars>>

\* finishAndStop() from threadStarted() or from a slot.  The first completion
\* wins: a call that finds _stopping set returns without an effect.
FinishAndStop(result) ==
    /\ at \in {"started", "loop"}
    /\ stopping = 0
    /\ stopping' = 1
    /\ outcome' = result
    /\ ctx' = IF at = "loop" THEN "slot" ELSE "started"
    /\ at' = "hook"
    /\ UNCHANGED <<qthread, hookRuns, deferred, object, events, callerVars>>

\* The loop delivers a queued invokeThreadAboutToFinishAndQuit(), which it may
\* still do after it was asked to quit.
TakePosted ==
    /\ posted > 0
    /\ posted' = posted - 1
    /\ WorkerStep("loop", "hook")
    /\ ctx' = "slot"
    /\ UNCHANGED <<thread, exitRequested, cancelled, runs>>
    /\ UNCHANGED <<stopping, run, object, events, callerVars>>

\* stop() called from a slot of the worker itself.
SelfStopCall ==
    /\ SelfStop
    /\ WorkerStep("loop", "hook")
    /\ ctx' = "stop"
    /\ stopping' = 1
    /\ UNCHANGED <<qthread, run, object, events, callerVars>>

\* invokeThreadAboutToFinish(): the hook, which may call deleteLater() ...
AboutToFinish ==
    /\ WorkerStep("hook", "drain")
    /\ hookRuns' = IF hookRuns < 2 THEN hookRuns + 1 ELSE hookRuns
    /\ deferred' = TRUE
    /\ UNCHANGED <<qthread, ctx, stopping, outcome, object, events, callerVars>>

\* A version of Drain that leaves the deletions to the event loop.
DrainNot ==
    /\ WorkerStep("drain", "quit")
    /\ UNCHANGED <<qthread, ctx, stopping, run, object, events, callerVars>>

\* ... and sendPostedEvents(DeferredDelete).
Drain ==
    /\ WorkerStep("drain", "quit")
    /\ deferred' = FALSE
    /\ UNCHANGED <<qthread, ctx, stopping, outcome, hookRuns, object, events, callerVars>>

\* Back to where the hook was called from.
ReturnFromHook ==
    /\ at = "quit"
    /\ at' = [started |-> "started", slot |-> "loop", stop |-> "selfWait"][ctx]
    /\ UNCHANGED <<ctx, stopping, run, object, events, callerVars>>

\* A version of QuitAfterHook that relies on somebody else to quit.
QuitNotAfterHook == ReturnFromHook /\ UNCHANGED qthread

\* _thread.quit() follows the hook in every caller of it.
QuitAfterHook == ReturnFromHook /\ Quit

\* stop() on the worker waits for the event that only the worker's own finish
\* phase sets; a timeout terminates the calling thread itself.
SelfWait(kind) ==
    /\ at = "selfWait"
    /\ \/ StopEvent!WaitReturns(Worker) /\ at' = "selfReset" /\ UNCHANGED qthread
       \/ StopEvent!WaitBlocks(Worker, kind) /\ UNCHANGED <<qthread, at>>
       \/ StopEvent!Expire(Worker) /\ UNCHANGED <<qthread, at>>
       \/ /\ StopEvent!WaitWakes(Worker)
          /\ at' = "selfReset"
          /\ IF StopEvent!Granted(Worker) THEN UNCHANGED qthread ELSE Terminate
    /\ UNCHANGED <<ctx, stopping, run, object, startVars, callerVars>>

SelfReset ==
    /\ WorkerStep("selfReset", "loop")
    /\ stopping' = 0
    /\ UNCHANGED <<qthread, ctx, run, object, events, callerVars>>

\* The worker leaves its code for the finish phase: exec() acts on quit(), or
\* terminate() takes effect in a slot.  A cancellation in the middle of a wait
\* on _stopEvent is left out.
Leave ==
    /\ \/ exitRequested /\ at \in {"exec", "loop"}
       \/ cancelled /\ at \in {"exec", "loop", "selfReset"}
       \/ cancelled /\ at \in {"hook", "drain", "quit"} /\ ctx # "started"
    /\ at' = "finished"
    /\ thread' = "finishing"
    /\ UNCHANGED <<exitRequested, posted, cancelled, runs>>
    /\ UNCHANGED <<ctx, stopping, run, object, events, callerVars>>

\* A version of ThreadFinished that announces the end before threadFinished().
SignalTooEarly ==
    /\ WorkerStep("finished", "signal")
    /\ StopEvent!Set
    /\ UNCHANGED <<qthread, ctx, stopping, run, object, startVars, callerVars>>

\* onThreadFinished(): threadFinished() of the subclass ...
ThreadFinished ==
    /\ WorkerStep("finished", "signal")
    /\ UNCHANGED <<qthread, ctx, stopping, run, object, events, callerVars>>

\* ... the announcement ...
SignalFinished ==
    /\ WorkerStep("signal", "clear")
    /\ StopEvent!Set
    /\ UNCHANGED <<qthread, ctx, stopping, run, object, startVars, callerVars>>

\* ... finished() to the listeners, and _stopping cleared ...
ClearStopping ==
    /\ WorkerStep("clear", "unregister")
    /\ stopping' = 0
    /\ UNCHANGED <<qthread, ctx, run, object, events, callerVars>>

\* ... and out of the counter and the registry.
Unregister ==
    /\ WorkerStep("unregister", "ending")
    /\ registered' = FALSE
    /\ UNCHANGED <<qthread, ctx, stopping, run, abandoned, alive, events, callerVars>>

\* The QThread deletes what deleteLater() left, and wakes those who join it.
End ==
    /\ WorkerStep("ending", "off")
    /\ thread' = "none"
    /\ deferred' = FALSE
    /\ UNCHANGED <<exitRequested, posted, cancelled, runs, outcome, hookRuns>>
    /\ UNCHANGED <<ctx, stopping, object, events, callerVars>>

-----------------------------------------------------------------------------
BeginCall(c) ==
    \/ \E t \in Timeouts : StartCall(c, t)
    \/ \E t \in Timeouts \ {"none"} :
           StopCall(c, t) \/ WaitForStartCall(c, t) \/ CompletionCall(c, t)
    \/ AbortCall(c)
    \/ DestroyCall(c)

InCall(c) ==
    \/ StartLaunch(c) \/ StartWait(c)
    \/ StopJoin(c) \/ StopRace(c) \/ StopPost(c) \/ StopWait(c)
    \/ StopTerminate(c) \/ StopReset(c)
    \/ CompletionWait(c) \/ CompletionTells(c)
    \/ AbortJoin(c)
    \/ DestroyQuit(c) \/ DestroyJoin(c) \/ DestroyWait(c)
    \/ DestroyQuietJoin(c) \/ DestroySet(c) \/ DestroyMembers(c)

\* What the worker's user code may decide to do, and what it cannot avoid.
WorkerDecides ==
    \/ \E result \in Results : FinishAndStop(result)
    \/ SelfStopCall

WorkerRuns ==
    \/ Register \/ SignalStarted \/ EnterLoop
    \/ TakePosted \/ AboutToFinish \/ Drain \/ QuitAfterHook
    \/ \E kind \in {"timed", "untimed"} : SelfWait(kind)
    \/ SelfReset
    \/ Leave
    \/ ThreadFinished \/ SignalFinished \/ ClearStopping \/ Unregister \/ End

Next ==
    \/ \E c \in Callers : BeginCall(c) \/ InCall(c)
    \/ alive # "destroyed" /\ WorkerDecides
    \/ alive # "destroyed" /\ WorkerRuns

Spec == Init /\ [][Next]_vars

\* The scheduler runs every thread that can run, and the hooks return.  Nobody
\* is obliged to call anything, and the worker is not obliged to finish.
FairSpec ==
    /\ Spec
    /\ WF_vars(alive # "destroyed" /\ WorkerRuns)
    /\ \A c \in Callers : WF_vars(InCall(c))

=============================================================================
