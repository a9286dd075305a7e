------------------------ MODULE ThreadLifecycleProofs -----------------------
(* Proofs about the lifecycle of AbstractThreadClass, for any set of       *)
(* callers, any number of runs and any bound.                              *)
EXTENDS ThreadLifecycle, TLAPS

\* The parts of a wait() on either event, and what all parts of the two events
\* keep: they stay well-formed.
StopWaitStep(t) ==
    \/ StopEvent!WaitReturns(t)
    \/ \E kind \in {"none", "timed", "untimed"} : StopEvent!WaitBlocks(t, kind)
    \/ StopEvent!Expire(t)
    \/ StopEvent!WaitWakes(t)

StartWaitStep(t) ==
    \/ StartEvent!WaitReturns(t)
    \/ \E kind \in {"none", "timed", "untimed"} : StartEvent!WaitBlocks(t, kind)
    \/ StartEvent!Expire(t)
    \/ StartEvent!WaitWakes(t)

\* A step of _stopEvent by any thread keeps the types of its variables.
LEMMA StopEventTyped ==
    ASSUME StopEvent!TypeOK,
           \/ StopEvent!Set
           \/ \E t \in Callers \cup {Worker} : StopWaitStep(t)
           \/ UNCHANGED stopVars
    PROVE  StopEvent!TypeOK'
<1> USE DEF StopEvent!TypeOK, StopEvent!Kinds
<1>1. CASE StopEvent!Set
  BY <1>1 DEF StopEvent!Set, StopEvent!NotifiedOutcomes, StopEvent!NotifyAll,
              StopEvent!Blocked
<1>2. ASSUME NEW t \in Callers \cup {Worker}, StopWaitStep(t)
      PROVE  StopEvent!TypeOK'
  <2>1. CASE StopEvent!WaitReturns(t)
    BY <2>1 DEF StopEvent!WaitReturns
  <2>2. ASSUME NEW kind \in {"none", "timed", "untimed"},
               StopEvent!WaitBlocks(t, kind)
        PROVE  StopEvent!TypeOK'
    BY <2>2 DEF StopEvent!WaitBlocks
  <2>3. CASE StopEvent!Expire(t)
    BY <2>3 DEF StopEvent!Expire
  <2>4. CASE StopEvent!WaitWakes(t)
    BY <2>4 DEF StopEvent!WaitWakes
  <2> QED
    BY <1>2, <2>1, <2>2, <2>3, <2>4 DEF StopWaitStep
<1>3. CASE UNCHANGED stopVars
  BY <1>3 DEF stopVars
<1> QED
  BY <1>1, <1>2, <1>3

\* A step of _startEvent by any thread keeps the types of its variables.
LEMMA StartEventTyped ==
    ASSUME StartEvent!TypeOK,
           \/ StartEvent!Set
           \/ \E t \in Callers : StartWaitStep(t)
           \/ UNCHANGED startVars
    PROVE  StartEvent!TypeOK'
<1> USE DEF StartEvent!TypeOK, StartEvent!Kinds
<1>1. CASE StartEvent!Set
  BY <1>1 DEF StartEvent!Set, StartEvent!NotifiedOutcomes,
              StartEvent!NotifyAll, StartEvent!Blocked
<1>2. ASSUME NEW t \in Callers, StartWaitStep(t) PROVE StartEvent!TypeOK'
  <2>1. CASE StartEvent!WaitReturns(t)
    BY <2>1 DEF StartEvent!WaitReturns
  <2>2. ASSUME NEW kind \in {"none", "timed", "untimed"},
               StartEvent!WaitBlocks(t, kind)
        PROVE  StartEvent!TypeOK'
    BY <2>2 DEF StartEvent!WaitBlocks
  <2>3. CASE StartEvent!Expire(t)
    BY <2>3 DEF StartEvent!Expire
  <2>4. CASE StartEvent!WaitWakes(t)
    BY <2>4 DEF StartEvent!WaitWakes
  <2> QED
    BY <1>2, <2>1, <2>2, <2>3, <2>4 DEF StartWaitStep
<1>3. CASE UNCHANGED startVars
  BY <1>3 DEF startVars
<1> QED
  BY <1>1, <1>2, <1>3

-----------------------------------------------------------------------------
\* Every step of a method called from outside keeps every type.
LEMMA CallerStepTyped ==
    ASSUME TypeOK, NEW c \in Callers, BeginCall(c) \/ InCall(c)
    PROVE  TypeOK'
<1> USE CallersAssumption DEF TypeOK, Goto, Step, NothingElse, qthread, run,
        object, events, callerVars, CallerLocations
<1>1. ASSUME NEW t \in Timeouts,
             StartCall(c, t) \/ StopCall(c, t) \/ WaitForStartCall(c, t)
               \/ CompletionCall(c, t)
      PROVE  TypeOK'
  BY <1>1, StopEventTyped, StartEventTyped
     DEF StartCall, StopCall, WaitForStartCall, CompletionCall, Call
<1>2. CASE AbortCall(c) \/ StopTerminate(c)
  <2>1. cancelled' \in BOOLEAN
    BY <1>2 DEF AbortCall, StopTerminate, Terminate, IsRunning
  <2> QED
    BY <1>2, <2>1, StopEventTyped, StartEventTyped
       DEF AbortCall, Call, StopTerminate, Terminate
<1>3. CASE DestroyCall(c) \/ DestroyMembers(c)
  BY <1>3, StopEventTyped, StartEventTyped DEF DestroyCall, Call, DestroyMembers
<1>4. CASE StartLaunch(c)
  <2>1. exitRequested' \in BOOLEAN /\ cancelled' \in BOOLEAN
    BY <1>4 DEF StartLaunch, Launch
  <2> QED
    BY <1>4, <2>1, StopEventTyped, StartEventTyped
       DEF StartLaunch, Launch, WorkerLocations, Launched
<1>5. CASE StartWait(c)
  <2>1. StartWaitStep(c)
    BY <1>5 DEF StartWait, StartWaitStep
  <2>2. UNCHANGED stopVars /\ cpc' \in [Callers -> CallerLocations]
    BY <1>5 DEF StartWait
  <2> QED
    BY <1>5, <2>1, <2>2, StopEventTyped, StartEventTyped DEF StartWait
<1>6. ASSUME NEW loc, NEW granted \in CallerLocations,
             NEW expired \in CallerLocations,
             AwaitStopEvent(c, loc, granted, expired)
      PROVE  TypeOK'
  <2>1. StopWaitStep(c)
    BY <1>6 DEF AwaitStopEvent, StopWaitStep
  <2>2. UNCHANGED startVars /\ cpc' \in [Callers -> CallerLocations]
    BY <1>6 DEF AwaitStopEvent
  <2> QED
    BY <1>6, <2>1, <2>2, StopEventTyped, StartEventTyped DEF AwaitStopEvent
<1>7. CASE StopWait(c) \/ CompletionWait(c) \/ DestroyWait(c)
  BY <1>7, <1>6 DEF StopWait, CompletionWait, DestroyWait
<1>8. CASE StopJoin(c) \/ AbortJoin(c) \/ CompletionTells(c) \/ DestroyQuietJoin(c)
  BY <1>8, StopEventTyped, StartEventTyped
     DEF StopJoin, AbortJoin, CompletionTells, DestroyQuietJoin
<1>9. CASE StopRace(c) \/ DestroyQuit(c)
  <2>1. exitRequested' \in BOOLEAN
    BY <1>9 DEF StopRace, DestroyQuit, Quit
  <2> QED
    BY <1>9, <2>1, StopEventTyped, StartEventTyped DEF StopRace, DestroyQuit, Quit
<1>10. CASE StopPost(c) \/ StopReset(c)
  BY <1>10, StopEventTyped, StartEventTyped DEF StopPost, StopReset
<1>11. CASE DestroyJoin(c)
  <2>1. abandoned' \in BOOLEAN
    BY <1>11 DEF DestroyJoin
  <2> QED
    BY <1>11, <2>1, StopEventTyped, StartEventTyped DEF DestroyJoin
<1>12. CASE DestroySet(c)
  BY <1>12, StopEventTyped, StartEventTyped DEF DestroySet
<1> QED
  BY <1>1, <1>2, <1>3, <1>4, <1>5, <1>7, <1>8, <1>9, <1>10, <1>11, <1>12
     DEF BeginCall, InCall

\* Every step of the worker keeps every type.
LEMMA WorkerStepTyped ==
    ASSUME TypeOK, WorkerDecides \/ WorkerRuns
    PROVE  TypeOK'
<1> USE CallersAssumption DEF TypeOK, WorkerStep, qthread, run, object, events,
        callerVars, WorkerLocations, Launched, WindingDown, WoundDown
<1>1. CASE WorkerDecides
  BY <1>1, StopEventTyped, StartEventTyped
     DEF WorkerDecides, FinishAndStop, SelfStopCall
<1>2. CASE Register
  <2>1. registered' \in BOOLEAN
    BY <1>2 DEF Register
  <2> QED
    BY <1>2, <2>1, StopEventTyped, StartEventTyped DEF Register
<1>3. CASE SignalStarted \/ SignalFinished
  BY <1>3, StopEventTyped, StartEventTyped DEF SignalStarted, SignalFinished
<1>4. CASE EnterLoop \/ TakePosted
  BY <1>4, StopEventTyped, StartEventTyped DEF EnterLoop, TakePosted
<1>5. CASE AboutToFinish
  <2>1. deferred' \in BOOLEAN
    BY <1>5 DEF AboutToFinish
  <2> QED
    BY <1>5, <2>1, StopEventTyped, StartEventTyped DEF AboutToFinish
<1>6. CASE Drain
  <2>1. deferred' \in BOOLEAN
    BY <1>6 DEF Drain
  <2> QED
    BY <1>6, <2>1, StopEventTyped, StartEventTyped DEF Drain
<1>7. CASE QuitAfterHook
  <2>1. exitRequested' \in BOOLEAN
    BY <1>7 DEF QuitAfterHook, Quit
  <2> QED
    BY <1>7, <2>1, StopEventTyped, StartEventTyped
       DEF QuitAfterHook, ReturnFromHook, Quit
<1>8. ASSUME NEW kind \in {"timed", "untimed"}, SelfWait(kind) PROVE TypeOK'
  <2>1. StopWaitStep(Worker)
    BY <1>8 DEF SelfWait, StopWaitStep
  <2>2. cancelled' \in BOOLEAN
    BY <1>8 DEF SelfWait, Terminate, IsRunning
  <2> QED
    BY <1>8, <2>1, <2>2, StopEventTyped, StartEventTyped DEF SelfWait, Terminate
<1>9. CASE SelfReset \/ Leave \/ ThreadFinished \/ ClearStopping
  BY <1>9, StopEventTyped, StartEventTyped
     DEF SelfReset, Leave, ThreadFinished, ClearStopping
<1>10. CASE Unregister
  <2>1. registered' \in BOOLEAN
    BY <1>10 DEF Unregister
  <2> QED
    BY <1>10, <2>1, StopEventTyped, StartEventTyped DEF Unregister
<1>11. CASE End
  <2>1. deferred' \in BOOLEAN
    BY <1>11 DEF End
  <2> QED
    BY <1>11, <2>1, StopEventTyped, StartEventTyped DEF End
<1> QED
  BY <1>1, <1>2, <1>3, <1>4, <1>5, <1>6, <1>7, <1>8, <1>9, <1>10, <1>11
     DEF WorkerRuns

\* Every variable keeps its type, in the actions of callers and worker alike.
THEOREM TypeCorrect == Spec => []TypeOK
<1>1. Init => TypeOK
  <2> SUFFICES ASSUME Init PROVE TypeOK
    OBVIOUS
  <2>1. StartEvent!TypeOK
    BY DEF Init, StartEvent!Init, StartEvent!TypeOK
  <2>2. StopEvent!TypeOK
    BY DEF Init, StopEvent!Init, StopEvent!TypeOK
  <2>3. /\ exitRequested \in BOOLEAN /\ cancelled \in BOOLEAN
        /\ deferred \in BOOLEAN /\ registered \in BOOLEAN
        /\ abandoned \in BOOLEAN
    BY DEF Init
  <2>4. /\ thread = "none" /\ posted = 0 /\ runs = 0 /\ at = "off"
        /\ ctx = "slot" /\ stopping = 0 /\ outcome = "none" /\ hookRuns = 0
        /\ alive = "alive"
        /\ cpc = [c \in Callers |-> "idle"]
        /\ timeout = [c \in Callers |-> "none"]
    BY DEF Init
  <2> QED
    BY <2>1, <2>2, <2>3, <2>4 DEF TypeOK, WorkerLocations, CallerLocations
<1>2. TypeOK /\ [Next]_vars => TypeOK'
  <2> SUFFICES ASSUME TypeOK, [Next]_vars PROVE TypeOK'
    OBVIOUS
  <2>1. CASE UNCHANGED vars
    BY <2>1, StopEventTyped, StartEventTyped
       DEF vars, TypeOK, qthread, run, object, events, callerVars
  <2> QED
    BY <2>1, CallerStepTyped, WorkerStepTyped DEF Next
<1> QED
  BY <1>1, <1>2, PTL DEF Spec

-----------------------------------------------------------------------------
\* What the steps of callers and of the worker do to the thread, to the places
\* of the worker and of the callers, and to the life of the object.
LEMMA CallerMoves ==
    ASSUME TypeOK, NEW c \in Callers, BeginCall(c) \/ InCall(c)
    PROVE  \/ StartLaunch(c)
           \/ UNCHANGED <<at, thread, runs, registered>>
<1> USE DEF NothingElse, qthread, object
<1>1. CASE BeginCall(c)
  BY <1>1 DEF BeginCall, StartCall, StopCall, WaitForStartCall, CompletionCall,
              AbortCall, DestroyCall, Terminate
<1>2. CASE InCall(c)
  <2>1. CASE StartWait(c) \/ StopJoin(c) \/ StopRace(c) \/ StopPost(c)
             \/ StopTerminate(c) \/ StopReset(c) \/ AbortJoin(c) \/ CompletionTells(c)
    BY <2>1 DEF StartWait, StopJoin, StopRace, StopPost, StopTerminate,
                StopReset, AbortJoin, CompletionTells, Quit, Terminate
  <2>2. CASE StopWait(c) \/ CompletionWait(c) \/ DestroyWait(c)
    BY <2>2 DEF StopWait, CompletionWait, DestroyWait, AwaitStopEvent
  <2>3. CASE DestroyQuit(c) \/ DestroyJoin(c) \/ DestroyQuietJoin(c)
             \/ DestroySet(c) \/ DestroyMembers(c)
    BY <2>3 DEF DestroyQuit, DestroyJoin, DestroyQuietJoin, DestroySet,
                DestroyMembers, Quit
  <2> QED
    BY <1>2, <2>1, <2>2, <2>3 DEF InCall
<1> QED
  BY <1>1, <1>2

\* The worker goes from location to location as its code does, and moves none of
\* the callers.
LEMMA WorkerMoves ==
    ASSUME TypeOK, WorkerDecides \/ WorkerRuns
    PROVE  /\ UNCHANGED <<runs, cpc, timeout, alive, abandoned>>
           /\ \/ at \in Launched /\ at' \in Launched /\ UNCHANGED thread
              \/ at \in Launched /\ at' = "finished" /\ thread' = "finishing"
              \/ at = "finished" /\ at' = "signal" /\ UNCHANGED thread
              \/ at = "signal" /\ at' = "clear" /\ UNCHANGED thread
              \/ at = "clear" /\ at' = "unregister" /\ UNCHANGED thread
              \/ at = "unregister" /\ at' = "ending" /\ UNCHANGED thread
              \/ at = "ending" /\ at' = "off" /\ thread' = "none"
<1> USE DEF WorkerStep, Launched, qthread, object, callerVars
<1>1. CASE WorkerDecides
  BY <1>1 DEF WorkerDecides, FinishAndStop, SelfStopCall
<1>2. CASE WorkerRuns
  <2>1. CASE Register \/ SignalStarted \/ EnterLoop \/ TakePosted
             \/ AboutToFinish \/ Drain
    BY <2>1 DEF Register, SignalStarted, EnterLoop, TakePosted, AboutToFinish,
                Drain
  <2>2. CASE QuitAfterHook \/ \E kind \in {"timed", "untimed"} : SelfWait(kind)
    BY <2>2 DEF QuitAfterHook, ReturnFromHook, Quit, SelfWait, Terminate, TypeOK
  <2>3. CASE SelfReset \/ Leave
    BY <2>3 DEF SelfReset, Leave
  <2>4. CASE ThreadFinished \/ SignalFinished \/ ClearStopping \/ Unregister \/ End
    BY <2>4 DEF ThreadFinished, SignalFinished, ClearStopping, Unregister, End
  <2> QED
    BY <1>2, <2>1, <2>2, <2>3, <2>4 DEF WorkerRuns
<1> QED
  BY <1>1, <1>2

\* The state of the QThread and the place of the worker stay in agreement.
LEMMA ThreadMatchesWorkerStep ==
    ASSUME TypeOK, ThreadMatchesWorker, [Next]_vars
    PROVE  ThreadMatchesWorker'
<1> USE DEF ThreadMatchesWorker, Launched
<1>1. ASSUME NEW c \in Callers, StartLaunch(c) PROVE ThreadMatchesWorker'
  <2>1. CASE IsRunning
    BY <1>1, <2>1 DEF StartLaunch, qthread
  <2>2. CASE ~IsRunning
    BY <1>1, <2>2 DEF StartLaunch, Launch, TypeOK
  <2> QED
    BY <2>1, <2>2
<1>2. ASSUME NEW c \in Callers, BeginCall(c) \/ InCall(c)
      PROVE  ThreadMatchesWorker'
  BY <1>1, <1>2, CallerMoves
<1>3. CASE WorkerDecides \/ WorkerRuns
  BY <1>3, WorkerMoves
<1>4. CASE UNCHANGED vars
  BY <1>4 DEF vars, qthread
<1> QED
  BY <1>2, <1>3, <1>4 DEF Next

\* How a caller enters and leaves the destructor.
LEMMA CallerPlaces ==
    ASSUME TypeOK, NEW c \in Callers, BeginCall(c) \/ InCall(c)
    PROVE  /\ cpc' = [cpc EXCEPT ![c] = cpc'[c]]
           /\ cpc[c] = "idle" =>
                 /\ alive = "alive"
                 /\ \/ cpc'[c] \notin Dtor /\ alive' = alive
                    \/ DestroyCall(c)
           /\ cpc[c] \in Dtor =>
                 \/ cpc'[c] \in Dtor /\ alive' = alive
                 \/ cpc[c] = "dtor.members" /\ cpc'[c] = "idle"
                    /\ alive' = "destroyed"
           /\ cpc[c] \notin Dtor \cup {"idle"} =>
                 cpc'[c] \notin Dtor /\ alive' = alive
<1> USE DEF TypeOK, NothingElse, object, Goto, Step, Dtor, CallerLocations
<1>1. CASE BeginCall(c)
  BY <1>1 DEF BeginCall, Call, StartCall, StopCall, WaitForStartCall,
              CompletionCall, AbortCall, DestroyCall
<1>2. CASE InCall(c)
  <2>1. CASE StartLaunch(c) \/ StartWait(c)
    BY <2>1 DEF StartLaunch, StartWait
  <2>2. CASE StopJoin(c) \/ StopRace(c) \/ StopPost(c) \/ StopTerminate(c)
             \/ StopReset(c) \/ AbortJoin(c) \/ CompletionTells(c)
    BY <2>2 DEF StopJoin, StopRace, StopPost, StopTerminate, StopReset, AbortJoin,
                CompletionTells
  <2>3. CASE StopWait(c) \/ CompletionWait(c) \/ DestroyWait(c)
    BY <2>3 DEF StopWait, CompletionWait, DestroyWait, AwaitStopEvent
  <2>4. CASE DestroyQuit(c) \/ DestroyJoin(c) \/ DestroyQuietJoin(c)
             \/ DestroySet(c) \/ DestroyMembers(c)
    BY <2>4 DEF DestroyQuit, DestroyJoin, DestroyQuietJoin, DestroySet,
                DestroyMembers
  <2> QED
    BY <1>2, <2>1, <2>2, <2>3, <2>4 DEF InCall
<1> QED
  BY <1>1, <1>2

\* While an object is destroyed nobody else gets into it.
LEMMA DestroyerIsAloneStep ==
    ASSUME TypeOK, DestroyerIsAlone, [Next]_vars
    PROVE  DestroyerIsAlone'
<1>1. ASSUME NEW c \in Callers, BeginCall(c) \/ InCall(c)
      PROVE  DestroyerIsAlone'
  <2>1. CASE DestroyCall(c)
    BY <2>1 DEF DestroyCall, Call, Goto, TypeOK, DestroyerIsAlone, Dtor
  <2>2. /\ \A d \in Callers \ {c} : cpc'[d] = cpc[d]
        /\ "idle" \notin Dtor
    BY <1>1, CallerPlaces DEF TypeOK, Dtor
  <2>3. CASE cpc[c] = "idle" /\ ~DestroyCall(c)
    BY <1>1, <2>2, <2>3, CallerPlaces DEF DestroyerIsAlone
  <2>4. CASE cpc[c] \in Dtor
    BY <1>1, <2>2, <2>4, CallerPlaces DEF DestroyerIsAlone
  <2>5. CASE cpc[c] \notin Dtor \cup {"idle"}
    BY <1>1, <2>2, <2>5, CallerPlaces DEF DestroyerIsAlone
  <2> QED
    BY <2>1, <2>3, <2>4, <2>5
<1>2. CASE WorkerDecides \/ WorkerRuns
  BY <1>2, WorkerMoves DEF DestroyerIsAlone
<1>3. CASE UNCHANGED vars
  BY <1>3 DEF vars, callerVars, object, DestroyerIsAlone
<1> QED
  BY <1>1, <1>2, <1>3 DEF Next

\* A destructor past its join stays right about the end of the thread.
LEMMA DestroyerJoinedStep ==
    ASSUME TypeOK, ThreadMatchesWorker, DestroyerIsAlone, DestroyerJoined,
           [Next]_vars
    PROVE  DestroyerJoined'
<1> DEFINE Past(d) == \/ cpc[d] = "dtor.set"
                      \/ cpc[d] \in {"dtor.wait", "dtor.members"} /\ ~abandoned
<1>1. ASSUME NEW c \in Callers, StartLaunch(c) PROVE DestroyerJoined'
  <2>1. cpc[c] = "start.launch" /\ cpc' = [cpc EXCEPT ![c] = cpc'[c]]
        /\ cpc'[c] \in {"idle", "start.wait"} /\ UNCHANGED <<alive, abandoned>>
    BY <1>1 DEF StartLaunch, Step, Goto, TypeOK, object
  <2>2. alive = "alive" /\ \A d \in Callers : cpc[d] \notin Dtor
    BY <2>1 DEF DestroyerIsAlone, Dtor
  <2> QED
    BY <2>1, <2>2 DEF DestroyerJoined, Dtor, TypeOK
<1>2. ASSUME NEW c \in Callers, BeginCall(c) \/ InCall(c), ~StartLaunch(c)
      PROVE  DestroyerJoined'
  <2>1. thread' = thread /\ \A d \in Callers \ {c} : cpc'[d] = cpc[d]
    BY <1>2, CallerMoves, CallerPlaces DEF TypeOK
  <2>2. CASE DestroyJoin(c)
    <3>1. cpc'[c] = "dtor.wait" /\ alive' = alive /\ abandoned' = (thread # "none")
      BY <2>2 DEF DestroyJoin, Step, Goto, TypeOK
    <3>2. alive = "destroying" /\ \A d \in Callers \ {c} : cpc[d] \notin Dtor
      BY <2>2 DEF DestroyJoin, Step, DestroyerIsAlone, Dtor
    <3> QED
      BY <2>1, <3>1, <3>2 DEF DestroyerJoined, Dtor
  <2>3. CASE ~DestroyJoin(c)
    <3>1. abandoned' = abandoned
      BY <1>2, <2>3
         DEF BeginCall, InCall, StartCall, StopCall, WaitForStartCall,
             CompletionCall, AbortCall, DestroyCall, NothingElse, object,
             StartWait, StopJoin, StopRace, StopPost, StopWait, StopTerminate,
             StopReset, CompletionWait, AbortJoin, CompletionTells, AwaitStopEvent, DestroyQuit,
             DestroyWait, DestroyQuietJoin, DestroySet, DestroyMembers
    <3>2. Past(c)' => Past(c) \/ thread = "none"
      BY <1>2, <2>3, <3>1
         DEF BeginCall, InCall, Call, StartCall, StopCall, WaitForStartCall,
             CompletionCall, AbortCall, DestroyCall, NothingElse, object, Step,
             StartWait, StopJoin, StopRace, StopPost, StopWait, StopTerminate,
             StopReset, CompletionWait, AbortJoin, CompletionTells, AwaitStopEvent, DestroyQuit,
             DestroyWait, DestroyQuietJoin, DestroySet, DestroyMembers, Goto,
             TypeOK
    <3>3. alive' = "destroyed" => alive = "destroyed" \/ cpc[c] = "dtor.members"
      BY <1>2, CallerPlaces DEF DestroyCall, TypeOK, CallerLocations
    <3> QED
      BY <2>1, <3>1, <3>2, <3>3 DEF DestroyerJoined
  <2> QED
    BY <2>2, <2>3
<1>3. CASE WorkerDecides \/ WorkerRuns
  <2>1. thread = "none" => FALSE
    BY <1>3, WorkerMoves DEF ThreadMatchesWorker, Launched
  <2> QED
    BY <1>3, <2>1, WorkerMoves DEF DestroyerJoined
<1>4. CASE UNCHANGED vars
  BY <1>4 DEF vars, callerVars, object, qthread, DestroyerJoined
<1> QED
  BY <1>1, <1>2, <1>3, <1>4 DEF Next

\* The registry follows the run from its first handler to its last.
LEMMA RegisteredStep ==
    ASSUME TypeOK, ThreadMatchesWorker, RegisteredWhileAtWork, [Next]_vars
    PROVE  RegisteredWhileAtWork'
<1> USE DEF RegisteredWhileAtWork
<1>1. ASSUME NEW c \in Callers, BeginCall(c) \/ InCall(c)
      PROVE  RegisteredWhileAtWork'
  <2>1. CASE StartLaunch(c)
    <3>1. registered' = registered /\ (at' = at \/ thread = "none")
      BY <2>1 DEF StartLaunch, object, qthread, IsRunning, TypeOK
    <3> QED
      BY <3>1 DEF ThreadMatchesWorker
  <2> QED
    BY <1>1, <2>1, CallerMoves
<1>2. CASE WorkerDecides \/ WorkerRuns
  <2>1. CASE Register \/ Unregister
    BY <2>1 DEF Register, Unregister, WorkerStep
  <2>2. CASE ~Register /\ ~Unregister
    <3>1. registered' = registered
      BY <1>2, <2>2
         DEF WorkerDecides, WorkerRuns, FinishAndStop, SelfStopCall, object,
             SignalStarted, EnterLoop, TakePosted, AboutToFinish, Drain,
             QuitAfterHook, ReturnFromHook, SelfWait, SelfReset, Leave,
             ThreadFinished, SignalFinished, ClearStopping, End
    <3>2. at' \notin {"off", "entry"} \/ at = "ending"
      BY <1>2, <2>2
         DEF WorkerDecides, WorkerRuns, FinishAndStop, SelfStopCall, WorkerStep,
             SignalStarted, EnterLoop, TakePosted, AboutToFinish, Drain,
             QuitAfterHook, ReturnFromHook, SelfWait, SelfReset, Leave,
             ThreadFinished, SignalFinished, ClearStopping, End, TypeOK
    <3>3. at' # "ending"
      BY <1>2, <2>2
         DEF WorkerDecides, WorkerRuns, FinishAndStop, SelfStopCall, WorkerStep,
             SignalStarted, EnterLoop, TakePosted, AboutToFinish, Drain,
             QuitAfterHook, ReturnFromHook, SelfWait, SelfReset, Leave,
             ThreadFinished, SignalFinished, ClearStopping, End, TypeOK
    <3> QED
      BY <3>1, <3>2, <3>3
  <2> QED
    BY <2>1, <2>2
<1>3. CASE UNCHANGED vars
  BY <1>3 DEF vars, object
<1> QED
  BY <1>1, <1>2, <1>3 DEF Next

\* _stopEvent is only raised by the worker's announcement and by the destructor.
LEMMA SignalRaised ==
    ASSUME TypeOK, [Next]_vars, EndSignalled', ~EndSignalled
    PROVE  \/ SignalFinished
           \/ \E c \in Callers : DestroySet(c)
<1> USE DEF EndSignalled
<1>1. ASSUME UNCHANGED stopVars PROVE FALSE
  BY <1>1 DEF stopVars
<1>2. ASSUME NEW t \in Callers \cup {Worker}, StopWaitStep(t) PROVE FALSE
  BY <1>2 DEF StopWaitStep, TypeOK, StopEvent!TypeOK, StopEvent!WaitReturns,
              StopEvent!WaitBlocks, StopEvent!Expire, StopEvent!WaitWakes
<1>3. ASSUME NEW c \in Callers, BeginCall(c) \/ InCall(c), ~DestroySet(c)
      PROVE  FALSE
  <2>1. CASE StopWait(c) \/ CompletionWait(c) \/ DestroyWait(c)
    <3>1. StopWaitStep(c)
      BY <2>1, <1>3 DEF StopWait, CompletionWait, DestroyWait, AwaitStopEvent,
                        StopWaitStep, TypeOK
    <3> QED
      BY <3>1, <1>2
  <2>2. CASE ~(StopWait(c) \/ CompletionWait(c) \/ DestroyWait(c))
    <3>1. UNCHANGED stopVars
      BY <1>3, <2>2
         DEF BeginCall, InCall, StartCall, StopCall, WaitForStartCall,
             CompletionCall, AbortCall, DestroyCall, NothingElse, events,
             StartLaunch, StartWait, StopJoin, StopRace, StopPost,
             StopTerminate, StopReset, AbortJoin, CompletionTells, DestroyQuit, DestroyJoin,
             DestroyQuietJoin, DestroyMembers
    <3> QED
      BY <3>1, <1>1
  <2> QED
    BY <2>1, <2>2
<1>4. ASSUME WorkerDecides \/ WorkerRuns, ~SignalFinished PROVE FALSE
  <2>1. CASE \E kind \in {"timed", "untimed"} : SelfWait(kind)
    <3>1. StopWaitStep(Worker)
      BY <2>1 DEF SelfWait, StopWaitStep
    <3> QED
      BY <3>1, <1>2
  <2>2. CASE ~\E kind \in {"timed", "untimed"} : SelfWait(kind)
    <3>1. UNCHANGED stopVars
      BY <1>4, <2>2
         DEF WorkerDecides, WorkerRuns, FinishAndStop, SelfStopCall, events,
             Register, SignalStarted, EnterLoop, TakePosted, AboutToFinish,
             Drain, QuitAfterHook, ReturnFromHook, SelfReset, Leave,
             ThreadFinished, ClearStopping, Unregister, End
    <3> QED
      BY <3>1, <1>1
  <2> QED
    BY <2>1, <2>2
<1>5. CASE UNCHANGED vars
  BY <1>5, <1>1 DEF vars, events
<1> QED
  BY <1>3, <1>4, <1>5 DEF Next

\* In the first run of an object _stopEvent is raised only when the worker has
\* wound down, and stays true of it.
LEMMA SignalStep ==
    ASSUME TypeOK, ThreadMatchesWorker, DestroyerIsAlone, DestroyerJoined,
           NoSignalBeforeUse, SignalMeansWoundDown, TypeOK', [Next]_vars
    PROVE  NoSignalBeforeUse' /\ SignalMeansWoundDown'
<1> USE DEF NoSignalBeforeUse, SignalMeansWoundDown
<1>1. CASE SignalFinished
  <2>1. at = "signal" /\ at' = "clear" /\ runs' = runs
    BY <1>1 DEF SignalFinished, WorkerStep, qthread
  <2> QED
    BY <2>1 DEF ThreadMatchesWorker, WoundDown
<1>2. ASSUME NEW c \in Callers, DestroySet(c)
      PROVE  NoSignalBeforeUse' /\ SignalMeansWoundDown'
  <2>1. cpc[c] = "dtor.set" /\ at' = at /\ runs' = runs /\ alive' = alive
    BY <1>2 DEF DestroySet, Step, qthread, object
  <2>2. at = "off" /\ alive = "destroying"
    BY <2>1 DEF DestroyerJoined, DestroyerIsAlone, ThreadMatchesWorker, Dtor
  <2> QED
    BY <2>1, <2>2
<1>3. ASSUME EndSignalled' => EndSignalled
      PROVE  NoSignalBeforeUse' /\ SignalMeansWoundDown'
  <2>1. ASSUME NEW c \in Callers, StartLaunch(c)
        PROVE  NoSignalBeforeUse' /\ SignalMeansWoundDown'
    <3>1. alive = "alive"
      BY <2>1 DEF StartLaunch, Step, DestroyerIsAlone, Dtor
    <3>2. UNCHANGED <<at, runs, alive>> \/ runs' = runs + 1
      BY <2>1 DEF StartLaunch, Launch, qthread, object
    <3>3. runs \in Nat /\ (runs = 0 => ~EndSignalled')
      BY <3>1, <1>3 DEF TypeOK
    <3> QED
      BY <3>1, <3>2, <3>3, <1>3
  <2>2. ASSUME NEW c \in Callers, BeginCall(c) \/ InCall(c)
        PROVE  NoSignalBeforeUse' /\ SignalMeansWoundDown'
    <3>1. alive' = "alive" => alive = "alive"
      BY <2>2, CallerPlaces DEF DestroyerIsAlone, DestroyCall
    <3> QED
      BY <2>1, <2>2, <3>1, <1>3, CallerMoves
  <2>3. CASE WorkerDecides \/ WorkerRuns
    BY <2>3, <1>3, WorkerMoves DEF WoundDown, Launched
  <2>4. CASE UNCHANGED vars
    BY <2>4, <1>3 DEF vars, qthread, object
  <2> QED
    BY <2>2, <2>3, <2>4 DEF Next
<1> QED
  BY <1>1, <1>2, <1>3, SignalRaised

\* Whoever sets _stopping leaves somebody behind who will clear it.
LEMMA StoppingStep ==
    ASSUME TypeOK, StoppingHasAnEnd, [Next]_vars
    PROVE  StoppingHasAnEnd'
<1> USE DEF StoppingHasAnEnd
<1>1. ASSUME NEW c \in Callers, StartLaunch(c) PROVE StoppingHasAnEnd'
  <2>1. stopping' = stopping /\ (at' = at \/ at' = "entry")
    BY <1>1 DEF StartLaunch, Launch
  <2>2. \A d \in Callers : cpc[d] \in InStop => cpc'[d] = cpc[d]
    BY <1>1 DEF StartLaunch, Step, Goto, InStop, TypeOK
  <2> QED
    BY <2>1, <2>2 DEF Launched
<1>2. ASSUME NEW c \in Callers, BeginCall(c) \/ InCall(c), ~StartLaunch(c)
      PROVE  StoppingHasAnEnd'
  <2>1. at' = at /\ \A d \in Callers \ {c} : cpc'[d] = cpc[d]
    BY <1>2, CallerMoves, CallerPlaces DEF TypeOK
  <2>2. CASE StopReset(c)
    BY <2>2 DEF StopReset
  <2>3. CASE StopRace(c)
    BY <2>3 DEF StopRace, Step, Goto, InStop, TypeOK
  <2>4. CASE ~StopReset(c) /\ ~StopRace(c)
    <3>1. stopping' = stopping
      BY <1>2, <2>4
         DEF BeginCall, InCall, StartCall, StopCall, WaitForStartCall,
             CompletionCall, AbortCall, DestroyCall, NothingElse, StartWait,
             StopJoin, StopPost, StopWait, StopTerminate, CompletionWait,
             AbortJoin, CompletionTells, AwaitStopEvent, DestroyQuit, DestroyJoin, DestroyWait,
             DestroyQuietJoin, DestroySet, DestroyMembers
    <3>2. cpc[c] \in InStop => cpc'[c] \in InStop
      BY <1>2, <2>4
         DEF BeginCall, InCall, Call, StartCall, StopCall, WaitForStartCall,
             CompletionCall, AbortCall, DestroyCall, NothingElse, StartWait,
             StopJoin, StopPost, StopWait, StopTerminate, CompletionWait,
             AbortJoin, CompletionTells, AwaitStopEvent, DestroyQuit, DestroyJoin, DestroyWait,
             DestroyQuietJoin, DestroySet, DestroyMembers, Step, Goto, InStop,
             TypeOK
    <3> QED
      BY <2>1, <3>1, <3>2
  <2> QED
    BY <2>2, <2>3, <2>4
<1>3. CASE WorkerDecides \/ WorkerRuns
  <2>1. cpc' = cpc
    BY <1>3, WorkerMoves
  <2>2. CASE at \in Launched \cup WindingDown
    BY <2>2, <1>3, WorkerMoves DEF Launched, WindingDown
  <2>3. CASE at = "clear"
    BY <2>3, <1>3
       DEF WorkerDecides, WorkerRuns, FinishAndStop, SelfStopCall, WorkerStep,
           Register, SignalStarted, EnterLoop, TakePosted, AboutToFinish, Drain,
           QuitAfterHook, ReturnFromHook, SelfWait, SelfReset, Leave,
           ThreadFinished, SignalFinished, ClearStopping, Unregister, End
  <2>4. CASE at \notin Launched \cup WindingDown \cup {"clear"}
    <3>1. stopping' = stopping
      BY <2>4, <1>3
         DEF WorkerDecides, WorkerRuns, FinishAndStop, SelfStopCall, WorkerStep,
             Register, SignalStarted, EnterLoop, TakePosted, AboutToFinish,
             Drain, QuitAfterHook, ReturnFromHook, SelfWait, SelfReset, Leave,
             ThreadFinished, SignalFinished, ClearStopping, Unregister, End,
             Launched, WindingDown
    <3> QED
      BY <2>1, <2>4, <3>1
  <2> QED
    BY <2>2, <2>3, <2>4
<1>4. CASE UNCHANGED vars
  BY <1>4 DEF vars, callerVars
<1> QED
  BY <1>1, <1>2, <1>3, <1>4 DEF Next

-----------------------------------------------------------------------------
\* The inductive invariant that the theorems below read their properties from.
LifecycleInv ==
    /\ TypeOK
    /\ ThreadMatchesWorker
    /\ DestroyerIsAlone
    /\ DestroyerJoined
    /\ RegisteredWhileAtWork
    /\ NoSignalBeforeUse
    /\ SignalMeansWoundDown
    /\ StoppingHasAnEnd

\* The conjunction is an invariant: each part is preserved with the help of the
\* parts before it.
LEMMA LifecycleInvariant == Spec => []LifecycleInv
<1>1. Init /\ TypeOK => LifecycleInv
  <2> SUFFICES ASSUME Init, TypeOK PROVE LifecycleInv
    OBVIOUS
  <2>1. ~EndSignalled
    BY DEF Init, StopEvent!Init, EndSignalled
  <2>2. ThreadMatchesWorker /\ DestroyerIsAlone /\ StoppingHasAnEnd
    BY DEF Init, ThreadMatchesWorker, DestroyerIsAlone, StoppingHasAnEnd, Dtor,
           Launched
  <2>3. DestroyerJoined /\ RegisteredWhileAtWork
    BY DEF Init, DestroyerJoined, RegisteredWhileAtWork
  <2> QED
    BY <2>1, <2>2, <2>3
       DEF LifecycleInv, NoSignalBeforeUse, SignalMeansWoundDown
<1>2. LifecycleInv /\ TypeOK' /\ [Next]_vars => LifecycleInv'
  BY ThreadMatchesWorkerStep, DestroyerIsAloneStep, DestroyerJoinedStep,
     RegisteredStep, SignalStep, StoppingStep DEF LifecycleInv
<1> QED
  BY <1>1, <1>2, TypeCorrect, PTL DEF Spec

\* For any number of callers, in any order of their calls: in the first run of
\* an object a signal of _stopEvent means that threadFinished() is over.
THEOREM SignalMeansWoundDownHolds == Spec => []SignalMeansWoundDown
<1>1. LifecycleInv => SignalMeansWoundDown
  BY DEF LifecycleInv
<1> QED
  BY <1>1, LifecycleInvariant, PTL

\* A destructor that did not give up its join leaves no worker behind, whoever
\* else was using the object before it was called.
THEOREM MembersOutliveWorkerHolds == Spec => []MembersOutliveWorker
<1>1. LifecycleInv => MembersOutliveWorker
  BY DEF LifecycleInv, DestroyerJoined, ThreadMatchesWorker,
         RegisteredWhileAtWork, MembersOutliveWorker
<1> QED
  BY <1>1, LifecycleInvariant, PTL

\* When the thread has ended and every call has returned, _stopping is clear and
\* the registry has forgotten the object, whichever of them came last.
THEOREM RunLeavesNothingHolds == Spec => []RunLeavesNothing
<1>1. LifecycleInv => RunLeavesNothing
  BY DEF LifecycleInv, ThreadMatchesWorker, RegisteredWhileAtWork,
         StoppingHasAnEnd, RunLeavesNothing, InStop, Launched, WindingDown
<1> QED
  BY <1>1, LifecycleInvariant, PTL

-----------------------------------------------------------------------------
(* The contract with the users                                             *)

\* A wait for _stopEvent is granted, in the first run, past threadFinished() only.
LEMMA GrantMeansWoundDown ==
    ASSUME LifecycleInv, runs <= 1, NEW t \in Callers \cup {Worker},
           stopIsset \/ stopWaiter[t] = "notified"
    PROVE  at \in WoundDown \cup {"off"}
  BY DEF LifecycleInv, SignalMeansWoundDown, EndSignalled

\* What the steps of a caller have to do with the contract: three kinds touch the
\* life of the object, three what a caller is told, and the rest neither.
LEMMA CallerKinds ==
    ASSUME TypeOK, NEW c \in Callers, BeginCall(c) \/ InCall(c)
    PROVE  \/ StartLaunch(c) \/ DestroyCall(c) \/ DestroyMembers(c)
           \/ StopJoin(c) \/ StopReset(c)
           \/ StopWait(c) /\ cpc'[c] = "stop.true"
           \/ /\ UNCHANGED <<at, thread, runs, alive>>
              /\ cpc' = [cpc EXCEPT ![c] = cpc'[c]]
              /\ cpc[c] # "stop.true" /\ cpc'[c] # "stop.true"
              /\ abandoned' = abandoned \/ DestroyJoin(c)
<1> USE DEF NothingElse, qthread, object, TypeOK, Goto, Step
<1>1. CASE BeginCall(c)
  BY <1>1 DEF BeginCall, Call, StartCall, StopCall, WaitForStartCall, CompletionCall,
              AbortCall, Terminate
<1>2. CASE InCall(c)
  <2>1. CASE StartWait(c) \/ AbortJoin(c) \/ CompletionTells(c)
    BY <2>1 DEF StartWait, AbortJoin, CompletionTells
  <2>2. CASE StopRace(c) \/ StopPost(c) \/ StopTerminate(c)
    BY <2>2 DEF StopRace, StopPost, StopTerminate, Quit, Terminate
  <2>3. CASE StopWait(c) \/ CompletionWait(c) \/ DestroyWait(c)
    BY <2>3 DEF StopWait, CompletionWait, DestroyWait, AwaitStopEvent
  <2>4. CASE DestroyQuit(c) \/ DestroyJoin(c) \/ DestroyQuietJoin(c) \/ DestroySet(c)
    BY <2>4 DEF DestroyQuit, DestroyJoin, DestroyQuietJoin, DestroySet, Quit
  <2> QED
    BY <1>2, <2>1, <2>2, <2>3, <2>4 DEF InCall
<1> QED
  BY <1>1, <1>2

\* Every step of a caller is a step of the contract, or none of its business.
LEMMA CallerKeepsContract ==
    ASSUME LifecycleInv, NEW c \in Callers, BeginCall(c) \/ InCall(c)
    PROVE  WorkersLife!Next \/ UNCHANGED WorkersLife!vars
<1>1. TypeOK /\ ThreadMatchesWorker /\ DestroyerIsAlone /\ DestroyerJoined
  BY DEF LifecycleInv
<1>2. cpc \in [Callers -> CallerLocations] /\ runs \in Nat
  BY <1>1 DEF TypeOK
<1>3. CASE StartLaunch(c)
  <2>1. /\ cpc[c] = "start.launch" /\ cpc' = [cpc EXCEPT ![c] = cpc'[c]]
        /\ cpc'[c] # "stop.true" /\ alive' = alive
    BY <1>2, <1>3 DEF StartLaunch, Step, Goto, object
  <2>2. alive = "alive" /\ alive' = "alive"
    BY <1>1, <2>1 DEF DestroyerIsAlone, Dtor
  <2>3. ToldStopped' = ToldStopped
    BY <1>2, <2>1 DEF ToldStopped
  <2>4. ~Wrecked /\ ~Wrecked'
    BY <2>2 DEF Wrecked
  <2>5. CASE IsRunning
    <3>1. UNCHANGED <<at, runs>>
      BY <1>3, <2>5 DEF StartLaunch, qthread
    <3> QED
      BY <2>2, <2>3, <2>4, <3>1
         DEF WorkersLife!vars, ObjectLife, ObjectRuns, LifeOfThread
  <2>6. CASE ~IsRunning
    <3>1. at = "off" /\ at' = "entry" /\ runs' = runs + 1
      BY <1>1, <1>3, <2>6
         DEF StartLaunch, Launch, IsRunning, TypeOK, ThreadMatchesWorker
    <3>2. ObjectLife \in {"new", "ended"} /\ ObjectRuns = runs
      BY <2>2, <2>4, <3>1
         DEF ObjectLife, ObjectRuns, LifeOfThread, Launched, WindingDown
    <3>3. ObjectLife' = "running" /\ ObjectRuns' = runs + 1
      BY <1>2, <2>2, <2>4, <3>1 DEF ObjectLife, ObjectRuns, LifeOfThread, Launched
    <3>4. WorkersLife!Start
      BY <2>2, <2>3, <2>4, <3>2, <3>3 DEF WorkersLife!Start
    <3> QED
      BY <3>4 DEF WorkersLife!Next
  <2> QED
    BY <2>5, <2>6
<1>4. CASE DestroyCall(c)
  <2>1. /\ alive = "alive" /\ alive' = "destroying"
        /\ \A d \in Callers : cpc[d] = "idle"
        /\ cpc'[c] # "stop.true" /\ cpc' = [cpc EXCEPT ![c] = cpc'[c]]
        /\ UNCHANGED <<at, runs, thread, abandoned>>
    BY <1>2, <1>4 DEF DestroyCall, Call, Goto, qthread
  <2>2. ToldStopped = {} /\ ToldStopped' = {}
    BY <1>2, <2>1 DEF ToldStopped
  <2>3. /\ ~Wrecked /\ ~Wrecked' /\ ObjectLife # "free"
        /\ ObjectLife' = ObjectLife /\ ObjectRuns' = ObjectRuns
    BY <2>1 DEF Wrecked, ObjectLife, ObjectRuns, LifeOfThread
  <2>4. WorkersLife!Doom
    BY <2>1, <2>2, <2>3 DEF WorkersLife!Doom
  <2> QED
    BY <2>4 DEF WorkersLife!Next
<1>5. CASE DestroyMembers(c)
  <2>1. /\ cpc[c] = "dtor.members" /\ cpc' = [cpc EXCEPT ![c] = "idle"]
        /\ alive' = "destroyed"
        /\ UNCHANGED <<at, runs, thread, abandoned>>
    BY <1>2, <1>5 DEF DestroyMembers, Step, Goto, qthread
  <2>2. alive = "destroying" /\ ~Wrecked /\ ToldStopped' = ToldStopped
    BY <1>1, <1>2, <2>1 DEF DestroyerIsAlone, Dtor, Wrecked, ToldStopped
  <2>3. ObjectLife = LifeOfThread /\ ObjectRuns = runs
    BY <2>2 DEF ObjectLife, ObjectRuns, LifeOfThread
  <2>4. CASE abandoned /\ thread # "none"
    <3>1. at # "off" /\ runs # 0 /\ at \in WorkerLocations
      BY <1>1, <2>4 DEF ThreadMatchesWorker, TypeOK
    <3>2. ObjectLife \in {"running", "winding", "ending"}
      BY <2>3, <3>1 DEF LifeOfThread, WorkerLocations, WoundDown
    <3>3. Wrecked' /\ ObjectLife' = "wrecked" /\ ObjectRuns' = runs
      BY <2>1, <2>4 DEF Wrecked, ObjectLife, ObjectRuns
    <3>4. WorkersLife!Wreck
      BY <2>2, <2>3, <3>2, <3>3 DEF WorkersLife!Wreck
    <3> QED
      BY <3>4 DEF WorkersLife!Next
  <2>5. CASE ~(abandoned /\ thread # "none")
    <3>1. thread = "none"
      BY <1>1, <2>1, <2>5 DEF DestroyerJoined
    <3>2. ObjectLife \in {"new", "ended"}
      BY <1>1, <2>3, <3>1 DEF ThreadMatchesWorker, LifeOfThread, Launched, WindingDown
    <3>3. ~Wrecked' /\ ObjectLife' = "free" /\ ObjectRuns' = 0
      BY <2>1, <3>1 DEF Wrecked, ObjectLife, ObjectRuns
    <3>4. WorkersLife!Delete
      BY <2>1, <2>2, <3>2, <3>3 DEF WorkersLife!Delete
    <3> QED
      BY <3>4 DEF WorkersLife!Next
  <2> QED
    BY <2>4, <2>5
<1>6. CASE \/ StopJoin(c) \/ StopReset(c)
           \/ StopWait(c) /\ cpc'[c] = "stop.true"
  <2>1. /\ cpc[c] \notin Dtor \cup {"idle"}
        /\ cpc' = [cpc EXCEPT ![c] = cpc'[c]]
        /\ UNCHANGED <<at, runs, thread, abandoned, alive>>
    BY <1>2, <1>6 DEF StopJoin, StopWait, StopReset, AwaitStopEvent, Step, Goto,
                      NothingElse, qthread, object, Dtor
  <2>2. alive = "alive" /\ alive' = "alive"
    BY <1>1, <2>1 DEF DestroyerIsAlone
  <2>3. /\ ~Wrecked /\ ~Wrecked' /\ ObjectLife = LifeOfThread /\ ObjectRuns = runs
        /\ ObjectLife' = ObjectLife /\ ObjectRuns' = ObjectRuns
    BY <2>1, <2>2 DEF Wrecked, ObjectLife, ObjectRuns, LifeOfThread
  <2>4. CASE \/ StopJoin(c)
             \/ StopWait(c) /\ cpc'[c] = "stop.true"
    <3>1. cpc'[c] = "stop.true"
      BY <1>2, <2>4 DEF StopJoin, Step, Goto
    <3>2. ToldStopped' = ToldStopped \cup {c}
      BY <1>2, <2>1, <3>1 DEF ToldStopped
    <3>3. runs <= 1 => at \in WoundDown \cup {"off"}
      <4>1. CASE StopJoin(c)
        BY <1>1, <4>1 DEF StopJoin, ThreadMatchesWorker
      <4>2. CASE StopWait(c) /\ cpc'[c] = "stop.true"
        <5>1. cpc[c] = "stop.wait"
          BY <4>2 DEF StopWait, AwaitStopEvent
        <5>2. \/ StopEvent!WaitReturns(c)
              \/ StopEvent!WaitWakes(c) /\ StopEvent!Granted(c)
          BY <1>2, <4>2, <5>1 DEF StopWait, AwaitStopEvent, Goto
        <5> QED
          BY <5>2, GrantMeansWoundDown DEF StopEvent!WaitReturns, StopEvent!Granted
      <4> QED
        BY <2>4, <4>1, <4>2
    <3>4. runs <= 1 => ObjectLife # "running"
      BY <2>3, <3>3 DEF LifeOfThread, Launched, WindingDown, WoundDown
    <3>5. WorkersLife!TellStopped(c)
      BY <2>2, <2>3, <3>2, <3>4 DEF WorkersLife!TellStopped
    <3> QED
      BY <3>5 DEF WorkersLife!Next
  <2>5. CASE StopReset(c)
    <3>1. cpc'[c] = "idle"
      BY <1>2, <2>5 DEF StopReset, Step, Goto
    <3>2. ToldStopped' = ToldStopped \ {c}
      BY <1>2, <2>1, <3>1 DEF ToldStopped
    <3>3. WorkersLife!Forget(c)
      BY <2>2, <2>3, <3>2 DEF WorkersLife!Forget
    <3> QED
      BY <3>3 DEF WorkersLife!Next
  <2> QED
    BY <1>6, <2>4, <2>5
<1>7. CASE /\ UNCHANGED <<at, thread, runs, alive>>
           /\ cpc' = [cpc EXCEPT ![c] = cpc'[c]]
           /\ cpc[c] # "stop.true" /\ cpc'[c] # "stop.true"
           /\ abandoned' = abandoned \/ DestroyJoin(c)
  <2>1. ToldStopped' = ToldStopped
    BY <1>2, <1>7 DEF ToldStopped
  <2>2. Wrecked' = Wrecked
    <3>1. CASE DestroyJoin(c)
      <4>1. alive = "destroying"
        BY <1>1, <3>1 DEF DestroyJoin, Step, DestroyerIsAlone, Dtor
      <4> QED
        BY <1>7, <4>1 DEF Wrecked
    <3> QED
      BY <1>7, <3>1 DEF Wrecked
  <2>3. ObjectLife' = ObjectLife /\ ObjectRuns' = ObjectRuns
    BY <1>7, <2>2 DEF ObjectLife, ObjectRuns, LifeOfThread
  <2> QED
    BY <1>7, <2>1, <2>2, <2>3 DEF WorkersLife!vars
<1> QED
  BY <1>1, <1>3, <1>4, <1>5, <1>6, <1>7, CallerKinds

\* Every step of the worker is a step of the contract, or none of its business.
LEMMA WorkerKeepsContract ==
    ASSUME LifecycleInv, alive # "destroyed", WorkerDecides \/ WorkerRuns
    PROVE  WorkersLife!Next \/ UNCHANGED WorkersLife!vars
<1>1. TypeOK /\ ThreadMatchesWorker
  BY DEF LifecycleInv
<1>2. at # "off" /\ runs # 0 /\ runs' # 0
  BY <1>1, WorkerMoves DEF ThreadMatchesWorker, Launched
<1>3. UNCHANGED <<runs, alive, cpc>> /\ ~Wrecked /\ ~Wrecked'
  BY <1>1, WorkerMoves DEF Wrecked
<1>4. /\ ToldStopped' = ToldStopped
      /\ ObjectLife = LifeOfThread /\ ObjectLife' = LifeOfThread'
      /\ ObjectRuns = runs /\ ObjectRuns' = runs
  BY <1>2, <1>3 DEF ToldStopped, ObjectLife, ObjectRuns, LifeOfThread
<1>5. CASE at = "signal" /\ at' = "clear"
  <2>1. WorkersLife!Announce
    BY <1>2, <1>3, <1>4, <1>5 DEF WorkersLife!Announce, WorkersLife!Advance,
       LifeOfThread, Launched, WindingDown
  <2> QED
    BY <2>1 DEF WorkersLife!Next
<1>6. CASE at = "clear" /\ at' = "unregister"
  <2>1. WorkersLife!EmitFinished
    BY <1>2, <1>3, <1>4, <1>6 DEF WorkersLife!EmitFinished, WorkersLife!Advance,
       LifeOfThread, Launched, WindingDown
  <2> QED
    BY <2>1 DEF WorkersLife!Next
<1>7. CASE at = "ending" /\ at' = "off"
  <2>1. WorkersLife!End
    BY <1>2, <1>3, <1>4, <1>7 DEF WorkersLife!End, WorkersLife!Advance,
       LifeOfThread, Launched, WindingDown
  <2> QED
    BY <2>1 DEF WorkersLife!Next
<1>8. CASE \/ at \in Launched /\ at' \in Launched \cup {"finished"}
           \/ at = "finished" /\ at' = "signal"
           \/ at = "unregister" /\ at' = "ending"
  <2>1. LifeOfThread' = LifeOfThread
    BY <1>2, <1>8 DEF LifeOfThread, Launched, WindingDown
  <2> QED
    BY <1>3, <1>4, <2>1 DEF WorkersLife!vars
<1> QED
  BY <1>1, <1>5, <1>6, <1>7, <1>8, WorkerMoves

\* For any callers and any number of runs, AbstractThreadClass implements the
\* contract of WorkerLife: every step maps to a step of it or a stutter.
THEOREM ImplementsWorkerLifeHolds == Spec => ImplementsWorkerLife
<1>1. Init => WorkersLife!Init
  BY DEF Init, WorkersLife!Init, ObjectLife, ObjectRuns, ToldStopped, LifeOfThread,
         Wrecked
<1>2. LifecycleInv /\ [Next]_vars => [WorkersLife!Next]_(WorkersLife!vars)
  <2> SUFFICES ASSUME LifecycleInv, [Next]_vars
               PROVE  WorkersLife!Next \/ UNCHANGED WorkersLife!vars
    OBVIOUS
  <2>1. CASE UNCHANGED vars
    BY <2>1 DEF vars, qthread, object, callerVars, WorkersLife!vars, ObjectLife,
       ObjectRuns, ToldStopped, LifeOfThread, Wrecked
  <2> QED
    BY <2>1, CallerKeepsContract, WorkerKeepsContract DEF Next
<1> QED
  BY <1>1, <1>2, LifecycleInvariant, PTL DEF Spec, ImplementsWorkerLife, WorkersLife!Spec

-----------------------------------------------------------------------------
(* The first run of an object that one thread owns                         *)

OneOwner == \A c, d \in Callers : c = d

\* Who clears _stopping while the worker is at work has cancelled the thread, and a
\* recorded result keeps _stopping set for as long.
FalseMeansCancelled ==
    \A c \in Callers :
        runs <= 1 /\ cpc[c] = "stop.false" => cancelled \/ at \notin Launched

ResetMeansCancelled == runs <= 1 /\ at = "selfReset" => cancelled

ResultGuarded ==
    runs <= 1 /\ outcome # "none" /\ ~cancelled => stopping # 0 \/ at \notin Launched

NoResultBeforeUse == runs = 0 => outcome = "none"

OwnerInv ==
    /\ LifecycleInv
    /\ StopMeansWoundDown
    /\ FalseMeansCancelled /\ ResetMeansCancelled
    /\ ResultGuarded /\ NoResultBeforeUse

\* What no caller changes but in StartLaunch, StopTerminate, StopReset and StopRace.
LEMMA OwnerMoves ==
    ASSUME TypeOK, NEW c \in Callers, BeginCall(c) \/ InCall(c)
    PROVE  /\ outcome' = outcome
           /\ ~StartLaunch(c) /\ cancelled => cancelled'
           /\ ~StopReset(c) /\ ~StopRace(c) => stopping' = stopping
           /\ cpc'[c] \in {"stop.true", "stop.false"} =>
                 StopJoin(c) \/ StopWait(c) \/ StopTerminate(c)
           /\ cpc'[c] = "completion.true" => CompletionWait(c)
<1> USE DEF NothingElse, qthread, run, TypeOK, Goto, Step
<1>1. CASE BeginCall(c)
  BY <1>1 DEF BeginCall, Call, StartCall, StopCall, WaitForStartCall, CompletionCall,
              AbortCall, DestroyCall, Terminate
<1>2. CASE InCall(c)
  <2>1. CASE StartLaunch(c) \/ StartWait(c) \/ AbortJoin(c) \/ CompletionTells(c)
    BY <2>1 DEF StartLaunch, Launch, StartWait, AbortJoin, CompletionTells
  <2>2. CASE StopJoin(c) \/ StopRace(c) \/ StopPost(c) \/ StopTerminate(c) \/ StopReset(c)
    BY <2>2 DEF StopJoin, StopRace, StopPost, StopTerminate, StopReset, Quit, Terminate
  <2>3. CASE StopWait(c) \/ CompletionWait(c) \/ DestroyWait(c)
    BY <2>3 DEF StopWait, CompletionWait, DestroyWait, AwaitStopEvent
  <2>4. CASE DestroyQuit(c) \/ DestroyJoin(c) \/ DestroyQuietJoin(c)
             \/ DestroySet(c) \/ DestroyMembers(c)
    BY <2>4 DEF DestroyQuit, DestroyJoin, DestroyQuietJoin, DestroySet, DestroyMembers, Quit
  <2> QED
    BY <1>2, <2>1, <2>2, <2>3, <2>4 DEF InCall
<1> QED
  BY <1>1, <1>2

\* A step of the owner keeps the invariant.
LEMMA OwnerStepKeeps ==
    ASSUME OneOwner, OwnerInv, LifecycleInv', NEW c \in Callers, BeginCall(c) \/ InCall(c)
    PROVE  OwnerInv'
<1>1. /\ TypeOK /\ StopMeansWoundDown /\ FalseMeansCancelled /\ ResetMeansCancelled
      /\ ResultGuarded /\ NoResultBeforeUse /\ ThreadMatchesWorker /\ runs \in Nat
      /\ LifecycleInv
  BY DEF OwnerInv, LifecycleInv, TypeOK
<1>2. \A d \in Callers : d = c
  BY DEF OneOwner
<1>3. outcome' = outcome
  BY <1>1, OwnerMoves
<1>4. CASE StartLaunch(c)
  <2>1. /\ cpc'[c] \notin {"stop.true", "stop.false", "completion.true"}
        /\ stopping' = stopping
    BY <1>1, <1>4 DEF StartLaunch, Step, Goto, TypeOK
  <2>2. StopMeansWoundDown' /\ FalseMeansCancelled'
    BY <1>2, <2>1 DEF StopMeansWoundDown, FalseMeansCancelled
  <2>3. CASE IsRunning
    <3>1. UNCHANGED <<at, cancelled, runs>>
      BY <1>4, <2>3 DEF StartLaunch, qthread
    <3> QED
      BY <1>1, <1>3, <2>1, <2>2, <3>1
         DEF OwnerInv, ResetMeansCancelled, ResultGuarded, NoResultBeforeUse
  <2>4. CASE ~IsRunning
    <3>1. runs' = runs + 1 /\ at' = "entry"
      BY <1>4, <2>4 DEF StartLaunch, Launch
    <3>2. runs' <= 1 => outcome' = "none"
      BY <1>1, <1>3, <3>1 DEF NoResultBeforeUse
    <3> QED
      BY <1>1, <2>2, <3>1, <3>2
         DEF OwnerInv, ResetMeansCancelled, ResultGuarded, NoResultBeforeUse
  <2> QED
    BY <2>3, <2>4
<1>5. CASE ~StartLaunch(c)
  <2>1. at' = at /\ thread' = thread /\ runs' = runs /\ (cancelled => cancelled')
    BY <1>1, <1>5, CallerMoves, OwnerMoves
  <2>2. NoResultBeforeUse' /\ ResetMeansCancelled'
    BY <1>1, <1>3, <2>1 DEF NoResultBeforeUse, ResetMeansCancelled
  <2>3. StopMeansWoundDown'
    <3> SUFFICES ASSUME runs <= 1, cpc'[c] \in {"stop.true", "completion.true"}
                 PROVE  at \in WoundDown \cup {"off"}
      BY <1>2, <2>1 DEF StopMeansWoundDown
    <3>1. StopJoin(c) \/ StopWait(c) \/ StopTerminate(c) \/ CompletionWait(c)
      BY <1>1, OwnerMoves
    <3>2. CASE StopJoin(c)
      BY <1>1, <3>2 DEF StopJoin, ThreadMatchesWorker
    <3>3. CASE StopWait(c)
      <4>1. cpc[c] = "stop.wait"
        BY <3>3 DEF StopWait, AwaitStopEvent
      <4>2. \/ StopEvent!WaitReturns(c)
            \/ StopEvent!WaitWakes(c) /\ StopEvent!Granted(c)
        BY <1>1, <3>3, <4>1 DEF StopWait, AwaitStopEvent, Goto, TypeOK
      <4> QED
        BY <1>1, <4>2, GrantMeansWoundDown DEF StopEvent!WaitReturns, StopEvent!Granted
    <3>4. CASE StopTerminate(c)
      BY <1>1, <3>4 DEF StopTerminate, Step, Goto, TypeOK
    <3>5. CASE CompletionWait(c)
      <4>1. cpc[c] = "waitForCompletion"
        BY <3>5 DEF CompletionWait, AwaitStopEvent
      <4>2. \/ StopEvent!WaitReturns(c)
            \/ StopEvent!WaitWakes(c) /\ StopEvent!Granted(c)
        BY <1>1, <3>5, <4>1 DEF CompletionWait, AwaitStopEvent, Goto, TypeOK
      <4> QED
        BY <1>1, <4>2, GrantMeansWoundDown DEF StopEvent!WaitReturns, StopEvent!Granted
    <3> QED
      BY <3>1, <3>2, <3>3, <3>4, <3>5
  <2>4. FalseMeansCancelled'
    <3> SUFFICES ASSUME runs <= 1, cpc'[c] = "stop.false"
                 PROVE  cancelled' \/ at \notin Launched
      BY <1>2, <2>1 DEF FalseMeansCancelled
    <3>1. StopJoin(c) \/ StopWait(c) \/ StopTerminate(c)
      BY <1>1, OwnerMoves
    <3>2. StopTerminate(c)
      BY <1>1, <3>1 DEF StopJoin, StopWait, AwaitStopEvent, Step, Goto, TypeOK
    <3> QED
      BY <1>1, <3>2 DEF StopTerminate, Terminate, IsRunning, ThreadMatchesWorker
  <2>5. ResultGuarded'
    <3> SUFFICES ASSUME runs <= 1, outcome # "none", ~cancelled', at \in Launched
                 PROVE  stopping' # 0
      BY <1>3, <2>1 DEF ResultGuarded
    <3>1. ~cancelled /\ stopping # 0
      BY <1>1, <2>1 DEF ResultGuarded
    <3>2. ~StopReset(c)
      <4>1. cpc[c] # "stop.true"
        BY <1>1 DEF StopMeansWoundDown, WoundDown, Launched
      <4>2. cpc[c] # "stop.false"
        BY <1>1, <3>1 DEF FalseMeansCancelled
      <4> QED
        BY <4>1, <4>2 DEF StopReset, Step
    <3>3. CASE StopRace(c)
      BY <3>1, <3>3 DEF StopRace
    <3>4. CASE ~StopRace(c)
      BY <1>1, <3>1, <3>2, <3>4, OwnerMoves
    <3> QED
      BY <3>3, <3>4
  <2> QED
    BY <2>2, <2>3, <2>4, <2>5 DEF OwnerInv
<1> QED
  BY <1>4, <1>5

\* A step of the worker keeps the invariant.
LEMMA WorkerStepKeeps ==
    ASSUME OwnerInv, LifecycleInv', WorkerDecides \/ WorkerRuns
    PROVE  OwnerInv'
<1>1. /\ TypeOK /\ StopMeansWoundDown /\ FalseMeansCancelled /\ ResetMeansCancelled
      /\ ResultGuarded /\ NoResultBeforeUse /\ ThreadMatchesWorker /\ runs \in Nat
      /\ LifecycleInv
  BY DEF OwnerInv, LifecycleInv, TypeOK
<1>2. /\ UNCHANGED <<runs, cpc>>
      /\ at' \in Launched => at \in Launched
      /\ at \in WoundDown => at' \in WoundDown \cup {"off"}
      /\ at # "off"
  BY <1>1, WorkerMoves DEF Launched, WoundDown
<1>3. cancelled => cancelled'
  BY DEF WorkerDecides, WorkerRuns, FinishAndStop, SelfStopCall, qthread, Register,
         SignalStarted, EnterLoop, TakePosted, AboutToFinish, Drain, QuitAfterHook, Quit,
         SelfWait, Terminate, SelfReset, Leave, ThreadFinished, SignalFinished,
         ClearStopping, Unregister, End
<1>4. StopMeansWoundDown' /\ FalseMeansCancelled'
  BY <1>1, <1>2, <1>3 DEF StopMeansWoundDown, FalseMeansCancelled
<1>5. runs # 0
  BY <1>1, <1>2 DEF ThreadMatchesWorker
<1>6. ResetMeansCancelled'
  <2> SUFFICES ASSUME runs <= 1, at' = "selfReset"
               PROVE  cancelled'
    BY <1>2 DEF ResetMeansCancelled
  <2>1. at \in {"selfWait", "selfReset"}
    <3>1. CASE QuitAfterHook
      BY <1>1, <3>1 DEF QuitAfterHook, ReturnFromHook, TypeOK
    <3>2. CASE \E kind \in {"timed", "untimed"} : SelfWait(kind)
      BY <3>2 DEF SelfWait
    <3>3. CASE WorkerDecides \/ Register \/ SignalStarted \/ EnterLoop \/ TakePosted
                 \/ AboutToFinish \/ Drain
      BY <3>3 DEF WorkerDecides, FinishAndStop, SelfStopCall, WorkerStep, Register,
         SignalStarted, EnterLoop, TakePosted, AboutToFinish, Drain
    <3>4. CASE SelfReset \/ Leave \/ ThreadFinished \/ SignalFinished \/ ClearStopping
                 \/ Unregister \/ End
      BY <3>4 DEF WorkerStep, SelfReset, Leave, ThreadFinished, SignalFinished,
         ClearStopping, Unregister, End
    <3> QED
      BY <3>1, <3>2, <3>3, <3>4 DEF WorkerRuns
  <2>2. CASE at = "selfReset"
    BY <1>1, <1>3, <2>2 DEF ResetMeansCancelled
  <2>3. CASE at = "selfWait"
    <3>1. PICK kind \in {"timed", "untimed"} : SelfWait(kind)
      BY <2>3 DEF WorkerDecides, WorkerRuns, FinishAndStop, SelfStopCall, WorkerStep,
           Register, SignalStarted, EnterLoop, TakePosted, AboutToFinish, Drain,
           QuitAfterHook, ReturnFromHook, SelfReset, Leave, ThreadFinished,
           SignalFinished, ClearStopping, Unregister, End
    <3>2. ~stopIsset /\ stopWaiter[Worker] # "notified"
      BY <1>1, <2>3, GrantMeansWoundDown DEF WoundDown
    <3>3. Terminate /\ IsRunning
      BY <1>1, <2>3, <3>1, <3>2 DEF SelfWait, StopEvent!WaitReturns, StopEvent!Granted,
         ThreadMatchesWorker, IsRunning, Launched
    <3> QED
      BY <3>3 DEF Terminate
  <2> QED
    BY <2>1, <2>2, <2>3
<1>7. ResultGuarded'
  <2> SUFFICES ASSUME runs <= 1, outcome' # "none", ~cancelled', at' \in Launched
               PROVE  stopping' # 0
    BY <1>2 DEF ResultGuarded
  <2>1. at \in Launched /\ ~cancelled /\ at # "selfReset"
    BY <1>1, <1>2, <1>3 DEF ResetMeansCancelled
  <2>2. CASE \E result \in Results : FinishAndStop(result)
    BY <2>2 DEF FinishAndStop
  <2>3. CASE SelfStopCall
    BY <2>3 DEF SelfStopCall
  <2>4. CASE WorkerRuns
    <3>1. stopping' = stopping /\ outcome' = outcome
      BY <2>1, <2>4
         DEF WorkerRuns, WorkerStep, run, Register, SignalStarted, EnterLoop, TakePosted,
             AboutToFinish, Drain, QuitAfterHook, ReturnFromHook, SelfWait, SelfReset,
             Leave, ThreadFinished, SignalFinished, ClearStopping, Unregister, End,
             Launched
    <3> QED
      BY <1>1, <2>1, <3>1 DEF ResultGuarded
  <2> QED
    BY <2>2, <2>3, <2>4 DEF WorkerDecides
<1>8. NoResultBeforeUse'
  BY <1>2, <1>5 DEF NoResultBeforeUse
<1> QED
  BY <1>4, <1>6, <1>7, <1>8 DEF OwnerInv

LEMMA OwnerInvariant == ASSUME OneOwner PROVE Spec => []OwnerInv
<1>1. Init /\ LifecycleInv => OwnerInv
  <2> SUFFICES ASSUME Init, LifecycleInv
               PROVE  OwnerInv
    OBVIOUS
  <2>1. StopMeansWoundDown /\ FalseMeansCancelled
    BY DEF Init, StopMeansWoundDown, FalseMeansCancelled
  <2>2. ResetMeansCancelled /\ ResultGuarded /\ NoResultBeforeUse
    BY DEF Init, ResetMeansCancelled, ResultGuarded, NoResultBeforeUse
  <2> QED
    BY <2>1, <2>2 DEF OwnerInv
<1>2. OwnerInv /\ LifecycleInv' /\ [Next]_vars => OwnerInv'
  <2> SUFFICES ASSUME OwnerInv, LifecycleInv', [Next]_vars
               PROVE  OwnerInv'
    OBVIOUS
  <2>1. CASE UNCHANGED vars
    BY <2>1 DEF vars, qthread, run, callerVars, OwnerInv, StopMeansWoundDown,
       FalseMeansCancelled, ResetMeansCancelled, ResultGuarded, NoResultBeforeUse
  <2> QED
    BY <2>1, OwnerStepKeeps, WorkerStepKeeps DEF Next
<1> QED
  BY <1>1, <1>2, LifecycleInvariant, PTL DEF Spec

\* For an object that one thread owns: stop() and waitForCompletion() that are about to
\* return true in the first run do so after threadFinished().
THEOREM StopMeansWoundDownHolds == ASSUME OneOwner PROVE Spec => []StopMeansWoundDown
<1>1. OwnerInv => StopMeansWoundDown
  BY DEF OwnerInv
<1> QED
  BY <1>1, OwnerInvariant, PTL

\* For an object that one thread owns: the first run keeps the first result, unless the
\* thread was cancelled.
THEOREM FirstCompletionWinsHolds == ASSUME OneOwner PROVE Spec => FirstCompletionWins
<1>1. OwnerInv /\ [Next]_vars => [ResultKept]_vars
  <2> SUFFICES ASSUME OwnerInv, [Next]_vars
               PROVE  ResultKept \/ UNCHANGED vars
    OBVIOUS
  <2>1. TypeOK /\ ResultGuarded
    BY DEF OwnerInv, LifecycleInv
  <2>2. CASE \E result \in Results : FinishAndStop(result)
    BY <2>1, <2>2 DEF FinishAndStop, ResultGuarded, ResultKept, Launched
  <2>3. CASE SelfStopCall \/ WorkerRuns
    BY <2>3 DEF ResultKept, SelfStopCall, WorkerRuns, run, Register, SignalStarted,
       EnterLoop, TakePosted, AboutToFinish, Drain, QuitAfterHook, ReturnFromHook,
       SelfWait, SelfReset, Leave, ThreadFinished, SignalFinished, ClearStopping,
       Unregister, End
  <2>4. CASE \E c \in Callers : BeginCall(c) \/ InCall(c)
    BY <2>1, <2>4, OwnerMoves DEF ResultKept
  <2> QED
    BY <2>2, <2>3, <2>4 DEF Next, WorkerDecides
<1> QED
  BY <1>1, OwnerInvariant, PTL DEF Spec, FirstCompletionWins

-----------------------------------------------------------------------------
(* The hook of the first run                                               *)

Undisturbed == alive = "alive" /\ runs <= 1 /\ ~cancelled

\* Where the one hook of a run is: about to be posted by the owner c, posted, called,
\* or done.
Hooks(c) ==
    (IF cpc[c] = "stop.post" THEN 1 ELSE 0) + posted + (IF at = "hook" THEN 1 ELSE 0)
        + hookRuns

\* Before the first run nobody has stopped anything, and the worker never stops itself.
NothingBefore(c) ==
    runs = 0 => /\ stopping = 0 /\ posted = 0 /\ ~deferred /\ hookRuns = 0
                /\ cpc[c] \notin {"stop.race", "stop.post"}

NoSelfStop == ctx # "stop" /\ at \notin {"selfWait", "selfReset"}

\* Whoever sets _stopping makes the one hook; it is done or under way when the worker is
\* asked to quit, and its deletions are done when it is.
OneHook(c) ==
    Undisturbed =>
        /\ at \in Launched => Hooks(c) = IF stopping = 0 THEN 0 ELSE 1
        /\ at \in Launched /\ posted > 0 => cpc[c] \in {"stop.wait", "stop.terminate"}
        /\ at \in Launched /\ exitRequested => at = "hook" \/ hookRuns = 1
        /\ deferred => at = "drain"
        /\ at \in {"drain", "quit"} \cup WindingDown \cup WoundDown => hookRuns = 1
        /\ hookRuns <= 1

HookInv(c) == OwnerInv /\ NothingBefore(c) /\ NoSelfStop /\ OneHook(c)

\* What the steps of the owner leave alone.
LEMMA OwnerLeaves ==
    ASSUME TypeOK, NEW c \in Callers, BeginCall(c) \/ InCall(c)
    PROVE  /\ ctx' = ctx /\ deferred' = deferred
           /\ ~StartLaunch(c) => hookRuns' = hookRuns
           /\ ~StopPost(c) => posted' = posted
           /\ ~StartLaunch(c) /\ ~StopRace(c) /\ ~DestroyQuit(c) =>
                 exitRequested' = exitRequested
           /\ alive' = "alive" => alive = "alive"
           /\ cpc[c] = "stop.post" => StopPost(c)
           /\ cpc[c] = "stop.wait" => StopWait(c)
           /\ cpc[c] = "stop.terminate" => StopTerminate(c)
           /\ cpc'[c] = "stop.post" => StopRace(c)
           /\ cpc'[c] = "stop.race" => IsRunning
<1> USE DEF NothingElse, qthread, run, object, TypeOK, Goto, Step
<1>1. CASE BeginCall(c)
  BY <1>1 DEF BeginCall, Call, StartCall, StopCall, WaitForStartCall, CompletionCall,
              AbortCall, DestroyCall, Terminate
<1>2. CASE InCall(c)
  <2>1. CASE StartLaunch(c) \/ StartWait(c) \/ AbortJoin(c) \/ CompletionTells(c)
    BY <2>1 DEF StartLaunch, Launch, StartWait, AbortJoin, CompletionTells
  <2>2. CASE StopJoin(c) \/ StopRace(c) \/ StopPost(c) \/ StopTerminate(c) \/ StopReset(c)
    BY <2>2 DEF StopJoin, StopRace, StopPost, StopTerminate, StopReset, Quit, Terminate
  <2>3. CASE StopWait(c) \/ CompletionWait(c) \/ DestroyWait(c)
    BY <2>3 DEF StopWait, CompletionWait, DestroyWait, AwaitStopEvent
  <2>4. CASE DestroyQuit(c) \/ DestroyJoin(c) \/ DestroyQuietJoin(c)
             \/ DestroySet(c) \/ DestroyMembers(c)
    BY <2>4 DEF DestroyQuit, DestroyJoin, DestroyQuietJoin, DestroySet, DestroyMembers, Quit
  <2> QED
    BY <1>2, <2>1, <2>2, <2>3, <2>4 DEF InCall
<1> QED
  BY <1>1, <1>2

\* A step of the owner keeps count of the hook.
LEMMA OwnerKeepsHook ==
    ASSUME NEW c, Callers = {c}, HookInv(c), OwnerInv', BeginCall(c) \/ InCall(c)
    PROVE  HookInv(c)'
<1>1. /\ TypeOK /\ ThreadMatchesWorker /\ DestroyerIsAlone /\ StopMeansWoundDown
      /\ FalseMeansCancelled
      /\ NothingBefore(c) /\ NoSelfStop /\ OneHook(c) /\ c \in Callers
      /\ posted \in Nat /\ runs \in Nat /\ hookRuns \in Nat /\ stopping \in Nat
  BY DEF HookInv, OwnerInv, LifecycleInv, TypeOK
<1>2. CASE StartLaunch(c)
  <2>1. /\ UNCHANGED <<stopping, posted, deferred, ctx, alive>>
        /\ cpc[c] = "start.launch" /\ cpc'[c] \in {"idle", "start.wait"}
    BY <1>1, <1>2 DEF StartLaunch, Launch, Step, Goto, TypeOK, qthread, object
  <2>2. CASE IsRunning
    <3>1. UNCHANGED <<at, cancelled, runs, hookRuns, exitRequested>>
      BY <1>2, <2>2 DEF StartLaunch, qthread
    <3> QED
      BY <1>1, <2>1, <3>1
         DEF HookInv, NothingBefore, NoSelfStop, OneHook, Hooks, Undisturbed
  <2>3. CASE ~IsRunning
    <3>1. runs' = runs + 1 /\ at' = "entry" /\ hookRuns' = 0 /\ ~exitRequested'
      BY <1>2, <2>3 DEF StartLaunch, Launch
    <3>2. NothingBefore(c)' /\ NoSelfStop'
      BY <1>1, <2>1, <3>1 DEF NothingBefore, NoSelfStop
    <3>3. runs' <= 1 => stopping = 0 /\ posted = 0 /\ ~deferred
      BY <1>1, <3>1 DEF NothingBefore
    <3>4. OneHook(c)'
      BY <2>1, <3>1, <3>3 DEF OneHook, Hooks, Undisturbed, WindingDown, WoundDown
    <3> QED
      BY <3>2, <3>4 DEF HookInv
  <2> QED
    BY <2>2, <2>3
<1>3. CASE ~StartLaunch(c)
  <2>1. /\ UNCHANGED <<at, thread, runs, ctx, deferred, hookRuns>>
        /\ cancelled => cancelled'
        /\ alive' = "alive" => alive = "alive"
        /\ Undisturbed' => Undisturbed
    BY <1>1, <1>3, CallerMoves, OwnerMoves, OwnerLeaves DEF Undisturbed
  <2>2. NoSelfStop'
    BY <1>1, <2>1 DEF NoSelfStop
  <2>3. NothingBefore(c)'
    <3> SUFFICES ASSUME runs = 0
                 PROVE  /\ stopping' = 0 /\ posted' = 0
                        /\ cpc'[c] \notin {"stop.race", "stop.post"}
      BY <1>1, <2>1 DEF NothingBefore
    <3>1. stopping = 0 /\ posted = 0 /\ cpc[c] \notin {"stop.race", "stop.post"} /\ ~IsRunning
      BY <1>1 DEF NothingBefore, ThreadMatchesWorker, IsRunning
    <3>2. ~StopRace(c) /\ ~StopPost(c)
      BY <3>1 DEF StopRace, StopPost, Step
    <3>3. stopping' = 0
      BY <1>1, <3>1, <3>2, OwnerMoves DEF StopReset
    <3> QED
      BY <1>1, <3>1, <3>2, <3>3, OwnerLeaves
  <2>4. OneHook(c)'
    <3> SUFFICES ASSUME Undisturbed'
                 PROVE  /\ at \in Launched => Hooks(c)' = IF stopping' = 0 THEN 0 ELSE 1
                        /\ at \in Launched /\ posted' > 0 =>
                              cpc'[c] \in {"stop.wait", "stop.terminate"}
                        /\ at \in Launched /\ exitRequested' => at = "hook" \/ hookRuns = 1
      BY <1>1, <2>1 DEF OneHook
    <3>1. Undisturbed /\ ~cancelled' /\ alive = "alive" /\ runs <= 1
      BY <2>1 DEF Undisturbed
    <3>2. SUFFICES ASSUME at \in Launched
                   PROVE  /\ Hooks(c)' = IF stopping' = 0 THEN 0 ELSE 1
                          /\ posted' > 0 => cpc'[c] \in {"stop.wait", "stop.terminate"}
                          /\ exitRequested' => at = "hook" \/ hookRuns = 1
      OBVIOUS
    <3>3. /\ Hooks(c) = IF stopping = 0 THEN 0 ELSE 1
          /\ posted > 0 => cpc[c] \in {"stop.wait", "stop.terminate"}
          /\ exitRequested => at = "hook" \/ hookRuns = 1
      BY <1>1, <3>1, <3>2 DEF OneHook
    <3>4. CASE StopRace(c)
      <4>1. CASE stopping = 0
        <5>1. /\ stopping' = 1 /\ cpc[c] = "stop.race" /\ cpc'[c] = "stop.post"
              /\ UNCHANGED <<posted, exitRequested>>
          BY <1>1, <3>4, <4>1 DEF StopRace, Step, Goto, TypeOK, qthread
        <5> QED
          BY <1>1, <2>1, <3>3, <4>1, <5>1 DEF Hooks
      <4>2. CASE stopping # 0
        <5>1. /\ stopping' = stopping /\ cpc[c] = "stop.race" /\ cpc'[c] = "stop.wait"
              /\ posted' = posted
          BY <1>1, <3>4, <4>2 DEF StopRace, Step, Goto, TypeOK, Quit
        <5>2. posted = 0
          BY <1>1, <3>3, <5>1
        <5>3. at = "hook" \/ hookRuns = 1
          BY <1>1, <3>3, <4>2, <5>1, <5>2 DEF Hooks
        <5> QED
          BY <1>1, <2>1, <3>3, <4>2, <5>1, <5>3 DEF Hooks
      <4> QED
        BY <4>1, <4>2
    <3>5. CASE StopPost(c)
      <4>1. /\ posted' = posted + 1 /\ UNCHANGED <<stopping, exitRequested>>
            /\ cpc[c] = "stop.post" /\ cpc'[c] = "stop.wait"
        BY <1>1, <3>5 DEF StopPost, Step, Goto, TypeOK
      <4> QED
        BY <1>1, <2>1, <3>3, <4>1 DEF Hooks
    <3>6. CASE ~StopRace(c) /\ ~StopPost(c)
      <4>1. posted' = posted /\ cpc[c] # "stop.post" /\ cpc'[c] # "stop.post"
        BY <1>1, <3>6, OwnerLeaves
      <4>2. stopping' = stopping
        <5>1. ~StopReset(c)
          <6>1. cpc[c] # "stop.true"
            BY <1>1, <3>1, <3>2 DEF StopMeansWoundDown, WoundDown, Launched
          <6>2. cpc[c] # "stop.false"
            BY <1>1, <2>1, <3>1, <3>2 DEF FalseMeansCancelled
          <6> QED
            BY <6>1, <6>2 DEF StopReset, Step
        <5> QED
          BY <1>1, <3>6, <5>1, OwnerMoves
      <4>3. exitRequested' = exitRequested
        <5>1. ~DestroyQuit(c)
          BY <1>1, <3>1 DEF DestroyQuit, Step, DestroyerIsAlone, Dtor
        <5> QED
          BY <1>1, <1>3, <3>6, <5>1, OwnerLeaves
      <4>4. ASSUME posted > 0
            PROVE  cpc'[c] \in {"stop.wait", "stop.terminate"}
        <5>1. CASE cpc[c] = "stop.wait"
          <6>1. StopWait(c)
            BY <1>1, <5>1, OwnerLeaves
          <6>2. cpc'[c] # "stop.true"
            BY <1>1, <2>1, <3>1, <3>2 DEF OwnerInv, StopMeansWoundDown, WoundDown, Launched
          <6> QED
            BY <1>1, <5>1, <6>1, <6>2 DEF StopWait, AwaitStopEvent, Goto, TypeOK
        <5>2. CASE cpc[c] = "stop.terminate"
          <6>1. StopTerminate(c)
            BY <1>1, <5>2, OwnerLeaves
          <6>2. cancelled'
            BY <1>1, <3>2, <6>1 DEF StopTerminate, Terminate, IsRunning, ThreadMatchesWorker
          <6> QED
            BY <3>1, <6>2
        <5> QED
          BY <3>3, <4>4, <5>1, <5>2
      <4>5. Hooks(c)' = Hooks(c)
        BY <2>1, <4>1 DEF Hooks
      <4> QED
        BY <3>3, <4>1, <4>2, <4>3, <4>4, <4>5
    <3> QED
      BY <3>4, <3>5, <3>6
  <2> QED
    BY <2>2, <2>3, <2>4 DEF HookInv
<1> QED
  BY <1>2, <1>3

\* A step of the worker keeps count of the hook.
LEMMA WorkerKeepsHook ==
    ASSUME NEW c, Callers = {c}, ~SelfStop, HookInv(c), OwnerInv',
           WorkerDecides \/ WorkerRuns
    PROVE  HookInv(c)'
<1>1. /\ TypeOK /\ ThreadMatchesWorker
      /\ NoSelfStop /\ OneHook(c) /\ c \in Callers
      /\ posted \in Nat /\ runs \in Nat /\ hookRuns \in Nat /\ stopping \in {0, 1}
      /\ ctx \in {"started", "slot", "stop"}
  BY DEF HookInv, OwnerInv, LifecycleInv, TypeOK
<1>2. /\ UNCHANGED <<runs, cpc, alive>> /\ at # "off" /\ runs # 0
  BY <1>1, WorkerMoves DEF ThreadMatchesWorker, Launched
<1>3. NothingBefore(c)'
  BY <1>2 DEF NothingBefore
<1>4. \/ \E result \in Results : FinishAndStop(result)
      \/ Register \/ SignalStarted \/ EnterLoop \/ TakePosted \/ AboutToFinish
      \/ Drain \/ QuitAfterHook \/ Leave
      \/ ThreadFinished \/ SignalFinished \/ ClearStopping \/ Unregister \/ End
  BY <1>1 DEF WorkerDecides, WorkerRuns, SelfStopCall, SelfWait, SelfReset, WorkerStep,
     NoSelfStop
<1>5. cancelled' = cancelled
  BY <1>1, <1>4 DEF FinishAndStop, Register, SignalStarted, EnterLoop, TakePosted,
     AboutToFinish, Drain, QuitAfterHook, Quit, Leave, ThreadFinished, SignalFinished,
     ClearStopping, Unregister, End, qthread
<1>6. NoSelfStop'
  <2>1. CASE \E result \in Results : FinishAndStop(result)
    BY <2>1 DEF FinishAndStop, NoSelfStop
  <2>2. CASE QuitAfterHook
    BY <1>1, <2>2 DEF QuitAfterHook, ReturnFromHook, NoSelfStop
  <2>3. CASE Register \/ SignalStarted \/ EnterLoop \/ TakePosted \/ AboutToFinish \/ Drain
    BY <1>1, <2>3 DEF Register, SignalStarted, EnterLoop, TakePosted, AboutToFinish,
       Drain, WorkerStep, NoSelfStop
  <2>4. CASE Leave \/ ThreadFinished \/ SignalFinished \/ ClearStopping \/ Unregister \/ End
    BY <1>1, <2>4 DEF Leave, ThreadFinished, SignalFinished, ClearStopping, Unregister,
       End, WorkerStep, NoSelfStop
  <2> QED
    BY <1>4, <2>1, <2>2, <2>3, <2>4
<1>7. OneHook(c)'
  <2> SUFFICES ASSUME Undisturbed'
               PROVE  OneHook(c)'
    BY DEF OneHook
  <2>1. Undisturbed /\ ~cancelled
    BY <1>2, <1>5 DEF Undisturbed
  <2>2. /\ at \in Launched => Hooks(c) = IF stopping = 0 THEN 0 ELSE 1
        /\ at \in Launched /\ posted > 0 => cpc[c] \in {"stop.wait", "stop.terminate"}
        /\ at \in Launched /\ exitRequested => at = "hook" \/ hookRuns = 1
        /\ deferred => at = "drain"
        /\ at \in {"drain", "quit"} \cup WindingDown \cup WoundDown => hookRuns = 1
        /\ hookRuns <= 1
    BY <1>1, <2>1 DEF OneHook
  <2>3. CASE \E result \in Results : FinishAndStop(result)
    <3>1. /\ at \in {"started", "loop"} /\ at' = "hook" /\ stopping = 0 /\ stopping' = 1
          /\ UNCHANGED <<posted, exitRequested, hookRuns, deferred>>
      BY <2>3 DEF FinishAndStop, qthread
    <3> QED
      BY <1>1, <1>2, <2>2, <3>1 DEF OneHook, Hooks, Launched, WindingDown, WoundDown
  <2>4. CASE Register \/ SignalStarted \/ EnterLoop
    <3>1. /\ at \in {"entry", "started", "exec"} /\ at' \in {"entry", "started", "exec", "loop"}
          /\ UNCHANGED <<posted, exitRequested, hookRuns, deferred, stopping>>
      BY <2>4 DEF Register, SignalStarted, EnterLoop, WorkerStep, qthread, run
    <3> QED
      BY <1>1, <1>2, <2>2, <3>1 DEF OneHook, Hooks, Launched, WindingDown, WoundDown
  <2>5. CASE TakePosted
    <3>1. /\ posted > 0 /\ posted' = posted - 1 /\ at = "loop" /\ at' = "hook"
          /\ UNCHANGED <<exitRequested, hookRuns, deferred, stopping>>
      BY <2>5 DEF TakePosted, WorkerStep, run
    <3> QED
      BY <1>1, <1>2, <2>2, <3>1 DEF OneHook, Hooks, Launched, WindingDown, WoundDown
  <2>6. CASE AboutToFinish
    <3>1. /\ at = "hook" /\ at' = "drain"
          /\ hookRuns' = IF hookRuns < 2 THEN hookRuns + 1 ELSE hookRuns
          /\ UNCHANGED <<posted, exitRequested, stopping>>
      BY <2>6 DEF AboutToFinish, WorkerStep, qthread
    <3>2. /\ stopping # 0 /\ hookRuns = 0 /\ posted = 0 /\ cpc[c] # "stop.post"
      BY <1>1, <2>2, <3>1 DEF Hooks, Launched
    <3>3. hookRuns' = 1
      BY <3>1, <3>2
    <3> QED
      BY <1>1, <1>2, <2>2, <3>1, <3>2, <3>3
         DEF OneHook, Hooks, Launched, WindingDown, WoundDown
  <2>7. CASE Drain
    <3>1. /\ at = "drain" /\ at' = "quit" /\ ~deferred'
          /\ UNCHANGED <<posted, exitRequested, hookRuns, stopping>>
      BY <2>7 DEF Drain, WorkerStep, qthread
    <3> QED
      BY <1>1, <1>2, <2>2, <3>1 DEF OneHook, Hooks, Launched, WindingDown, WoundDown
  <2>8. CASE QuitAfterHook
    <3>1. /\ at = "quit" /\ at' \in {"started", "loop"}
          /\ UNCHANGED <<posted, hookRuns, deferred, stopping>>
      BY <1>1, <2>8 DEF QuitAfterHook, ReturnFromHook, Quit, NoSelfStop, run
    <3> QED
      BY <1>1, <1>2, <2>2, <3>1 DEF OneHook, Hooks, Launched, WindingDown, WoundDown
  <2>9. CASE Leave
    <3>1. /\ exitRequested /\ at \in {"exec", "loop"} /\ at' = "finished"
          /\ UNCHANGED <<hookRuns, deferred>>
      BY <2>1, <2>9 DEF Leave, run
    <3> QED
      BY <1>1, <1>2, <2>2, <3>1 DEF OneHook, Launched, WindingDown, WoundDown
  <2>10. CASE ThreadFinished \/ SignalFinished \/ ClearStopping \/ Unregister
    <3>1. /\ at \in WindingDown \cup WoundDown /\ at' \in WindingDown \cup WoundDown
          /\ UNCHANGED <<hookRuns, deferred>>
      BY <2>10 DEF ThreadFinished, SignalFinished, ClearStopping, Unregister, WorkerStep,
         run, WindingDown, WoundDown
    <3> QED
      BY <1>1, <2>2, <3>1 DEF OneHook, Launched, WindingDown, WoundDown
  <2>11. CASE End
    <3>1. at' = "off" /\ ~deferred' /\ hookRuns' = hookRuns
      BY <2>11 DEF End, WorkerStep
    <3> QED
      BY <1>1, <2>2, <3>1 DEF OneHook, Launched, WindingDown, WoundDown
  <2> QED
    BY <1>4, <2>3, <2>4, <2>5, <2>6, <2>7, <2>8, <2>9, <2>10, <2>11
<1> QED
  BY <1>3, <1>6, <1>7 DEF HookInv

LEMMA HookInvariant ==
    ASSUME NEW CONSTANT c, Callers = {c}, ~SelfStop
    PROVE  Spec => [](HookInv(c))
<1>1. OneOwner
  BY DEF OneOwner
<1>2. Init /\ OwnerInv => HookInv(c)
  <2> SUFFICES ASSUME Init, OwnerInv
               PROVE  HookInv(c)
    OBVIOUS
  <2>1. NothingBefore(c) /\ NoSelfStop
    BY DEF Init, NothingBefore, NoSelfStop
  <2>2. OneHook(c)
    BY DEF Init, OneHook, Launched, WindingDown, WoundDown
  <2> QED
    BY <2>1, <2>2 DEF HookInv
<1>3. HookInv(c) /\ OwnerInv' /\ [Next]_vars => HookInv(c)'
  <2> SUFFICES ASSUME HookInv(c), OwnerInv', [Next]_vars
               PROVE  HookInv(c)'
    OBVIOUS
  <2>1. CASE UNCHANGED vars
    BY <2>1 DEF vars, qthread, run, object, callerVars, HookInv, NothingBefore,
       NoSelfStop, OneHook, Hooks, Undisturbed
  <2> QED
    BY <2>1, OwnerKeepsHook, WorkerKeepsHook DEF Next
<1>4. Spec => []OwnerInv
  BY <1>1, OwnerInvariant
<1> QED
  BY <1>2, <1>3, <1>4, PTL DEF Spec

\* For an object that one thread owns and whose worker does not stop itself: the first
\* run, unless cancelled or under destruction, reaches its finish phase with the hook
\* run once and its deletions done, whether stop() or finishAndStop() came first.
THEOREM OrderlyFinishHolds ==
    ASSUME NEW CONSTANT c, Callers = {c}, ~SelfStop
    PROVE  Spec => []OrderlyFinish
<1>1. HookInv(c) => OrderlyFinish
  BY DEF HookInv, OneHook, Undisturbed, OrderlyFinish, WindingDown, WoundDown
<1> QED
  BY <1>1, HookInvariant, PTL

=============================================================================
