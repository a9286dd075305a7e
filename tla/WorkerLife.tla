----------------------------- MODULE WorkerLife -----------------------------
(***************************************************************************)
(* What an AbstractThreadClass object promises to those who own it, and    *)
(* what TcpServer relies on for its clients                                *)
(* (include/Kanoop/utility/abstractthreadclass.h, 52-96): the thread goes  *)
(* through its life in one order, stop() reports the end only when there   *)
(* is one, and the object is deleted when no code of it runs any more, by  *)
(* one party, who has it alone.                                            *)
(***************************************************************************)
EXTENDS Naturals

CONSTANT Users      \* those who may call stop()

VARIABLES
    life,   \* "free" (no object), "new", "running", "winding" (the end is
            \* announced), "ending" (finished() is emitted), "ended", or "wrecked"
    runs,   \* how often the thread of the object was started
    told,   \* the users whom stop() tells that the worker is wound down
    doomed  \* the destructor has the object

vars == <<life, runs, told, doomed>>

Init ==
    /\ life \in {"free", "new"}
    /\ runs = 0
    /\ told = {}
    /\ doomed = FALSE

Create ==
    /\ life = "free"
    /\ life' = "new"
    /\ runs' = 0 /\ told' = {} /\ doomed' = FALSE

\* A run begins when none is under way, and never on an object that is deleted.
Start ==
    /\ life \in {"new", "ended"} /\ ~doomed
    /\ life' = "running"
    /\ runs' = runs + 1
    /\ UNCHANGED <<told, doomed>>

\* The worker goes on by itself, until the process is wrecked.
Advance(from, to) ==
    /\ life = from /\ life' = to
    /\ UNCHANGED <<runs, told, doomed>>

Announce == Advance("running", "winding")
EmitFinished == Advance("winding", "ending")
End == Advance("ending", "ended")

\* stop() is about to return true.  In a later run of the object it may have met
\* the announcement of an earlier one.
TellStopped(u) ==
    /\ ~doomed
    /\ runs <= 1 => life # "running"
    /\ told' = told \cup {u}
    /\ UNCHANGED <<life, runs, doomed>>

Forget(u) ==
    /\ told' = told \ {u}
    /\ UNCHANGED <<life, runs, doomed>>

\* Who deletes the object has it alone: nobody else has begun to, and nobody is
\* still in stop().
Doom ==
    /\ life # "free" /\ ~doomed /\ told = {}
    /\ doomed' = TRUE
    /\ UNCHANGED <<life, runs, told>>

\* The members go when the thread is over.
Delete ==
    /\ doomed /\ life \in {"new", "ended"}
    /\ life' = "free"
    /\ doomed' = FALSE /\ runs' = 0
    /\ UNCHANGED told

\* The destructor gave up its join, and ~QThread ends the process.
Wreck ==
    /\ doomed /\ life \in {"running", "winding", "ending"}
    /\ life' = "wrecked"
    /\ UNCHANGED <<runs, told, doomed>>

Next ==
    \/ Create \/ Start \/ Announce \/ EmitFinished \/ End
    \/ \E u \in Users : TellStopped(u) \/ Forget(u)
    \/ Doom \/ Delete \/ Wreck

Spec == Init /\ [][Next]_vars

=============================================================================
