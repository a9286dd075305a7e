------------------------------ MODULE TcpServer -----------------------------
(***************************************************************************)
(* TcpServer (src/Kanoop/clientserver/tcpserver.cpp) with its clients: who *)
(* owns a TcpServerClientObject, and who deletes it.                       *)
(*                                                                         *)
(* Three kinds of threads meet.  The owner calls start(), stop() and the   *)
(* destructor.  The server thread runs the event loop: new connections and *)
(* the queued onClientFinished() calls.  Each client is an                 *)
(* AbstractThreadClass with a thread of its own; what the server relies on *)
(* is taken from ThreadLifecycle: stop() returns when the client is wound  *)
(* down, and the destructor returns when its thread has ended.             *)
(*                                                                         *)
(* A client is named by its address, which is used again after a delete.   *)
(* The two MutexEvents have one waiter, the owner: what matters of them is *)
(* the flag, and that a wait of 5 seconds that times out lowers it too.    *)
(***************************************************************************)
EXTENDS Naturals, Sequences, FiniteSets

CONSTANTS
    Clients,    \* the addresses of client objects
    NoClient,
    MaxRuns     \* bound on the runs of the server thread

ASSUME ServerAssumption == NoClient \notin Clients /\ MaxRuns \in Nat

VARIABLES
    at,             \* where the server thread is
    hand,           \* the client the server thread is working on
    quitting,       \* _thread.quit() was called
    runs,           \* the runs of the server thread so far
    openedIn,       \* the run that opened the listening socket, 0 if none did
    startSuccess,   \* _startSuccess, the result of start()
    startSet,       \* _startEvent
    stopSet,        \* _stopEvent
    roster,         \* _clients
    pending,        \* queued onClientFinished() calls, by sender()
    life,           \* each address: "free", or how far its client has got
    connected,      \* finished() of the client is connected to the server
    asked,          \* the client was asked to stop
    owner,          \* where the owner is
    reaping,        \* the clients that reapClients() has still to delete
    destroying      \* the owner is in the destructor

run       == <<quitting, runs>>
socket    == <<openedIn, startSuccess>>
signals   == <<startSet, stopSet>>
steady    == <<run, socket, signals>>
server    == <<at, hand, steady>>
clients   == <<life, connected, asked>>
books     == <<roster, pending, clients>>
reapVars  == <<reaping, destroying>>
ownerVars == <<owner, reapVars>>
vars      == <<server, books, ownerVars>>

ServerLocations ==
    {"off", "started", "loop", "append", "connect", "start", "delete",
     "finished", "ending"}

OwnerLocations ==
    {"idle", "start", "start.wait", "stop.join", "stop.quit", "stop.wait",
     "stop.final", "take", "sever", "reap", "reaped", "gone"}

TypeOK ==
    /\ at \in ServerLocations
    /\ hand \in Clients \cup {NoClient}
    /\ quitting \in BOOLEAN
    /\ runs \in Nat /\ openedIn \in 0..runs
    /\ startSuccess \in BOOLEAN /\ startSet \in BOOLEAN /\ stopSet \in BOOLEAN
    /\ roster \subseteq Clients
    /\ pending \in Seq(Clients)
    /\ life \in [Clients ->
                    {"free", "new", "running", "winding", "ending", "ended"}]
    /\ connected \in [Clients -> BOOLEAN]
    /\ asked \in [Clients -> BOOLEAN]
    /\ owner \in OwnerLocations
    /\ reaping \subseteq Clients
    /\ destroying \in BOOLEAN

Init ==
    /\ at = "off" /\ hand = NoClient /\ quitting = FALSE
    /\ runs = 0 /\ openedIn = 0
    /\ startSuccess = FALSE /\ startSet = FALSE /\ stopSet = FALSE
    /\ roster = {} /\ pending = <<>>
    /\ life = [c \in Clients |-> "free"]
    /\ connected = [c \in Clients |-> FALSE]
    /\ asked = [c \in Clients |-> FALSE]
    /\ owner = "idle" /\ reaping = {} /\ destroying = FALSE

IsRunning == at \notin {"off", "finished", "ending"}

Serve(from, to) == at = from /\ at' = to

Own(from, to) == owner = from /\ owner' = to

-----------------------------------------------------------------------------
(* The server thread.                                                      *)

\* onThreadStarted(): listen() fails if the port is taken, and always on a
\* socket that listens already, which stop() leaves open.
ThreadStarted ==
    /\ Serve("started", "loop")
    /\ startSuccess' \in {openedIn = 0, FALSE}
    /\ openedIn' = IF startSuccess' THEN runs ELSE openedIn
    /\ startSet' = TRUE
    /\ UNCHANGED <<hand, run, stopSet, books, ownerVars>>

\* incomingConnection(): createClient() makes a client at a free address.  The
\* socket accepts in the run that opened it; its notifier dies with that run.
Accept(c) ==
    /\ Serve("loop", "append")
    /\ openedIn = runs
    /\ life[c] = "free"
    /\ life' = [life EXCEPT ![c] = "new"]
    /\ asked' = [asked EXCEPT ![c] = FALSE]
    /\ hand' = c
    /\ UNCHANGED <<steady, roster, pending, connected, ownerVars>>

\* A version of AppendClient that does not look whether createClient() made one.
AppendNobody ==
    /\ Serve("append", "connect")
    /\ roster' \in {roster \cup {hand}, roster \cup {NoClient}}
    /\ UNCHANGED <<hand, steady, pending, clients, ownerVars>>

AppendClient ==
    /\ Serve("append", "connect")
    /\ roster' = roster \cup {hand}
    /\ UNCHANGED <<hand, steady, pending, clients, ownerVars>>

\* A version of ConnectClient whose connection comes after the client's end.
ConnectTooLate ==
    /\ Serve("connect", "start")
    /\ UNCHANGED <<hand, steady, books, ownerVars>>

ConnectClient ==
    /\ Serve("connect", "start")
    /\ connected' = [connected EXCEPT ![hand] = TRUE]
    /\ UNCHANGED <<hand, steady, roster, pending, life, asked, ownerVars>>

StartClient ==
    /\ Serve("start", "loop")
    /\ life' = [life EXCEPT ![hand] = "running"]
    /\ hand' = NoClient
    /\ UNCHANGED <<steady, roster, pending, connected, asked, ownerVars>>

\* A version of OnClientFinished that does not ask the roster.
OnClientFinishedAlways ==
    /\ Serve("loop", "delete")
    /\ pending # <<>>
    /\ pending' = Tail(pending)
    /\ roster' = roster \ {Head(pending)}
    /\ hand' = Head(pending)
    /\ UNCHANGED <<steady, clients, ownerVars>>

\* onClientFinished(): whoever takes a client off the roster deletes it; a
\* sender that is not on the roster any more is left alone.
OnClientFinished ==
    /\ pending # <<>>
    /\ Serve("loop", IF Head(pending) \in roster THEN "delete" ELSE "loop")
    /\ pending' = Tail(pending)
    /\ roster' = roster \ {Head(pending)}
    /\ hand' = IF Head(pending) \in roster THEN Head(pending) ELSE NoClient
    /\ UNCHANGED <<steady, clients, ownerVars>>

\* delete client: its destructor joins its thread.
DeleteFinished ==
    /\ Serve("delete", "loop")
    /\ life[hand] = "ended"
    /\ life' = [life EXCEPT ![hand] = "free"]
    /\ connected' = [connected EXCEPT ![hand] = FALSE]
    /\ hand' = NoClient
    /\ UNCHANGED <<steady, roster, pending, asked, ownerVars>>

\* The loop acts on quit(), which may leave calls in the queue; they stay there.
LeaveLoop ==
    /\ Serve("loop", "finished")
    /\ quitting
    /\ UNCHANGED <<hand, steady, books, ownerVars>>

\* onThreadFinished(), in the finish phase.
ThreadFinished ==
    /\ Serve("finished", "ending")
    /\ stopSet' = TRUE
    /\ UNCHANGED <<hand, run, socket, startSet, books, ownerVars>>

ThreadEnds ==
    /\ Serve("ending", "off")
    /\ UNCHANGED <<hand, steady, books, ownerVars>>

-----------------------------------------------------------------------------
(* A client's thread, as AbstractThreadClass runs it.                      *)

\* The connection ends, or the client was asked to stop: finishAndStop() and
\* the finish phase up to the announcement that stop() waits for.
WindDown(c) ==
    /\ life[c] = "running"
    /\ life' = [life EXCEPT ![c] = "winding"]
    /\ UNCHANGED <<server, roster, pending, connected, asked, ownerVars>>

\* emit finished(), queued to the server's thread if it is still connected.
EmitFinished(c) ==
    /\ life[c] = "winding"
    /\ life' = [life EXCEPT ![c] = "ending"]
    /\ pending' = IF connected[c] THEN Append(pending, c) ELSE pending
    /\ UNCHANGED <<server, roster, connected, asked, ownerVars>>

ClientEnds(c) ==
    /\ life[c] = "ending"
    /\ life' = [life EXCEPT ![c] = "ended"]
    /\ UNCHANGED <<server, roster, pending, connected, asked, ownerVars>>

-----------------------------------------------------------------------------
(* The owner.                                                              *)

\* start(): QThread::start() waits for a finish phase and does nothing on a
\* running thread.
Start ==
    /\ Own("idle", "start.wait")
    /\ runs < MaxRuns
    /\ at \notin {"finished", "ending"}
    /\ IF IsRunning
       THEN UNCHANGED <<at, run>>
       ELSE at' = "started" /\ quitting' = FALSE /\ runs' = runs + 1
    /\ UNCHANGED <<hand, socket, signals, books, reapVars>>

\* _startEvent.wait(5 s) granted or timed out: start() returns _startSuccess.
StartReturns ==
    /\ Own("start.wait", "idle")
    /\ startSet' = FALSE
    /\ startSuccess' \in IF startSet THEN {startSuccess} ELSE {FALSE}
    /\ UNCHANGED <<at, hand, run, openedIn, stopSet, books, reapVars>>

\* stop() on a server that is not running only joins it ...
StopCall ==
    /\ owner = "idle"
    /\ owner' = IF IsRunning THEN "stop.quit" ELSE "stop.join"
    /\ UNCHANGED <<server, books, reapVars>>

StopEarly ==
    /\ Own("stop.join", "idle")
    /\ at = "off"
    /\ UNCHANGED <<server, books, reapVars>>

\* A version of StopQuit that only waits.
StopQuitNot ==
    /\ Own("stop.quit", "stop.wait")
    /\ UNCHANGED <<server, books, reapVars>>

\* ... and otherwise quits it, waits for _stopEvent up to 5 s, and joins it.
StopQuit ==
    /\ Own("stop.quit", "stop.wait")
    /\ quitting' = TRUE
    /\ UNCHANGED <<at, hand, runs, socket, signals, books, reapVars>>

StopWait ==
    /\ Own("stop.wait", "stop.final")
    /\ stopSet' = FALSE
    /\ UNCHANGED <<at, hand, run, socket, startSet, books, reapVars>>

\* A version of StopJoin that trusts _stopEvent alone.
StopJoinNot ==
    /\ Own("stop.final", "take")
    /\ UNCHANGED <<server, books, reapVars>>

StopJoin ==
    /\ Own("stop.final", "take")
    /\ at = "off"
    /\ UNCHANGED <<server, books, reapVars>>

\* The destructor asks that the server was stopped before.
DestroyCall ==
    /\ Own("idle", "take")
    /\ at = "off"
    /\ destroying' = TRUE
    /\ UNCHANGED <<server, books, reaping>>

\* takeClients()
TakeClients ==
    /\ Own("take", IF roster = {} THEN "reaped" ELSE "sever")
    /\ reaping' = roster
    /\ roster' = {}
    /\ UNCHANGED <<server, pending, clients, destroying>>

\* reapClients(): sever both directions and ask the client to stop ...
SeverClient(c) ==
    /\ Own("sever", "reap")
    /\ c \in reaping
    /\ connected' = [connected EXCEPT ![c] = FALSE]
    /\ asked' = [asked EXCEPT ![c] = TRUE]
    /\ UNCHANGED <<server, roster, pending, life, reapVars>>

\* ... wait in stop() and in the destructor for its thread, and delete it.
ReapClient(c) ==
    /\ c \in reaping /\ asked[c]
    /\ Own("reap", IF reaping = {c} THEN "reaped" ELSE "sever")
    /\ life[c] = "ended"
    /\ life' = [life EXCEPT ![c] = "free"]
    /\ asked' = [asked EXCEPT ![c] = FALSE]
    /\ reaping' = reaping \ {c}
    /\ UNCHANGED <<server, roster, pending, connected, destroying>>

ReapReturns ==
    /\ Own("reaped", IF destroying THEN "gone" ELSE "idle")
    /\ UNCHANGED <<server, books, reapVars>>

-----------------------------------------------------------------------------
ServerRuns ==
    \/ ThreadStarted
    \/ AppendClient \/ ConnectClient \/ StartClient
    \/ OnClientFinished \/ DeleteFinished
    \/ LeaveLoop \/ ThreadFinished \/ ThreadEnds

ClientRuns(c) ==
    \/ asked[c] /\ WindDown(c)
    \/ EmitFinished(c)
    \/ ClientEnds(c)

OwnerReturns ==
    \/ StartReturns \/ StopEarly \/ StopQuit \/ StopWait \/ StopJoin
    \/ TakeClients
    \/ \E c \in Clients : SeverClient(c) \/ ReapClient(c)
    \/ ReapReturns

OwnerCalls == Start \/ StopCall \/ DestroyCall

Next ==
    \/ ServerRuns
    \/ \E c \in Clients : Accept(c)
    \/ \E c \in Clients : WindDown(c) \/ EmitFinished(c) \/ ClientEnds(c)
    \/ OwnerReturns
    \/ OwnerCalls

Spec == Init /\ [][Next]_vars

\* Threads run while they can; a loop that was asked to quit does so; a client
\* that was asked to stop winds down.  No peer has to connect or disconnect,
\* and the owner has to call nothing.
FairSpec ==
    /\ Spec
    /\ WF_vars(ServerRuns)
    /\ SF_vars(LeaveLoop)
    /\ \A c \in Clients : WF_vars(ClientRuns(c))
    /\ WF_vars(OwnerReturns)

-----------------------------------------------------------------------------
\* Who deletes a client, on the server thread or in reapClients(), has begun to
\* when it took the client off the roster.
Doomed(c) == (at = "delete" /\ hand = c) \/ c \in reaping

\* The life of the client object at an address, for which stop() and the
\* destructor are one step, and which is started once.
ClientsLife(c) == INSTANCE WorkerLife WITH
    Users <- {}, life <- life[c], told <- {}, doomed <- Doomed(c),
    runs <- IF life[c] \in {"free", "new"} THEN 0 ELSE 1

\* The server uses its clients as AbstractThreadClass demands of an owner, and
\* assumes no more of them than it promises: a client is started while nobody is
\* deleting it, one party takes it to delete it, once, and deletes it when its
\* thread is over (tcpserver.cpp:55-75, 109-123, 140-156).
StepInContract ==
    \A c \in Clients : [ClientsLife(c)!Next]_(ClientsLife(c)!vars)

KeepsToContract ==
    /\ \A c \in Clients : ClientsLife(c)!Init
    /\ [][StepInContract]_vars

-----------------------------------------------------------------------------
\* A client is in the hands of exactly one party, which is the one to delete it:
\* incomingConnection() before it is on the roster, the roster, the
\* onClientFinished() that took it off, or the reapClients() that took them all.
\* A deleted client is in nobody's hands, so nothing deletes it again, not even
\* the finished() that was queued before it was deleted
\* (tcpserver.cpp:55-74, 109-123, 140-156).
Holders(c) ==
    {h \in {"accepting", "roster", "finished", "reaping"} :
        CASE h = "accepting" -> at = "append" /\ hand = c
          [] h = "roster"    -> c \in roster
          [] h = "finished"  -> at = "delete" /\ hand = c
          [] h = "reaping"   -> c \in reaping}

OneHolder ==
    \A c \in Clients :
        Cardinality(Holders(c)) = IF life[c] = "free" THEN 0 ELSE 1

\* When stop() has gone its full way, or the destructor of a stopped server has
\* run, no client is left, running or not, wherever connections and
\* disconnections were when it began (tcpserver.cpp:97-106, 50-53).
NobodyLeftBehind ==
    owner \in {"reaped", "gone"} => \A c \in Clients : life[c] = "free"

\* While the server runs, a client whose connection has ended is deleted in the
\* end, however soon after its start it ends (tcpserver.cpp:114-121).
FinishedClientsDeleted ==
    \A c \in Clients :
        life[c] = "ended" ~> life[c] = "free" \/ quitting

\* start(), stop() and the destructor return: the owner waits for the server
\* thread, and the server thread for a client, but never in a circle
\* (tcpserver.cpp:88-107, 63-75).
OwnerComesBack == owner # "idle" ~> owner \in {"idle", "gone"}

=============================================================================
