------------------------------ MODULE UdpServer -----------------------------
(***************************************************************************)
(* UdpServer (clientserver/udpserver.h, udpserver.cpp): a thread that      *)
(* sends the datagrams other threads queue, and hands on those it gets.    *)
(*                                                                         *)
(* _queueLock guards _transmitQueue.  writeDatagram() posts a call of      *)
(* serviceTransmitQueue() to the worker, whose event loop handles one      *)
(* event after the other.  Of AbstractThreadClass there is what decides    *)
(* when that loop runs: threadStarted() precedes all events, a stop() is   *)
(* an event among the others, and events it leaves behind wait for the     *)
(* next run (see AbstractThreadClass).  A datagram is the number it gets   *)
(* when it is queued or when it arrives.                                   *)
(***************************************************************************)
EXTENDS Naturals, Sequences

CONSTANTS
    Writers,        \* threads that call writeDatagram()
    Nobody,         \* the holder of the free lock
    Worker,         \* the server thread
    MaxWrites,      \* bound on the datagrams queued
    MaxArrivals,    \* bound on the datagrams that arrive
    MaxRuns         \* bound on the runs of the thread

UdpAssumption ==
    /\ Nobody \notin Writers /\ Worker \notin Writers /\ Worker # Nobody
    /\ MaxWrites \in Nat /\ MaxArrivals \in Nat /\ MaxRuns \in Nat

VARIABLES
    transmitQueue,  \* _transmitQueue
    queueLock,      \* the holder of _queueLock
    unposted,       \* a writer has queued a datagram and not yet posted
    accepted,       \* the number of datagrams ever queued
    sent,           \* the datagrams given to the socket
    at,             \* where the worker is
    events,         \* the calls posted to the worker
    stopping,       \* _stopping of AbstractThreadClass
    quitting,       \* _thread.quit() was called
    runs,           \* the runs of the thread so far
    bound,          \* the run whose socket has the port, 0 if none has
    inbox,          \* the datagrams in the buffer of that socket
    arrived,        \* the number of datagrams that ever arrived
    received        \* the datagrams handed to datagramReceived()

queueVars  == <<transmitQueue, queueLock, unposted, accepted, sent>>
threadVars == <<at, stopping, quitting, runs>>
socketVars == <<bound, inbox, arrived, received>>
udpVars    == <<queueVars, threadVars, events, socketVars>>

TypeOK ==
    /\ transmitQueue \in Seq(Nat) /\ sent \in Seq(Nat) /\ accepted \in Nat
    /\ queueLock \in Writers \cup {Nobody, Worker}
    /\ unposted \in BOOLEAN
    /\ at \in {"off", "started", "loop", "service", "read"}
    /\ events \in Seq({"serviceTransmitQueue", "quit"})
    /\ stopping \in BOOLEAN /\ quitting \in BOOLEAN
    /\ runs \in Nat /\ bound \in 0..runs
    /\ inbox \in Seq(Nat) /\ received \in Seq(Nat) /\ arrived \in Nat

Init ==
    /\ transmitQueue = <<>> /\ queueLock = Nobody /\ unposted = FALSE
    /\ accepted = 0 /\ sent = <<>>
    /\ at = "off" /\ events = <<>> /\ stopping = FALSE /\ quitting = FALSE
    /\ runs = 0 /\ bound = 0
    /\ inbox = <<>> /\ arrived = 0 /\ received = <<>>

-----------------------------------------------------------------------------
(* writeDatagram(), under the lock: the datagram is queued, and then a     *)
(* call of serviceTransmitQueue() is posted.                               *)

\* A version of QueueDatagram that puts the datagram at the front.
QueueInFront(w) ==
    /\ accepted < MaxWrites
    /\ queueLock = Nobody /\ queueLock' = w
    /\ accepted' = accepted + 1
    /\ transmitQueue' = <<accepted'>> \o transmitQueue
    /\ unposted' = TRUE
    /\ UNCHANGED <<sent, threadVars, events, socketVars>>

QueueDatagram(w) ==
    /\ accepted < MaxWrites
    /\ queueLock = Nobody /\ queueLock' = w
    /\ accepted' = accepted + 1
    /\ transmitQueue' = Append(transmitQueue, accepted')
    /\ unposted' = TRUE
    /\ UNCHANGED <<sent, threadVars, events, socketVars>>

PostService(w) ==
    /\ queueLock = w /\ queueLock' = Nobody
    /\ unposted' = FALSE
    /\ events' = Append(events, "serviceTransmitQueue")
    /\ UNCHANGED <<transmitQueue, accepted, sent, threadVars, socketVars>>

-----------------------------------------------------------------------------
(* The life of the thread                                                  *)

Start ==
    /\ at = "off" /\ runs < MaxRuns
    /\ at' = "started"
    /\ runs' = runs + 1
    /\ UNCHANGED <<queueVars, stopping, quitting, events, socketVars>>

\* threadStarted(): a new socket, which cannot bind if the port is taken, by the
\* socket of an earlier run too, as no one closes that.  finishAndStop() does
\* nothing if a stop() came first.
ThreadStarted ==
    /\ at = "started"
    /\ \E success \in {bound = 0, FALSE} :
           /\ bound' = IF success THEN runs ELSE bound
           /\ stopping' = (stopping \/ ~success)
           /\ quitting' = (~success /\ ~stopping)
    /\ at' = "loop"
    /\ UNCHANGED <<queueVars, runs, events, inbox, arrived, received>>

\* stop() by another thread, while the thread runs.
Stop ==
    /\ at # "off" /\ ~stopping
    /\ stopping' = TRUE
    /\ events' = Append(events, "quit")
    /\ UNCHANGED <<queueVars, at, quitting, runs, socketVars>>

Handle(event) ==
    /\ at = "loop" /\ ~quitting
    /\ events # <<>> /\ Head(events) = event
    /\ events' = Tail(events)

Quit ==
    /\ Handle("quit")
    /\ quitting' = TRUE
    /\ UNCHANGED <<queueVars, at, stopping, runs, socketVars>>

\* A version of Finish that throws the posted events away.
FinishEmpty ==
    /\ at = "loop" /\ quitting
    /\ at' = "off"
    /\ stopping' = FALSE /\ quitting' = FALSE /\ events' = <<>>
    /\ UNCHANGED <<queueVars, runs, socketVars>>

\* The loop ends, and with it the run; events it did not get to stay.
Finish ==
    /\ at = "loop" /\ quitting
    /\ at' = "off"
    /\ stopping' = FALSE /\ quitting' = FALSE
    /\ UNCHANGED <<queueVars, runs, events, socketVars>>

-----------------------------------------------------------------------------
(* serviceTransmitQueue(), under the lock                                  *)

Service ==
    /\ Handle("serviceTransmitQueue")
    /\ queueLock = Nobody /\ queueLock' = Worker
    /\ at' = "service"
    /\ UNCHANGED <<transmitQueue, unposted, accepted, sent, stopping, quitting, runs,
                   socketVars>>

Send ==
    /\ at = "service" /\ transmitQueue # <<>>
    /\ sent' = Append(sent, Head(transmitQueue))
    /\ transmitQueue' = Tail(transmitQueue)
    /\ UNCHANGED <<queueLock, unposted, accepted, threadVars, events, socketVars>>

EndService ==
    /\ at = "service" /\ transmitQueue = <<>>
    /\ queueLock' = Nobody
    /\ at' = "loop"
    /\ UNCHANGED <<transmitQueue, unposted, accepted, sent, stopping, quitting, runs,
                   events, socketVars>>

-----------------------------------------------------------------------------
(* readPendingDatagrams(), which the socket of this run calls              *)

Arrive ==
    /\ bound # 0 /\ arrived < MaxArrivals
    /\ arrived' = arrived + 1
    /\ inbox' = Append(inbox, arrived')
    /\ UNCHANGED <<queueVars, threadVars, events, bound, received>>

ReadyRead ==
    /\ at = "loop" /\ ~quitting
    /\ bound = runs /\ inbox # <<>>
    /\ at' = "read"
    /\ UNCHANGED <<queueVars, stopping, quitting, runs, events, socketVars>>

Receive ==
    /\ at = "read" /\ inbox # <<>>
    /\ received' = Append(received, Head(inbox))
    /\ inbox' = Tail(inbox)
    /\ UNCHANGED <<queueVars, threadVars, events, bound, arrived>>

EndRead ==
    /\ at = "read" /\ inbox = <<>>
    /\ at' = "loop"
    /\ UNCHANGED <<queueVars, stopping, quitting, runs, events, socketVars>>

-----------------------------------------------------------------------------
WorkerStep ==
    \/ ThreadStarted \/ Quit \/ Finish
    \/ Service \/ Send \/ EndService
    \/ ReadyRead \/ Receive \/ EndRead

Next ==
    \/ \E w \in Writers : QueueDatagram(w) \/ PostService(w)
    \/ Start \/ Stop \/ Arrive
    \/ WorkerStep

\* The worker and a writer in its critical section are running threads.
Fairness ==
    /\ WF_udpVars(WorkerStep)
    /\ \A w \in Writers : WF_udpVars(PostService(w))

Spec == Init /\ [][Next]_udpVars /\ Fairness

-----------------------------------------------------------------------------
(* Correctness                                                             *)

\* Every datagram accepted is sent once and in the order of acceptance, whoever
\* wrote it, and stays queued over the end of a run.
SentInOrder == sent \o transmitQueue = [i \in 1..accepted |-> i]

\* A datagram in the queue is never forgotten: a call of serviceTransmitQueue() is
\* running, posted or about to be, through the end of a run too.
NothingForgotten ==
    transmitQueue # <<>> =>
        \/ \E i \in DOMAIN events : events[i] = "serviceTransmitQueue"
        \/ at = "service"
        \/ unposted

NothingLost == SentInOrder /\ NothingForgotten

\* What was queued is sent, and what arrived is received, unless the thread stops.
QueuesDrain ==
    /\ \A n \in 1..MaxWrites :
           (accepted >= n /\ at = "loop") ~> (Len(sent) >= n \/ at = "off")
    /\ \A n \in 1..MaxArrivals :
           (arrived >= n /\ at = "loop" /\ bound = runs)
               ~> (Len(received) >= n \/ at = "off")

=============================================================================
