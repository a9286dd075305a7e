------------------------------ MODULE TcpClient ------------------------------
(***************************************************************************)
(* TcpServerClientObject (clientserver/tcpserverclientobject.cpp): the     *)
(* thread that serves one connection.  The server makes it for a           *)
(* descriptor and starts it; the socket calls it back; other threads may   *)
(* stop it.                                                                *)
(*                                                                         *)
(* Of AbstractThreadClass there is what this class uses: finishAndStop()   *)
(* and stop() race for _stopping, the first to come decides, and the loop  *)
(* ends with the event that called quit().  Data are the numbers of the    *)
(* packets that the peer sends.                                            *)
(***************************************************************************)
EXTENDS Naturals, Sequences

CONSTANT MaxSent    \* bound on the packets that the peer sends

VARIABLES
    useSsl,         \* _useSsl
    equipped,       \* the server has the key and the certificates for SSL
    at,             \* where the worker is
    completion,     \* what set _stopping: "none", "failure", or "stop"
    quitting,       \* _thread.quit() was called
    posted,         \* stop() has posted its hook
    socket,         \* _socket: "null", or the state of what it points to
    descriptor,     \* who closes the connection: "none", "socket", "nobody", "closed"
    signals,        \* the signals of the socket that are connected
    encrypted,      \* the handshake is done
    peer,           \* "open", "closed", or "broken"
    inbox,          \* what waits to be read
    transmitted,    \* the number of packets the peer has sent
    received,       \* what receivedData() has got
    heard           \* the hooks of the subclass that were called, in their order

ownVars    == <<useSsl, equipped>>
threadVars == <<at, completion, quitting, posted>>
socketVars == <<socket, descriptor, signals, encrypted>>
peerVars   == <<peer, inbox, transmitted>>
clientVars == <<ownVars, threadVars, socketVars, peerVars, received, heard>>

Init ==
    /\ useSsl \in BOOLEAN /\ equipped \in BOOLEAN
    /\ at = "started" /\ completion = "none" /\ quitting = FALSE /\ posted = FALSE
    /\ socket = "null" /\ descriptor = "none" /\ signals = {} /\ encrypted = FALSE
    /\ peer = "open" /\ inbox = <<>> /\ transmitted = 0
    /\ received = <<>> /\ heard = <<>>

\* finishAndStop(false), which does nothing once somebody has decided.
FinishAndStop ==
    IF completion # "none" THEN UNCHANGED <<completion, quitting>>
    ELSE completion' = "failure" /\ quitting' = TRUE

-----------------------------------------------------------------------------
(* threadStarted()                                                         *)

\* The socket takes the descriptor over, or cannot: then it was closed.
StartClearTextClient ==
    /\ at = "started" /\ ~useSsl
    /\ at' = "loop"
    /\ socket' = "open"
    /\ \/ /\ descriptor' = "socket"
          /\ signals' = {"readyRead", "disconnected", "errorOccurred"}
          /\ heard' = Append(heard, "clientStarted")
          /\ UNCHANGED <<completion, quitting>>
       \/ /\ descriptor' = "closed"
          /\ FinishAndStop
          /\ UNCHANGED <<signals, heard>>
    /\ UNCHANGED <<ownVars, posted, encrypted, peerVars, received>>

\* Where the server has no certificates, the connection stays with a socket that
\* nothing points to.  clientStarted() is not called.
StartSslClient ==
    /\ at = "started" /\ useSsl
    /\ at' = "loop"
    /\ \/ /\ equipped
          /\ socket' = "open" /\ descriptor' = "socket"
          /\ signals' = {"sslErrors", "encrypted", "errorOccurred"}
          /\ UNCHANGED <<completion, quitting>>
       \/ /\ descriptor' \in (IF equipped THEN {"closed"} ELSE {"closed", "nobody"})
          /\ FinishAndStop
          /\ UNCHANGED <<socket, signals>>
    /\ UNCHANGED <<ownVars, posted, encrypted, peerVars, received, heard>>

-----------------------------------------------------------------------------
(* The peer, and the socket that tells of it                               *)

PeerSends ==
    /\ peer = "open" /\ transmitted < MaxSent
    /\ useSsl => encrypted
    /\ transmitted' = transmitted + 1
    /\ inbox' = Append(inbox, transmitted')
    /\ UNCHANGED <<ownVars, threadVars, socketVars, peer, received, heard>>

\* A connection that breaks takes along what was not read.
PeerLeaves ==
    /\ peer = "open"
    /\ peer' \in {"closed", "broken"}
    /\ inbox' = IF peer' = "closed" THEN inbox ELSE <<>>
    /\ UNCHANGED <<ownVars, threadVars, socketVars, transmitted, received, heard>>

\* The loop gets a signal that is connected, unless it is to end.
Signalled(signal) ==
    /\ at = "loop" /\ ~quitting
    /\ descriptor = "socket" /\ signal \in signals

\* A version of OnEncrypted that does not listen.
OnEncryptedDeaf ==
    /\ Signalled("encrypted") /\ ~encrypted /\ peer = "open"
    /\ encrypted' = TRUE
    /\ UNCHANGED <<ownVars, threadVars, socket, descriptor, signals, peerVars, received,
                   heard>>

OnEncrypted ==
    /\ Signalled("encrypted") /\ ~encrypted /\ peer = "open"
    /\ encrypted' = TRUE
    /\ signals' = signals \cup {"readyRead"}
    /\ UNCHANGED <<ownVars, threadVars, socket, descriptor, peerVars, received, heard>>

OnReadyRead ==
    /\ Signalled("readyRead") /\ inbox # <<>>
    /\ received' = received \o inbox
    /\ inbox' = <<>>
    /\ UNCHANGED <<ownVars, threadVars, socketVars, peer, transmitted, heard>>

\* The end of the connection, which Qt reports as an error when it has signalled all
\* that came before, or a handshake that fails.  disconnected() comes right after,
\* when finishAndStop(true) does nothing any more.
OnErrorOccurred ==
    /\ Signalled("errorOccurred")
    /\ peer # "open" \/ (useSsl /\ ~encrypted)
    /\ "readyRead" \in signals => inbox = <<>>
    /\ FinishAndStop
    /\ UNCHANGED <<ownVars, at, posted, socketVars, peerVars, received, heard>>

-----------------------------------------------------------------------------
(* The end of the thread                                                   *)

\* stop() by another thread: its hook takes its turn with the signals.
Stop ==
    /\ at \in {"started", "loop"} /\ completion = "none"
    /\ completion' = "stop" /\ posted' = TRUE
    /\ UNCHANGED <<ownVars, at, quitting, socketVars, peerVars, received, heard>>

Quit ==
    /\ at = "loop" /\ ~quitting /\ posted
    /\ quitting' = TRUE /\ posted' = FALSE
    /\ UNCHANGED <<ownVars, at, completion, socketVars, peerVars, received, heard>>

\* The socket is closed and deleted; _socket keeps its value.  disconnected(), if it
\* comes of closing, comes too late to decide anything.
ThreadFinished ==
    /\ at = "loop" /\ quitting
    /\ at' = "over"
    /\ heard' = Append(heard, "clientFinished")
    /\ IF socket = "null" THEN UNCHANGED <<socket, descriptor>>
       ELSE socket' = "deleted" /\ descriptor' = "closed"
    /\ UNCHANGED <<ownVars, completion, quitting, posted, signals, encrypted, peerVars,
                   received>>

-----------------------------------------------------------------------------
WorkerStep ==
    \/ StartClearTextClient \/ StartSslClient
    \/ OnEncrypted \/ OnReadyRead \/ OnErrorOccurred
    \/ Quit \/ ThreadFinished

Next == WorkerStep \/ PeerSends \/ PeerLeaves \/ Stop

\* The worker is a running thread.
Fairness == WF_clientVars(WorkerStep)

Spec == Init /\ [][Next]_clientVars /\ Fairness

-----------------------------------------------------------------------------
(* Correctness                                                             *)

TypeOK ==
    /\ at \in {"started", "loop", "over"}
    /\ completion \in {"none", "failure", "stop"}
    /\ socket \in {"null", "open", "deleted"}
    /\ descriptor \in {"none", "socket", "nobody", "closed"}
    /\ signals \subseteq {"readyRead", "disconnected", "errorOccurred", "sslErrors",
                          "encrypted"}
    /\ peer \in {"open", "closed", "broken"}
    /\ Len(received) + Len(inbox) <= transmitted

Served == encrypted \/ "disconnected" \in signals

\* Nothing the peer sends is lost or turned round on its way to receivedData(): unless
\* somebody stops the client, all of it is there before the client ends when the peer
\* closes the connection in order, be it with the last packet or before the start.
DeliversAll ==
    /\ received \o inbox = [n \in 1..(Len(received) + Len(inbox)) |-> n]
    /\ at = "over" /\ Served /\ peer = "closed" /\ completion = "failure" =>
           Len(received) = transmitted

\* A client that has ended has closed its connection, but for one without the server's
\* certificates, and said so; it has said it started if the connection is in the clear.
ClosesConnection ==
    at = "over" =>
        /\ descriptor = "closed" \/ (useSsl /\ ~equipped)
        /\ heard \in {<<"clientFinished">>, <<"clientStarted", "clientFinished">>}

\* A client whose peer leaves, or that is stopped, ends, wherever the two meet, and
\* what a client should do for its peer it has done by then.
ClientEnds ==
    (peer # "open" \/ completion # "none")
        ~> (at = "over" /\ DeliversAll /\ ClosesConnection)

=============================================================================
