--------------------------- MODULE LibraryProofs ---------------------------
(***************************************************************************)
(* Proofs about Library: what is proved of a part on its own holds of the  *)
(* library, in which the other parts leave the variables of it alone.      *)
(***************************************************************************)
EXTENDS Library, SequenceTheorems, TLAPS

-----------------------------------------------------------------------------
(* Two sequences seen as one                                               *)

\* Appending to the second sequence appends to both.
LEMMA AppendToBoth ==
    ASSUME NEW S, NEW s \in Seq(S), NEW t \in Seq(S), NEW e \in S
    PROVE  s \o Append(t, e) = Append(s \o t, e)
<1> DEFINE left == s \o Append(t, e)
           right == Append(s \o t, e)
<1>1. /\ left \in Seq(S) /\ right \in Seq(S)
      /\ Len(left) = Len(s) + Len(t) + 1
      /\ Len(right) = Len(s) + Len(t) + 1
  OBVIOUS
<1>2. ASSUME NEW j \in 1..Len(left)
      PROVE  left[j] = right[j]
  <2>1. CASE j <= Len(s)
    BY <2>1, <1>1
  <2>2. CASE j > Len(s) /\ j <= Len(s) + Len(t)
    BY <2>2, <1>1
  <2>3. CASE j = Len(s) + Len(t) + 1
    BY <2>3, <1>1
  <2> QED
    BY <2>1, <2>2, <2>3, <1>1
<1> QED
  BY <1>1, <1>2, SeqEqual

\* Moving the head of the second sequence to the end of the first keeps the whole.
LEMMA MoveHead ==
    ASSUME NEW S, NEW s \in Seq(S), NEW t \in Seq(S), t # <<>>
    PROVE  Append(s, Head(t)) \o Tail(t) = s \o t
<1> DEFINE left == Append(s, Head(t)) \o Tail(t)
           right == s \o t
<1>1. Head(t) \in S /\ Tail(t) \in Seq(S) /\ Len(Tail(t)) = Len(t) - 1
  BY HeadTailProperties
<1>2. /\ left \in Seq(S) /\ right \in Seq(S)
      /\ Len(left) = Len(s) + Len(t)
      /\ Len(right) = Len(s) + Len(t)
  BY <1>1
<1>3. ASSUME NEW j \in 1..Len(left)
      PROVE  left[j] = right[j]
  <2>1. CASE j <= Len(s)
    BY <2>1, <1>1, <1>2
  <2>2. CASE j = Len(s) + 1
    BY <2>2, <1>1, <1>2
  <2>3. CASE j > Len(s) + 1
    <3>1. left[j] = Tail(t)[j - Len(s) - 1]
      BY <2>3, <1>1, <1>2
    <3>2. Tail(t)[j - Len(s) - 1] = t[j - Len(s)]
      BY <2>3, <1>1, <1>2
    <3>3. right[j] = t[j - Len(s)]
      BY <2>3, <1>1, <1>2
    <3> QED
      BY <3>1, <3>2, <3>3
  <2> QED
    BY <2>1, <2>2, <2>3, <1>2
<1> QED
  BY <1>2, <1>3, SeqEqual

-----------------------------------------------------------------------------
(* The UDP server                                                          *)

\* The server begins with values of the right types ...
LEMMA UdpTypeAtInit == Udp!Init => Udp!TypeOK
<1> SUFFICES ASSUME Udp!Init
             PROVE  Udp!TypeOK
  OBVIOUS
<1>1. /\ transmitQueue \in Seq(Nat) /\ sent \in Seq(Nat)
      /\ udpInbox \in Seq(Nat) /\ udpReceived \in Seq(Nat)
      /\ posts \in Seq({"serviceTransmitQueue", "quit"})
  BY EmptySeq DEF Udp!Init
<1>2. /\ accepted \in Nat /\ runs \in Nat /\ bound \in 0..runs /\ arrived \in Nat
  BY DEF Udp!Init
<1>3. /\ queueLock \in Threads \cup {Nobody, Worker}
      /\ udpAt \in {"off", "started", "loop", "service", "read"}
  BY DEF Udp!Init
<1>4. /\ unposted \in BOOLEAN /\ stopping \in BOOLEAN /\ udpQuitting \in BOOLEAN
  BY DEF Udp!Init
<1> QED
  BY <1>1, <1>2, <1>3, <1>4 DEF Udp!TypeOK

\* ... and every action keeps them.
LEMMA UdpTypeKept == Udp!TypeOK /\ [Udp!Next]_Udp!udpVars => Udp!TypeOK'
<1> SUFFICES ASSUME Udp!TypeOK, [Udp!Next]_Udp!udpVars
             PROVE  Udp!TypeOK'
  OBVIOUS
<1> USE DEF Udp!TypeOK, Udp!queueVars, Udp!threadVars, Udp!socketVars
<1>1. ASSUME NEW w \in Threads, Udp!QueueDatagram(w)
      PROVE  Udp!TypeOK'
  BY <1>1 DEF Udp!QueueDatagram
<1>2. ASSUME NEW w \in Threads, Udp!PostService(w)
      PROVE  Udp!TypeOK'
  <2>1. posts' \in Seq({"serviceTransmitQueue", "quit"})
    BY <1>2, AppendProperties DEF Udp!PostService
  <2> QED
    BY <1>2, <2>1 DEF Udp!PostService
<1>3. CASE Udp!Start
  BY <1>3 DEF Udp!Start
<1>4. CASE Udp!Stop
  BY <1>4 DEF Udp!Stop
<1>5. CASE Udp!Arrive
  BY <1>5 DEF Udp!Arrive
<1>6. CASE Udp!ThreadStarted
  BY <1>6 DEF Udp!ThreadStarted
<1>7. CASE Udp!Quit
  BY <1>7 DEF Udp!Quit, Udp!Handle
<1>8. CASE Udp!Finish
  BY <1>8 DEF Udp!Finish
<1>9. CASE Udp!Service
  BY <1>9 DEF Udp!Service, Udp!Handle
<1>10. CASE Udp!Send
  BY <1>10 DEF Udp!Send
<1>11. CASE Udp!EndService
  BY <1>11 DEF Udp!EndService
<1>12. CASE Udp!ReadyRead \/ Udp!EndRead
  BY <1>12 DEF Udp!ReadyRead, Udp!EndRead
<1>13. CASE Udp!Receive
  BY <1>13 DEF Udp!Receive
<1>14. CASE UNCHANGED Udp!udpVars
  BY <1>14 DEF Udp!udpVars
<1> QED
  BY <1>1, <1>2, <1>3, <1>4, <1>5, <1>6, <1>7, <1>8, <1>9, <1>10, <1>11, <1>12,
     <1>13, <1>14 DEF Udp!Next, Udp!WorkerStep

\* Type correctness of the server: its queue, its lock, the events of its thread and
\* its socket.
THEOREM UdpTypeCorrect == Udp!Spec => []Udp!TypeOK
BY UdpTypeAtInit, UdpTypeKept, PTL DEF Udp!Spec

-----------------------------------------------------------------------------
\* _queueLock excludes: while the worker sends, no writer is between its append and
\* its post, and the other way round.
UdpQueueGuarded ==
    /\ (udpAt = "service") <=> (queueLock = Worker)
    /\ unposted <=> (queueLock \in Threads)

\* That holds for writeDatagram() and serviceTransmitQueue() of any number of threads.
THEOREM UdpQueueGuardedHolds ==
    ASSUME Udp!UdpAssumption
    PROVE  Udp!Spec => []UdpQueueGuarded
<1> USE DEF Udp!UdpAssumption
<1>1. Udp!Init => UdpQueueGuarded
  BY DEF Udp!Init, UdpQueueGuarded
<1>2. Udp!TypeOK /\ UdpQueueGuarded /\ [Udp!Next]_Udp!udpVars => UdpQueueGuarded'
  <2> SUFFICES ASSUME Udp!TypeOK, UdpQueueGuarded, [Udp!Next]_Udp!udpVars
               PROVE  UdpQueueGuarded'
    OBVIOUS
  <2> USE DEF UdpQueueGuarded, Udp!TypeOK, Udp!queueVars, Udp!threadVars
  <2>1. ASSUME NEW w \in Threads, Udp!QueueDatagram(w)
        PROVE  UdpQueueGuarded'
    BY <2>1 DEF Udp!QueueDatagram
  <2>2. ASSUME NEW w \in Threads, Udp!PostService(w)
        PROVE  UdpQueueGuarded'
    BY <2>2 DEF Udp!PostService
  <2>3. CASE Udp!Start \/ Udp!ThreadStarted \/ Udp!Finish \/ Udp!Quit \/ Udp!Stop
    BY <2>3 DEF Udp!Start, Udp!ThreadStarted, Udp!Finish, Udp!Quit, Udp!Stop, Udp!Handle
  <2>4. CASE Udp!Service
    BY <2>4 DEF Udp!Service, Udp!Handle
  <2>5. CASE Udp!Send
    BY <2>5 DEF Udp!Send
  <2>6. CASE Udp!EndService
    BY <2>6 DEF Udp!EndService
  <2>7. CASE Udp!Arrive \/ Udp!ReadyRead \/ Udp!Receive \/ Udp!EndRead
    BY <2>7 DEF Udp!Arrive, Udp!ReadyRead, Udp!Receive, Udp!EndRead
  <2>8. CASE UNCHANGED Udp!udpVars
    BY <2>8 DEF Udp!udpVars
  <2> QED
    BY <2>1, <2>2, <2>3, <2>4, <2>5, <2>6, <2>7, <2>8 DEF Udp!Next, Udp!WorkerStep
<1> QED
  BY <1>1, <1>2, UdpTypeCorrect, PTL DEF Udp!Spec

-----------------------------------------------------------------------------
\* What is sent and what waits, together, grow by one number at a time.
LEMMA UdpOrderKept == Udp!TypeOK /\ Udp!SentInOrder /\ [Udp!Next]_Udp!udpVars => Udp!SentInOrder'
<1> SUFFICES ASSUME Udp!TypeOK, Udp!SentInOrder, [Udp!Next]_Udp!udpVars
             PROVE  Udp!SentInOrder'
  OBVIOUS
<1> USE DEF Udp!TypeOK
<1>1. ASSUME NEW w \in Threads, Udp!QueueDatagram(w)
      PROVE  Udp!SentInOrder'
  <2>1. sent' = sent /\ accepted' = accepted + 1
        /\ transmitQueue' = Append(transmitQueue, accepted + 1)
    BY <1>1 DEF Udp!QueueDatagram
  <2>2. sent' \o transmitQueue' = Append(sent \o transmitQueue, accepted + 1)
    BY <2>1, AppendToBoth
  <2>3. sent \o transmitQueue = [j \in 1..accepted |-> j]
    BY DEF Udp!SentInOrder
  <2>4. Append([j \in 1..accepted |-> j], accepted + 1) = [j \in 1..(accepted + 1) |-> j]
    <3> DEFINE s == [j \in 1..accepted |-> j]
               t == [j \in 1..(accepted + 1) |-> j]
    <3>1. s \in Seq(Nat) /\ t \in Seq(Nat) /\ Len(s) = accepted /\ Len(t) = accepted + 1
      OBVIOUS
    <3>2. Append(s, accepted + 1) \in Seq(Nat) /\ Len(Append(s, accepted + 1)) = accepted + 1
      BY <3>1
    <3>3. ASSUME NEW j \in 1..(accepted + 1)
          PROVE  Append(s, accepted + 1)[j] = t[j]
      BY <3>1
    <3> QED
      BY <3>1, <3>2, <3>3, SeqEqual
  <2> QED
    BY <2>1, <2>2, <2>3, <2>4 DEF Udp!SentInOrder
<1>2. CASE Udp!Send
  <2>1. /\ transmitQueue # <<>> /\ accepted' = accepted
        /\ sent' = Append(sent, Head(transmitQueue))
        /\ transmitQueue' = Tail(transmitQueue)
    BY <1>2 DEF Udp!Send
  <2>2. sent' \o transmitQueue' = sent \o transmitQueue
    BY <2>1, MoveHead
  <2> QED
    BY <2>1, <2>2 DEF Udp!SentInOrder
<1>3. CASE UNCHANGED <<sent, transmitQueue, accepted>>
  BY <1>3 DEF Udp!SentInOrder
<1> QED
  BY <1>1, <1>2, <1>3
     DEF Udp!Next, Udp!WorkerStep, Udp!PostService, Udp!Start, Udp!Stop, Udp!Arrive, Udp!ThreadStarted, Udp!Quit, Udp!Finish,
         Udp!Service, Udp!EndService, Udp!ReadyRead, Udp!Receive, Udp!EndRead, Udp!Handle,
         Udp!udpVars, Udp!queueVars, Udp!threadVars, Udp!socketVars

\* A datagram that waits keeps somebody who will send it: the writer that has still
\* to post, the call it posted, or the worker that serves the queue.
LEMMA UdpReminderKept == Udp!TypeOK /\ Udp!NothingForgotten /\ [Udp!Next]_Udp!udpVars => Udp!NothingForgotten'
<1> SUFFICES ASSUME Udp!TypeOK, Udp!NothingForgotten, [Udp!Next]_Udp!udpVars
             PROVE  Udp!NothingForgotten'
  OBVIOUS
<1> USE DEF Udp!TypeOK, Udp!NothingForgotten, Udp!queueVars, Udp!threadVars
<1>1. ASSUME NEW w \in Threads, Udp!QueueDatagram(w)
      PROVE  Udp!NothingForgotten'
  BY <1>1 DEF Udp!QueueDatagram
<1>2. ASSUME NEW w \in Threads, Udp!PostService(w)
      PROVE  Udp!NothingForgotten'
  <2>1. /\ Len(posts) + 1 \in DOMAIN posts'
        /\ posts'[Len(posts) + 1] = "serviceTransmitQueue"
    BY <1>2 DEF Udp!PostService
  <2> QED
    BY <2>1
<1>3. CASE Udp!Stop
  <2>1. ASSUME NEW j \in DOMAIN posts
        PROVE  j \in DOMAIN posts' /\ posts'[j] = posts[j]
    BY <1>3, <2>1 DEF Udp!Stop
  <2> QED
    BY <1>3, <2>1 DEF Udp!Stop
<1>4. CASE Udp!Quit
  <2>1. /\ posts # <<>> /\ Head(posts) = "quit" /\ posts' = Tail(posts)
        /\ UNCHANGED <<transmitQueue, udpAt, unposted>>
    BY <1>4 DEF Udp!Quit, Udp!Handle
  <2>2. ASSUME NEW j \in DOMAIN posts, posts[j] = "serviceTransmitQueue"
        PROVE  j - 1 \in DOMAIN posts' /\ posts'[j - 1] = "serviceTransmitQueue"
    <3>1. j # 1
      BY <2>1, <2>2
    <3> QED
      BY <2>1, <2>2, <3>1
  <2> QED
    BY <2>1, <2>2
<1>5. CASE Udp!Service
  BY <1>5 DEF Udp!Service
<1>6. CASE Udp!Send
  BY <1>6 DEF Udp!Send
<1>7. CASE Udp!EndService
  BY <1>7 DEF Udp!EndService
<1>8. CASE Udp!Start \/ Udp!ThreadStarted \/ Udp!Finish \/ Udp!ReadyRead \/ Udp!EndRead
  BY <1>8 DEF Udp!Start, Udp!ThreadStarted, Udp!Finish, Udp!ReadyRead, Udp!EndRead
<1>9. CASE Udp!Arrive \/ Udp!Receive \/ UNCHANGED Udp!udpVars
  BY <1>9 DEF Udp!Arrive, Udp!Receive, Udp!udpVars
<1> QED
  BY <1>1, <1>2, <1>3, <1>4, <1>5, <1>6, <1>7, <1>8, <1>9 DEF Udp!Next, Udp!WorkerStep

\* Nothing is sent, waits or was accepted to begin with.
LEMMA UdpNothingAtInit == Udp!Init => Udp!SentInOrder /\ Udp!NothingForgotten
<1>1. Udp!Init => sent = <<>> /\ transmitQueue = <<>> /\ accepted = 0
  BY DEF Udp!Init
<1>2. <<>> \o <<>> = [j \in 1..0 |-> j]
  <2>1. <<>> \o <<>> = <<>>
    OBVIOUS
  <2>2. [j \in 1..0 |-> j] = <<>>
    OBVIOUS
  <2> QED
    BY <2>1, <2>2
<1> QED
  BY <1>1, <1>2 DEF Udp!SentInOrder, Udp!NothingForgotten

\* Whatever writers queue and whenever the thread is stopped and started again, each
\* datagram is sent once, in the order of acceptance, and none that waits is forgotten.
THEOREM UdpNothingLostHolds == Udp!Spec => []Udp!NothingLost
<1>1. Udp!SentInOrder /\ Udp!NothingForgotten <=> Udp!NothingLost
  BY DEF Udp!NothingLost
<1> QED
  BY <1>1, UdpNothingAtInit, UdpTypeCorrect, UdpOrderKept, UdpReminderKept, PTL DEF Udp!Spec

\* A step of the library is one of the UDP server, or of a part that does not touch it.
LEMMA UdpServerSteps == [Next]_libraryVars => [Udp!Next]_Udp!udpVars
<1> SUFFICES ASSUME [Next]_libraryVars
             PROVE  [Udp!Next]_Udp!udpVars
  OBVIOUS
<1>1. CASE UdpStep
  BY <1>1 DEF UdpStep
<1>2. CASE RouteStep
  BY <1>2 DEF RouteStep, Servers, udpVars, Udp!udpVars, Udp!queueVars,
    Udp!threadVars, Udp!socketVars
<1>3. CASE TreeStep
  BY <1>3 DEF TreeStep, Servers, udpVars, Udp!udpVars, Udp!queueVars,
    Udp!threadVars, Udp!socketVars
<1>4. CASE ShapeStep
  BY <1>4 DEF ShapeStep, Servers, udpVars, Udp!udpVars, Udp!queueVars,
    Udp!threadVars, Udp!socketVars
<1>5. CASE SpanStep
  BY <1>5 DEF SpanStep, Servers, udpVars, Udp!udpVars, Udp!queueVars,
    Udp!threadVars, Udp!socketVars
<1>6. CASE RangeStep
  BY <1>6 DEF RangeStep, Servers, udpVars, Udp!udpVars, Udp!queueVars,
    Udp!threadVars, Udp!socketVars
<1>7. CASE StringStep
  BY <1>7 DEF StringStep, Servers, udpVars, Udp!udpVars, Udp!queueVars,
    Udp!threadVars, Udp!socketVars
<1>8. CASE FileStep
  BY <1>8 DEF FileStep, Servers, udpVars, Udp!udpVars, Udp!queueVars,
    Udp!threadVars, Udp!socketVars
<1>9. CASE ClientStep
  BY <1>9 DEF ClientStep, Servers, udpVars, Udp!udpVars, Udp!queueVars,
    Udp!threadVars, Udp!socketVars
<1>10. CASE RateStep
  BY <1>10 DEF RateStep, Servers, udpVars, Udp!udpVars, Udp!queueVars,
    Udp!threadVars, Udp!socketVars
<1>11. CASE MetadataStep
  BY <1>11 DEF MetadataStep, Servers, udpVars, Udp!udpVars, Udp!queueVars,
    Udp!threadVars, Udp!socketVars
<1>12. CASE UNCHANGED libraryVars
  BY <1>12 DEF libraryVars, Servers, udpVars, Udp!udpVars, Udp!queueVars,
    Udp!threadVars, Udp!socketVars
<1> QED
  BY <1>1, <1>2, <1>3, <1>4, <1>5, <1>6, <1>7, <1>8, <1>9, <1>10, <1>11, <1>12 DEF Next

-----------------------------------------------------------------------------
(* A client of the TCP server                                              *)

\* The packets of the peer from the first to the last that is there, in their order.
ClientOrder ==
    /\ received \in Seq(Nat) /\ inbox \in Seq(Nat) /\ transmitted \in Nat
    /\ received \o inbox = [n \in 1..(Len(received) + Len(inbox)) |-> n]
    /\ Len(received) + Len(inbox) <= transmitted
    /\ peer # "broken" => Len(received) + Len(inbox) = transmitted

\* Who decides that the client fails has read what there was of a peer that has gone:
\* it listens for data wherever it listens for the end.
ClientDecides ==
    /\ Client!Served => "readyRead" \in signals
    /\ useSsl => "disconnected" \notin signals
    /\ completion = "failure" => quitting
    /\ completion = "failure" /\ Client!Served => peer # "open" /\ inbox = <<>>
    /\ at = "started" => signals = {} /\ ~encrypted /\ ~quitting

\* What the client has taken over it will close, and it says what becomes of it.
ClientCloses ==
    /\ at \in {"started", "loop", "over"}
    /\ at = "started" => heard = <<>> /\ socket = "null"
    /\ at = "loop" => heard \in {<<>>, <<"clientStarted">>}
    /\ at = "loop" /\ socket = "null" => descriptor = "closed" \/ (useSsl /\ ~equipped)
    /\ Client!ClosesConnection

\* The three are inductive, and with them a client delivers all.
ClientInv == ClientOrder /\ ClientDecides /\ ClientCloses

LEMMA ClientAtInit == Client!Init => ClientInv
<1> SUFFICES ASSUME Client!Init
             PROVE  ClientInv
  OBVIOUS
<1> USE DEF Client!Init
<1>1. ClientOrder
  <2>1. received \in Seq(Nat) /\ inbox \in Seq(Nat) /\ transmitted \in Nat
    OBVIOUS
  <2>2. Len(received) = 0 /\ Len(inbox) = 0 /\ transmitted = 0
    OBVIOUS
  <2>3. received \o inbox = [n \in 1..(Len(received) + Len(inbox)) |-> n]
    <3>1. received \o inbox = <<>>
      OBVIOUS
    <3>2. [n \in 1..0 |-> n] = <<>>
      <4> DEFINE none == [n \in 1..0 |-> n]
      <4>1. none \in Seq(Nat) /\ Len(none) = 0
        OBVIOUS
      <4> QED
        BY <4>1, EmptySeq
    <3> QED
      BY <3>1, <3>2, <2>2
  <2> QED
    BY <2>1, <2>2, <2>3 DEF ClientOrder
<1>2. ClientDecides
  BY DEF ClientDecides, Client!Served
<1>3. ClientCloses
  BY DEF ClientCloses, Client!ClosesConnection
<1> QED
  BY <1>1, <1>2, <1>3 DEF ClientInv

\* Packets are numbered by the peer as it sends them, move from the socket to
\* receivedData() all at once, and are gone when the connection breaks.
LEMMA ClientOrderKept == ClientOrder /\ [Client!Next]_Client!clientVars => ClientOrder'
<1> SUFFICES ASSUME ClientOrder, [Client!Next]_Client!clientVars
             PROVE  ClientOrder'
  OBVIOUS
<1> USE DEF Client!ownVars, Client!threadVars, Client!socketVars, Client!peerVars
<1>1. CASE Client!PeerSends
  <2>1. /\ transmitted' = transmitted + 1 /\ inbox' = Append(inbox, transmitted + 1)
        /\ received' = received /\ peer = "open" /\ peer' = peer
    BY <1>1 DEF Client!PeerSends
  <2>2. received \in Seq(Nat) /\ inbox \in Seq(Nat) /\ transmitted \in Nat
    BY DEF ClientOrder
  <2>3. Len(received) + Len(inbox) = transmitted
    BY <2>1 DEF ClientOrder
  <2>4. received \o inbox = [n \in 1..transmitted |-> n]
    BY <2>3 DEF ClientOrder
  <2>5. transmitted + 1 \in Nat
    BY <2>2
  <2>6. /\ Append(inbox, transmitted + 1) \in Seq(Nat)
        /\ Len(Append(inbox, transmitted + 1)) = Len(inbox) + 1
    BY <2>2, <2>5, AppendProperties
  <2>7. /\ transmitted' \in Nat /\ inbox' \in Seq(Nat) /\ received' \in Seq(Nat)
        /\ Len(received') + Len(inbox') = transmitted + 1
    <3>1. Len(received) \in Nat /\ Len(inbox) \in Nat
      BY <2>2
    <3> QED
      BY <2>1, <2>2, <2>3, <2>5, <2>6, <3>1
  <2>8. received \o Append(inbox, transmitted + 1)
          = Append(received \o inbox, transmitted + 1)
    BY <2>2, <2>5, AppendToBoth
  <2>9. Append(received \o inbox, transmitted + 1) = [n \in 1..(transmitted + 1) |-> n]
    <3> DEFINE old == [n \in 1..transmitted |-> n]
               new == [n \in 1..(transmitted + 1) |-> n]
    <3>1. /\ old \in Seq(Nat) /\ Len(old) = transmitted
          /\ new \in Seq(Nat) /\ Len(new) = transmitted + 1
      BY <2>2
    <3>2. Append(old, transmitted + 1) \in Seq(Nat)
          /\ Len(Append(old, transmitted + 1)) = transmitted + 1
      BY <2>2, <3>1
    <3>3. ASSUME NEW n \in 1..(transmitted + 1)
          PROVE  Append(old, transmitted + 1)[n] = new[n]
      BY <2>2, <3>1
    <3>4. Append(old, transmitted + 1) = new
      BY <3>1, <3>2, <3>3, SeqEqual
    <3> QED
      BY <2>4, <3>4
  <2>10. received' \o inbox' = [n \in 1..(Len(received') + Len(inbox')) |-> n]
    <3>1. received' \o inbox' = [n \in 1..(transmitted + 1) |-> n]
      BY <2>1, <2>8, <2>9
    <3> QED
      BY <2>7, <3>1
  <2>11. /\ Len(received') + Len(inbox') <= transmitted'
         /\ Len(received') + Len(inbox') = transmitted'
    BY <2>1, <2>5, <2>7
  <2> QED
    BY <2>1, <2>7, <2>10, <2>11 DEF ClientOrder
<1>2. CASE Client!OnReadyRead
  <2>1. /\ received' = received \o inbox /\ inbox' = <<>>
        /\ transmitted' = transmitted /\ peer' = peer
    BY <1>2 DEF Client!OnReadyRead
  <2>2. /\ received' \in Seq(Nat) /\ inbox' \in Seq(Nat)
        /\ Len(received') = Len(received) + Len(inbox) /\ Len(inbox') = 0
    BY <2>1 DEF ClientOrder
  <2>3. received' \o inbox' = received \o inbox
    BY <2>1, <2>2, ConcatEmptySeq
  <2>4. Len(received') + Len(inbox') = Len(received) + Len(inbox)
    BY <2>2 DEF ClientOrder
  <2> QED
    BY <2>1, <2>2, <2>3, <2>4 DEF ClientOrder
<1>3. CASE Client!PeerLeaves
  <2>1. /\ received' = received /\ transmitted' = transmitted
        /\ peer = "open" /\ peer' \in {"closed", "broken"}
        /\ inbox' = IF peer' = "closed" THEN inbox ELSE <<>>
    BY <1>3 DEF Client!PeerLeaves
  <2>2. CASE peer' = "closed"
    BY <2>1, <2>2 DEF ClientOrder
  <2>3. CASE peer' = "broken"
    <3>1. inbox' = <<>> /\ inbox' \in Seq(Nat) /\ Len(inbox') = 0
      BY <2>1, <2>3
    <3>2. received' \o inbox' = received
      BY <2>1, <3>1, ConcatEmptySeq DEF ClientOrder
    <3>3. received = [n \in 1..Len(received) |-> n]
      <4> DEFINE whole == received \o inbox
                 front == [n \in 1..Len(received) |-> n]
      <4>1. received \in Seq(Nat) /\ inbox \in Seq(Nat)
        BY DEF ClientOrder
      <4>2. front \in Seq(Nat) /\ Len(front) = Len(received)
        BY <4>1
      <4>3. ASSUME NEW n \in 1..Len(received)
            PROVE  received[n] = front[n]
        <5>1. whole[n] = received[n]
          BY <4>1
        <5>2. n \in 1..(Len(received) + Len(inbox))
          BY <4>1
        <5>3. whole[n] = n
          BY <5>2 DEF ClientOrder
        <5> QED
          BY <5>1, <5>3
      <4> QED
        BY <4>1, <4>2, <4>3, SeqEqual
    <3>4. Len(received') + Len(inbox') = Len(received)
      BY <2>1, <3>1 DEF ClientOrder
    <3>5. Len(received) <= transmitted
      BY DEF ClientOrder
    <3> QED
      BY <2>1, <2>3, <3>1, <3>2, <3>3, <3>4, <3>5 DEF ClientOrder
  <2> QED
    BY <2>1, <2>2, <2>3
<1>4. CASE \/ Client!StartClearTextClient \/ Client!StartSslClient \/ Client!OnEncrypted
           \/ Client!OnErrorOccurred \/ Client!Quit \/ Client!ThreadFinished \/ Client!Stop
  BY <1>4 DEF Client!StartClearTextClient, Client!StartSslClient, Client!OnEncrypted,
    Client!OnErrorOccurred, Client!Quit, Client!ThreadFinished, Client!Stop, ClientOrder
<1>5. CASE UNCHANGED Client!clientVars
  BY <1>5 DEF Client!clientVars, ClientOrder
<1> QED
  BY <1>1, <1>2, <1>3, <1>4, <1>5 DEF Client!Next, Client!WorkerStep

\* The end of the connection is heard after all that came before it.
LEMMA ClientDecidesKept ==
    ClientDecides /\ [Client!Next]_Client!clientVars => ClientDecides'
<1> SUFFICES ASSUME ClientDecides, [Client!Next]_Client!clientVars
             PROVE  ClientDecides'
  OBVIOUS
<1> USE DEF Client!ownVars, Client!threadVars, Client!socketVars, Client!peerVars,
      Client!FinishAndStop, Client!Served, Client!Signalled, ClientDecides
<1>1. CASE Client!StartClearTextClient
  BY <1>1 DEF Client!StartClearTextClient
<1>2. CASE Client!StartSslClient
  BY <1>2 DEF Client!StartSslClient
<1>3. CASE Client!OnEncrypted
  BY <1>3 DEF Client!OnEncrypted
<1>4. CASE Client!OnReadyRead
  BY <1>4 DEF Client!OnReadyRead
<1>5. CASE Client!OnErrorOccurred
  BY <1>5 DEF Client!OnErrorOccurred
<1>6. CASE Client!Quit \/ Client!Stop
  BY <1>6 DEF Client!Quit, Client!Stop
<1>7. CASE Client!ThreadFinished
  BY <1>7 DEF Client!ThreadFinished
<1>8. CASE Client!PeerSends \/ Client!PeerLeaves
  BY <1>8 DEF Client!PeerSends, Client!PeerLeaves
<1>9. CASE UNCHANGED Client!clientVars
  BY <1>9 DEF Client!clientVars
<1> QED
  BY <1>1, <1>2, <1>3, <1>4, <1>5, <1>6, <1>7, <1>8, <1>9
  DEF Client!Next, Client!WorkerStep

\* Two elements, the second of which was appended to the first.
LEMMA AppendToOne ==
    ASSUME NEW p, NEW q
    PROVE  Append(<<p>>, q) = <<p, q>>
<1> DEFINE S == {p, q}
<1>1. <<p>> \in Seq(S) /\ q \in S /\ <<p, q>> \in Seq(S)
  OBVIOUS
<1>2. Append(<<p>>, q) \in Seq(S) /\ Len(Append(<<p>>, q)) = 2 /\ Len(<<p, q>>) = 2
  BY <1>1
<1>3. \A j \in 1..2 : Append(<<p>>, q)[j] = <<p, q>>[j]
  BY <1>1
<1> HIDE DEF S
<1> QED
  BY <1>1, <1>2, <1>3, SeqEqual

\* Nothing but the end of the thread says clientFinished(), and that closes the socket.
LEMMA ClientClosesKept ==
    ClientCloses /\ [Client!Next]_Client!clientVars => ClientCloses'
<1> SUFFICES ASSUME ClientCloses, [Client!Next]_Client!clientVars
             PROVE  ClientCloses'
  OBVIOUS
<1> USE DEF Client!ownVars, Client!threadVars, Client!socketVars, Client!peerVars,
      Client!ClosesConnection, ClientCloses
<1>1. CASE Client!StartClearTextClient
  <2>1. /\ at' = "loop" /\ socket' = "open"
        /\ heard' = heard \/ heard' = Append(heard, "clientStarted")
    BY <1>1 DEF Client!StartClearTextClient
  <2>2. heard = <<>>
    BY <1>1 DEF Client!StartClearTextClient
  <2>3. Append(<<>>, "clientStarted") = <<"clientStarted">>
    OBVIOUS
  <2> QED
    BY <2>1, <2>2, <2>3
<1>2. CASE Client!StartSslClient
  BY <1>2 DEF Client!StartSslClient
<1>3. CASE Client!ThreadFinished
  <2>1. /\ at = "loop" /\ at' = "over" /\ heard' = Append(heard, "clientFinished")
        /\ useSsl' = useSsl /\ equipped' = equipped
        /\ IF socket = "null" THEN descriptor' = descriptor ELSE descriptor' = "closed"
    BY <1>3 DEF Client!ThreadFinished
  <2>2. Append(<<>>, "clientFinished") = <<"clientFinished">>
    OBVIOUS
  <2>3. Append(<<"clientStarted">>, "clientFinished")
          = <<"clientStarted", "clientFinished">>
    BY AppendToOne
  <2>4. heard' \in {<<"clientFinished">>, <<"clientStarted", "clientFinished">>}
    <3>1. CASE heard = <<>>
      BY <2>1, <2>2, <3>1
    <3>2. CASE heard = <<"clientStarted">>
      BY <2>1, <2>3, <3>2
    <3> QED
      BY <2>1, <3>1, <3>2
  <2>5. descriptor' = "closed" \/ (useSsl' /\ ~equipped')
    BY <2>1
  <2> QED
    BY <2>1, <2>4, <2>5
<1>4. CASE \/ Client!OnEncrypted \/ Client!OnReadyRead \/ Client!OnErrorOccurred
           \/ Client!Quit \/ Client!Stop \/ Client!PeerSends \/ Client!PeerLeaves
  BY <1>4 DEF Client!OnEncrypted, Client!OnReadyRead, Client!OnErrorOccurred,
    Client!Quit, Client!Stop, Client!PeerSends, Client!PeerLeaves
<1>5. CASE UNCHANGED Client!clientVars
  BY <1>5 DEF Client!clientVars
<1> QED
  BY <1>1, <1>2, <1>3, <1>4, <1>5 DEF Client!Next, Client!WorkerStep

LEMMA ClientKept == ClientInv /\ [Client!Next]_Client!clientVars => ClientInv'
BY ClientOrderKept, ClientDecidesKept, ClientClosesKept DEF ClientInv

\* A client that its peer left in order, and that nobody stopped, has read all.
LEMMA ClientDelivers == ClientInv => Client!DeliversAll
<1> SUFFICES ASSUME ClientInv
             PROVE  Client!DeliversAll
  OBVIOUS
<1>1. received \o inbox = [n \in 1..(Len(received) + Len(inbox)) |-> n]
  BY DEF ClientInv, ClientOrder
<1>2. ASSUME Client!Served, peer = "closed", completion = "failure"
      PROVE  Len(received) = transmitted
  <2>1. inbox = <<>>
    BY <1>2 DEF ClientInv, ClientDecides
  <2>2. Len(received) + Len(inbox) = transmitted /\ Len(received) \in Nat
    BY <1>2 DEF ClientInv, ClientOrder
  <2>3. Len(inbox) = 0
    BY <2>1
  <2> QED
    BY <2>2, <2>3
<1> QED
  BY <1>1, <1>2 DEF Client!DeliversAll

\* A step of the library is one of the client, or of a part that does not touch it.
LEMMA ClientSteps == [Next]_libraryVars => [Client!Next]_Client!clientVars
<1> SUFFICES ASSUME [Next]_libraryVars
             PROVE  [Client!Next]_Client!clientVars
  OBVIOUS
<1> USE DEF Servers, clientVars, Client!clientVars, Client!ownVars, Client!threadVars,
      Client!socketVars, Client!peerVars
<1>1. CASE ClientStep
  BY <1>1 DEF ClientStep
<1>2. CASE RouteStep
  BY <1>2 DEF RouteStep
<1>3. CASE TreeStep
  BY <1>3 DEF TreeStep
<1>4. CASE ShapeStep
  BY <1>4 DEF ShapeStep
<1>5. CASE SpanStep
  BY <1>5 DEF SpanStep
<1>6. CASE RangeStep
  BY <1>6 DEF RangeStep
<1>7. CASE StringStep
  BY <1>7 DEF StringStep
<1>8. CASE FileStep
  BY <1>8 DEF FileStep
<1>9. CASE UdpStep
  BY <1>9 DEF UdpStep
<1>10. CASE RateStep
  BY <1>10 DEF RateStep
<1>11. CASE MetadataStep
  BY <1>11 DEF MetadataStep
<1>12. CASE UNCHANGED libraryVars
  BY <1>12 DEF libraryVars
<1> QED
  BY <1>1, <1>2, <1>3, <1>4, <1>5, <1>6, <1>7, <1>8, <1>9, <1>10, <1>11, <1>12 DEF Next

\* A client that ends has closed the connection it took over, and said that it started,
\* if it did, and that it finished: onErrorOccurred(), stop() and a start that fails, in
\* any order, for any number of packets.
THEOREM ClosesConnectionHolds == Spec => [](part = "client" => Client!ClosesConnection)
<1>1. Init => ClientInv
  BY ClientAtInit DEF Init
<1>2. ClientInv /\ [Next]_libraryVars => ClientInv'
  BY ClientSteps, ClientKept
<1>3. ClientInv => (part = "client" => Client!ClosesConnection)
  BY DEF ClientInv, ClientCloses
<1> QED
  BY <1>1, <1>2, <1>3, PTL DEF Spec

-----------------------------------------------------------------------------
\* Datagrams that writeDatagram() queues are sent once each, in order, and never
\* forgotten, and what the peer of a TCP client sends reaches receivedData() whole, for
\* any threads and bounds: the invariants of the two, in the library.
THEOREM NothingLostHolds == Spec => []NothingLost
<1> DEFINE Inv == Udp!TypeOK /\ Udp!SentInOrder /\ Udp!NothingForgotten /\ ClientInv
<1>1. Init => Inv
  <2>1. Init => Udp!Init /\ Client!Init
    BY DEF Init
  <2> QED
    BY <2>1, UdpTypeAtInit, UdpNothingAtInit, ClientAtInit
<1>2. Inv /\ [Next]_libraryVars => Inv'
  BY UdpServerSteps, UdpTypeKept, UdpOrderKept, UdpReminderKept, ClientSteps, ClientKept
<1>3. Inv => NothingLost
  BY ClientDelivers DEF NothingLost, Udp!NothingLost
<1> QED
  BY <1>1, <1>2, <1>3, PTL DEF Spec

-----------------------------------------------------------------------------
(* The registry of entity metadata                                         *)

InfoSet == [name : Names, iconId : Icons, deleted : BOOLEAN]

\* The types the argument needs of the registry.
RegistryTypes ==
    /\ infos \in Seq(InfoSet)
    /\ registeredTypes \in [EntityTypes -> 0..Len(infos)]
    /\ nameToTypeMap \in [Names -> EntityTypes \cup {0}]
    /\ asked \subseteq EntityTypes \X Names
    /\ usedDeleted \in BOOLEAN

\* A type has an info of its own, of a name it was registered under.
OwnInfo ==
    /\ \A t \in EntityTypes :
          registeredTypes[t] # Metadata!Null => <<t, infos[registeredTypes[t]].name>> \in asked
    /\ \A s, t \in EntityTypes :
          registeredTypes[s] = registeredTypes[t] /\ registeredTypes[s] # Metadata!Null => s = t

\* What the thread that holds the lock is registering has its info already.
Registering ==
    lock # Nobody =>
        /\ arg.type \in EntityTypes /\ arg.name \in Names
        /\ <<arg.type, arg.name>> \in asked
        /\ registeredTypes[arg.type] # Metadata!Null
        /\ infos[registeredTypes[arg.type]].name = arg.name

\* Only a type of several names loses its info.
DeletedDisputed ==
    \A t \in EntityTypes : Metadata!IsDeleted(registeredTypes[t]) => ~Metadata!Undisputed(t)

\* The name of a type leads to it, or is about to.
NameLeads ==
    \A t \in EntityTypes :
        Metadata!Undisputed(t) /\ registeredTypes[t] # Metadata!Null =>
            \/ nameToTypeMap[infos[registeredTypes[t]].name] = t
            \/ lock # Nobody /\ arg.type = t

\* A deleted info was used only if some type is disputed.
UseDisputed == usedDeleted => \E t \in EntityTypes : ~Metadata!Undisputed(t)

RegistryInv ==
    RegistryTypes /\ OwnInfo /\ Registering /\ DeletedDisputed /\ NameLeads /\ UseDisputed

-----------------------------------------------------------------------------
\* More registrations settle no dispute.
LEMMA DisputesStay ==
    ASSUME asked \subseteq asked', NEW t, Metadata!Undisputed(t)'
    PROVE  Metadata!Undisputed(t)
  BY DEF Metadata!Undisputed

\* Deleting an info changes nothing else.
LEMMA DeleteInfo ==
    ASSUME NEW s \in Seq(InfoSet), NEW k \in 1..Len(s),
           NEW r, r = [s EXCEPT ![k].deleted = TRUE]
    PROVE  /\ r \in Seq(InfoSet) /\ Len(r) = Len(s)
           /\ \A j \in 1..Len(s) : r[j].name = s[j].name
           /\ \A j \in 1..Len(s) : j # k => r[j] = s[j]
<1> DEFINE e == [s[k] EXCEPT !.deleted = TRUE]
<1>1. s[k] \in InfoSet
  OBVIOUS
<1>2. e \in InfoSet /\ e.name = s[k].name
  BY <1>1 DEF InfoSet
<1>3. r = [s EXCEPT ![k] = e]
  OBVIOUS
<1> HIDE DEF e
<1>4. /\ r \in Seq(InfoSet) /\ Len(r) = Len(s)
      /\ \A j \in 1..Len(s) : r[j] = IF j = k THEN e ELSE s[j]
  <2> DEFINE q == [s EXCEPT ![k] = e]
  <2>1. e \in InfoSet
    BY <1>2
  <2>2. /\ q \in Seq(InfoSet) /\ Len(q) = Len(s)
        /\ \A j \in 1..Len(s) : q[j] = IF j = k THEN e ELSE s[j]
    BY <2>1, ExceptSeq
  <2> HIDE DEF q
  <2>3. r = q
    BY <1>3 DEF q
  <2> QED
    BY <2>2, <2>3
<1> QED
  BY <1>2, <1>4

\* Setting an icon changes nothing else.
LEMMA SetIcon ==
    ASSUME NEW s \in Seq(InfoSet), NEW k \in 1..Len(s), NEW icon \in Icons,
           NEW r, r = [s EXCEPT ![k].iconId = icon]
    PROVE  /\ r \in Seq(InfoSet) /\ Len(r) = Len(s)
           /\ \A j \in 1..Len(s) : r[j].name = s[j].name /\ r[j].deleted = s[j].deleted
<1> DEFINE e == [s[k] EXCEPT !.iconId = icon]
<1>1. s[k] \in InfoSet
  OBVIOUS
<1>2. e \in InfoSet /\ e.name = s[k].name /\ e.deleted = s[k].deleted
  BY <1>1 DEF InfoSet
<1>3. r = [s EXCEPT ![k] = e]
  OBVIOUS
<1> HIDE DEF e
<1>4. /\ r \in Seq(InfoSet) /\ Len(r) = Len(s)
      /\ \A j \in 1..Len(s) : r[j] = IF j = k THEN e ELSE s[j]
  <2>1. e \in InfoSet
    BY <1>2
  <2> QED
    BY <1>3, <2>1, ExceptSeq
<1> QED
  BY <1>2, <1>4

\* What a step may do with an info: use it, where it is that of a type.
LEMMA UseKeeps ==
    ASSUME RegistryInv, asked \subseteq asked', usedDeleted' \in BOOLEAN,
           NEW t \in EntityTypes, NEW k \in {registeredTypes[t], Metadata!Null}, Metadata!Use(k)
    PROVE  UseDisputed'
<1> SUFFICES ASSUME usedDeleted'
             PROVE  (\E s \in EntityTypes : ~Metadata!Undisputed(s))'
  BY DEF UseDisputed
<1>1. \E s \in EntityTypes : ~Metadata!Undisputed(s)
  <2>1. CASE usedDeleted
    BY <2>1 DEF RegistryInv, UseDisputed
  <2>2. CASE Metadata!IsDeleted(k)
    <3>1. Metadata!IsDeleted(registeredTypes[t])
      BY <2>2 DEF Metadata!IsDeleted
    <3> QED
      BY <3>1 DEF RegistryInv, DeletedDisputed
  <2> QED
    BY <2>1, <2>2 DEF Metadata!Use
<1>2. PICK s \in EntityTypes : ~Metadata!Undisputed(s)
  BY <1>1
<1>3. ~Metadata!Undisputed(s)'
  BY <1>2, DisputesStay
<1> QED
  BY <1>3

\* The invariant holds of the empty registry.
LEMMA RegistryAtInit == Metadata!Init => RegistryInv
<1> SUFFICES ASSUME Metadata!Init
             PROVE  RegistryInv
  OBVIOUS
<1>1. RegistryTypes
  <2>1. infos \in Seq(InfoSet) /\ Len(infos) = 0
    BY EmptySeq DEF Metadata!Init
  <2>2. registeredTypes \in [EntityTypes -> 0..Len(infos)]
    BY <2>1 DEF Metadata!Init, Metadata!Null
  <2> QED
    BY <2>1, <2>2 DEF Metadata!Init, RegistryTypes
<1>2. OwnInfo /\ Registering /\ UseDisputed
  BY DEF Metadata!Init, OwnInfo, Registering, UseDisputed
<1>3. DeletedDisputed /\ NameLeads
  BY DEF Metadata!Init, DeletedDisputed, NameLeads, Metadata!IsDeleted
<1> QED
  BY <1>1, <1>2, <1>3 DEF RegistryInv

\* Registering a type that has an info: as it was, or with the info deleted.
LEMMA RegisteredAgain ==
    ASSUME RegistryInv, NEW t \in EntityTypes, NEW n \in Names,
           lock = Nobody, asked' = asked \cup {<<t, n>>},
           registeredTypes[t] # Metadata!Null, Metadata!Use(registeredTypes[t]),
           NEW same \in {infos[registeredTypes[t]].name = n}
                          \cup IF Metadata!IsDeleted(registeredTypes[t]) THEN BOOLEAN ELSE {},
           infos' = IF same THEN infos ELSE [infos EXCEPT ![registeredTypes[t]].deleted = TRUE],
           UNCHANGED <<registeredTypes, nameToTypeMap, lock, arg>>
    PROVE  RegistryInv'
<1> DEFINE k == registeredTypes[t]
<1>1. /\ RegistryTypes /\ OwnInfo /\ Registering /\ DeletedDisputed /\ NameLeads
      /\ k \in 1..Len(infos) /\ asked \subseteq asked' /\ asked' \subseteq EntityTypes \X Names
      /\ usedDeleted' \in BOOLEAN
  BY DEF RegistryInv, RegistryTypes, Metadata!Null, Metadata!Use, Metadata!IsDeleted
<1>2. /\ infos' \in Seq(InfoSet) /\ Len(infos') = Len(infos)
      /\ \A j \in 1..Len(infos) : infos'[j].name = infos[j].name
      /\ \A j \in 1..Len(infos) : j # k => infos'[j] = infos[j]
  <2>1. infos \in Seq(InfoSet)
    BY <1>1 DEF RegistryTypes
  <2>2. CASE infos' = infos
    BY <2>1, <2>2
  <2>3. CASE infos' = [infos EXCEPT ![k].deleted = TRUE]
    BY <1>1, <2>1, <2>3, DeleteInfo
  <2> QED
    BY <2>2, <2>3
<1>3. \A s \in EntityTypes :
          registeredTypes[s] # Metadata!Null => registeredTypes[s] \in 1..Len(infos)
  BY <1>1 DEF RegistryTypes, Metadata!Null
<1>4. RegistryTypes'
  BY <1>1, <1>2 DEF RegistryTypes
<1>5. OwnInfo'
  BY <1>1, <1>2, <1>3 DEF OwnInfo
<1>6. Registering'
  BY DEF Registering
<1>7. DeletedDisputed'
  <2> SUFFICES ASSUME NEW s \in EntityTypes,
                      Metadata!IsDeleted(registeredTypes[s])', Metadata!Undisputed(s)'
               PROVE  FALSE
    BY DEF DeletedDisputed
  <2>1. Metadata!Undisputed(s) /\ ~Metadata!IsDeleted(registeredTypes[s])
    BY <1>1, DisputesStay DEF DeletedDisputed
  <2>2. registeredTypes[s] # Metadata!Null /\ infos'[registeredTypes[s]].deleted
    BY DEF Metadata!IsDeleted
  <2>3. registeredTypes[s] = k
    BY <1>2, <1>3, <2>1, <2>2 DEF Metadata!IsDeleted
  <2>4. s = t
    BY <1>1, <2>2, <2>3 DEF OwnInfo
  <2>5. ~same
    BY <2>1, <2>2, <2>4 DEF Metadata!IsDeleted
  <2>6. infos[k].name # n
    BY <2>1, <2>4, <2>5
  <2>7. <<t, infos[k].name>> \in asked' /\ <<t, n>> \in asked'
    BY <1>1 DEF OwnInfo
  <2> QED
    BY <2>4, <2>6, <2>7 DEF Metadata!Undisputed
<1>8. NameLeads'
  <2> SUFFICES ASSUME NEW s \in EntityTypes,
                      Metadata!Undisputed(s)', registeredTypes[s] # Metadata!Null
               PROVE  nameToTypeMap[infos'[registeredTypes[s]].name] = s
    BY DEF NameLeads
  <2>1. Metadata!Undisputed(s)
    BY <1>1, DisputesStay
  <2>2. nameToTypeMap[infos[registeredTypes[s]].name] = s
    BY <1>1, <2>1 DEF NameLeads
  <2> QED
    BY <1>2, <1>3, <2>2
<1>9. UseDisputed'
  BY <1>1, UseKeeps
<1> QED
  BY <1>4, <1>5, <1>6, <1>7, <1>8, <1>9 DEF RegistryInv

\* Registering a type that has no info: it gets one, and the lock is held.
LEMMA RegisteredFirst ==
    ASSUME RegistryInv, Metadata!MetadataAssumption,
           NEW u \in Threads, NEW t \in EntityTypes, NEW n \in Names,
           NEW icon \in Icons,
           lock = Nobody, asked' = asked \cup {<<t, n>>},
           registeredTypes[t] = Metadata!Null, Metadata!Use(registeredTypes[t]),
           infos' = Append(infos, [name |-> n, iconId |-> icon, deleted |-> FALSE]),
           registeredTypes' = [registeredTypes EXCEPT ![t] = Len(infos')],
           arg' = [type |-> t, name |-> n], lock' = u, UNCHANGED nameToTypeMap
    PROVE  RegistryInv'
<1> DEFINE new == [name |-> n, iconId |-> icon, deleted |-> FALSE]
<1>1. /\ RegistryTypes /\ OwnInfo /\ DeletedDisputed /\ NameLeads
      /\ asked \subseteq asked' /\ asked' \subseteq EntityTypes \X Names
      /\ usedDeleted' \in BOOLEAN /\ lock' # Nobody
  BY DEF RegistryInv, RegistryTypes, Metadata!Use, Metadata!IsDeleted, Metadata!MetadataAssumption
<1>2. /\ infos' \in Seq(InfoSet) /\ Len(infos') = Len(infos) + 1
      /\ \A j \in 1..Len(infos) : infos'[j] = infos[j]
      /\ infos'[Len(infos) + 1] = new
  <2>1. infos \in Seq(InfoSet) /\ new \in InfoSet
    BY <1>1 DEF RegistryTypes, InfoSet
  <2> HIDE DEF new
  <2>2. infos' = Append(infos, new)
    BY DEF new
  <2> QED
    BY <2>1, <2>2, AppendProperties
<1>3. /\ registeredTypes'[t] = Len(infos) + 1
      /\ \A s \in EntityTypes : s # t => registeredTypes'[s] = registeredTypes[s]
      /\ \A s \in EntityTypes : registeredTypes[s] \in 0..Len(infos)
      /\ Len(infos) \in Nat
  BY <1>1, <1>2 DEF RegistryTypes
<1>4. RegistryTypes'
  <2>1. registeredTypes' \in [EntityTypes -> 0..Len(infos')]
    BY <1>1, <1>2, <1>3 DEF RegistryTypes
  <2> QED
    BY <1>1, <1>2, <2>1 DEF RegistryTypes
<1>5. \A s \in EntityTypes : registeredTypes'[s] # Metadata!Null /\ s # t =>
          /\ infos'[registeredTypes'[s]] = infos[registeredTypes[s]]
          /\ registeredTypes[s] # Metadata!Null
  BY <1>2, <1>3 DEF Metadata!Null
<1>6. infos'[registeredTypes'[t]] = new /\ registeredTypes'[t] # Metadata!Null
  BY <1>2, <1>3 DEF Metadata!Null
<1>7. OwnInfo'
  <2>1. ASSUME NEW s \in EntityTypes, registeredTypes'[s] # Metadata!Null
        PROVE  <<s, infos'[registeredTypes'[s]].name>> \in asked'
    <3>1. CASE s = t
      BY <1>6, <3>1
    <3>2. CASE s # t
      BY <1>1, <1>5, <2>1, <3>2 DEF OwnInfo
    <3> QED
      BY <3>1, <3>2
  <2>2. ASSUME NEW r \in EntityTypes, NEW s \in EntityTypes,
               registeredTypes'[r] = registeredTypes'[s], registeredTypes'[r] # Metadata!Null
        PROVE  r = s
    BY <1>1, <1>3, <2>2 DEF OwnInfo
  <2> QED
    BY <2>1, <2>2 DEF OwnInfo
<1>8. Registering'
  BY <1>6 DEF Registering
<1>9. DeletedDisputed'
  <2> SUFFICES ASSUME NEW s \in EntityTypes,
                      Metadata!IsDeleted(registeredTypes[s])', Metadata!Undisputed(s)'
               PROVE  FALSE
    BY DEF DeletedDisputed
  <2>1. s # t
    BY <1>6 DEF Metadata!IsDeleted
  <2>2. Metadata!IsDeleted(registeredTypes[s])
    BY <1>5, <2>1 DEF Metadata!IsDeleted
  <2> QED
    BY <1>1, <2>2, DisputesStay DEF DeletedDisputed
<1>10. NameLeads'
  <2> SUFFICES ASSUME NEW s \in EntityTypes,
                      Metadata!Undisputed(s)', registeredTypes'[s] # Metadata!Null, s # t
               PROVE  nameToTypeMap[infos'[registeredTypes'[s]].name] = s
    BY <1>1 DEF NameLeads
  <2>1. Metadata!Undisputed(s)
    BY <1>1, DisputesStay
  <2>2. nameToTypeMap[infos[registeredTypes[s]].name] = s
    BY <1>1, <1>5, <2>1 DEF NameLeads
  <2> QED
    BY <1>5, <2>2
<1>11. UseDisputed'
  BY <1>1, UseKeeps
<1> QED
  BY <1>4, <1>7, <1>8, <1>9, <1>10, <1>11 DEF RegistryInv

\* The name that is being registered leads to its type.
LEMMA NameRegistered ==
    ASSUME RegistryInv, Metadata!MetadataAssumption, NEW u \in Threads, Metadata!RegisterName(u)
    PROVE  RegistryInv'
<1>1. /\ RegistryTypes /\ OwnInfo /\ DeletedDisputed /\ NameLeads /\ UseDisputed
      /\ arg.type \in EntityTypes /\ arg.name \in Names /\ <<arg.type, arg.name>> \in asked
      /\ registeredTypes[arg.type] # Metadata!Null
      /\ infos[registeredTypes[arg.type]].name = arg.name
  BY DEF RegistryInv, Registering, Metadata!RegisterName, Metadata!MetadataAssumption
<1>2. /\ nameToTypeMap' = [nameToTypeMap EXCEPT ![arg.name] = arg.type] /\ lock' = Nobody
      /\ UNCHANGED <<registeredTypes, infos, arg, usedDeleted, asked>>
  BY DEF Metadata!RegisterName
<1>3. RegistryTypes'
  BY <1>1, <1>2 DEF RegistryTypes
<1>4. OwnInfo' /\ Registering'
  BY <1>1, <1>2 DEF OwnInfo, Registering
<1>5. DeletedDisputed' /\ UseDisputed'
  BY <1>1, <1>2 DEF DeletedDisputed, UseDisputed, Metadata!IsDeleted, Metadata!Undisputed
<1>6. NameLeads'
  <2> SUFFICES ASSUME NEW s \in EntityTypes,
                      Metadata!Undisputed(s), registeredTypes[s] # Metadata!Null
               PROVE  nameToTypeMap'[infos[registeredTypes[s]].name] = s
    BY <1>2 DEF NameLeads, Metadata!Undisputed
  <2> DEFINE m == infos[registeredTypes[s]].name
  <2>1. <<s, m>> \in asked /\ m \in Names
    BY <1>1 DEF OwnInfo, RegistryTypes
  <2>2. CASE s = arg.type
    BY <1>1, <1>2, <2>2 DEF RegistryTypes
  <2>3. CASE s # arg.type
    <3>1. nameToTypeMap[m] = s
      BY <1>1, <2>3 DEF NameLeads
    <3>2. m # arg.name
      <4> SUFFICES ASSUME m = arg.name
                   PROVE  FALSE
        OBVIOUS
      <4>1. <<s, m>> \in asked /\ <<arg.type, m>> \in asked
        BY <1>1, <2>1
      <4>2. <<s, m>> = <<arg.type, m>>
        <5> HIDE DEF m
        <5> QED
          BY <4>1 DEF Metadata!Undisputed
      <4> QED
        BY <2>3, <4>2
    <3> QED
      BY <1>1, <1>2, <2>1, <3>1, <3>2 DEF RegistryTypes
  <2> QED
    BY <2>2, <2>3
<1> QED
  BY <1>3, <1>4, <1>5, <1>6 DEF RegistryInv

\* An icon does not matter to names.
LEMMA IconRegistered ==
    ASSUME RegistryInv, NEW t \in EntityTypes, NEW icon \in Icons,
           Metadata!RegisterIcon(t, icon)
    PROVE  RegistryInv'
<1>1. PICK k \in Metadata!Found(t) :
          /\ Metadata!Use(k)
          /\ infos' = IF k = Metadata!Null THEN infos ELSE [infos EXCEPT ![k].iconId = icon]
  BY DEF Metadata!RegisterIcon
<1>2. /\ UNCHANGED <<registeredTypes, nameToTypeMap, lock, arg, asked>>
      /\ k \in {registeredTypes[t], Metadata!Null}
  BY DEF Metadata!RegisterIcon, Metadata!Found
<1>3. /\ RegistryTypes /\ OwnInfo /\ Registering /\ DeletedDisputed /\ NameLeads
      /\ usedDeleted' \in BOOLEAN /\ asked \subseteq asked'
      /\ \A s \in EntityTypes :
             registeredTypes[s] # Metadata!Null => registeredTypes[s] \in 1..Len(infos)
  BY <1>1, <1>2 DEF RegistryInv, RegistryTypes, Metadata!Null, Metadata!Use, Metadata!IsDeleted
<1>4. /\ infos' \in Seq(InfoSet) /\ Len(infos') = Len(infos)
      /\ \A j \in 1..Len(infos) :
             infos'[j].name = infos[j].name /\ infos'[j].deleted = infos[j].deleted
  <2>1. infos \in Seq(InfoSet)
    BY <1>3 DEF RegistryTypes
  <2>2. CASE k = Metadata!Null
    BY <1>1, <2>1, <2>2
  <2>3. CASE k # Metadata!Null
    <3>1. k \in 1..Len(infos) /\ infos' = [infos EXCEPT ![k].iconId = icon]
      BY <1>1, <1>2, <1>3, <2>3
    <3> QED
      BY <2>1, <3>1, SetIcon
  <2> QED
    BY <2>2, <2>3
<1>5. RegistryTypes'
  BY <1>2, <1>3, <1>4 DEF RegistryTypes
<1>6. OwnInfo'
  BY <1>2, <1>3, <1>4 DEF OwnInfo
<1>7. Registering'
  BY <1>2, <1>3, <1>4 DEF Registering
<1>8. DeletedDisputed'
  BY <1>2, <1>3, <1>4 DEF DeletedDisputed, Metadata!IsDeleted, Metadata!Undisputed
<1>9. NameLeads'
  BY <1>2, <1>3, <1>4 DEF NameLeads, Metadata!Undisputed
<1>10. UseDisputed'
  BY <1>1, <1>2, <1>3, UseKeeps
<1> QED
  BY <1>5, <1>6, <1>7, <1>8, <1>9, <1>10 DEF RegistryInv

\* Every step keeps the invariant.
LEMMA RegistryKept ==
    ASSUME RegistryInv, Metadata!MetadataAssumption, [Metadata!Next]_Metadata!metadataVars
    PROVE  RegistryInv'
<1>1. ASSUME NEW u \in Threads, NEW t \in EntityTypes, NEW n \in Names,
            Metadata!RegisterMetadata(u, t, n)
      PROVE  RegistryInv'
  <2> DEFINE k == registeredTypes[t]
  <2>1. /\ lock = Nobody /\ asked' = asked \cup {<<t, n>>}
        /\ Metadata!Use(k) /\ UNCHANGED nameToTypeMap
    BY <1>1 DEF Metadata!RegisterMetadata
  <2>2. CASE /\ k # Metadata!Null
             /\ \E same \in {infos[k].name = n}
                               \cup IF Metadata!IsDeleted(k) THEN BOOLEAN ELSE {} :
                    infos' = IF same THEN infos ELSE [infos EXCEPT ![k].deleted = TRUE]
             /\ UNCHANGED <<registeredTypes, lock, arg>>
    <3>1. PICK same \in {infos[k].name = n} \cup IF Metadata!IsDeleted(k) THEN BOOLEAN ELSE {} :
                    infos' = IF same THEN infos ELSE [infos EXCEPT ![k].deleted = TRUE]
      BY <2>2
    <3> QED
      BY <2>1, <2>2, <3>1, RegisteredAgain
  <2>3. CASE /\ k = Metadata!Null
             /\ \E icon \in Icons :
                    infos' = Append(infos, [name |-> n, iconId |-> icon, deleted |-> FALSE])
             /\ registeredTypes' = [registeredTypes EXCEPT ![t] = Len(infos')]
             /\ arg' = [type |-> t, name |-> n]
             /\ lock' = u
    <3>1. PICK icon \in Icons :
                    infos' = Append(infos, [name |-> n, iconId |-> icon, deleted |-> FALSE])
      BY <2>3
    <3> QED
      BY <2>1, <2>3, <3>1, RegisteredFirst
  <2> QED
    BY <1>1, <2>2, <2>3 DEF Metadata!RegisterMetadata
<1>2. ASSUME NEW t \in EntityTypes, Metadata!Construct(t)
      PROVE  RegistryInv'
  <2>1. PICK k \in Metadata!Found(t) : Metadata!Use(k)
    BY <1>2 DEF Metadata!Construct
  <2>2. /\ UNCHANGED <<registeredTypes, nameToTypeMap, infos, lock, arg, asked>>
        /\ k \in {registeredTypes[t], Metadata!Null} /\ asked \subseteq asked'
    BY <1>2 DEF Metadata!Construct, Metadata!Found
  <2>3. usedDeleted' \in BOOLEAN
    BY <2>1 DEF RegistryInv, RegistryTypes, Metadata!Use, Metadata!IsDeleted
  <2>4. UseDisputed'
    BY <2>1, <2>2, <2>3, UseKeeps
  <2>5. RegistryTypes' /\ OwnInfo' /\ Registering'
    BY <2>2, <2>3 DEF RegistryInv, RegistryTypes, OwnInfo, Registering
  <2>6. DeletedDisputed' /\ NameLeads'
    BY <2>2 DEF RegistryInv, DeletedDisputed, NameLeads, Metadata!IsDeleted, Metadata!Undisputed
  <2> QED
    BY <2>4, <2>5, <2>6 DEF RegistryInv
<1>3. CASE UNCHANGED Metadata!metadataVars
  <2>1. RegistryTypes' /\ OwnInfo' /\ Registering'
    BY <1>3 DEF Metadata!metadataVars, RegistryInv, RegistryTypes, OwnInfo, Registering
  <2>2. DeletedDisputed' /\ NameLeads' /\ UseDisputed'
    BY <1>3 DEF Metadata!metadataVars, RegistryInv, DeletedDisputed, NameLeads, UseDisputed,
                Metadata!IsDeleted, Metadata!Undisputed
  <2> QED
    BY <2>1, <2>2 DEF RegistryInv
<1> QED
  BY <1>1, <1>2, <1>3, NameRegistered, IconRegistered DEF Metadata!Next

\* The invariant says what is checked.
LEMMA InvAgrees == RegistryInv => Metadata!RegistryAgrees
  BY DEF RegistryInv, DeletedDisputed, NameLeads, UseDisputed, Metadata!RegistryAgrees,
         Metadata!GetTypeFromString, Metadata!GetTypeString

\* A step of the library is one of the registry, or of a part that does not touch it.
LEMMA EntityMetadataSteps ==
    [Next]_libraryVars => [Metadata!Next]_Metadata!metadataVars
<1> SUFFICES ASSUME [Next]_libraryVars
             PROVE  [Metadata!Next]_Metadata!metadataVars
  OBVIOUS
<1>1. CASE MetadataStep
  BY <1>1 DEF MetadataStep
<1>2. CASE UdpStep
  BY <1>2 DEF UdpStep, Shared, metadataVars, Metadata!metadataVars
<1>3. CASE RouteStep
  BY <1>3 DEF RouteStep, Shared, metadataVars, Metadata!metadataVars
<1>4. CASE TreeStep
  BY <1>4 DEF TreeStep, Shared, metadataVars, Metadata!metadataVars
<1>5. CASE ShapeStep
  BY <1>5 DEF ShapeStep, Shared, metadataVars, Metadata!metadataVars
<1>6. CASE SpanStep
  BY <1>6 DEF SpanStep, Shared, metadataVars, Metadata!metadataVars
<1>7. CASE RangeStep
  BY <1>7 DEF RangeStep, Shared, metadataVars, Metadata!metadataVars
<1>8. CASE StringStep
  BY <1>8 DEF StringStep, Shared, metadataVars, Metadata!metadataVars
<1>9. CASE FileStep
  BY <1>9 DEF FileStep, Shared, metadataVars, Metadata!metadataVars
<1>10. CASE ClientStep
  BY <1>10 DEF ClientStep, Shared, metadataVars, Metadata!metadataVars
<1>11. CASE RateStep
  BY <1>11 DEF RateStep, Shared, metadataVars, Metadata!metadataVars
<1>12. CASE UNCHANGED libraryVars
  BY <1>12 DEF libraryVars, Shared, metadataVars, Metadata!metadataVars
<1> QED
  BY <1>1, <1>2, <1>3, <1>4, <1>5, <1>6, <1>7, <1>8, <1>9, <1>10, <1>11, <1>12 DEF Next

\* The registry of the library agrees on the types and names that nobody disputes, for
\* any threads, types, names and number of calls: as long as a type keeps to one name and
\* the name to the type, they lead to each other once registerMetadata() has returned, and
\* no deleted info is used (entitymetadata.cpp).
THEOREM RegistryAgreesHolds == Spec => []RegistryAgrees
<1>1. Metadata!MetadataAssumption
  BY LibraryAssumption DEF LibraryAssumption
<1>2. Init => RegistryInv
  BY RegistryAtInit DEF Init
<1>3. RegistryInv /\ [Next]_libraryVars => RegistryInv'
  BY <1>1, EntityMetadataSteps, RegistryKept
<1>4. RegistryInv => RegistryAgrees
  BY InvAgrees DEF RegistryAgrees
<1> QED
  BY <1>2, <1>3, <1>4, PTL DEF Spec

-----------------------------------------------------------------------------
(* The files                                                               *)

FileData == {FileSystem!ToData(ls) : ls \in FileTexts} \cup {<<>>}

FileCalls == [of : {"none", "open", "write", "commit", "writeInPlace", "append", "move",
                    "rename"},
              path : Paths \cup {<<>>}, data : FileData, to : Paths \cup {<<>>}]

FileTypes ==
    /\ DOMAIN files = Paths /\ DOMAIN result = Threads
    /\ temporary = [u \in Threads |-> temporary[u]]
    /\ fileCall \in [Threads -> FileCalls]
    /\ \A u \in Threads : result[u] \in {"none", "TRUE", "FALSE"}
    /\ appendedTo \subseteq Paths
    /\ callsMade \in 0..MaxFileCalls

\* What a call holds on its way: it was given what it writes, has a temporary file only
\* while it writes one, and commits all of it; a file that it writes in place is one
\* that cannot be replaced.
CallHolds(c, t, known) ==
    /\ c.of # "none" => c.path \in Paths
    /\ c.of \in {"move", "rename"} => c.to \in Paths
    /\ c.of \in {"open", "write", "commit", "writeInPlace"} => c.data \in known
    /\ c.of = "commit" => t = c.data
    /\ c.of = "writeInPlace" => c.path \in Protected
    /\ t # FileSystem!Absent => c.of \in {"write", "commit"}

FilesInv ==
    /\ FileTypes
    /\ \A u \in Threads : CallHolds(fileCall[u], temporary[u], given)
    /\ <<>> \in given
    /\ FileSystem!ReplacedAtomically

LEMMA FilesAtInit == FileSystem!FilesAssumption /\ FileSystem!Init => FilesInv
<1> SUFFICES ASSUME FileSystem!FilesAssumption, FileSystem!Init PROVE FilesInv
  OBVIOUS
<1>1. FileSystem!Idle \in FileCalls
  BY DEF FileSystem!Idle, FileCalls, FileData
<1>2. FileTypes
  BY <1>1 DEF FileSystem!Init, FileTypes, FileSystem!FilesAssumption
<1>3. \A u \in Threads : CallHolds(fileCall[u], temporary[u], given)
  BY DEF FileSystem!Init, CallHolds, FileSystem!Idle
<1>4. <<>> \in given /\ FileSystem!ReplacedAtomically
  BY DEF FileSystem!Init, FileSystem!ReplacedAtomically
<1> QED
  BY <1>2, <1>3, <1>4 DEF FilesInv

\* A step of a call changes that call and its temporary file.
LEMMA FileCallMoves ==
    ASSUME FilesInv, NEW u \in Threads, NEW c \in FileCalls, NEW t,
           fileCall' = [fileCall EXCEPT ![u] = c],
           temporary' = [temporary EXCEPT ![u] = t],
           given \subseteq given', CallHolds(c, t, given')
    PROVE  /\ fileCall' \in [Threads -> FileCalls]
           /\ temporary' = [w \in Threads |-> temporary'[w]]
           /\ \A w \in Threads : CallHolds(fileCall'[w], temporary'[w], given')
<1>1. /\ fileCall \in [Threads -> FileCalls]
      /\ temporary = [w \in Threads |-> temporary[w]]
      /\ \A w \in Threads : CallHolds(fileCall[w], temporary[w], given)
  BY DEF FilesInv, FileTypes
<1>2. /\ fileCall' \in [Threads -> FileCalls]
      /\ temporary' = [w \in Threads |-> temporary'[w]]
      /\ fileCall'[u] = c /\ temporary'[u] = t
      /\ \A w \in Threads : w # u => fileCall'[w] = fileCall[w] /\ temporary'[w] = temporary[w]
  BY <1>1
<1>3. ASSUME NEW w \in Threads PROVE CallHolds(fileCall'[w], temporary'[w], given')
  <2>1. CASE w = u
    BY <1>2, <2>1
  <2>2. CASE w # u
    <3>1. CallHolds(fileCall[w], temporary[w], given')
      BY <1>1 DEF CallHolds
    <3> QED
      BY <1>2, <2>2, <3>1
  <2> QED
    BY <2>1, <2>2
<1> QED
  BY <1>2, <1>3

\* What a step of the files has to keep besides the calls.
FilesFit ==
    /\ DOMAIN files' = Paths /\ DOMAIN result' = Threads
    /\ \A u \in Threads : result'[u] \in {"none", "TRUE", "FALSE"}
    /\ appendedTo' \subseteq Paths
    /\ callsMade' \in 0..MaxFileCalls
    /\ given \subseteq given'
    /\ \A p \in Paths \ (Protected \cup appendedTo') :
          files'[p] \in given' \cup {FileSystem!Absent}

FileCallFits(u) ==
    \E c \in FileCalls : \E t :
        /\ fileCall' = [fileCall EXCEPT ![u] = c]
        /\ temporary' = [temporary EXCEPT ![u] = t]
        /\ CallHolds(c, t, given')

\* A new call.
LEMMA FileCallsBegin ==
    ASSUME FilesInv, NEW u \in Threads, NEW p \in Paths,
           \/ \E ls \in FileTexts : \/ FileSystem!WriteAllLines(u, p, ls)
                                    \/ FileSystem!AppendAllBytes(u, p, ls)
           \/ FileSystem!Touch(u, p) \/ FileSystem!RemoveFile(u, p)
           \/ \E q \in Paths : FileSystem!Move(u, p, q)
           \/ \E d \in Directories : FileSystem!MoveToDirectory(u, p, d)
    PROVE  FilesFit /\ FileCallFits(u)
<1> USE DEF FileSystem!Begin, FileSystem!ghosts
<1>0. /\ FileTypes /\ fileCall[u] \in FileCalls /\ <<>> \in given
      /\ CallHolds(fileCall[u], temporary[u], given)
      /\ \A q \in Paths \ (Protected \cup appendedTo) : files[q] \in given \cup {FileSystem!Absent}
  BY DEF FilesInv, FileTypes, FileSystem!ReplacedAtomically
<1>a. temporary[u] # FileSystem!Absent => fileCall[u].of \in {"write", "commit"}
  BY <1>0 DEF CallHolds
<1>b. fileCall[u] = FileSystem!Idle => temporary[u] = FileSystem!Absent
  BY <1>a DEF FileSystem!Idle
<1>c. temporary = [temporary EXCEPT ![u] = temporary[u]]
  BY <1>0 DEF FileTypes
<1>n. MaxFileCalls \in Nat
  BY LibraryAssumption DEF LibraryAssumption, FileSystem!FilesAssumption
<1>1. ASSUME NEW ls \in FileTexts, FileSystem!WriteAllLines(u, p, ls)
      PROVE  FilesFit /\ FileCallFits(u)
  <2> DEFINE d == FileSystem!ToData(ls)
             c == [of |-> "open", path |-> p, data |-> d, to |-> <<>>]
  <2>1. c \in FileCalls /\ c.of = "open" /\ c.path = p /\ c.data = d
    BY DEF FileCalls, FileData
  <2>2. /\ fileCall' = [fileCall EXCEPT ![u] = c] /\ temporary' = temporary
        /\ given' = given \cup {d} /\ UNCHANGED <<files, appendedTo, result>>
        /\ fileCall[u] = FileSystem!Idle /\ callsMade' = callsMade + 1 /\ callsMade < MaxFileCalls
    BY <1>1 DEF FileSystem!WriteAllLines
  <2> HIDE DEF d, c
  <2>3. CallHolds(c, temporary[u], given')
    BY <1>b, <2>1, <2>2 DEF CallHolds
  <2>4. FileCallFits(u)
    BY <1>c, <2>1, <2>2, <2>3 DEF FileCallFits
  <2>5. FilesFit
    BY <1>0, <1>n, <2>2 DEF FilesFit, FileTypes
  <2> QED
    BY <2>4, <2>5
<1>2. ASSUME NEW ls \in FileTexts, FileSystem!AppendAllBytes(u, p, ls)
      PROVE  FilesFit /\ FileCallFits(u)
  <2> DEFINE d == FileSystem!ToData(ls)
             c == [of |-> "append", path |-> p, data |-> d, to |-> <<>>]
  <2>1. c \in FileCalls /\ c.of = "append" /\ c.path = p
    BY DEF FileCalls, FileData
  <2>2. /\ fileCall' = [fileCall EXCEPT ![u] = c] /\ temporary' = temporary
        /\ UNCHANGED <<files, appendedTo, result, given>>
        /\ fileCall[u] = FileSystem!Idle /\ callsMade' = callsMade + 1 /\ callsMade < MaxFileCalls
    BY <1>2 DEF FileSystem!AppendAllBytes
  <2> HIDE DEF d, c
  <2>3. CallHolds(c, temporary[u], given')
    BY <1>b, <2>1, <2>2 DEF CallHolds
  <2>4. FileCallFits(u)
    BY <1>c, <2>1, <2>2, <2>3 DEF FileCallFits
  <2>5. FilesFit
    BY <1>0, <1>n, <2>2 DEF FilesFit, FileTypes
  <2> QED
    BY <2>4, <2>5
<1>d. ASSUME UNCHANGED <<fileCall, temporary, given>>
      PROVE  FileCallFits(u)
  <2>1. fileCall = [fileCall EXCEPT ![u] = fileCall[u]]
    BY <1>0 DEF FileTypes
  <2> QED
    BY <1>0, <1>c, <1>d, <2>1 DEF FileCallFits
<1>3. ASSUME FileSystem!Touch(u, p) PROVE FilesFit /\ FileCallFits(u)
  <2>1. UNCHANGED <<fileCall, temporary, given, appendedTo>>
        /\ callsMade' = callsMade + 1 /\ callsMade < MaxFileCalls
    BY <1>3 DEF FileSystem!Touch
  <2>2. DOMAIN result' = Threads /\ \A w \in Threads : result'[w] \in {"none", "TRUE", "FALSE"}
    BY <1>0, <1>3 DEF FileSystem!Touch, FileTypes
  <2>3. \/ files' = [files EXCEPT ![p] = files[p]]
        \/ files' = [files EXCEPT ![p] = <<>>]
        \/ files' = files
    BY <1>3 DEF FileSystem!Touch, FileSystem!Contents
  <2>4. DOMAIN files' = Paths /\ \A q \in Paths : files'[q] = files[q] \/ files'[q] = <<>>
    BY <1>0, <2>3 DEF FileTypes
  <2>5. FilesFit
    BY <1>0, <1>n, <2>1, <2>2, <2>4 DEF FilesFit, FileTypes
  <2> QED
    BY <1>d, <2>1, <2>5
<1>4. ASSUME FileSystem!RemoveFile(u, p) PROVE FilesFit /\ FileCallFits(u)
  <2>1. /\ UNCHANGED <<fileCall, temporary, given>>
        /\ callsMade' = callsMade + 1 /\ callsMade < MaxFileCalls
    BY <1>4 DEF FileSystem!RemoveFile
  <2>2. DOMAIN result' = Threads /\ \A w \in Threads : result'[w] \in {"none", "TRUE", "FALSE"}
    BY <1>0, <1>4 DEF FileSystem!RemoveFile, FileTypes
  <2>3. \/ /\ files' = [files EXCEPT ![p] = FileSystem!Absent] /\ appendedTo' = appendedTo \ {p}
        \/ files' = files /\ appendedTo' = appendedTo
    BY <1>4 DEF FileSystem!RemoveFile
  <2>4. FilesFit
    BY <1>0, <1>n, <2>1, <2>2, <2>3 DEF FilesFit, FileTypes
  <2> QED
    BY <1>d, <2>1, <2>4
<1>5. ASSUME NEW q \in Paths, FileSystem!Move(u, p, q)
      PROVE  FilesFit /\ FileCallFits(u)
  <2> DEFINE c == [of |-> "move", path |-> p, data |-> <<>>, to |-> q]
  <2>1. c \in FileCalls /\ c.of = "move" /\ c.path = p /\ c.to = q
    BY DEF FileCalls, FileData
  <2>2. /\ fileCall' = [fileCall EXCEPT ![u] = c] /\ temporary' = temporary
        /\ UNCHANGED <<files, appendedTo, result, given>>
        /\ fileCall[u] = FileSystem!Idle /\ callsMade' = callsMade + 1 /\ callsMade < MaxFileCalls
    BY <1>5 DEF FileSystem!Move
  <2> HIDE DEF c
  <2>3. CallHolds(c, temporary[u], given')
    BY <1>b, <2>1, <2>2 DEF CallHolds
  <2>4. FileCallFits(u)
    BY <1>c, <2>1, <2>2, <2>3 DEF FileCallFits
  <2>5. FilesFit
    BY <1>0, <1>n, <2>2 DEF FilesFit, FileTypes
  <2> QED
    BY <2>4, <2>5
<1> QED
  BY <1>1, <1>2, <1>3, <1>4, <1>5 DEF FileSystem!MoveToDirectory

\* A step of a call that has begun.
LEMMA FileCallsGoOn ==
    ASSUME FilesInv, NEW u \in Threads, FileSystem!Step(u)
    PROVE  FilesFit /\ FileCallFits(u)
<1> USE DEF FileSystem!ghosts, FileSystem!Return, FileSystem!Continue
<1> DEFINE c == fileCall[u]
           t == temporary[u]
           Goes(of) == fileCall' = [fileCall EXCEPT ![u].of = of] /\ result' = result
           Returns == fileCall' = [fileCall EXCEPT ![u] = FileSystem!Idle]
                      /\ \E value \in {"TRUE", "FALSE"} : result' = [result EXCEPT ![u] = value]
           Kept == UNCHANGED <<files, appendedTo>>
<1>0. /\ FileTypes /\ c \in FileCalls /\ <<>> \in given /\ CallHolds(c, t, given)
      /\ \A q \in Paths \ (Protected \cup appendedTo) : files[q] \in given \cup {FileSystem!Absent}
  BY DEF FilesInv, FileTypes, FileSystem!ReplacedAtomically
<1>1. FileSystem!Idle \in FileCalls
  BY DEF FileSystem!Idle, FileCalls, FileData
<1>a. ASSUME NEW of, Goes(of),
             of \in {"write", "commit", "writeInPlace", "rename"}
      PROVE  \E d \in FileCalls : /\ fileCall' = [fileCall EXCEPT ![u] = d]
                                  /\ d.of = of /\ d.path = c.path /\ d.data = c.data
                                  /\ d.to = c.to
  <2> DEFINE d == [c EXCEPT !.of = of]
  <2>1. d \in FileCalls /\ d.of = of /\ d.path = c.path /\ d.data = c.data /\ d.to = c.to
    BY <1>0, <1>a DEF FileCalls
  <2>2. fileCall' = [fileCall EXCEPT ![u] = d]
    BY <1>a
  <2> QED
    BY <2>1, <2>2
<1>b. CallHolds(FileSystem!Idle, FileSystem!Absent, given)
  BY DEF CallHolds, FileSystem!Idle
<1>c. ASSUME Returns, given' = given,
             temporary' = [temporary EXCEPT ![u] = FileSystem!Absent]
      PROVE  FileCallFits(u)
  BY <1>1, <1>b, <1>c DEF FileCallFits
<1>d. temporary = [temporary EXCEPT ![u] = t]
  BY <1>0 DEF FileTypes
<1>e. c.of \notin {"write", "commit"} => t = FileSystem!Absent
  BY <1>0 DEF CallHolds
<1>f. ASSUME Returns \/ result' = result
      PROVE  DOMAIN result' = Threads /\ \A w \in Threads : result'[w] \in {"none", "TRUE", "FALSE"}
  BY <1>0, <1>f DEF FileTypes
<1>g. ASSUME Returns \/ result' = result, given' = given, callsMade' = callsMade, Kept
      PROVE  FilesFit
  <2>1. DOMAIN result' = Threads /\ \A w \in Threads : result'[w] \in {"none", "TRUE", "FALSE"}
    BY <1>f, <1>g
  <2> QED
    BY <1>0, <1>g, <2>1 DEF FilesFit, FileTypes
<1>2. ASSUME FileSystem!Open(u) PROVE FilesFit /\ FileCallFits(u)
  <2>0. /\ c.of = "open" /\ given' = given /\ appendedTo' = appendedTo /\ callsMade' = callsMade
        /\ t = FileSystem!Absent /\ c.path \in Paths /\ c.data \in given
    BY <1>0, <1>2, <1>e DEF FileSystem!Open, CallHolds
  <2>1. CASE Goes("write") /\ temporary' = [temporary EXCEPT ![u] = <<>>] /\ files' = files
    <3>1. PICK d \in FileCalls : /\ fileCall' = [fileCall EXCEPT ![u] = d]
                                 /\ d.of = "write" /\ d.path = c.path /\ d.data = c.data
      BY <1>a, <2>1
    <3>2. CallHolds(d, <<>>, given')
      BY <2>0, <3>1 DEF CallHolds
    <3>3. FileCallFits(u)
      BY <2>1, <3>1, <3>2 DEF FileCallFits
    <3> QED
      BY <1>g, <2>0, <2>1, <3>3
  <2>2. CASE /\ c.path \in Protected /\ Goes("writeInPlace") /\ temporary' = temporary
             /\ files' = [files EXCEPT ![c.path] = <<>>]
    <3>1. PICK d \in FileCalls : /\ fileCall' = [fileCall EXCEPT ![u] = d]
                                 /\ d.of = "writeInPlace" /\ d.path = c.path /\ d.data = c.data
      BY <1>a, <2>2
    <3>2. CallHolds(d, t, given')
      BY <2>0, <2>2, <3>1 DEF CallHolds
    <3>3. FileCallFits(u)
      BY <1>d, <2>2, <3>1, <3>2 DEF FileCallFits
    <3>4. FilesFit
      BY <1>0, <2>0, <2>2 DEF FilesFit, FileTypes
    <3> QED
      BY <3>3, <3>4
  <2>3. CASE Returns /\ temporary' = temporary /\ files' = files
    BY <1>c, <1>d, <1>g, <2>0, <2>3
  <2> QED
    BY <1>2, <2>1, <2>2, <2>3 DEF FileSystem!Open
<1>3. ASSUME FileSystem!Write(u) PROVE FilesFit /\ FileCallFits(u)
  <2>0. /\ c.of = "write" /\ given' = given /\ Kept /\ callsMade' = callsMade
        /\ c.path \in Paths /\ c.data \in given
    BY <1>0, <1>3 DEF FileSystem!Write, CallHolds
  <2>1. CASE Goes("commit") /\ temporary' = [temporary EXCEPT ![u] = c.data]
    <3>1. PICK d \in FileCalls : /\ fileCall' = [fileCall EXCEPT ![u] = d]
                                 /\ d.of = "commit" /\ d.path = c.path /\ d.data = c.data
      BY <1>a, <2>1
    <3>2. CallHolds(d, c.data, given')
      BY <2>0, <3>1 DEF CallHolds
    <3>3. FileCallFits(u)
      BY <2>1, <3>1, <3>2 DEF FileCallFits
    <3> QED
      BY <1>g, <2>0, <2>1, <3>3
  <2>2. CASE Returns /\ temporary' = [temporary EXCEPT ![u] = FileSystem!Absent]
    BY <1>c, <1>g, <2>0, <2>2
  <2> QED
    BY <1>3, <2>1, <2>2 DEF FileSystem!Write, FileSystem!Discarded
<1>4. ASSUME FileSystem!Commit(u) PROVE FilesFit /\ FileCallFits(u)
  <2>0. /\ c.of = "commit" /\ given' = given /\ Returns /\ callsMade' = callsMade
        /\ temporary' = [temporary EXCEPT ![u] = FileSystem!Absent]
        /\ t \in given
    BY <1>0, <1>4 DEF FileSystem!Commit, FileSystem!Discarded, CallHolds
  <2>1. \/ files' = [files EXCEPT ![c.path] = t] /\ appendedTo' = appendedTo \ {c.path}
        \/ Kept
    BY <1>4 DEF FileSystem!Commit
  <2>2. CASE files' = [files EXCEPT ![c.path] = t] /\ appendedTo' = appendedTo \ {c.path}
    <3>1. DOMAIN result' = Threads /\ \A w \in Threads : result'[w] \in {"none", "TRUE", "FALSE"}
      BY <1>f, <2>0
    <3> HIDE DEF Returns, c, t
    <3>2. DOMAIN files' = Paths /\ \A q \in Paths : files'[q] = IF q = c.path THEN t ELSE files[q]
      BY <1>0, <2>2 DEF FileTypes
    <3>3. FilesFit
      BY <1>0, <2>0, <2>2, <3>1, <3>2 DEF FilesFit, FileTypes
    <3> QED
      BY <1>c, <2>0, <3>3
  <2> QED
    BY <1>c, <1>g, <2>0, <2>1, <2>2
<1>5. ASSUME FileSystem!WriteInPlace(u) PROVE FilesFit /\ FileCallFits(u)
  <2>0. /\ c.of = "writeInPlace" /\ given' = given /\ appendedTo' = appendedTo
        /\ temporary' = temporary /\ callsMade' = callsMade /\ Returns
        /\ t = FileSystem!Absent /\ c.path \in Protected
    BY <1>0, <1>5, <1>e DEF FileSystem!WriteInPlace, CallHolds
  <2>1. PICK x : files' = [files EXCEPT ![c.path] = x]
    BY <1>5 DEF FileSystem!WriteInPlace
  <2>2. DOMAIN result' = Threads /\ \A w \in Threads : result'[w] \in {"none", "TRUE", "FALSE"}
    BY <1>f, <2>0
  <2>3. FilesFit
    <3> HIDE DEF Returns
    <3> QED
      BY <1>0, <2>0, <2>1, <2>2 DEF FilesFit, FileTypes
  <2> QED
    BY <1>c, <1>d, <2>0, <2>3
<1>6. ASSUME FileSystem!OpenAndAppend(u) PROVE FilesFit /\ FileCallFits(u)
  <2>0. /\ c.of = "append" /\ given' = given /\ temporary' = temporary
        /\ callsMade' = callsMade /\ Returns /\ t = FileSystem!Absent /\ c.path \in Paths
    BY <1>0, <1>6, <1>e DEF FileSystem!OpenAndAppend, CallHolds
  <2>1. \/ \E x : /\ files' = [files EXCEPT ![c.path] = x]
                  /\ appendedTo' = appendedTo \cup {c.path}
        \/ Kept
    BY <1>6 DEF FileSystem!OpenAndAppend
  <2>2. CASE \E x : /\ files' = [files EXCEPT ![c.path] = x]
                    /\ appendedTo' = appendedTo \cup {c.path}
    <3>1. DOMAIN result' = Threads /\ \A w \in Threads : result'[w] \in {"none", "TRUE", "FALSE"}
      BY <1>f, <2>0
    <3>2. FilesFit
      <4> HIDE DEF Returns
      <4> QED
        BY <1>0, <2>0, <2>2, <3>1 DEF FilesFit, FileTypes
    <3> QED
      BY <1>c, <1>d, <2>0, <3>2
  <2> QED
    BY <1>c, <1>d, <1>g, <2>0, <2>1, <2>2
<1>7. ASSUME FileSystem!FindSource(u) PROVE FilesFit /\ FileCallFits(u)
  <2>0. /\ c.of = "move" /\ given' = given /\ temporary' = temporary /\ Kept
        /\ callsMade' = callsMade /\ t = FileSystem!Absent /\ c.path \in Paths /\ c.to \in Paths
        /\ Returns \/ Goes("rename")
    BY <1>0, <1>7, <1>e DEF FileSystem!FindSource, CallHolds
  <2>1. CASE Returns
    BY <1>c, <1>d, <1>g, <2>0, <2>1
  <2>2. CASE Goes("rename")
    <3>1. PICK d \in FileCalls : /\ fileCall' = [fileCall EXCEPT ![u] = d]
                                 /\ d.of = "rename" /\ d.path = c.path /\ d.to = c.to
      BY <1>a, <2>2
    <3>2. CallHolds(d, t, given')
      BY <2>0, <3>1 DEF CallHolds
    <3>3. FileCallFits(u)
      BY <1>d, <2>0, <3>1, <3>2 DEF FileCallFits
    <3> QED
      BY <1>g, <2>0, <2>2, <3>3
  <2> QED
    BY <2>0, <2>1, <2>2
<1>8. ASSUME FileSystem!Rename(u) PROVE FilesFit /\ FileCallFits(u)
  <2>0. /\ c.of = "rename" /\ given' = given /\ temporary' = temporary
        /\ callsMade' = callsMade /\ Returns /\ t = FileSystem!Absent
        /\ c.path \in Paths /\ c.to \in Paths
    BY <1>0, <1>8, <1>e DEF FileSystem!Rename, CallHolds
  <2>1. \/ /\ files[c.path] # FileSystem!Absent /\ files[c.to] = FileSystem!Absent
           /\ {c.path, c.to} \cap Protected = {}
           /\ files' = [files EXCEPT ![c.to] = files[c.path], ![c.path] = FileSystem!Absent]
           /\ appendedTo' = (appendedTo \ {c.path, c.to})
                                \cup (IF c.path \in appendedTo THEN {c.to} ELSE {})
        \/ Kept
    BY <1>8 DEF FileSystem!Rename
  <2>2. CASE ~Kept
    <3>1. DOMAIN result' = Threads /\ \A w \in Threads : result'[w] \in {"none", "TRUE", "FALSE"}
      BY <1>f, <2>0
    <3>2. c.path # c.to /\ DOMAIN files' = Paths
          /\ \A q \in Paths : files'[q] = IF q = c.path THEN FileSystem!Absent
                                          ELSE IF q = c.to THEN files[c.path] ELSE files[q]
      BY <1>0, <2>0, <2>1, <2>2 DEF FileTypes
    <3>3. ASSUME NEW q \in Paths, q \notin Protected, q \notin appendedTo'
          PROVE  files'[q] \in given' \cup {FileSystem!Absent}
      <4>1. CASE q = c.to
        <5>1. c.path \notin appendedTo /\ c.path \notin Protected
          BY <2>1, <2>2, <3>3, <4>1
        <5> QED
          BY <1>0, <2>0, <3>2, <4>1, <5>1
      <4>2. CASE q # c.to /\ q # c.path
        <5>1. q \notin appendedTo
          BY <2>1, <2>2, <3>3, <4>2
        <5> QED
          BY <1>0, <2>0, <3>2, <3>3, <4>2, <5>1
      <4>3. CASE q = c.path
        BY <3>2, <4>3
      <4> QED
        BY <4>1, <4>2, <4>3
    <3>4. appendedTo' \subseteq Paths
      BY <1>0, <2>0, <2>1, <2>2 DEF FileTypes
    <3>5. FilesFit
      <4> HIDE DEF Returns
      <4> QED
        BY <1>0, <2>0, <3>1, <3>2, <3>3, <3>4 DEF FilesFit, FileTypes
    <3> QED
      BY <1>c, <1>d, <2>0, <3>5
  <2> QED
    BY <1>c, <1>d, <1>g, <2>0, <2>2
<1> QED
  BY <1>2, <1>3, <1>4, <1>5, <1>6, <1>7, <1>8 DEF FileSystem!Step

LEMMA FilesKept == FilesInv /\ [FileSystem!Next]_FileSystem!filesVars => FilesInv'
<1>1. ASSUME FilesInv, NEW u \in Threads, FilesFit, FileCallFits(u) PROVE FilesInv'
  <2>a. PICK c \in FileCalls : \E t : /\ fileCall' = [fileCall EXCEPT ![u] = c]
                                       /\ temporary' = [temporary EXCEPT ![u] = t]
                                       /\ CallHolds(c, t, given')
    BY <1>1 DEF FileCallFits
  <2>1. PICK t : /\ fileCall' = [fileCall EXCEPT ![u] = c]
                 /\ temporary' = [temporary EXCEPT ![u] = t]
                 /\ CallHolds(c, t, given')
    BY <2>a
  <2>2. given \subseteq given'
    BY <1>1 DEF FilesFit
  <2>3. /\ fileCall' \in [Threads -> FileCalls]
        /\ temporary' = [w \in Threads |-> temporary'[w]]
        /\ \A w \in Threads : CallHolds(fileCall'[w], temporary'[w], given')
    BY <1>1, <2>1, <2>2, FileCallMoves
  <2>4. FileTypes'
    BY <1>1, <2>3 DEF FilesFit, FileTypes
  <2>5. (\A w \in Threads : CallHolds(fileCall[w], temporary[w], given))'
    BY <2>3
  <2>6. <<>> \in given' /\ FileSystem!ReplacedAtomically'
    BY <1>1 DEF FilesInv, FilesFit, FileSystem!ReplacedAtomically
  <2> QED
    BY <2>4, <2>5, <2>6 DEF FilesInv
<1>2. ASSUME FilesInv, FileSystem!Crash PROVE FilesInv'
  <2>1. /\ fileCall' = [u \in Threads |-> FileSystem!Idle]
        /\ temporary' = [u \in Threads |-> FileSystem!Absent]
        /\ UNCHANGED <<files, result, given, appendedTo, callsMade>>
    BY <1>2 DEF FileSystem!Crash, FileSystem!ghosts
  <2>2. FileSystem!Idle \in FileCalls /\ CallHolds(FileSystem!Idle, FileSystem!Absent, given)
    BY DEF FileSystem!Idle, FileCalls, FileData, CallHolds
  <2>3. FileTypes'
    BY <1>2, <2>1, <2>2 DEF FilesInv, FileTypes
  <2>4. (\A w \in Threads : CallHolds(fileCall[w], temporary[w], given))'
    BY <2>1, <2>2
  <2>5. <<>> \in given' /\ FileSystem!ReplacedAtomically'
    BY <1>2, <2>1 DEF FilesInv, FileSystem!ReplacedAtomically
  <2> QED
    BY <2>3, <2>4, <2>5 DEF FilesInv
<1>3. ASSUME FilesInv, UNCHANGED FileSystem!filesVars PROVE FilesInv'
  BY <1>3 DEF FilesInv, FileTypes, FileSystem!ReplacedAtomically, FileSystem!filesVars,
              FileSystem!ghosts
<1> QED
  BY <1>1, <1>2, <1>3, FileCallsBegin, FileCallsGoOn DEF FileSystem!Next

\* A step of the library is one of the files, or of a part that does not touch them.
LEMMA FileSteps == [Next]_libraryVars => [FileSystem!Next]_FileSystem!filesVars
<1> SUFFICES ASSUME [Next]_libraryVars
             PROVE  [FileSystem!Next]_FileSystem!filesVars
  OBVIOUS
<1> USE DEF Shared, fileVars, FileSystem!filesVars, FileSystem!ghosts
<1>1. CASE FileStep
  BY <1>1 DEF FileStep
<1>2. CASE UdpStep
  BY <1>2 DEF UdpStep
<1>3. CASE RouteStep
  BY <1>3 DEF RouteStep
<1>4. CASE TreeStep
  BY <1>4 DEF TreeStep
<1>5. CASE ShapeStep
  BY <1>5 DEF ShapeStep
<1>6. CASE SpanStep
  BY <1>6 DEF SpanStep
<1>7. CASE RangeStep
  BY <1>7 DEF RangeStep
<1>8. CASE StringStep
  BY <1>8 DEF StringStep
<1>9. CASE RateStep
  BY <1>9 DEF RateStep
<1>10. CASE ClientStep
  BY <1>10 DEF ClientStep
<1>11. CASE MetadataStep
  BY <1>11 DEF MetadataStep
<1>12. CASE UNCHANGED libraryVars
  BY <1>12 DEF libraryVars
<1> QED
  BY <1>1, <1>2, <1>3, <1>4, <1>5, <1>6, <1>7, <1>8, <1>9, <1>10, <1>11, <1>12 DEF Next

\* Files are replaced as a whole, for any threads, paths, texts and number of calls,
\* wherever calls fail or the process ends (fileutil.cpp:65-80, 99-116, 190-262).
THEOREM FilesWholeHolds == Spec => []FilesWhole
<1>1. FileSystem!FilesAssumption
  BY LibraryAssumption DEF LibraryAssumption
<1>2. Init => FilesInv
  <2>1. Init => FileSystem!Init
    BY DEF Init
  <2> QED
    BY <1>1, <2>1, FilesAtInit
<1>3. FilesInv /\ [Next]_libraryVars => FilesInv'
  BY FileSteps, FilesKept
<1>4. FilesInv => FilesWhole
  BY DEF FilesInv, FilesWhole
<1> QED
  BY <1>2, <1>3, <1>4, PTL DEF Spec

=============================================================================
