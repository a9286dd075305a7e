-------------------------- MODULE TcpServerProofs --------------------------
(***************************************************************************)
(* Proofs about TcpServer, for any clients and number of runs: a client is *)
(* deleted once, by the one party that has it, none is left behind, and    *)
(* the server keeps to the contract of WorkerLife.                         *)
(***************************************************************************)
EXTENDS TcpServer, FiniteSetTheorems, SequenceTheorems, TLAPS

\* The owner is reaping, or has reaped: the server thread is over and stays so.
Reaper == {"take", "sever", "reap", "reaped", "gone"}

ReapsAlone == owner \in Reaper => at = "off"

\* The clients that are reaped were taken from the roster, all at once.
TakenAtOnce ==
    /\ owner \in Reaper \ {"take"} => roster = {}
    /\ owner \notin {"sever", "reap"} => reaping = {}

\* The client in the hand of the server thread: not on the roster before it is appended
\* and after it is taken off, on it in between.
HandOrRoster ==
    /\ at \in {"append", "connect", "start", "delete"} => hand \in Clients /\ life[hand] # "free"
    /\ at \in {"append", "delete"} => hand \notin roster
    /\ at \in {"connect", "start"} => hand \in roster

\* Who is on the roster or is reaped is alive, and who is alive has a holder.
HeldWhileAlive ==
    \A c \in Clients :
        life[c] # "free" <=> \/ at \in {"append", "delete"} /\ hand = c
                             \/ c \in roster
                             \/ c \in reaping

ServerInv == TypeOK /\ ReapsAlone /\ TakenAtOnce /\ HandOrRoster /\ HeldWhileAlive

-----------------------------------------------------------------------------
\* Every variable has its type in the first state, and nobody is alive.
LEMMA ServerAtInit == Init => ServerInv
<1> SUFFICES ASSUME Init
             PROVE  ServerInv
  OBVIOUS
<1>1. TypeOK
  <2>1. runs \in Nat /\ openedIn \in 0..runs
    BY DEF Init
  <2>2. pending \in Seq(Clients)
    BY EmptySeq DEF Init
  <2>3. /\ life \in [Clients -> {"free", "new", "running", "winding", "ending", "ended"}]
        /\ connected \in [Clients -> BOOLEAN] /\ asked \in [Clients -> BOOLEAN]
    BY DEF Init
  <2> QED
    BY <2>1, <2>2, <2>3 DEF Init, TypeOK, ServerLocations, OwnerLocations
<1>2. ReapsAlone /\ TakenAtOnce /\ HandOrRoster /\ HeldWhileAlive
  BY DEF Init, ReapsAlone, TakenAtOnce, HandOrRoster, HeldWhileAlive, Reaper
<1> QED
  BY <1>1, <1>2 DEF ServerInv

\* A step of the server thread keeps the invariant.
LEMMA ServerRunsKeeps ==
    ASSUME ServerInv, ServerRuns
    PROVE  ServerInv'
<1> USE DEF ServerInv, TypeOK, ReapsAlone, TakenAtOnce, HandOrRoster, HeldWhileAlive,
            Reaper, ServerLocations, OwnerLocations, Serve, steady, run, socket, signals,
            books, clients, ownerVars, reapVars
<1>1. CASE ThreadStarted
  <2>1. startSuccess' \in BOOLEAN
    BY <1>1, Zenon DEF ThreadStarted
  <2>2. openedIn' = runs \/ openedIn' = openedIn
    BY <1>1, Zenon DEF ThreadStarted
  <2>3. openedIn' \in 0..runs
    BY <2>2
  <2>4. /\ at = "started" /\ at' = "loop" /\ startSet' = TRUE
        /\ UNCHANGED <<hand, run, stopSet, books, ownerVars>>
    BY <1>1 DEF ThreadStarted
  <2> QED
    BY <2>1, <2>3, <2>4
<1>2. CASE AppendClient
  BY <1>2 DEF AppendClient
<1>3. CASE ConnectClient
  BY <1>3 DEF ConnectClient
<1>4. CASE StartClient
  BY <1>4 DEF StartClient
<1>5. CASE OnClientFinished
  <2>1. /\ pending # <<>> /\ at = "loop"
        /\ at' = IF Head(pending) \in roster THEN "delete" ELSE "loop"
        /\ pending' = Tail(pending) /\ roster' = roster \ {Head(pending)}
        /\ hand' = IF Head(pending) \in roster THEN Head(pending) ELSE NoClient
        /\ UNCHANGED <<steady, clients, ownerVars>>
    BY <1>5 DEF OnClientFinished
  <2>2. Head(pending) \in Clients /\ pending' \in Seq(Clients)
    BY <2>1, HeadTailProperties
  <2>3. CASE Head(pending) \in roster
    BY <2>1, <2>2, <2>3
  <2>4. CASE Head(pending) \notin roster
    BY <2>1, <2>2, <2>4
  <2> QED
    BY <2>3, <2>4
<1>6. CASE DeleteFinished
  BY <1>6 DEF DeleteFinished
<1>7. CASE LeaveLoop
  BY <1>7 DEF LeaveLoop
<1>8. CASE ThreadFinished
  BY <1>8 DEF ThreadFinished
<1>9. CASE ThreadEnds
  BY <1>9 DEF ThreadEnds
<1> QED
  BY <1>1, <1>2, <1>3, <1>4, <1>5, <1>6, <1>7, <1>8, <1>9 DEF ServerRuns

\* A connection, and a step of a client's own thread, keep the invariant.
LEMMA ClientStepKeeps ==
    ASSUME ServerInv, NEW c \in Clients,
           Accept(c) \/ WindDown(c) \/ EmitFinished(c) \/ ClientEnds(c)
    PROVE  ServerInv'
<1> USE DEF ServerInv, TypeOK, ReapsAlone, TakenAtOnce, HandOrRoster, HeldWhileAlive,
            Reaper, ServerLocations, OwnerLocations, Serve, server, steady, run, socket,
            signals, ownerVars, reapVars
<1>1. CASE Accept(c)
  BY <1>1 DEF Accept
<1>2. CASE WindDown(c)
  BY <1>2 DEF WindDown
<1>3. CASE EmitFinished(c)
  <2>1. pending' \in Seq(Clients)
    BY <1>3, AppendProperties DEF EmitFinished
  <2> QED
    BY <1>3, <2>1 DEF EmitFinished
<1>4. CASE ClientEnds(c)
  BY <1>4 DEF ClientEnds
<1> QED
  BY <1>1, <1>2, <1>3, <1>4

\* A step of the owner keeps the invariant.
LEMMA OwnerKeeps ==
    ASSUME ServerInv, OwnerReturns \/ OwnerCalls
    PROVE  ServerInv'
<1> USE DEF ServerInv, TypeOK, ReapsAlone, TakenAtOnce, HandOrRoster, HeldWhileAlive,
            Reaper, ServerLocations, OwnerLocations, Own, IsRunning, server, steady, run,
            socket, signals, books, clients, reapVars
<1>1. CASE Start
  <2>1. /\ owner = "idle" /\ owner' = "start.wait"
        /\ UNCHANGED <<hand, socket, signals, books, reapVars>>
    BY <1>1 DEF Start
  <2>2. CASE IsRunning
    <3>1. UNCHANGED <<at, quitting, runs>>
      BY <1>1, <2>2 DEF Start
    <3> QED
      BY <2>1, <3>1
  <2>3. CASE ~IsRunning
    <3>1. at = "off" /\ at' = "started" /\ quitting' = FALSE /\ runs' = runs + 1
      BY <1>1, <2>3 DEF Start
    <3>2. runs' \in Nat /\ openedIn' \in 0..runs'
      BY <2>1, <3>1
    <3> QED
      BY <2>1, <3>1, <3>2
  <2> QED
    BY <2>2, <2>3
<1>2. CASE StartReturns
  BY <1>2 DEF StartReturns
<1>3. CASE StopCall \/ StopEarly
  BY <1>3 DEF StopCall, StopEarly
<1>4. CASE StopQuit \/ StopWait \/ StopJoin
  BY <1>4 DEF StopQuit, StopWait, StopJoin
<1>5. CASE DestroyCall
  BY <1>5 DEF DestroyCall
<1>6. CASE TakeClients
  BY <1>6 DEF TakeClients
<1>7. ASSUME NEW c \in Clients, SeverClient(c)
      PROVE  ServerInv'
  BY <1>7 DEF SeverClient
<1>8. ASSUME NEW c \in Clients, ReapClient(c)
      PROVE  ServerInv'
  BY <1>8 DEF ReapClient
<1>9. CASE ReapReturns
  BY <1>9 DEF ReapReturns
<1> QED
  BY <1>1, <1>2, <1>3, <1>4, <1>5, <1>6, <1>7, <1>8, <1>9 DEF OwnerReturns, OwnerCalls

LEMMA ServerInvariant == Spec => []ServerInv
<1>1. ServerInv /\ [Next]_vars => ServerInv'
  <2> SUFFICES ASSUME ServerInv, [Next]_vars
               PROVE  ServerInv'
    OBVIOUS
  <2>1. CASE UNCHANGED vars
    BY <2>1 DEF vars, server, steady, run, socket, signals, books, clients, ownerVars,
      reapVars, ServerInv, TypeOK, ReapsAlone, TakenAtOnce, HandOrRoster, HeldWhileAlive
  <2> QED
    BY <2>1, ServerRunsKeeps, ClientStepKeeps, OwnerKeeps DEF Next
<1> QED
  BY <1>1, ServerAtInit, PTL DEF Spec

\* By the invariant a live client has one holder, and a free address none.
LEMMA HoldersCounted == ServerInv => OneHolder
<1> SUFFICES ASSUME ServerInv, NEW c \in Clients
             PROVE  Cardinality(Holders(c)) = IF life[c] = "free" THEN 0 ELSE 1
  BY DEF OneHolder
<1>1. life[c] # "free" <=> \/ at \in {"append", "delete"} /\ hand = c
                           \/ c \in roster
                           \/ c \in reaping
  BY DEF ServerInv, HeldWhileAlive
<1>2. ~(c \in roster /\ c \in reaping)
  BY DEF ServerInv, TakenAtOnce, Reaper
<1>3. at \in {"append", "delete"} => reaping = {}
  BY DEF ServerInv, ReapsAlone, TakenAtOnce, Reaper
<1>4. at \in {"append", "delete"} /\ hand = c => c \notin roster
  BY DEF ServerInv, HandOrRoster
<1>5. CASE at = "append" /\ hand = c
  <2>1. Holders(c) = {"accepting"}
    BY <1>3, <1>4, <1>5 DEF Holders
  <2> QED
    BY <1>1, <1>5, <2>1, FS_Singleton
<1>6. CASE at = "delete" /\ hand = c
  <2>1. Holders(c) = {"finished"}
    BY <1>3, <1>4, <1>6 DEF Holders
  <2> QED
    BY <1>1, <1>6, <2>1, FS_Singleton
<1>7. CASE c \in roster
  <2>1. Holders(c) = {"roster"}
    BY <1>2, <1>4, <1>7 DEF Holders
  <2> QED
    BY <1>1, <1>7, <2>1, FS_Singleton
<1>8. CASE c \in reaping
  <2>1. Holders(c) = {"reaping"}
    BY <1>2, <1>3, <1>8 DEF Holders
  <2> QED
    BY <1>1, <1>8, <2>1, FS_Singleton
<1>9. CASE life[c] = "free"
  <2>1. Holders(c) = {}
    BY <1>1, <1>9 DEF Holders
  <2> QED
    BY <1>9, <2>1, FS_EmptySet
<1> QED
  BY <1>1, <1>5, <1>6, <1>7, <1>8, <1>9

-----------------------------------------------------------------------------
(* The theorems                                                            *)

\* Every variable keeps its type, for any clients and number of runs.
THEOREM TypeCorrect == Spec => []TypeOK
<1>1. ServerInv => TypeOK
  BY DEF ServerInv
<1> QED
  BY <1>1, ServerInvariant, PTL

\* A client is in the hands of exactly one party, which is the one to delete it, and a
\* deleted one in nobody's: however many clients connect, end and are reaped, and
\* whatever finished() signals are still queued for addresses that are used again.
THEOREM OneHolderHolds == Spec => []OneHolder
  BY HoldersCounted, ServerInvariant, PTL

\* When stop() has gone its full way, or the destructor of a stopped server has run, no
\* client is left, for any number of them.
THEOREM NobodyLeftBehindHolds == Spec => []NobodyLeftBehind
<1>1. ServerInv => NobodyLeftBehind
  <2> SUFFICES ASSUME ServerInv, owner \in {"reaped", "gone"}, NEW c \in Clients
               PROVE  life[c] = "free"
    BY DEF NobodyLeftBehind
  <2>1. at = "off" /\ roster = {} /\ reaping = {}
    BY DEF ServerInv, ReapsAlone, TakenAtOnce, Reaper
  <2> QED
    BY <2>1 DEF ServerInv, HeldWhileAlive
<1> QED
  BY <1>1, ServerInvariant, PTL

-----------------------------------------------------------------------------
(* The contract with the clients                                           *)

\* A client that incomingConnection() has in hand was not started yet.
NewUntilStarted == at \in {"append", "connect", "start"} => life[hand] = "new"

LEMMA NewUntilStartedKept ==
    ASSUME ServerInv, NewUntilStarted, [Next]_vars
    PROVE  NewUntilStarted'
<1> USE DEF NewUntilStarted, Serve, Own, server, steady, run, socket, signals, books,
            clients, ownerVars, reapVars
<1>1. life \in [Clients -> {"free", "new", "running", "winding", "ending", "ended"}]
  BY DEF ServerInv, TypeOK
<1>2. CASE ServerRuns
  BY <1>2 DEF ServerRuns, ThreadStarted, AppendClient, ConnectClient, StartClient,
     OnClientFinished, DeleteFinished, LeaveLoop, ThreadFinished, ThreadEnds
<1>3. ASSUME NEW c \in Clients,
             Accept(c) \/ WindDown(c) \/ EmitFinished(c) \/ ClientEnds(c)
      PROVE  NewUntilStarted'
  <2>1. CASE Accept(c)
    BY <1>1, <2>1 DEF Accept
  <2>2. CASE WindDown(c) \/ EmitFinished(c) \/ ClientEnds(c)
    BY <1>1, <2>2 DEF WindDown, EmitFinished, ClientEnds, ServerInv, HandOrRoster
  <2> QED
    BY <1>3, <2>1, <2>2
<1>4. CASE Start
  BY <1>4 DEF Start
<1>5. CASE OwnerReturns \/ StopCall \/ DestroyCall
  <2>1. CASE \E c \in Clients : ReapClient(c)
    BY <2>1 DEF ReapClient, ServerInv, ReapsAlone, Reaper
  <2>2. CASE UNCHANGED <<at, hand, life>>
    BY <2>2
  <2> QED
    BY <1>5, <2>1, <2>2 DEF OwnerReturns, StartReturns, StopEarly, StopQuit, StopWait,
       StopJoin, TakeClients, SeverClient, ReapReturns, StopCall, DestroyCall
<1>6. CASE UNCHANGED vars
  BY <1>6 DEF vars
<1> QED
  BY <1>2, <1>3, <1>4, <1>5, <1>6 DEF Next, OwnerCalls

\* A step that leaves an address alone is a stutter of its client's life.
LEMMA LeftAlone ==
    ASSUME NEW c \in Clients, life'[c] = life[c], Doomed(c)' <=> Doomed(c)
    PROVE  UNCHANGED ClientsLife(c)!vars
  BY DEF ClientsLife!vars, Doomed

\* The steps of the server thread, for the client at any address.
LEMMA ServerRunsInContract ==
    ASSUME ServerInv, NewUntilStarted, ServerRuns, NEW c \in Clients
    PROVE  [ClientsLife(c)!Next]_(ClientsLife(c)!vars)
<1> USE DEF Serve, steady, books, clients, ownerVars, reapVars
<1>1. life \in [Clients -> {"free", "new", "running", "winding", "ending", "ended"}]
  BY DEF ServerInv, TypeOK
<1>2. at # "off" /\ reaping = {} /\ reaping' = {}
  <2>1. at # "off" /\ reaping' = reaping
    BY DEF ServerRuns, ThreadStarted, AppendClient, ConnectClient, StartClient,
       OnClientFinished, DeleteFinished, LeaveLoop, ThreadFinished, ThreadEnds
  <2> QED
    BY <2>1 DEF ServerInv, ReapsAlone, TakenAtOnce, Reaper
<1>3. CASE StartClient /\ c = hand
  <2>1. /\ life[c] = "new" /\ life'[c] = "running" /\ ~Doomed(c) /\ ~Doomed(c)'
    BY <1>1, <1>2, <1>3 DEF StartClient, NewUntilStarted, Doomed
  <2>2. ClientsLife(c)!Start
    BY <2>1 DEF ClientsLife!Start, Doomed
  <2> QED
    BY <2>2 DEF ClientsLife!Next
<1>4. CASE OnClientFinished /\ Head(pending) \in roster /\ c = Head(pending)
  <2>1. life[c] # "free"
    BY <1>4 DEF ServerInv, HeldWhileAlive
  <2>2. life' = life /\ ~Doomed(c) /\ Doomed(c)'
    BY <1>2, <1>4 DEF OnClientFinished, Doomed
  <2>3. ClientsLife(c)!Doom
    BY <2>1, <2>2 DEF ClientsLife!Doom
  <2> QED
    BY <2>3 DEF ClientsLife!Next
<1>5. CASE DeleteFinished /\ c = hand
  <2>1. life[c] = "ended" /\ life'[c] = "free" /\ Doomed(c) /\ ~Doomed(c)'
    BY <1>1, <1>2, <1>5 DEF DeleteFinished, Doomed
  <2>2. ClientsLife(c)!Delete
    BY <2>1 DEF ClientsLife!Delete
  <2> QED
    BY <2>2 DEF ClientsLife!Next
<1>6. CASE OnClientFinished /\ ~(Head(pending) \in roster /\ c = Head(pending))
  <2>1. life' = life /\ ~Doomed(c) /\ ~Doomed(c)'
    BY <1>2, <1>6 DEF OnClientFinished, Doomed
  <2> QED
    BY <2>1, LeftAlone
<1>7. CASE (StartClient \/ DeleteFinished) /\ c # hand
  <2>1. life'[c] = life[c] /\ ~Doomed(c) /\ ~Doomed(c)'
    BY <1>1, <1>2, <1>7 DEF StartClient, DeleteFinished, Doomed
  <2> QED
    BY <2>1, LeftAlone
<1>8. CASE \/ ThreadStarted \/ AppendClient \/ ConnectClient \/ LeaveLoop
           \/ ThreadFinished \/ ThreadEnds
  <2>1. life' = life /\ ~Doomed(c) /\ ~Doomed(c)'
    BY <1>2, <1>8 DEF ThreadStarted, AppendClient, ConnectClient, LeaveLoop,
       ThreadFinished, ThreadEnds, Doomed
  <2> QED
    BY <2>1, LeftAlone
<1> QED
  BY <1>3, <1>4, <1>5, <1>6, <1>7, <1>8 DEF ServerRuns

\* A connection, and the steps of a client's own thread.
LEMMA ClientStepInContract ==
    ASSUME ServerInv, NEW d \in Clients,
           Accept(d) \/ WindDown(d) \/ EmitFinished(d) \/ ClientEnds(d),
           NEW c \in Clients
    PROVE  [ClientsLife(c)!Next]_(ClientsLife(c)!vars)
<1>1. life \in [Clients -> {"free", "new", "running", "winding", "ending", "ended"}]
  BY DEF ServerInv, TypeOK
<1>2. CASE Accept(d)
  <2>1. reaping = {} /\ reaping' = {}
    BY <1>2 DEF Accept, Serve, ownerVars, reapVars, ServerInv, ReapsAlone, TakenAtOnce,
       Reaper
  <2>2. ~Doomed(c) /\ ~Doomed(c)'
    BY <1>2, <2>1 DEF Accept, Serve, Doomed
  <2>3. CASE c = d
    <3>1. life[c] = "free" /\ life'[c] = "new"
      BY <1>1, <1>2, <2>3 DEF Accept
    <3>2. ClientsLife(c)!Create
      BY <2>2, <3>1 DEF ClientsLife!Create
    <3> QED
      BY <3>2 DEF ClientsLife!Next
  <2>4. CASE c # d
    BY <1>1, <1>2, <2>2, <2>4, LeftAlone DEF Accept
  <2> QED
    BY <2>3, <2>4
<1>3. CASE WindDown(d) \/ EmitFinished(d) \/ ClientEnds(d)
  <2>1. Doomed(c)' = Doomed(c)
    BY <1>3 DEF WindDown, EmitFinished, ClientEnds, server, ownerVars, reapVars, Doomed
  <2>2. CASE c # d
    <3>1. life'[c] = life[c]
      BY <1>1, <1>3, <2>2 DEF WindDown, EmitFinished, ClientEnds
    <3> QED
      BY <2>1, <3>1, LeftAlone
  <2>3. CASE c = d /\ WindDown(d)
    <3>1. life[c] = "running" /\ life'[c] = "winding"
      BY <1>1, <2>3 DEF WindDown
    <3>2. ClientsLife(c)!Announce
      BY <2>1, <3>1 DEF ClientsLife!Announce, ClientsLife!Advance
    <3> QED
      BY <3>2 DEF ClientsLife!Next
  <2>4. CASE c = d /\ EmitFinished(d)
    <3>1. life[c] = "winding" /\ life'[c] = "ending"
      BY <1>1, <2>4 DEF EmitFinished
    <3>2. ClientsLife(c)!EmitFinished
      BY <2>1, <3>1 DEF ClientsLife!EmitFinished, ClientsLife!Advance
    <3> QED
      BY <3>2 DEF ClientsLife!Next
  <2>5. CASE c = d /\ ClientEnds(d)
    <3>1. life[c] = "ending" /\ life'[c] = "ended"
      BY <1>1, <2>5 DEF ClientEnds
    <3>2. ClientsLife(c)!End
      BY <2>1, <3>1 DEF ClientsLife!End, ClientsLife!Advance
    <3> QED
      BY <3>2 DEF ClientsLife!Next
  <2> QED
    BY <1>3, <2>2, <2>3, <2>4, <2>5
<1> QED
  BY <1>2, <1>3

\* The steps of the owner.
LEMMA OwnerInContract ==
    ASSUME ServerInv, OwnerReturns \/ OwnerCalls, NEW c \in Clients
    PROVE  [ClientsLife(c)!Next]_(ClientsLife(c)!vars)
<1> USE DEF Own, server, steady, books, clients, reapVars
<1>1. life \in [Clients -> {"free", "new", "running", "winding", "ending", "ended"}]
  BY DEF ServerInv, TypeOK
<1>2. CASE TakeClients
  <2>1. at = "off" /\ at' = at /\ life' = life /\ reaping = {} /\ reaping' = roster
    BY <1>2 DEF TakeClients, ServerInv, ReapsAlone, TakenAtOnce, Reaper
  <2>2. CASE c \in roster
    <3>1. life[c] # "free" /\ ~Doomed(c) /\ Doomed(c)'
      BY <2>1, <2>2 DEF ServerInv, HeldWhileAlive, Doomed
    <3>2. ClientsLife(c)!Doom
      BY <2>1, <3>1 DEF ClientsLife!Doom
    <3> QED
      BY <3>2 DEF ClientsLife!Next
  <2>3. CASE c \notin roster
    <3>1. ~Doomed(c) /\ ~Doomed(c)'
      BY <2>1, <2>3 DEF Doomed
    <3> QED
      BY <2>1, <3>1, LeftAlone
  <2> QED
    BY <2>2, <2>3
<1>3. ASSUME NEW d \in Clients, ReapClient(d)
      PROVE  [ClientsLife(c)!Next]_(ClientsLife(c)!vars)
  <2>1. at = "off" /\ at' = at /\ d \in reaping /\ reaping' = reaping \ {d}
    BY <1>3 DEF ReapClient, ServerInv, ReapsAlone, Reaper
  <2>2. CASE c = d
    <3>1. life[c] = "ended" /\ life'[c] = "free" /\ Doomed(c) /\ ~Doomed(c)'
      BY <1>1, <1>3, <2>1, <2>2 DEF ReapClient, Doomed
    <3>2. ClientsLife(c)!Delete
      BY <3>1 DEF ClientsLife!Delete
    <3> QED
      BY <3>2 DEF ClientsLife!Next
  <2>3. CASE c # d
    <3>1. life'[c] = life[c] /\ Doomed(c)' = Doomed(c)
      BY <1>1, <1>3, <2>1, <2>3 DEF ReapClient, Doomed
    <3> QED
      BY <3>1, LeftAlone
  <2> QED
    BY <2>2, <2>3
<1>4. CASE Start
  <2>1. life' = life /\ hand' = hand /\ reaping' = reaping
    BY <1>4 DEF Start
  <2>2. at' = at \/ (at # "delete" /\ at' = "started")
    BY <1>4 DEF Start, IsRunning, run
  <2> QED
    BY <2>1, <2>2, LeftAlone DEF Doomed
<1>5. CASE UNCHANGED <<at, hand, life, reaping>>
  BY <1>5, LeftAlone DEF Doomed
<1> QED
  BY <1>2, <1>3, <1>4, <1>5 DEF OwnerReturns, OwnerCalls, StartReturns, StopEarly,
     StopQuit, StopWait, StopJoin, SeverClient, ReapReturns, StopCall, DestroyCall

\* For any clients and number of runs, whoever connects, ends or is reaped in whatever
\* order: the server keeps, for the client at every address, to the contract that
\* AbstractThreadClass implements.
THEOREM KeepsToContractHolds == Spec => KeepsToContract
<1>1. Init => NewUntilStarted /\ \A c \in Clients : ClientsLife(c)!Init
  BY DEF Init, NewUntilStarted, ClientsLife!Init, Doomed
<1>2. ServerInv /\ NewUntilStarted /\ [Next]_vars => NewUntilStarted'
  BY NewUntilStartedKept
<1>3. ServerInv /\ NewUntilStarted /\ [Next]_vars => [StepInContract]_vars
  <2> SUFFICES ASSUME ServerInv, NewUntilStarted, Next, NEW c \in Clients
               PROVE  [ClientsLife(c)!Next]_(ClientsLife(c)!vars)
    BY DEF StepInContract
  <2> QED
    BY ServerRunsInContract, ClientStepInContract, OwnerInContract DEF Next
<1> QED
  BY <1>1, <1>2, <1>3, ServerInvariant, PTL DEF Spec, KeepsToContract

=============================================================================
