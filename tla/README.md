# KanoopCommonQt in TLA+

KanoopCommonQt is a C++/Qt utility library. Its core is a family of concurrent
classes on which its users build their threads, servers and queues; around it
stand algorithms on routes, shapes, times, texts and files. This directory holds
TLA+ models of both, TLC runs that check them on small instances, and TLAPS
proofs of the main properties of the core, the logger and most of the library for
every value of the constants.

Paths below are relative to the repository's root: `mutexevent.cpp` is
`src/Kanoop/mutexevent.cpp`, headers are under `include/Kanoop`.

## 1. The system

### Components

| component | state | operations | used by |
|---|---|---|---|
| **MutexEvent** / AutoResetEvent (`mutexevent.h/.cpp`) | a mutex, a `QWaitCondition`, `_isset`, `_isWaiting`, `_wakeAllWaiters` | `set`, `clear`, `wait(ms)`, `setWakeAllWaiters` | every class below that waits for a thread |
| **LockingQueue** (`lockingqueue.h`) | a mutex, a condition, `_items` | `enqueue`, `dequeue(deadline)`, `clear`, `count` | users of the library |
| **AbstractThreadClass** (`utility/abstractthreadclass.h/.cpp`) | a `QThread`, `_startEvent`, `_stopEvent`, `_stopping`, the result, a static registry of running threads | `start`, `waitForStart`, `stop`, `waitForCompletion`, `abort`, `finishAndStop`, destructor; hooks `threadStarted`, `threadAboutToFinish`, `threadFinished` | the base of every worker, among them the TCP client object and UdpServer |
| **TcpServer** and **TcpServerClientObject** (`clientserver/`) | a `QThread`, a listening socket, the roster `_clients`, two MutexEvents; each client is an AbstractThreadClass | `start`, `stop`, destructor, `incomingConnection`, `onClientFinished` | users of the library |
| **UdpServer** (`clientserver/udpserver.cpp`) | a transmit queue with its lock and a socket, in an AbstractThreadClass | `writeDatagram`, `serviceTransmitQueue`, `readPendingDatagrams` | users |
| **Logger** (`log/`, `logconsumer.cpp`, `utility/loggingbaseclass.cpp`) | categories and levels, consumers, the open file, `_writeLock` | `logText`, `registerCategory`, `setCategoryLevel`, `addConsumer`, ... | everything |
| **RateMonitor** (`ratemonitor.cpp`) | a list of time-stamped counts | `addEvent`, `eventsPerSecond`, `setEvaluationTime` | users |
| **EntityMetadata** registry (`entitymetadata.cpp`) | static maps of types, names and entries | register, look up, set an icon | users |
| **TimeSpan**, **DateRange**, **TimeSpanRange** (`timespan*.cpp`, `daterange.cpp`) | a value each, and lists of ranges | arithmetic, parts, texts, intersections, consolidation | everywhere |
| **SpanningTree** (`geometry/spanningtree.cpp`) | a graph of vertices and lines with ad hoc vertices | build, `setOrigin`, `setDestination`, `computePath` | users |
| **PathRouter** (`geometry/pathrouter.cpp`) | a path under construction, obstacles, directions | `calcluatePath` in three passes | users |
| **points, lines, rectangles, polygons** (`geometry/`) | a value each | intersections, bounds, contents, relations | the two routers, users |
| **FileUtil, PathUtil, StringUtil** | none (the file system) | whole-file writes, moves, lines; parts of paths; searches and splits | everywhere |
| angles, circles and geography; JSON/XML lists; process, settings, user, address and crypto helpers | none | pure functions and calls of Qt or libc | everywhere |

### How they interact

- An owner thread calls the methods of an AbstractThreadClass. The object has
  moved itself to its `QThread`, so its slots run on the worker. Owner and
  worker share the atomic `_stopping`, the two events and the `QThread`; `stop()`
  reaches the worker with a *queued* call
  (`invokeThreadAboutToFinishAndQuit`).
- A TcpServer creates one client object per connection on the server thread,
  puts it on the roster under a lock, connects the client's `finished()` to its
  own `onClientFinished()` (queued: it is emitted on the client's thread), and
  starts it. `stop()` and the destructor take the whole roster and reap it on
  the owner's thread.
- Events and queues are called directly, under their own locks.
- Every class logs through the one Logger that `systemLog()` creates. Its
  consumers are called on the thread that logs, with `_writeLock` held; a
  consumer takes itself off the list of that Logger, and of no other, in its
  destructor.

### What is hard

1. *The finish phase.* `QThread::isRunning()` is already false while
   `finished()` handlers still run on the worker, and `_stopEvent` is set in
   the middle of that phase: "not running" is not "gone".
2. *Two ways to stop.* `stop()` on an owner and `finishAndStop()` on the worker
   race for `_stopping`; the loser relies on what the winner will do.
3. *Events with memory.* `_stopEvent` resets itself and is consumed by the first
   waiter, and it survives into the next run.
4. *Windows without the lock.* A waiter that has left the condition has not got
   the mutex back; `enqueue()` notifies outside its lock.
5. *Timeouts.* Of the waits, of the destructor's join (500 ms), of
   `TcpServer::stop()` (5 s), each racing a late answer.
6. *Queued calls that outlive their sender.* A `finished()` that is delivered
   after its client was deleted.
7. *A lock that covers half of an object.* The logger's tables and outputs are
   under `_writeLock`; its level tests, `setFilename()` and the opening of the log
   by a first message are not.

8. *Lists walked over while they change.* The passes of the path router, the
   splitting of lines by ad hoc vertices, and `consolidated()` of date ranges.
9. *Algorithms with a second definition.* Dijkstra's search, bitap, edit
   distances, contents and area of polygons, parts of a span by subtraction in
   floating point: each has a reference it should agree with at every limit.
10. *Files.* A write that a crash, a full disk or another thread interrupts.

`PROJECT.json` lists every such hazard at its line, with the properties that
would catch it or the reason why none does yet.

### What makes each component correct

| component | properties |
|---|---|
| MutexEvent | no signal stands in front of sleeping threads; no wait succeeds without a `set()` to account for it; a wait that times out leaves the signal (**false**) |
| LockingQueue | first in, first out, each element to one thread; `dequeue()` fails only after it has seen the queue empty and its deadline has passed; no wakeup is lost |
| AbstractThreadClass | a signalled end means `threadFinished()` is over; the hook runs exactly once before the finish phase and its `deleteLater()` objects are gone; the first result is kept; nothing of a run is left behind; the destructor outlives the worker; calls return |
| TcpServer | one holder per client, who deletes it once; nobody left behind by `stop()`; finished clients are deleted; no circular wait |
| Logger | the file and the consumers see one order; the open file is the one last named; a category goes with its parent's level; entries go to the consumers on the list only, and from the process-wide logger to none that is gone |
| a client of the TcpServer | it ends when its peer leaves or somebody stops it, having delivered all data and closed the connection |
| UdpServer | a datagram accepted is sent once, in order; one that waits has somebody who will send it, through the end of a run too |
| RateMonitor | no event of the window is dropped, although clocks are read outside the lock |
| EntityMetadata | types and names lead to each other, and no deleted entry is used, unless one is registered in two ways |
| SpanningTree | the search never goes back on a vertice it has visited; the path is a shortest way along the links of the tree, however often the ends were set before; and, for ends that were set once each, a shortest one of the network |
| PathRouter | it returns; what its first two passes make leads from end to end and through no obstacle; the lines are horizontal or vertical (**false**) |
| TimeSpan, ranges | parts add up; texts read back; ranges keep their times |
| shapes, texts, files | two ways to compute one thing agree; a file is whole |

## 2. The modules

| module | models | reads |
|---|---|---|
| `MutexEvent` | the event; actions over its own variables, so that others can instantiate it | `mutexevent.cpp`, `mutexevent.h` |
| `MutexEventHistory` | the event with a history of what was signalled and what was granted | |
| `FifoQueue` | the abstract specification of LockingQueue | the promises of `lockingqueue.h` |
| `LockingQueue` | the queue | `lockingqueue.h` |
| `LockingQueueHistory` | the queue with its log, specification, properties, refinement mapping | |
| `AbstractThreadClass` | owners, worker, event loop; two instances of `MutexEvent` | `abstractthreadclass.h/.cpp` |
| `WorkerLife` | the abstract specification of a worker: the contract between AbstractThreadClass and those who own one | the promises of `abstractthreadclass.h` |
| `ThreadLifecycle` | what AbstractThreadClass promises, the mapping to `WorkerLife`, and the inductive invariants | |
| `TcpServer` | owner, server thread and clients | `tcpserver.cpp`, `tcpserverclientobject.cpp` |
| `Logger` | levels, categories, the file and its rotation, consumers | `log/log.cpp`, `logconsumer.cpp` |
| `LoggerHistory` | the logger with what it needs to remember, specification and properties | |
| `UdpServer` | writers, the lock, the worker and its socket, over several runs | `udpserver.cpp` |
| `TcpClient` | one client and its socket, its peer, and who stops it | `tcpserverclientobject.cpp` |
| `RateMonitor` | the window, with clock readings before the lock | `ratemonitor.cpp` |
| `EntityMetadata` | the registry, and objects made from it | `entitymetadata.cpp` |
| `TimeSpan` | a span, its parts, texts and arithmetic through doubles | `timespan.cpp` |
| `TimeRanges` | DateRange and TimeSpanRange, and lists of them | `daterange.*`, `timespanrange.*` |
| `StringUtil` | one call after the other, and the loop over `combineToEol()` | `stringutil.cpp` |
| `Files` | FileUtil and PathUtil, threads, failures and crashes | `fileutil.cpp`, `pathutil.cpp` |
| `FlatGeometry` | points, lines and rectangles, as operators | `point`, `line`, `rectangle`, `flatgeo`, `geo` |
| `ShapeTexts` | texts of points, lines and rectangles | `point.cpp`, `line.cpp`, `rectangle.cpp` |
| `Shapes` | polygons, lists of lines, angles, relations | `polygon.cpp`, `line.cpp`, `angle.cpp`, `flatgeo.h` |
| `SpanningTree` | the graph, its ad hoc vertices, the search | `spanningtree.cpp`, `treepathvertice.cpp` |
| `PathRouter` | the three passes of `calcluatePath()` | `pathrouter.cpp` |
| `Library` | the parts from UdpServer on, side by side | |
| `RoutingProblems` | layouts of obstacles for the path router | |
| `MC*` | instances and symmetry sets for TLC | |
| `MutexEventProofs`, `LockingQueueProofs`, `ThreadLifecycleProofs`, `TcpServerProofs`, `LoggerProofs`, `SpanningTreeProofs` | the proofs about one module each | |
| `LibraryProofs` | the proofs about `Library`: UDP server, TCP client, registry, files | |
| `AlgorithmProofs` | the proofs about `Library`: rate monitor, time ranges and the spanning tree | |

MutexEvent is a part of AbstractThreadClass (two instances), which the servers
and their clients rest on: what they use of it is named at the head of each.
`WorkerLife` says what that is. AbstractThreadClass implements it, with everything
its callers may do; TcpServer, which knows its clients only as workers, is held
to it at every address. What TcpServer assumes of its clients is therefore what
AbstractThreadClass gives, and it asks no more of them than an owner may.
The parts under `Library` do not call each other, and share no state. A
behaviour of `Library` chooses one of them, its `part`; the others stay as they
were made, so that the states of the run are the sum of the parts' and not their
product. Its `Init`, `Next`, fairness and properties are those of the modules.

Several definitions called "A version of ..." stand before the action they
vary: each is the action with a plausible mistake (a guard forgotten, a signal
too early, a reset missing). They are not part of any specification. Replacing
the action by its version must make the matching property fail; `PROJECT.json`
pairs them.

### State and actions

**MutexEvent.** One step is one critical section of `_checkMutex`. `wait()` is
`WaitReturns` (the flag is up), or `WaitBlocks`, then a wakeup (`Set` moves
blocked threads to "notified", `Expire` one timed thread to "expired"), then
`WaitWakes`, the section in which the code lowers the flag *without looking at
it again*. `wakeAll` chooses between one and all. `setWakeAllWaiters()` takes no
lock and may come at any moment.

**LockingQueue.** `enqueue()` is `Enqueue` (under the lock) and `Notify` (after
it). `dequeue()` is `Dequeue`, which takes or blocks; `Resume`, which looks again
after a notification; or `Expire` and `GiveUp`, which fails without looking.

**AbstractThreadClass.** `cpc[c]` is the place of each caller inside a method;
`at` is the place of the worker. The worker's path is

    entry -> started -> exec -> loop -> finished -> signal -> clear -> unregister -> ending -> off

with the detour `hook -> drain -> quit` for `threadAboutToFinish()`, entered
from `started` or `loop` by `finishAndStop()`, from the loop by the queued call
of `stop()`, or by a `stop()` on the worker itself. `ctx` remembers where the
detour returns to. Every test-and-set, event operation and `QThread` call is a
step of its own; logging and naming are left out.

**TcpServer.** `at` and `hand` are the server thread and the client it works on,
`owner` the place of the owner, `roster` is `_clients`, `pending` the queue of
`onClientFinished()` deliveries with their `sender()`. A client is named by its
address; a deleted client's address is free for `createClient()` again. Of a
client's AbstractThreadClass only the life cycle is kept: *running*, *winding*
(finish phase before `finished()`), *ending*, *ended*. That `stop()` and the
destructor of a client wait for its end is taken from `ThreadLifecycle`
(`StopMeansWoundDown`, `MembersOutliveWorker`).

**Logger.** `pc[t]` is the place of each thread in a call, `arg[t]` what the call
was given. Under `_writeLock` a critical section is one step where nobody looks
inside (tables), and several where somebody does: `Write`, then one `Deliver` per
consumer, then `Unlock`; the three steps of a rotation. Without the lock the
places are those of the code: the level test, the lookup, the opening of the log
by a first message, and every access of `setFilename()`. `OpenFile` reads
`_filename` and `OpenNamed` opens what was read, so that a name may be stale by
then. The lookup reads a table that another thread may be changing, and finds
what is there or nothing. `systemLog` says whether the Logger is the process-wide
one, which is open from the start and which `~LogConsumer()` takes a consumer off,
or one of one's own, which the first message opens and which goes on naming a
consumer that is gone; an entry handed to what is left of such a consumer is
counted, although in C++ the call is undefined. A category's name is a sequence of
`Components`, its parent's the same without the last. The level of a message is on a
scale of two.

**UdpServer.** `writeDatagram()` is `QueueDatagram` and `PostService`, with the
lock held between them; `serviceTransmitQueue()` is `Service`, a `Send` for each
datagram, `EndService`. `events` is the queue of calls posted to the worker,
which outlives a run. A datagram is its number.

**TcpClient.** `threadStarted()` makes the socket, takes the descriptor and
connects `signals`, in the clear or with TLS; the peer sends, closes or breaks
the connection at any moment, before the start too; each signal that is
connected is an action. `completion` says who came first, `finishAndStop()` or
`stop()`. An exception between `setSocketDescriptor()` and the assignment of
`_socket` leaves the socket to nobody (`descriptor = "nobody"`).

**RateMonitor.** `ReadClock` comes before the lock, `AddEvent` and
`EventsPerSecond` are the critical sections. What `eventsPerSecond()` divides is
kept as two operands.

**EntityMetadata.** An entry is named by its place in `infos`, so that a deleted
one can be told from a new one; `Found` is what a reader without the lock may
find. `RegisterMetadata` and `RegisterName` are the two halves of one critical
section.

**SpanningTree.** A vertice is named by its place in `vertices`, which only
grows: the code takes vertices out of its index and deletes them with the tree.
`setOrigin()` and `setDestination()` are one step each (clear, find the closest
line, split it, attach); the search is one step per `cycle()`.

**PathRouter.** `phase` is the place in `calcluatePath()`: the functions that a
cycle of pass 1 tries in turn, one step of the loop of pass 2, one step of the
loop of pass 3. `cycles`, `i` and `triesAtIndex` are the code's counters. Where
the code rounds an infinite distance to an integer, which C++ does not define,
the result is any member of `Junk`; where it takes the last element of an empty
list, the phase is "broken".

**TimeSpan.** A span is an integer; every operation goes through `Double`, what
a double makes of it. `format` chooses among the forms of `toString()`, and the
text, a sequence of characters, is read back by `fromString()` or
`parseAbbreviatedString()`.

**TimeRanges, StringUtil, Shapes.** The state is the value the code would hold
(a list of ranges, the arguments and the result of a call, the points of a
polygon); everything else is an operator of it, one for each function. The loop of
`consolidated()` is `Merge`, once for each range after the first.

**Files.** A call is several steps: open, write, commit; look for the source and
rename it. `Write` may store any prefix; `Crash` ends all calls at once. A
protected path is in a directory that allows no new file, where QSaveFile writes
in place.

### Qt, as assumed

Qt is not part of the repository. The models take it as it documents or
implements itself:

- `QWaitCondition` notifies blocked threads only, loses a notification nobody
  waits for, and filters spurious wakeups; a thread that timed out is out of the
  queue.
- `isRunning()` is false in the finish phase; `wait()` and `start()` wait for its
  end.
- `quit()` is remembered until the event loop looks at it; `start()` forgets an
  older one.
- A queued call to a thread without a loop stays in the queue. The comment at
  `abstractthreadclass.cpp:154-155` says such a call is dropped; that is
  true for the current run only.
- `terminate()` is modelled as acting at the worker's locations after
  `started()`, followed by the finish phase. A cancellation in the middle of the
  worker's own wait on `_stopEvent` is left out.
- `QFile::rename()` refuses an existing target and leaves the file closed under
  its new name; opening a file for append may fail at any time.
- `~QThread` on a running thread aborts the process: nothing moves afterwards.
- A `QTcpServer` that listens refuses to listen again; its notifier belongs to
  the event dispatcher of the run that opened it.

C++ gives two preconditions. Nobody else is inside the object when it is
destroyed, and the TcpServer is stopped before it is destroyed
(`tcpserver.h:60-64`).

## 3. The runs

| run | configuration | states | shows |
|---|---|---|---|
| `mutex_event` | 3 threads, history up to 8 | 2,942 | `NoStrandedSignal`, `GrantsBounded` with timeouts, `clear()` and changes of the wake mode |
| `locking_queue` | 3 threads, 2 elements, 4 enqueues | 107,691 | `NoLostWakeup`, refinement of `FifoQueue`, `NeverStuck` |
| `thread_owner` | 1 owner, 1 run, all calls, all timeouts | 56,469 | orderly wind-down, the first completion wins, nothing left, calls return |
| `thread_callers` | 2 callers, 2 runs, the worker may stop itself | 2,677,652 | `SignalMeansWoundDown`, refinement of `WorkerLife` |
| `tcp_server` | 3 addresses, 2 runs | 48,077 | one holder, nobody left behind, the contract of `WorkerLife` kept, finished clients deleted, the owner returns |
| `logger` | 2 threads, 3 nested categories, 2 files, 1 consumer, 4 calls, both kinds of Logger | 852,691 | one order, the file is the one `_filename` names, heirs follow, nothing to the dead |
| `library` | the instances below, one part at a time | 101,922 | the eleven invariants and three liveness properties of `Library` |
| `router_orthogonal` | one problem with two obstacles | | violates `RouteIsOrthogonal` |
| `mutex_event_timeout` | 2 threads | | violates `TimedOutWaitKeepsSignal` |
| `thread_restart` | 1 owner, 2 runs | | violates `StopMeansStopped` |
| `thread_completion` | 1 owner | | violates `CompletionReturns` |
| `thread_two_stops` | 2 callers | | violates `HookBeforeFinish` |

### Why these bounds

- *Threads.* Three threads on an event or a queue give a waiter, a faster thread
  that takes what the waiter was woken for, and a signaller. The proofs cover
  any number.
- *MaxWorth* 8 is two `set()` calls that wake all three threads, or four that
  wake one; *MaxEnqueues* 4 is more elements than consumers.
- *Callers and runs.* One owner meets every timeout and every call against the
  worker; two callers meet each other. Two runs are the shortest history in
  which something survives a run. `MaxPosted` only keeps `stop()` from being
  called again and again with its hook still in the queue: two for one owner;
  one with two callers, who between them still queue a second hook, since both
  may be past that guard.
- *Clients.* With three addresses one client is in the server's hand, one on the
  roster and one in the queue of finished ones, and an address is reused.
- *Calls of the logger.* Four are enough to add a consumer twice, destroy it and
  log; to register three generations and set a level; to name a file, log, rotate
  and log; and for two crossing calls about the file to be followed by one alone.
- *Routes.* Five families of problems on a canvas of 96 by 96: around a block, a
  wall, two blocks in a row and apart, with every initial direction, from a point
  on an obstacle's edge, with passes 2 and 3 turned off, and four odd ones (no
  first line; a corner; 20 cycles, which is MAX_CYCLES; the same line twice).
  The margin is 4, so that half of it is whole.
- *Networks.* A ring with two ways round, one that does not hang together, and
  one with a hook; three calls set an end, set it again, and set the other.
- *Shapes.* Up to four corners out of nine, on both sides of the axes: every
  triangle and quadrangle, also those that cross themselves or have no area.
- *Time spans.* The sizes of the units are constants, because TLC's integers have
  32 bits: 10 ns make a us, 10 us a ms, 10 ms a second; a day has two hours.
  `Exact`, 2^53 in the code, is 2^30. The parts
  are at the limits of each unit, around 100 days, where a text takes another
  form, and one nanosecond before a second near `Exact`, where totals could round up.
- *Ranges.* Up to three ranges on five times: apart, touching, overlapping,
  within each other, equal.
- *Texts.* All strings of up to three characters of each kind to search and
  compare, up to four to split, with quotes, separators and blanks. The units of
  `toKMG()` are 50 apart, which makes its largest counts fit into 32 bits.
- *Files.* Two threads, three paths, two texts and two calls: each call meets each
  other call, and a crash, between any two of its steps.
- *UdpServer.* Three datagrams out, two in, two runs: a datagram is queued before,
  during and after a run.
- *TcpClient.* Three packets: before the start, during the handshake, with the
  close.
- *RateMonitor.* Two threads whose clock readings cross, two windows, one that
  shrinks in between. Prune intervals of one unit.
- *EntityMetadata.* Two types, two names, two icons, three calls: a type under two
  names, a name for two types, and one of them again.
- `CHECK_DEADLOCK FALSE` stands where the system may stop: the object is
  destroyed, a caller waits for an end that does not come, or the calls of the
  logger are used up.

### Fairness

The models assume that a thread that can take a step takes one (weak fairness of
each caller inside a call and of the worker), that hooks return, and that timed
waits expire. Nobody is obliged to call anything, the worker's code is not
obliged to finish itself, no peer has to connect or to disconnect. TcpServer
needs strong fairness for one step: an event loop that was asked to quit does so
although connections keep coming, since Qt looks at the quit flag after each
round. In LockingQueue no deadline has to pass.

`Library` gives fairness to the part in use only: the worker of the UDP server
and a writer that holds its lock, the worker of a client (whose peer need not
do anything), and `calcluatePath()`, which is one call and goes on until it
returns. Nothing is assumed of the other parts, which promise safety only.

`CallsReturn` is about `start()`, `stop()`, `abort()` and the destructor. The
two pure waits, `waitForStart()` and `waitForCompletion()`, may wait forever
without a timeout: nobody has to start or end the thread.

### Where code and documentation disagree

1. `mutexevent.cpp:35`: a `wait()` that timed out lowers a flag that was raised
   between its timeout and its return. It returns false, and the signal is gone.
2. `abstractthreadclass.cpp:163`: nothing clears `_stopEvent` when a thread is
   started. If the first run ended through `finishAndStop()` and nobody waited
   for it, `stop()` of the second run returns true at once, with the thread
   running.
3. `abstractthreadclass.cpp:184`: `waitForCompletion()` after a `stop()` waits
   for a signal that was consumed, although the thread has finished.
4. `abstractthreadclass.cpp:159-162`: a second `stop()` takes a set `_stopping`
   for a worker that has run its hook. If another caller's `stop()` set it and
   has not posted the hook yet, the run ends without `threadAboutToFinish()`.

5. `pathrouter.cpp:205`: `directionOffObstacle()` finds no direction for a line
   that has the obstacle on both sides. `Line::move()` takes no direction for
   bearing 0, so that a vertical line is moved up along itself. Its neighbours
   are joined to its new ends and are slanted (the code logs an error and
   inserts them); `pathrouter.h:17` promises horizontal and vertical lines.
   `RouteBeforeMargins` is about the path that pass 3 is given for this reason.

`SignalMeansWoundDown` and `StopMeansWoundDown` speak of the first run of an
object because of 2. `StopMeansWoundDown` is about `stop()` and
`waitForCompletion()` that are about to return true (`stop.true`,
`completion.true`), and is checked with one owner: with two, a caller may start the
thread between the moment another one finds it stopped and its return. `OrderlyFinish` is checked with one owner because of 4, leaves
out cancelled runs, which have no hook, and speaks of the first run, as
`FirstCompletionWins` does: a hook that was posted too late for one run ends the
next.

`FileIsFilename` excepts calls that crossed, because the code has it only then:
two `setFilename()` calls may each read their own name and open in the other
order, and the log stays in the file that was named first. The documentation
says nothing about several threads there. The property speaks of `_filename`, which
is what `filename()` returns, because of `rotateLog(newFileName)`: by `log.h:61-65` that
rotates the log "to a new file path", which is the "path to the new log file",
while `log.cpp:54-63` renames the old file to that path and opens a new one under
`_filename`. The property holds of the code as it is, and would also hold of one
that stored the new name. Two more things a reader of the model
will notice, neither contradicted by a doc: `registerCategory()` of a name that
exists puts its level back to the default, and `enableOutputFlags(File)` on a log
that is already open does not open the file.

The modules state some functions as they are, where their documentation says
something else or nothing, and their properties keep to the cases that work, or to
what code and documentation have in common:

- `DateRange::List::consolidated()` sorts a copy and then walks over the unsorted
  list (`daterange.h:190-200`): lists that are not in order come out wrong.
- `Polygon::boundingRectangle()` starts from the smallest positive double and is
  too wide for a polygon that lies on the negative side of an axis
  (`polygon.cpp:161`). `Line::crossesX()` and its kin are false for lines drawn
  from right to left.
- `Rectangle::toString()` writes a sign before a coordinate that has one already,
  and `Rectangle::fromString()` reads such a coordinate as 0 (`rectangle.cpp:271`);
  `Line::List::toString()` writes parentheses that its `fromString()` does not know,
  so that of each line two coordinates are read as 0 (`line.cpp:765`).
- `furthestPointFrom()` returns the first end whenever the closest point lies
  between the ends, though the other may be further away (`line.h:312`).
- `toKMG()` rounds after it has chosen the unit: the last count below a million is
  "1000.00 K".
- `fuzzyIndexOf()` counts substitutions only; `stringutil.h:211` and `:234` speak of
  Levenshtein distance. `SearchIsNear` asks what both promise: a find is within that
  distance, and no place is missed where few enough characters differ.
- `indexOfWord()` counts words from 0; `stringutil.h:200-202` says "1-based".
  `WordIsFound` asks for the words in their order under successive numbers.
- `unquoted()` takes what is between the first two quotes, where `stringutil.h:152`
  says the outermost. `combineToEol()` reports one line more than there was when it
  reaches the end of the list (`stringutil.cpp:456`). The rows of `toHexTable()` begin
  16 bytes apart, whatever `tableWidth` is (`stringutil.cpp:57`).
- `lineNearPoint()` looks for lines along the axes in a rectangle of half the margin
  around them (`line.cpp:709`), where `line.h:230-236` calls the margin the maximum
  distance allowed. `NeighboursAgree` asks that a line found is within the margin, and
  that one is found if one is within half of it.
- `relationTo()` of two rectangles tells the side on which the other one is
  (`flatgeo.cpp:207-221`), where `geo.h:57-60` speaks of the side of the origin, as
  the code does for points. `RelationsAgree` asks that rectangles that are apart have
  a side to tell it, and that the relations of one to the other and back are opposite.
- A clock text with days is read back without them, and the form with microseconds
  to half a millisecond only; `ClockReadsBack` is about spans of less than a day.
- `registerMetadata()` of a type under another name deletes the entry that the
  registry still points to (`entitymetadata.cpp:61`).
- A TLS client never calls `clientStarted()`, and one whose server lacks
  certificates leaves its socket to nobody.
- A UdpServer that is started again cannot bind: its first socket has the port.
- `appendAllBytes()` does not look at what was written, `writeAllLines()` writes
  Latin-1 where `readAllLines()` reads UTF-8 by default, and `combine()` of a list
  does not clean the path.
- Beyond 2^53 ns the parts of a time span may carry (24 hours), and
  `parseIntToToken()` drops a fixed number of characters.

## 4. The proofs

TLAPS proves, without bounds on threads, elements, callers or runs:

| theorem | argument |
|---|---|
| `MutexEventProofs!HistoryTypeCorrect` | inductive |
| `MutexEventProofs!NoStrandedSignalHolds` | inductive with the types: `Set` releases somebody, every way to lower the number of released threads lowers the flag, and a thread blocks only when the flag is down |
| `MutexEventProofs!GrantsBoundedHolds` | `GrantsBounded` is inductive with the types. The work is in the cardinality of the notified set: one `set()` adds at most all threads and the flag, a wakeup moves one thread from outstanding to granted |
| `LockingQueueProofs!TypeCorrect` | inductive |
| `LockingQueueProofs!NoLostWakeupHolds` | inductive with the types, by counting woken and notifying threads |
| `LockingQueueProofs!ImplementsFifoQueue` | the invariant `LogInv` (the queue is the part of the log that has not left), then each step as a step of `FifoQueue` or a stutter |
| `ThreadLifecycleProofs!TypeCorrect` | inductive; both events keep their own types |
| `ThreadLifecycleProofs!SignalMeansWoundDownHolds`, `MembersOutliveWorkerHolds`, `RunLeavesNothingHolds` | from `LifecycleInv` |
| `ThreadLifecycleProofs!StopMeansWoundDownHolds`, `FirstCompletionWinsHolds` | from `OwnerInv`, for one owner |
| `ThreadLifecycleProofs!OrderlyFinishHolds` | from `HookInv`, for one owner and a worker that does not stop itself |
| `ThreadLifecycleProofs!ImplementsWorkerLifeHolds` | each step of a caller or of the worker as a step of `WorkerLife` or a stutter, with `LifecycleInv` |
| `TcpServerProofs!TypeCorrect`, `OneHolderHolds`, `NobodyLeftBehindHolds` | from `ServerInv` |
| `TcpServerProofs!KeepsToContractHolds` | each step, seen from any address, as a step of `WorkerLife` or a stutter, with `ServerInv` and `NewUntilStarted` |
| `LoggerProofs!TypeCorrect` | `LoggerInv`: the types, what a thread holds at each place of a call, and that an open file exists |
| `LoggerProofs!OneOrderHolds` | with `NothingLater`: nothing put out is later than the last message, which is the one in the hand of who delivers |
| `LoggerProofs!NothingToTheDeadHolds` | an action property, with `SinksAlive`: the list of the process-wide logger names no dead consumer, and the rest of a list that a thread works off names nobody who is not on it, since the lock is held and nobody else changes it |
| `LoggerProofs!HeirsFollowHolds` | with `HeirsRegistered` |
| `LoggerProofs!FileIsFilenameHolds` | with `OneAboutFile` and `FileSettles` |
| `LibraryProofs!UdpTypeCorrect` | inductive |
| `LibraryProofs!UdpQueueGuardedHolds` | inductive with the types: who holds `_queueLock` is at work in its critical section, and nobody else |
| `LibraryProofs!UdpNothingLostHolds` | both halves are inductive with the types. The order: a datagram appended to the queue is appended to what was sent and what waits together (`AppendToBoth`), one sent moves from the head of the queue to the end of what was sent (`MoveHead`). The reminder: only `EndService` gives up the service, with an empty queue; a stop takes no posted call away, and the end of a run keeps them all |
| `LibraryProofs!ClosesConnectionHolds` | from `ClientInv`: a client that has ended has closed what it took over |
| `LibraryProofs!NothingLostHolds` | for the library: of the UDP server from the above, of the TCP client from `ClientInv` |
| `AlgorithmProofs!RateRecentKeptHolds`, `RecentKeptHolds` | inductive with the types and `ReadingsPast`: no thread holds a time that is still to come, and the window is never shorter than the shortest there was. Pruning drops events from the front that are before the window (`PrunedFront`), and a suffix of a suffix is a suffix (`SuffixOfSuffix`) |
| `LibraryProofs!RegistryAgreesHolds` | from `RegistryInv` |
| `LibraryProofs!FilesWholeHolds` | from `FilesInv` |
| `AlgorithmProofs!TimesAgreeHolds` | from `RangesInv`, and for any two ranges from `RangesAgreeOnTwo` |
| `SpanningTreeProofs!TreeVisitedIsFinalHolds` | from `TreeInv` |
| `SpanningTreeProofs!ShortestWayTakenHolds` | an action property, from `SearchInv`: no way is shorter than the distance that the search leaves at its end (`NoWayShorter`), and the sources lead back along one of that length (`WayBack`) |
| `AlgorithmProofs!VisitedIsFinalHolds`, `ShortestWayInLibrary` | for the library: both instances of SpanningTree are the same (`SameTree`) |

The theorems about `Library` are about the specification that the run checks: a
step of `Library` is a step of the part in use or leaves the variables of the
part alone, so that a lemma about the part's own steps carries over.

The properties of AbstractThreadClass are not inductive. `LifecycleInv`
adds: the state of the `QThread` agrees with the worker's place
(`ThreadMatchesWorker`); whoever destroys the object is alone with it
(`DestroyerIsAlone`) and, past its join, right about the thread's end
(`DestroyerJoined`); the registry holds the object only between the two ends of
a run (`RegisteredWhileAtWork`); before the first run only the destructor
signals `_stopEvent` (`NoSignalBeforeUse`); and while `_stopping` is set, the
worker or a caller inside `stop()` is still to clear it (`StoppingHasAnEnd`).

`OwnerInv` adds to it, for the first run of an object with one owner: whoever
clears `_stopping` while the worker is at work has cancelled the thread
(`FalseMeansCancelled` for a `stop()` that timed out, `ResetMeansCancelled` for
one the worker called on itself), and a recorded result keeps `_stopping` set for
as long (`ResultGuarded`, `NoResultBeforeUse`). A second owner would spoil the
first part: it may start the thread between the moment the other finds it stopped
and its return.

For the refinement of `WorkerLife` the states of the object are read off: `life` is
where the worker is, "winding" from the announcement of the end on; `told` are the
callers that are about to return true from `stop()`; and an object whose destructor
gave up its join of 500 ms is "wrecked". A start leaves an end behind it,
because `start()` returns early while `QThread` says that it runs; a `stop()` is told of
an end because the signal that it found means that the worker has wound down
(`SignalMeansWoundDown`), or because it found the thread ended; and the
members go when the thread is over, because the destructor is alone and has joined.
The contract is no stronger than that: in a later run `stop()` may have met an old
signal (the second disagreement above), and `TellStopped` says so.

`HookInv` counts the hook. As long as nobody cancels or destroys, the hook is in
exactly one place once `_stopping` is set, and in none before: about to be posted
by the owner, in the queue of the worker, being called, or done (`OneHook`).
While it is posted the owner waits in `stop()`, so that nobody can ask the loop to
quit before it has run. Nothing is left from before the first run
(`NothingBefore`), and the worker never waits for itself (`NoSelfStop`).

`ServerInv` adds to the two properties of TcpServer: whoever reaps is alone, the
server thread being over (`ReapsAlone`); clients are taken off the roster all at
once (`TakenAtOnce`); the client in the hand of the server thread is on the
roster between the steps that put it there and take it off, and not else
(`HandOrRoster`). What the queue of `onClientFinished()` calls holds does not
matter: a name in it that is not on the roster is dropped, one that is names the
client that lives at that address now. `NewUntilStarted` says of the client that
`incomingConnection()` has in hand that nobody has started it, which the contract
demands of the first start.

`RegistryInv` adds to `RegistryAgrees`: a type has an info of its own, of a name
it was registered under (`OwnInfo`); the thread in the lock registers a type that
has its info already (`Registering`); only a type of several names loses its info
(`DeletedDisputed`); and the name of an undisputed type leads to it, or the
thread in the lock is about to see to it (`NameLeads`).

The properties of the Logger rest on what a thread has in its hand. Consumers and
file may each be given the messages out of order only if one of them has a message
that is later than `written`, and there is none: the number is counted up under the
lock, and the rest of the list is worked off under the same lock
(`NothingLater`). `FileIsFilename` needs two more parts. Unless calls crossed, one
thread at most is in a call about the file (`OneAboutFile`), and that one has, at
each place between the assignment of `_filename` and the opening, a name that is
still `_filename`, or a file that is closed (`FileSettles`). `HeirsFollow` needs that
an heir and its parent are in the table, and that nobody is between the lookup and
the setting of the level of an heir itself (`HeirsRegistered`).

`ClientInv` has three parts. `ClientOrder`: what was read and what has arrived are
the peer's packets from the first on, with none missing and none twice.
`ClientDecides`: a client that is served listens for data wherever it listens for
the end, and when it has decided that it failed, it has read everything there was of
a peer that has gone. `ClientCloses`: a socket that is not there was closed, or
left by the exception of a TLS server without certificates.

`FilesInv` says what each call holds at each of its steps: what it was given to
write, a temporary file that is complete before the commit, and a protected path if
it writes in place. A rename then moves whole contents, and a crash leaves either
the old ones or the new ones.

`RangesInv` is `ConsolidatedKeepsTimes` with the types. The merging loop is a
recursive function of the number of ranges merged so far. That it keeps the times of
a sorted list and leaves gaps between its ranges (`ConsolidatedKeeps`) is proved of
the least number of ranges for which it would not (`LeastExists`, `StepsExist`),
because the induction theorems of the library take an operator.

`TreeInv` adds to `VisitedIsFinal`: the index leads from each position to the vertice
that is there, and links lead to vertices (`Fits`), through every splitting of a
line by ad hoc vertices; only vertices of the index wait. While the search runs, a
vertice that waits was not visited, and no neighbor of a visited one, visited or
waiting, can be improved from there (`Relaxed`). What `cycle()` picks is the nearest
that waits, so that it cannot improve a vertice visited before.

`SearchInv` adds what the distances mean (`Reckoned`). While the search runs, a
vertice has been visited, or it waits, or it is as far as can be and so is all that
still waits; and one that was reached, other than the origin, has the distance of
its source and the leg between them, the source having been visited and being
nearer (`ReachedFrom`). A leg between two vertices is never zero, because they are
in different places (`LegPositive`). When nothing waits any more, of all ways that
would be shorter than the distance at their end take the first step of one that is:
it leads from a vertice with the right distance to one that `VisitedIsFinal` says is
no farther (`NoWayShorter`). Back from the destination the distances strictly fall, so
that no vertice comes twice, and the origin is reached in fewer steps than there
are vertices (`WayBack`). What is left for TLC is geometry: that the links of the tree are
the lines of the network, split where the ends were attached.

Assumptions: `HistoryAssumption` and `QueueAssumption` (finitely many threads,
the default element is not an element), `CallersAssumption` (the worker is not
one of its callers; the constants have their types; that there is one owner, and
that the worker does not stop itself, are hypotheses of the theorems that need
them), `LoggerAssumption` (the holder of the free lock is no thread; names of
categories are sequences of components and not empty; the marks for "no name", "no
path", "no file" and "not registered" are none), `UdpAssumption` (the worker
is none of the writers; only for the lock), `RateAssumption` (windows are
positive), `MetadataAssumption` (the holder of the free lock is no thread, 0 no
type), `FilesAssumption`, `RangeAssumption` (times are integers, a millisecond is
something), `NetworkAssumption` (the lines of a network are horizontal or
vertical, have a length, and meet at their ends only, which is what the code splits
them for). The other conjuncts of these give the constants their types.
`ServerAssumption` and those of the remaining parts are not needed. TLC evaluates
all of them.

Only model-checked:

- Liveness (`NeverStuck`, `CallsReturn`, `FinishedClientsDeleted`, `OwnerComesBack`,
  `CalculationReturns`, `QueuesDrain`, `ClientEnds`), which is beyond the proof system.
- `Library!TypeOK`: it is made of the types of all parts. Those of the proved parts
  are in their invariants; the path router's, the shapes', the spans' and the texts'
  are not: coordinates are bounded by the problems only, and the spans' and texts'
  are results of folds, whose values the provers do not open.
- `RouteBeforeMargins`: the route of the path router. It is no invariant of every
  layout of obstacles: two lines that go around an obstacle can both be added with the
  same start, and merging two lines can move the start of the path. That neither happens
  is a fact about the problems, which TLC finds for those of the run.
- `ShortestPathFound`: that the links of the tree, after the splitting of lines by two
  ad hoc vertices, keep the distances along the lines of the network. (That the path is
  a shortest one along those links is `ShortestWayTakenHolds`. The property has no run,
  because its ways are a subset of all sequences, which TLC does not enumerate.)
- `TextAlgorithmsAgree` and `ShapesAgree`: what recursive definitions of searches,
  texts, doubles and polygons compute for every input, against a second one. Some of
  them are RECURSIVE operators, which the provers cannot open.

## 5. Not modelled

- Data that no property depends on: payloads of events, log texts, thread names,
  SSL configuration, socket contents, user data of monitors and metadata.
- `TcpServerClientObject::writeData()`. Other threads may call it on a socket that
  belongs to the client's thread and that this thread deletes without clearing
  the pointer (`tcpserverclientobject.cpp:57`): every outcome would be allowed.
- What needs roots and angles: circles, triangles, rotation, arcs, bearings off
  the axes, geography. The routers and shapes are modelled on whole coordinates,
  distances compared by their squares.
- Of TimeSpan the comparisons, and of the `total...()` quotients what is behind the
  point; DateTimeUtil's formats.
- Of FileUtil hashes, modification times and `which()`; of StringUtil the
  conversions of bytes and doubles.
- Wrappers of Qt and libc (process, settings, user, address, crypto, JSON and XML
  helpers): pure input and output or stateless conversion.
- Of the logger: console, qDebug and syslog output, the identity, the look of a
  line, `parseLevel()`, the reading of start and end times, and consumers that
  log or remove themselves while they are called (which the code cannot do
  without waiting for itself).
- Of the path router `lineLiesOnObstacleEdge()`, which nothing calls, and
  `mergeTinySegments()`, which computes new lines and keeps none; a second
  `calcluatePath()` of the same object, which adds to the old path.

## 6. What would come next

1. The splitting of lines: that `Split` and `Join` keep the distances along the network,
   from which `ShortestPathFound` would follow by `ShortestWayTakenHolds`.
2. The path router: for which layouts of obstacles its first pass keeps the chain of
   lines from the origin on.
3. TcpServer composed with `TcpClient`, in place of the client's life cycle in
   `WorkerLife`.
