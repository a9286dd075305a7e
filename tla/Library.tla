------------------------------- MODULE Library -------------------------------
(***************************************************************************)
(* The parts of the library that do not call each other, side by side: the *)
(* two routers and the shapes they work on, time spans and ranges,         *)
(* strings, files, the UDP server, the client of the TCP server, the rate  *)
(* monitor and the registry of entity metadata.  A behaviour uses one of   *)
(* them, the "part"; the others stay as they were made.                    *)
(***************************************************************************)
EXTENDS Integers, Sequences

CONSTANTS
    Threads, Nobody, Worker,            \* callers, the holder of a free lock, a worker
    Problems, Infinity, Junk, MaxCycles,                            \* PathRouter
    Networks, AdHocPoints, Preferred, Beyond, MaxRoutingCalls,      \* SpanningTree
    Vertices, Grid, MaxPoints,                                      \* Shapes
    Kilo, KiloDigits, SecondsPerMinute, MinutesPerHour, HoursPerDay, HoursPerYear,
    Exact, Parts, Operands, Factors, SpanTexts, MaxOperations,      \* TimeSpan
    Times, Spans, PerMillisecond, MaxRanges,                        \* TimeRanges
    Letters, Quote, Separator, Space, EndOfLine,
    MaxLetters, MaxLength, MaxDistance, MaxLines, RowSize, Thousand, \* StringUtil
    Paths, Directories, Protected, FileTexts, MaxFileCalls,         \* Files
    MaxWrites, MaxArrivals, MaxRuns,                                \* UdpServer
    MaxSent,                                                        \* TcpClient
    Windows, PruneIntervalMsecs, MaxEvents, MaxTime,                \* RateMonitor
    EntityTypes, Names, Icons, MaxMetadataCalls                     \* EntityMetadata

VARIABLES
    part,
    problem, pathLines, direction, forceDirection, initialDirectionForced, complete,
    originObstacle, destinationObstacle, a, cycles, i, triesAtIndex, phase,
    network, lines, vertices, treeIndex, origin, destination, unvisited, treePhase, path,
    routingCalls,
    points,
    span, valid, operations, stage, format, text, readBack, parsed,
    kind, list, consolidated,
    function, in, out, lineIndex, combined,
    files, temporary, fileCall, result, given, appendedTo, callsMade,
    transmitQueue, queueLock, unposted, accepted, sent, udpAt, posts, stopping, udpQuitting,
    runs, bound, udpInbox, arrived, udpReceived,
    useSsl, equipped, at, completion, quitting, posted, socket, descriptor, signals,
    encrypted, peer, inbox, transmitted, received, heard,
    clock, evaluationMsecs, events, lastPruneTime, rateCall, now, rate, history, narrowest,
    registeredTypes, nameToTypeMap, infos, lock, arg, metadata, usedDeleted, metadataCalls,
    asked

-----------------------------------------------------------------------------
(* The parts                                                               *)

Router == INSTANCE PathRouter

Tree == INSTANCE SpanningTree
    WITH index <- treeIndex, phase <- treePhase, calls <- routingCalls,
         Infinity <- Beyond, MaxCalls <- MaxRoutingCalls

Shape == INSTANCE Shapes

Span == INSTANCE TimeSpan WITH Texts <- SpanTexts

Ranges == INSTANCE TimeRanges WITH Points <- Times

Strings == INSTANCE StringUtil
    WITH call <- function, index <- lineIndex, Blank <- Space, Eol <- EndOfLine

FileSystem == INSTANCE Files
    WITH call <- fileCall, Users <- Threads, Texts <- FileTexts, MaxCalls <- MaxFileCalls

Udp == INSTANCE UdpServer
    WITH at <- udpAt, events <- posts, quitting <- udpQuitting, inbox <- udpInbox,
         received <- udpReceived, Writers <- Threads

Client == INSTANCE TcpClient

Rate == INSTANCE RateMonitor WITH call <- rateCall, Users <- Threads

Metadata == INSTANCE EntityMetadata
    WITH calls <- metadataCalls, Users <- Threads, Types <- EntityTypes,
         MaxCalls <- MaxMetadataCalls

LibraryAssumption ==
    /\ Router!ProblemAssumption /\ Tree!NetworkAssumption
    /\ Span!TimeSpanAssumption /\ Ranges!RangeAssumption /\ Strings!StringAssumption
    /\ FileSystem!FilesAssumption
    /\ Udp!UdpAssumption /\ Rate!RateAssumption /\ Metadata!MetadataAssumption

ASSUME LibraryAssumption

routerVars ==
    <<problem, pathLines, direction, forceDirection, initialDirectionForced, complete,
      originObstacle, destinationObstacle, a, cycles, i, triesAtIndex, phase>>
treeVars ==
    <<network, lines, vertices, treeIndex, origin, destination, unvisited, treePhase, path,
      routingCalls>>
spanVars   == <<span, valid, operations, stage, format, text, readBack, parsed>>
rangeVars  == <<kind, list, consolidated>>
stringVars == <<function, in, out, lineIndex, combined>>
fileVars   == <<files, temporary, fileCall, result, given, appendedTo, callsMade>>
udpVars ==
    <<transmitQueue, queueLock, unposted, accepted, sent, udpAt, posts, stopping,
      udpQuitting, runs, bound, udpInbox, arrived, udpReceived>>
clientVars ==
    <<useSsl, equipped, at, completion, quitting, posted, socket, descriptor, signals,
      encrypted, peer, inbox, transmitted, received, heard>>
rateVars ==
    <<clock, evaluationMsecs, events, lastPruneTime, rateCall, now, rate, history,
      narrowest>>
metadataVars ==
    <<registeredTypes, nameToTypeMap, infos, lock, arg, metadata, usedDeleted,
      metadataCalls, asked>>

Geometry == <<routerVars, treeVars, points>>
Values   == <<spanVars, rangeVars, stringVars>>
Servers  == <<udpVars, clientVars>>
Shared   == <<fileVars, rateVars, metadataVars>>

libraryVars == <<part, Geometry, Values, Servers, Shared>>

-----------------------------------------------------------------------------
Init ==
    /\ part \in {"router", "tree", "shapes", "span", "ranges", "strings", "files", "udp",
                 "client", "rate", "metadata"}
    /\ Router!Init /\ Tree!Init /\ Shape!Init /\ Span!Init /\ Ranges!Init /\ Strings!Init
    /\ FileSystem!Init /\ Udp!Init /\ Rate!Init /\ Metadata!Init
    /\ Client!Init
    /\ part # "client" => ~useSsl /\ ~equipped
    /\ part # "ranges" => kind = "DateRange"
    /\ part # "rate" => \A w \in Windows : w <= evaluationMsecs

RouteStep ==
    /\ part = "router" /\ Router!Next
    /\ UNCHANGED <<part, treeVars, points, Values, Servers, Shared>>

TreeStep ==
    /\ part = "tree" /\ Tree!Next
    /\ UNCHANGED <<part, routerVars, points, Values, Servers, Shared>>

ShapeStep ==
    /\ part = "shapes" /\ Shape!Next
    /\ UNCHANGED <<part, routerVars, treeVars, Values, Servers, Shared>>

SpanStep ==
    /\ part = "span" /\ Span!Next
    /\ UNCHANGED <<part, Geometry, rangeVars, stringVars, Servers, Shared>>

RangeStep ==
    /\ part = "ranges" /\ Ranges!Next
    /\ UNCHANGED <<part, Geometry, spanVars, stringVars, Servers, Shared>>

StringStep ==
    /\ part = "strings" /\ Strings!Next
    /\ UNCHANGED <<part, Geometry, spanVars, rangeVars, Servers, Shared>>

FileStep ==
    /\ part = "files" /\ FileSystem!Next
    /\ UNCHANGED <<part, Geometry, Values, Servers, rateVars, metadataVars>>

UdpStep ==
    /\ part = "udp" /\ Udp!Next
    /\ UNCHANGED <<part, Geometry, Values, clientVars, Shared>>

ClientStep ==
    /\ part = "client" /\ Client!Next
    /\ UNCHANGED <<part, Geometry, Values, udpVars, Shared>>

RateStep ==
    /\ part = "rate" /\ Rate!Next
    /\ UNCHANGED <<part, Geometry, Values, Servers, fileVars,
                   metadataVars>>

MetadataStep ==
    /\ part = "metadata" /\ Metadata!Next
    /\ UNCHANGED <<part, Geometry, Values, Servers, fileVars, rateVars>>

Next ==
    \/ RouteStep \/ TreeStep \/ ShapeStep \/ SpanStep \/ RangeStep \/ StringStep
    \/ FileStep \/ UdpStep \/ ClientStep \/ RateStep \/ MetadataStep

\* What each part needs to come to its end, of the part in use.
Fairness ==
    /\ Router!Progress
    /\ WF_udpVars(part = "udp" /\ Udp!WorkerStep)
    /\ \A w \in Threads : WF_udpVars(part = "udp" /\ Udp!PostService(w))
    /\ WF_clientVars(part = "client" /\ Client!WorkerStep)

Spec == Init /\ [][Next]_libraryVars /\ Fairness

-----------------------------------------------------------------------------
(* Correctness, part by part                                               *)

\* The state of every part keeps to its types and bounds; the path router never
\* counts more than MAX_CYCLES cycles (pathrouter.cpp).
TypeOK ==
    /\ Router!TypeOK /\ Tree!TypeOK /\ Shape!TypeOK /\ Span!TypeOK /\ Ranges!TypeOK
    /\ Strings!TypeOK /\ FileSystem!TypeOK /\ Udp!TypeOK /\ Client!TypeOK
    /\ Rate!TypeOK /\ Metadata!TypeOK

\* What pass 1 and pass 2 of the path router hand on leads from the origin to the
\* destination without a gap and, if they found a way, through no obstacle.
RouteBeforeMargins == part = "router" => Router!RouteBeforeMargins

\* calcluatePath() returns, whatever its three loops do to the route they walk over.
CalculationReturns == Router!CalculationReturns

\* Dijkstra's search never improves a vertice that it has visited.
VisitedIsFinal == part = "tree" => Tree!VisitedIsFinal

\* The path of a spanning tree whose ad hoc origin and destination were set once each, in
\* any order, is the shortest one of its network.
ShortestPathFound == part = "tree" => Tree!ShortestPathFound

\* Ranges keep their durations, midpoints and common parts, and the consolidated ones
\* cover the same times.
TimesAgree == part = "ranges" => Ranges!ConsolidatedKeepsTimes /\ Ranges!RangesAgree

\* Datagrams are sent once each in the order they were queued, and one that waits has
\* somebody who will send it: see UdpServer.  What the peer of a TCP client sends is
\* read in its order, and all of it before the client ends that the peer left in order.
NothingLost ==
    /\ part = "udp" => Udp!NothingLost
    /\ part = "client" => Client!DeliversAll

\* What was queued for a UDP server that runs is sent, unless the server stops.
QueuesDrain == Udp!QueuesDrain

\* However the clock readings of several threads cross, the rate monitor keeps every
\* event of its window.
RecentKept == part = "rate" => Rate!RecentKept

\* Whatever order two threads register types in, the registry and the entity metadata
\* made from it agree on types, names and icons.
RegistryAgrees == part = "metadata" => Metadata!RegistryAgrees

\* Searching, comparing, splitting, joining, trimming and tabling strings give what
\* their definitions by positions, edits and pieces say; the lines of a file are read as
\* they were written; the parts of a path are those it was made of; the parts of a time
\* span, of which its texts consist, add up to it, and its texts are read back as the
\* span they were written from, as near as each form lets it be.
TextAlgorithmsAgree ==
    /\ part = "strings" => Strings!TextAlgorithmsAgree
    /\ part = "files" => FileSystem!TextsAgree
    /\ part = "span" => Span!PartsAddUp /\ Span!ClockReadsBack /\ Span!AbbreviatedReadsBack

\* Area and contents, centroid, bounds, lines and relations of polygons agree.
ShapesAgree == part = "shapes" => Shape!ShapesAgree

\* Wherever threads meet, calls fail or the process ends, a file that was not appended
\* to has all of what some call was given to write.
FilesWhole == part = "files" => FileSystem!ReplacedAtomically

\* A client of the TCP server whose peer leaves or that is stopped ends, with all data
\* delivered and the connection closed.
ClientEnds == Client!ClientEnds

=============================================================================
