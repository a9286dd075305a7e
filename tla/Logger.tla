------------------------------- MODULE Logger -------------------------------
(***************************************************************************)
(* Logger (include/Kanoop/log.h, src/Kanoop/log/log.cpp) as the threads of *)
(* a process share it: levels and categories, the log file and its         *)
(* rotation, and the consumers that are handed every entry.                *)
(*                                                                         *)
(* _writeLock guards the output and the tables.  Outside it, in the order  *)
(* of the code: the level tests of logText() and logHex(), openLog() of a  *)
(* first message, setLevel(), setFlags() and all of setFilename().  A step *)
(* is one critical section where nobody looks inside, and one access to    *)
(* shared state elsewhere.                                                 *)
(*                                                                         *)
(* A category name is the sequence of its components ("a.b" is             *)
(* <<"a", "b">>).  A message is the number it gets when it is written.     *)
(* Console, qDebug and syslog output, and how a line looks, are left out.  *)
(***************************************************************************)
EXTENDS Naturals, Sequences, SequencesExt

CONSTANTS
    Threads,
    Nobody,         \* the holder of the free lock
    Components,     \* the parts of names between the dots
    Names,          \* the names of categories
    NoName,         \* the category of a message without one: LogCategory()
    Unregistered,   \* the level of a name that is not in _categories
    Debug,          \* the highest level, and DefaultLogLevel
    Paths,          \* the names of files
    NoPath,         \* the empty file name
    NoFile,         \* the contents of a file that does not exist
    Consumers

ASSUME LoggerAssumption ==
    /\ Nobody \notin Threads
    /\ Names \subseteq Seq(Components) \ {<<>>}
    /\ NoName \notin Names
    /\ Debug \in Nat /\ Unregistered \notin Nat
    /\ NoPath \notin Paths
    /\ NoFile \notin Seq(Nat)

Levels == 0..Debug

VARIABLES
    systemLog,      \* is this the process-wide logger, which systemLog() makes,
                    \* or a Logger of one's own
    level,          \* _level
    toFile,         \* _flags & File
    categories,     \* _categories: the level of each registered name
    filename,       \* _filename
    file,           \* _file: is it open, and its name
    disk,           \* the messages in each file
    logOpen,        \* _logOpen
    lock,           \* the holder of _writeLock
    surplus,        \* _surplusConsumers
    life,           \* each consumer: "alive", "dying" or "dead"
    received,       \* the messages handed to each consumer
    written,        \* the number of messages written so far
    pc,             \* where each thread is
    arg             \* the arguments of its call

settings  == <<systemLog, level, toFile>>
files     == <<filename, file, disk, logOpen>>
consumers == <<surplus, life, received>>
output    == <<lock, written>>
vars == <<settings, categories, files, consumers, output, pc, arg>>

NoArg == [call |-> "none", cat |-> NoName, sev |-> 0, path |-> NoPath,
          msg |-> 0, sinks |-> <<>>]

\* Where a thread holds _writeLock.
Locked(t) ==
    \/ pc[t] \in {"deliver", "register", "registerToSet", "rotateRename", "rotateOpen"}
    \/ pc[t] \in {"openFile", "openNamed", "opened"} /\ arg[t].call = "rotateLog"

Locations ==
    {"idle", "lookup", "open", "write", "deliver", "register", "registerToSet",
     "setLevel", "compareName", "closeFile", "openFile", "openNamed", "opened",
     "rotateRename", "rotateOpen", "remove"}

TypeOK ==
    /\ systemLog \in BOOLEAN
    /\ level \in Levels /\ toFile \in BOOLEAN
    /\ categories \in [Names -> Levels \cup {Unregistered}]
    /\ filename \in Paths \cup {NoPath}
    /\ file \in [open : BOOLEAN, name : Paths \cup {NoPath}]
    /\ disk \in [Paths -> Seq(Nat) \cup {NoFile}]
    /\ logOpen \in BOOLEAN
    /\ lock \in Threads \cup {Nobody}
    /\ \A t \in Threads : lock = t <=> Locked(t)
    /\ surplus \in Seq(Consumers)
    /\ life \in [Consumers -> {"alive", "dying", "dead"}]
    /\ received \in [Consumers -> Seq(Nat)]
    /\ written \in Nat
    /\ pc \in [Threads -> Locations]
    /\ arg \in [Threads -> [call : {"none", "logText", "setFilename", "rotateLog"},
                            cat : Names \cup {NoName}, sev : Levels,
                            path : Paths \cup {NoPath}, msg : Nat,
                            sinks : Seq(Consumers)]]

\* Either the process-wide logger, which systemLog() opens when it creates it,
\* or a Logger of one's own, which the first message opens.
Init ==
    /\ systemLog \in BOOLEAN
    /\ level = Debug /\ toFile = FALSE
    /\ categories = [n \in Names |-> Unregistered]
    /\ filename = NoPath
    /\ file = [open |-> FALSE, name |-> NoPath]
    /\ disk = [p \in Paths |-> NoFile]
    /\ logOpen = systemLog
    /\ lock = Nobody
    /\ surplus = <<>>
    /\ life = [k \in Consumers |-> "alive"]
    /\ received = [k \in Consumers |-> <<>>]
    /\ written = 0
    /\ pc = [t \in Threads |-> "idle"]
    /\ arg = [t \in Threads |-> NoArg]

-----------------------------------------------------------------------------
Goto(t, loc) == pc' = [pc EXCEPT ![t] = loc]

Return(t) == Goto(t, "idle") /\ arg' = [arg EXCEPT ![t] = NoArg]

Take(t) == lock = Nobody /\ lock' = t

Free == lock = Nobody /\ UNCHANGED lock

\* LogCategory::parentName() and LogCategoryPrivate::isChildOf()
ParentName(n) == Front(n)

IsChildOf(n, other) == IsStrictPrefix(other, n)

Registered(n) == n \in Names /\ categories[n] # Unregistered

\* openFile(), which logText() and setFilename() call without the lock: a file
\* that is open under _filename is left alone, any other is closed and _filename
\* is read ...
OpenFile(t) ==
    /\ pc[t] = "openFile"
    /\ IF file.open /\ file.name = filename
       THEN Goto(t, "opened") /\ UNCHANGED <<file, arg>>
       ELSE /\ file' = [file EXCEPT !.open = FALSE]
            /\ arg' = [arg EXCEPT ![t].path = filename]
            /\ Goto(t, "openNamed")
    /\ UNCHANGED <<settings, categories, filename, disk, logOpen, consumers, output>>

\* ... and what was read is opened to append, if it can be.
OpenNamed(t) ==
    /\ pc[t] = "openNamed"
    /\ \E opened \in {arg[t].path # NoPath, FALSE} :
           file' = [open |-> opened, name |-> arg[t].path]
    /\ disk' = IF file'.open /\ disk[file'.name] = NoFile
               THEN [disk EXCEPT ![file'.name] = <<>>]
               ELSE disk
    /\ Goto(t, "opened")
    /\ UNCHANGED <<settings, categories, filename, logOpen, consumers, output, arg>>

\* openLog(): the file first, if messages go there.
OpenLog(t) == Goto(t, IF toFile THEN "openFile" ELSE "opened")

\* The rest of the call: of openLog() in logText() and in rotateLog(), which then
\* unlocks, and of setFilename().
Opened(t) ==
    /\ pc[t] = "opened"
    /\ logOpen' = (logOpen \/ arg[t].call # "setFilename")
    /\ lock' = IF arg[t].call = "rotateLog" THEN Nobody ELSE lock
    /\ IF arg[t].call = "logText"
       THEN /\ Goto(t, "write")
            /\ arg' = [arg EXCEPT ![t].path = NoPath]
       ELSE Return(t)
    /\ UNCHANGED <<settings, categories, filename, file, disk, consumers, written>>

-----------------------------------------------------------------------------
(* logText() and logHex()                                                  *)

\* logText(level, category): a message beyond the level is dropped.
LogText(t, n, sev) ==
    /\ pc[t] = "idle"
    /\ IF sev > level
       THEN UNCHANGED <<pc, arg>>
       ELSE /\ Goto(t, IF n = NoName THEN "open" ELSE "lookup")
            /\ arg' = [arg EXCEPT ![t] = [NoArg EXCEPT !.call = "logText",
                                                       !.cat = n, !.sev = sev]]
    /\ UNCHANGED <<settings, categories, files, consumers, output>>

\* logHex() looks neither at the level of the category nor at _logOpen.
LogHex(t, n, sev) ==
    /\ pc[t] = "idle"
    /\ IF sev > level
       THEN UNCHANGED <<pc, arg>>
       ELSE /\ Goto(t, "write")
            /\ arg' = [arg EXCEPT ![t] = [NoArg EXCEPT !.call = "logText",
                                                       !.cat = n, !.sev = sev]]
    /\ UNCHANGED <<settings, categories, files, consumers, output>>

\* What value() finds: without the lock, and so perhaps nothing while another
\* thread inserts a name.
Found(n) ==
    IF \E u \in Threads : /\ pc[u] \in {"register", "registerToSet"}
                          /\ ~Registered(arg[u].cat)
    THEN {categories[n], Unregistered}
    ELSE {categories[n]}

\* The level of the category, if it is registered.
Lookup(t) ==
    /\ pc[t] = "lookup"
    /\ \E found \in Found(arg[t].cat) :
           IF found # Unregistered /\ arg[t].sev > found
           THEN Return(t)
           ELSE Goto(t, "open") /\ UNCHANGED arg
    /\ UNCHANGED <<settings, categories, files, consumers, output>>

\* The first message of a logger that is not open opens it.
OpenFirst(t) ==
    /\ pc[t] = "open"
    /\ IF logOpen THEN Goto(t, "write") ELSE OpenLog(t)
    /\ UNCHANGED <<settings, categories, files, consumers, output, arg>>

\* What the output does with a message: the file has it if it is open.
PutOut(t) ==
    /\ pc[t] = "write"
    /\ written' = written + 1
    /\ disk' = IF toFile /\ file.open
               THEN [disk EXCEPT ![file.name] = Append(@, written')]
               ELSE disk
    /\ arg' = [arg EXCEPT ![t].msg = written', ![t].sinks = surplus]
    /\ Goto(t, "deliver")
    /\ UNCHANGED <<settings, categories, filename, file, logOpen, consumers>>

\* A version of Write that lets the lock go before the entries are handed out.
WriteAndRelease(t) == PutOut(t) /\ Free

\* With the lock: outputToDestinations() to the file, and then ...
Write(t) == PutOut(t) /\ Take(t)

\* ... to each consumer in turn, whose addLogEntry() emits logEntry().
Deliver(t) ==
    /\ pc[t] = "deliver" /\ arg[t].sinks # <<>>
    /\ LET k == Head(arg[t].sinks)
       IN  received' = [received EXCEPT ![k] = Append(@, arg[t].msg)]
    /\ arg' = [arg EXCEPT ![t].sinks = Tail(@)]
    /\ UNCHANGED <<settings, categories, files, surplus, life, output, pc>>

Unlock(t) ==
    /\ pc[t] = "deliver" /\ arg[t].sinks = <<>>
    /\ lock' = Nobody
    /\ Return(t)
    /\ UNCHANGED <<settings, categories, files, consumers, written>>

-----------------------------------------------------------------------------
(* Levels and categories.                                                  *)

\* setLevel(), and setFlags() with what enables and disables flags.
SetLevel(t, v) ==
    /\ pc[t] = "idle"
    /\ level' = v
    /\ UNCHANGED <<systemLog, toFile, categories, files, consumers, output, pc, arg>>

SetToFile(t, on) ==
    /\ pc[t] = "idle"
    /\ toFile' = on
    /\ UNCHANGED <<systemLog, level, categories, files, consumers, output, pc, arg>>

\* registerCategory(name) takes the lock; setCategoryLevel(name, v) begins with it.
RegisterCategory(t, n) ==
    /\ pc[t] = "idle"
    /\ Take(t)
    /\ Goto(t, "register")
    /\ arg' = [arg EXCEPT ![t] = [NoArg EXCEPT !.cat = n]]
    /\ UNCHANGED <<settings, categories, files, consumers, written>>

SetCategoryLevel(t, n, v) ==
    /\ pc[t] = "idle"
    /\ Take(t)
    /\ Goto(t, "registerToSet")
    /\ arg' = [arg EXCEPT ![t] = [NoArg EXCEPT !.cat = n, !.sev = v]]
    /\ UNCHANGED <<settings, categories, files, consumers, written>>

\* A name that is new takes the level of its parent, if that is registered; a
\* name that is not goes back to the default level.
LevelOfRegistered(n) ==
    IF ~Registered(n) /\ Registered(ParentName(n))
    THEN categories[ParentName(n)]
    ELSE Debug

Register(t) ==
    /\ pc[t] \in {"register", "registerToSet"}
    /\ categories' = [categories EXCEPT ![arg[t].cat] = LevelOfRegistered(arg[t].cat)]
    /\ lock' = Nobody
    /\ IF pc[t] = "register" THEN Return(t) ELSE Goto(t, "setLevel") /\ UNCHANGED arg
    /\ UNCHANGED <<settings, files, consumers, written>>

\* A version of SetLevels that leaves the children alone.
SetLevelsOfOne(t) ==
    /\ pc[t] = "setLevel"
    /\ Free
    /\ categories' = [categories EXCEPT ![arg[t].cat] = arg[t].sev]
    /\ Return(t)
    /\ UNCHANGED <<settings, files, consumers, written>>

\* The second half of setCategoryLevel(), under the lock again: the category and
\* all its registered children.
SetLevels(t) ==
    /\ pc[t] = "setLevel"
    /\ Free
    /\ categories' = [n \in Names |->
           IF n = arg[t].cat \/ (Registered(n) /\ IsChildOf(n, arg[t].cat))
           THEN arg[t].sev
           ELSE categories[n]]
    /\ Return(t)
    /\ UNCHANGED <<settings, files, consumers, written>>

-----------------------------------------------------------------------------
(* The file.                                                               *)

\* setFilename(), without the lock: the name is stored ...
SetFilename(t, p) ==
    /\ pc[t] = "idle"
    /\ filename' = p
    /\ Goto(t, "compareName")
    /\ arg' = [arg EXCEPT ![t] = [NoArg EXCEPT !.call = "setFilename", !.path = p]]
    /\ UNCHANGED <<settings, categories, file, disk, logOpen, consumers, output>>

\* A version of CompareName that only opens a file that is not open.
CompareNothing(t) ==
    /\ pc[t] = "compareName"
    /\ IF file.open THEN Return(t) ELSE Goto(t, "openFile") /\ UNCHANGED arg
    /\ UNCHANGED <<settings, categories, files, consumers, output>>

\* ... and a file open under another name is closed before one is opened, under
\* what _filename is by then.
CompareName(t) ==
    /\ pc[t] = "compareName"
    /\ CASE file.open /\ file.name = arg[t].path -> Return(t)
         [] file.open /\ file.name # arg[t].path -> Goto(t, "closeFile") /\ UNCHANGED arg
         [] OTHER -> Goto(t, "openFile") /\ UNCHANGED arg
    /\ UNCHANGED <<settings, categories, files, consumers, output>>

CloseFile(t) ==
    /\ pc[t] = "closeFile"
    /\ file' = [file EXCEPT !.open = FALSE]
    /\ Goto(t, "openFile")
    /\ UNCHANGED <<settings, categories, filename, disk, logOpen, consumers, output, arg>>

\* rotateLog(newFileName), under the lock: the file is closed ...
RotateLog(t, p) ==
    /\ pc[t] = "idle"
    /\ Take(t)
    /\ file' = [file EXCEPT !.open = FALSE]
    /\ Goto(t, "rotateRename")
    /\ arg' = [arg EXCEPT ![t] = [NoArg EXCEPT !.call = "rotateLog", !.path = p]]
    /\ UNCHANGED <<settings, categories, filename, disk, logOpen, consumers, written>>

\* ... renamed, which QFile::rename() refuses if there is no file or if the new
\* name is taken, and after which the QFile is closed and has the new name ...
RotateRename(t) ==
    /\ pc[t] = "rotateRename"
    /\ LET p == arg[t].path
       IN  IF file.name # NoPath /\ disk[file.name] # NoFile /\ disk[p] = NoFile
           THEN /\ disk' = [disk EXCEPT ![p] = disk[file.name], ![file.name] = NoFile]
                /\ file' = [open |-> FALSE, name |-> p]
           ELSE UNCHANGED <<disk, file>>
    /\ Goto(t, "rotateOpen")
    /\ UNCHANGED <<settings, categories, filename, logOpen, consumers, output, arg>>

\* ... and openLog() opens a new one under _filename.
RotateOpen(t) ==
    /\ pc[t] = "rotateOpen"
    /\ OpenLog(t)
    /\ UNCHANGED <<settings, categories, files, consumers, output, arg>>

-----------------------------------------------------------------------------
(* The consumers.                                                          *)

AddConsumer(t, k) ==
    /\ pc[t] = "idle" /\ life[k] = "alive"
    /\ Free
    /\ surplus' = Append(surplus, k)
    /\ UNCHANGED <<settings, categories, files, life, received, written, pc, arg>>

\* A version of Without that takes out one entry.
WithoutOne(s, k) == RemoveFirst(s, k)

\* removeAll()
Without(s, k) ==
    LET kept[i \in 0..Len(s)] ==
            IF i = 0 THEN <<>>
            ELSE IF s[i] = k THEN kept[i - 1] ELSE Append(kept[i - 1], s[i])
    IN  kept[Len(s)]

RemoveConsumer(t, k) ==
    /\ pc[t] = "idle"
    /\ life[k] = "alive"
    /\ Free
    /\ surplus' = Without(surplus, k)
    /\ UNCHANGED <<settings, categories, files, life, received, written, pc, arg>>

\* ~LogConsumer() begins ...
DestroyConsumer(t, k) ==
    /\ pc[t] = "idle" /\ life[k] = "alive"
    /\ life' = [life EXCEPT ![k] = "dying"]
    /\ Goto(t, "remove")
    /\ arg' = [arg EXCEPT ![t] = [NoArg EXCEPT !.sinks = <<k>>]]
    /\ UNCHANGED <<settings, categories, files, surplus, received, output>>

\* ... and waits for the lock of the process-wide logger, to take itself off the list
\* of that one: in a Logger of one's own its entries stay where they are.
ConsumerDies(t) ==
    /\ pc[t] = "remove"
    /\ LET k == Head(arg[t].sinks)
       IN  /\ \/ systemLog /\ Free /\ surplus' = Without(surplus, k)
              \/ ~systemLog /\ UNCHANGED <<lock, surplus>>
           /\ life' = [life EXCEPT ![k] = "dead"]
    /\ Return(t)
    /\ UNCHANGED <<settings, categories, files, received, written>>

-----------------------------------------------------------------------------
Call(t) ==
    \/ \E n \in Names \cup {NoName}, sev \in Levels : LogText(t, n, sev) \/ LogHex(t, n, sev)
    \/ \E v \in Levels : SetLevel(t, v)
    \/ \E on \in BOOLEAN : SetToFile(t, on)
    \/ \E n \in Names, v \in Levels : SetCategoryLevel(t, n, v)
    \/ \E p \in Paths : SetFilename(t, p) \/ RotateLog(t, p)
    \/ \E k \in Consumers : \/ AddConsumer(t, k) \/ RemoveConsumer(t, k)
                            \/ DestroyConsumer(t, k)

Proceed(t) ==
    \/ Lookup(t) \/ OpenFirst(t) \/ Write(t) \/ Deliver(t) \/ Unlock(t)
    \/ SetLevels(t)
    \/ OpenFile(t) \/ OpenNamed(t) \/ Opened(t)
    \/ CompareName(t) \/ CloseFile(t)
    \/ RotateRename(t) \/ RotateOpen(t)
    \/ ConsumerDies(t)

=============================================================================
