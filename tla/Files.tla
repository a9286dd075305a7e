------------------------------- MODULE Files -------------------------------
(***************************************************************************)
(* FileUtil and PathUtil (fileutil.cpp, pathutil.cpp): files that are      *)
(* written as a whole, appended to, and moved, by several threads, on a    *)
(* disk that may be full and in a process that may end at any moment.      *)
(*                                                                         *)
(* writeAllBytes() leaves the replacement to QSaveFile: a temporary file   *)
(* that commit() renames, or the file itself where the directory allows    *)
(* no new file.  Paths and contents are sequences of characters; "~" is a  *)
(* letter outside Latin-1.                                                 *)
(***************************************************************************)
EXTENDS Naturals, Sequences, SequencesExt

CONSTANTS
    Users,          \* threads
    Paths,          \* of the files
    Directories,    \* as they are given to moveToDirectory()
    Protected,      \* the paths in directories that allow no new file
    Texts,          \* lists of lines to write
    MaxCalls        \* bound on the calls

FilesAssumption == MaxCalls \in Nat

VARIABLES
    files,          \* the contents of each path
    temporary,      \* the temporary file of each call
    call,           \* what each thread is doing
    result,         \* what its last call returned, "none" before
    given,          \* the contents that were given to writeAllBytes()
    appendedTo,     \* the paths whose file was appended to since it was replaced
    callsMade

ghosts    == <<given, appendedTo>>
filesVars == <<files, temporary, call, result, ghosts, callsMade>>

Absent == <<"absent">>

Idle == [of |-> "none", path |-> <<>>, data |-> <<>>, to |-> <<>>]

Slash == "/"
Eol == ";"

-----------------------------------------------------------------------------
(* PathUtil                                                                *)

LastIndexOf(path, c) ==
    CHOOSE i \in 0..Len(path) :
        /\ i = 0 \/ path[i] = c
        /\ \A j \in (i + 1)..Len(path) : path[j] # c

DirName(path) ==
    IF LastIndexOf(path, Slash) = 0 THEN path
    ELSE SubSeq(path, 1, LastIndexOf(path, Slash) - 1)

FileName(path) == SubSeq(path, LastIndexOf(path, Slash) + 1, Len(path))

Extension(path) ==
    IF LastIndexOf(path, ".") = 0 THEN path
    ELSE SubSeq(path, LastIndexOf(path, "."), Len(path))

TrimTrailingSlash(path) ==
    SubSeq(path, 1, CHOOSE i \in 0..Len(path) :
                        /\ i = 0 \/ path[i] \notin {Slash, " "}
                        /\ \A j \in (i + 1)..Len(path) : path[j] \in {Slash, " "})

\* QDir::cleanPath(), of paths without "." and "..".
CleanPath(path) ==
    LET extra(i) == path[i] = Slash /\ ((i > 1 /\ path[i - 1] = Slash) \/ (i = Len(path) /\ i > 1))
    IN  FoldLeft(LAMBDA out, i : IF extra(i) THEN out ELSE Append(out, path[i]),
                 <<>>, [i \in DOMAIN path |-> i])

Combine(directory, name) == CleanPath(directory \o <<Slash>> \o name)

\* combine() of a list does not clean the path.
CombineAll(parts) ==
    FoldLeft(LAMBDA out, i : out \o parts[i] \o (IF i < Len(parts) THEN <<Slash>> ELSE <<>>),
             <<>>, [i \in DOMAIN parts |-> i])

\* A path of the root directory loses nothing but all.
PopLevel(path) ==
    IF LastIndexOf(path, Slash) > 1 THEN SubSeq(path, 1, LastIndexOf(path, Slash) - 1)
    ELSE <<>>

-----------------------------------------------------------------------------
(* Lines                                                                   *)

ToLatin1(line) == [i \in DOMAIN line |-> IF line[i] = "~" THEN "?" ELSE line[i]]

ToData(lines) ==
    FoldLeft(LAMBDA data, line : Append(data \o ToLatin1(line), Eol), <<>>, lines)

\* readAllLines() reads until there is no line, not even an empty one.
ReadAllLines(data) ==
    LET ends == [i \in {j \in DOMAIN data : data[j] = Eol} |-> i]
        start(i) == CHOOSE s \in 1..i :
                        /\ s = 1 \/ data[s - 1] = Eol
                        /\ \A j \in s..(i - 1) : data[j] # Eol
        last == IF data = <<>> \/ data[Len(data)] = Eol THEN <<>>
                ELSE <<SubSeq(data, LastIndexOf(data, Eol) + 1, Len(data))>>
    IN  FoldLeft(LAMBDA lines, i : IF i \in DOMAIN ends
                                   THEN Append(lines, SubSeq(data, start(i), i - 1))
                                   ELSE lines,
                 <<>>, [i \in DOMAIN data |-> i])
            \o last

\* lineCount() reads until the end.
LineCount(data) ==
    Len(SelectSeq(data, LAMBDA c : c = Eol))
        + (IF data # <<>> /\ data[Len(data)] # Eol THEN 1 ELSE 0)

-----------------------------------------------------------------------------
Init ==
    /\ files = [p \in Paths |-> IF p \in Protected THEN <<>> ELSE Absent]
    /\ temporary = [u \in Users |-> Absent]
    /\ call = [u \in Users |-> Idle]
    /\ result = [u \in Users |-> "none"]
    /\ given = {<<>>}
    /\ appendedTo = {}
    /\ callsMade = 0

Begin(u, of, path, data, to) ==
    /\ call[u] = Idle /\ callsMade < MaxCalls
    /\ callsMade' = callsMade + 1
    /\ call' = [call EXCEPT ![u] = [of |-> of, path |-> path, data |-> data, to |-> to]]
    /\ UNCHANGED result

Return(u, value) ==
    /\ call' = [call EXCEPT ![u] = Idle]
    /\ result' = [result EXCEPT ![u] = value]
    /\ UNCHANGED callsMade

Continue(u, of) ==
    /\ call' = [call EXCEPT ![u].of = of]
    /\ UNCHANGED <<result, callsMade>>

-----------------------------------------------------------------------------
(* writeAllBytes() and writeAllLines()                                     *)

WriteAllLines(u, path, lines) ==
    /\ Begin(u, "open", path, ToData(lines), <<>>)
    /\ given' = given \cup {ToData(lines)}
    /\ UNCHANGED <<files, temporary, appendedTo>>

\* QSaveFile::open(): beside the file, or in place, where it must exist.
Open(u) ==
    LET path == call[u].path
    IN  /\ call[u].of = "open"
        /\ \/ /\ path \notin Protected
              /\ temporary' = [temporary EXCEPT ![u] = <<>>]
              /\ Continue(u, "write")
              /\ UNCHANGED files
           \/ /\ path \in Protected /\ files[path] # Absent
              /\ files' = [files EXCEPT ![path] = <<>>]
              /\ Continue(u, "writeInPlace")
              /\ UNCHANGED temporary
           \/ /\ path \in Protected => files[path] = Absent
              /\ Return(u, "FALSE")
              /\ UNCHANGED <<files, temporary>>
        /\ UNCHANGED ghosts

Discarded(u) == [temporary EXCEPT ![u] = Absent]

\* A version of Write that does not compare the lengths.
WriteSome(u) ==
    /\ call[u].of = "write"
    /\ \E part \in Prefixes(call[u].data) :
          /\ temporary' = [temporary EXCEPT ![u] = part]
          /\ Continue(u, "commit")
    /\ UNCHANGED <<files, ghosts>>

\* All of the data, or what there is room for.  With less than all of it, or, for a
\* text in an encoding, a stream that reports so, QSaveFile throws its file away.
Write(u) ==
    /\ call[u].of = "write"
    /\ \E part \in Prefixes(call[u].data) :
          IF part = call[u].data
          THEN /\ temporary' = [temporary EXCEPT ![u] = part]
               /\ Continue(u, "commit")
          ELSE temporary' = Discarded(u) /\ Return(u, "FALSE")
    /\ UNCHANGED <<files, ghosts>>

\* commit() renames the file, which takes the place of what is there.
Commit(u) ==
    /\ call[u].of = "commit"
    /\ temporary' = Discarded(u)
    /\ \/ /\ files' = [files EXCEPT ![call[u].path] = temporary[u]]
          /\ appendedTo' = appendedTo \ {call[u].path}
          /\ Return(u, "TRUE")
       \/ /\ Return(u, "FALSE")
          /\ UNCHANGED <<files, appendedTo>>
    /\ UNCHANGED given

WriteInPlace(u) ==
    /\ call[u].of = "writeInPlace"
    /\ \E part \in Prefixes(call[u].data) :
          /\ files' = [files EXCEPT ![call[u].path] = part]
          /\ Return(u, IF part = call[u].data THEN "TRUE" ELSE "FALSE")
    /\ UNCHANGED <<temporary, ghosts>>

-----------------------------------------------------------------------------
(* The other operations                                                    *)

Creatable(path) == files[path] # Absent \/ path \notin Protected

Contents(path) == IF files[path] = Absent THEN <<>> ELSE files[path]

\* Creates the file.  How much is written does not change the result.
AppendAllBytes(u, path, lines) ==
    /\ Begin(u, "append", path, ToData(lines), <<>>)
    /\ UNCHANGED <<files, temporary, ghosts>>

OpenAndAppend(u) ==
    LET path == call[u].path
    IN  /\ call[u].of = "append"
        /\ IF Creatable(path)
           THEN /\ \E part \in Prefixes(call[u].data) :
                      files' = [files EXCEPT ![path] = Contents(path) \o part]
                /\ appendedTo' = appendedTo \cup {path}
                /\ Return(u, "TRUE")
           ELSE Return(u, "FALSE") /\ UNCHANGED <<files, appendedTo>>
        /\ UNCHANGED <<temporary, given>>

Touch(u, path) ==
    /\ call[u] = Idle /\ callsMade < MaxCalls
    /\ callsMade' = callsMade + 1
    /\ IF Creatable(path)
       THEN /\ files' = [files EXCEPT ![path] = Contents(path)]
            /\ result' = [result EXCEPT ![u] = "TRUE"]
       ELSE /\ result' = [result EXCEPT ![u] = "FALSE"]
            /\ UNCHANGED files
    /\ UNCHANGED <<temporary, call, ghosts>>

RemoveFile(u, path) ==
    /\ call[u] = Idle /\ callsMade < MaxCalls
    /\ callsMade' = callsMade + 1
    /\ IF files[path] # Absent /\ path \notin Protected
       THEN /\ files' = [files EXCEPT ![path] = Absent]
            /\ appendedTo' = appendedTo \ {path}
            /\ result' = [result EXCEPT ![u] = "TRUE"]
       ELSE /\ result' = [result EXCEPT ![u] = "FALSE"]
            /\ UNCHANGED <<files, appendedTo>>
    /\ UNCHANGED <<temporary, call, given>>

\* move() and moveToDirectory() look for the source ...
Move(u, source, destination) ==
    /\ Begin(u, "move", source, <<>>, destination)
    /\ UNCHANGED <<files, temporary, ghosts>>

MoveToDirectory(u, source, directory) ==
    /\ Combine(directory, FileName(source)) \in Paths
    /\ Move(u, source, Combine(directory, FileName(source)))

FindSource(u) ==
    /\ call[u].of = "move"
    /\ IF files[call[u].path] # Absent THEN Continue(u, "rename") ELSE Return(u, "FALSE")
    /\ UNCHANGED <<files, temporary, ghosts>>

\* ... and rename() it, if it is still there and nothing is at the destination.
Rename(u) ==
    LET source == call[u].path
        to == call[u].to
    IN  /\ call[u].of = "rename"
        /\ IF files[source] # Absent /\ files[to] = Absent /\ {source, to} \cap Protected = {}
           THEN /\ files' = [files EXCEPT ![to] = files[source], ![source] = Absent]
                /\ appendedTo' = (appendedTo \ {source, to})
                                    \cup (IF source \in appendedTo THEN {to} ELSE {})
                /\ Return(u, "TRUE")
           ELSE Return(u, "FALSE") /\ UNCHANGED <<files, appendedTo>>
        /\ UNCHANGED <<temporary, given>>

\* The process ends, and starts again; temporary files stay behind.
Crash ==
    /\ \E u \in Users : call[u] # Idle
    /\ call' = [u \in Users |-> Idle]
    /\ temporary' = [u \in Users |-> Absent]
    /\ UNCHANGED <<files, result, ghosts, callsMade>>

Step(u) ==
    \/ Open(u) \/ Write(u) \/ Commit(u) \/ WriteInPlace(u)
    \/ OpenAndAppend(u) \/ FindSource(u) \/ Rename(u)

Next ==
    \/ \E u \in Users, p \in Paths :
          \/ \E lines \in Texts : WriteAllLines(u, p, lines) \/ AppendAllBytes(u, p, lines)
          \/ Touch(u, p) \/ RemoveFile(u, p)
          \/ \E to \in Paths : Move(u, p, to)
          \/ \E d \in Directories : MoveToDirectory(u, p, d)
    \/ \E u \in Users : Step(u)
    \/ Crash

Spec == Init /\ [][Next]_filesVars

-----------------------------------------------------------------------------
(* Correctness                                                             *)

TypeOK ==
    /\ DOMAIN files = Paths
    /\ \A u \in Users :
          /\ call[u].of \in {"none", "open", "write", "commit", "writeInPlace", "append",
                             "move", "rename"}
          /\ temporary[u] # Absent => call[u].of \in {"write", "commit"}
          /\ result[u] \in {"none", "TRUE", "FALSE"}
    /\ appendedTo \subseteq Paths
    /\ callsMade \in 0..MaxCalls

\* fileutil.h: a file is replaced atomically.  However the calls of threads meet, and
\* wherever a call fails or the process ends, a file that was never appended to has
\* all of what some call was given to write, but where there can be no other file.
ReplacedAtomically ==
    \A p \in Paths \ (Protected \cup appendedTo) : files[p] \in given \cup {Absent}

\* What writeAllLines() writes readAllLines() reads and lineCount() counts, the empty
\* lines at the end too, if the lines are ASCII text.
LinesReadBack ==
    \A lines \in Texts :
        (\A i \in DOMAIN lines : \A j \in DOMAIN lines[i] : lines[i][j] \notin {"~", Eol}) =>
            /\ ReadAllLines(ToData(lines)) = lines
            /\ LineCount(ToData(lines)) = Len(lines)

\* The parts of a path are those it was combined from.
PathsCompose ==
    \A p \in Paths, d \in Directories :
        LET path == Combine(d, FileName(p))
        IN  /\ DirName(path) = TrimTrailingSlash(d)
            /\ FileName(path) = FileName(p)
            /\ PopLevel(path) = DirName(path)
            /\ CleanPath(CombineAll(<<d, FileName(p)>>)) = path
            /\ LET n == Len(Extension(FileName(p)))
               IN  LastIndexOf(FileName(p), ".") # 0 =>
                       Extension(path) = SubSeq(path, Len(path) - n + 1, Len(path))

TextsAgree == LinesReadBack /\ PathsCompose

=============================================================================
