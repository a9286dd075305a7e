---------------------------- MODULE LoggerHistory ---------------------------
(***************************************************************************)
(* Logger with the history that its properties speak of, its specification *)
(* and the properties.                                                     *)
(***************************************************************************)
EXTENDS Logger

CONSTANT MaxCalls   \* bound on the calls of all threads together

ASSUME HistoryAssumption == MaxCalls \in Nat

VARIABLES
    calls,      \* the calls so far
    crossed,    \* did calls about the file overlap since the last setFilename()
                \* that began while there was no other
    heirs       \* the categories that still have what they inherited: registered
                \* after their parent, and since then neither registered again
                \* nor given a level of their own, nor was the parent registered
                \* again

historyVars == <<vars, calls, crossed, heirs>>

HistoryInit == Init /\ calls = 0 /\ crossed = FALSE /\ heirs = {}

CountCall == calls < MaxCalls /\ calls' = calls + 1

Children(n) == {m \in Names : ParentName(m) = n}

\* Who stays an heir when n is registered, by itself or by setCategoryLevel(),
\* which will see to the children.
HeirsAfter(n, toSet) ==
    IF ~Registered(n) /\ Registered(ParentName(n))
    THEN IF toSet THEN heirs ELSE heirs \cup {n}
    ELSE IF toSet THEN heirs \ {n} ELSE heirs \ ({n} \cup Children(n))

\* The calls that use _file, and who is in one of them.
FileCalls == {"compareName", "closeFile", "openFile", "openNamed", "opened",
              "rotateRename", "rotateOpen"}

AboutTheFile == {t \in Threads : pc[t] \in FileCalls}

RememberFileCalls ==
    crossed' = IF \E t, u \in AboutTheFile' : t # u THEN TRUE
               ELSE IF \E t \in AboutTheFile' : /\ arg[t].call = "none"
                                                /\ arg'[t].call = "setFilename"
               THEN FALSE
               ELSE crossed

Next ==
    \E t \in Threads :
        \/ /\ Call(t)
           /\ CountCall /\ RememberFileCalls /\ UNCHANGED heirs
        \/ \E n \in Names :
              /\ RegisterCategory(t, n)
              /\ CountCall /\ RememberFileCalls /\ UNCHANGED heirs
        \/ /\ Register(t)
           /\ heirs' = HeirsAfter(arg[t].cat, pc[t] = "registerToSet")
           /\ RememberFileCalls /\ UNCHANGED calls
        \/ /\ Proceed(t)
           /\ RememberFileCalls /\ UNCHANGED <<calls, heirs>>

Spec == HistoryInit /\ [][Next]_historyVars

-----------------------------------------------------------------------------
Increasing(s) == \A i \in 1..(Len(s) - 1) : s[i] <= s[i + 1]

\* All outputs tell the same story: the messages in a file, across rotations,
\* and the entries a consumer was handed are in the order in which they were
\* written, whichever threads logged them (log.cpp:88-114, 314-324).
OneOrder ==
    /\ \A p \in Paths : disk[p] # NoFile => Increasing(disk[p])
    /\ \A k \in Consumers : Increasing(received[k])

\* Only a consumer on the list is handed an entry, and by the process-wide logger none
\* that is gone, however often it was added and whatever was being logged when it was
\* removed or destroyed.  A Logger of one's own does hand entries to what is left of
\* a consumer that nobody took off its list: ~LogConsumer() unregisters from the
\* system logger only (log.cpp:108-112, 254-266, logconsumer.cpp:10-13).
NothingToTheDead ==
    [][\A k \in Consumers :
           received'[k] # received[k]
               => Contains(surplus, k) /\ (systemLog => life[k] # "dead")]_historyVars

\* With no call about the file in progress, a file that is open is the one that
\* _filename, what the last setFilename() stored and filename() returns, names:
\* through rotations that fail or succeed, files that cannot be opened and first
\* messages that open the log, unless such calls crossed; and then the next
\* setFilename() that has the file to itself puts it right (log.cpp:54-63, 84-86,
\* 176-188, 268-279).  By the comment of rotateLog(newFileName) the log goes on in a
\* new file of that name (log.h:61-65); in the code it is the old file that is
\* renamed so, and the log goes on under _filename, as is said here.
FileIsFilename ==
    file.open /\ AboutTheFile = {} /\ ~crossed => file.name = filename

\* A category that was registered without a level of its own goes with its parent
\* through every setCategoryLevel() of an ancestor, however it crosses the
\* registration, except in the middle of it (log.cpp:196-216, 239-252).
HeirsFollow ==
    \A n \in heirs :
        \/ categories[n] = categories[ParentName(n)]
        \/ \E t \in Threads : pc[t] = "setLevel" /\ arg[t].cat = ParentName(n)

=============================================================================
