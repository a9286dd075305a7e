---------------------------- MODULE LoggerProofs ----------------------------
(***************************************************************************)
(* Proofs about Logger and its history, for any threads, categories, files *)
(* and consumers and any number of calls.                                  *)
(***************************************************************************)
EXTENDS LoggerHistory, SequenceTheorems, WellFoundedInduction, TLAPS

-----------------------------------------------------------------------------
(* The inductive invariants                                                *)

\* The call a thread is in goes with its place.
CallFits(loc, a) ==
    /\ loc \in {"lookup", "open", "write", "deliver"} => a.call = "logText"
    /\ loc \in {"compareName", "closeFile"} => a.call = "setFilename"
    /\ loc \in {"rotateRename", "rotateOpen"} => a.call = "rotateLog"
    /\ loc \in {"register", "registerToSet", "setLevel"} => a.cat \in Names
    /\ loc = "remove" => a.sinks # <<>>

CallMatches == \A t \in Threads : CallFits(pc[t], arg[t])

\* An open file is one that exists.
OpenFileExists == file.open => file.name \in Paths /\ disk[file.name] # NoFile

HistoryTypeOK == calls \in Nat /\ crossed \in BOOLEAN /\ heirs \subseteq Names

LoggerInv == TypeOK /\ CallMatches /\ OpenFileExists /\ HistoryTypeOK

\* Nothing that was put out is later than the last message, which is the one that
\* the holder of the lock hands out.
UpTo(s, last) == \A i \in 1..Len(s) : s[i] <= last

NothingLater ==
    /\ \A p \in Paths : disk[p] # NoFile => UpTo(disk[p], written)
    /\ \A k \in Consumers : UpTo(received[k], written)
    /\ \A t \in Threads : pc[t] = "deliver" => arg[t].msg = written

\* No dead consumer is on the list of the process-wide logger, and what is being
\* worked off is on the list.
NoneDead(s, lives) == \A i \in 1..Len(s) : lives[s[i]] # "dead"

AllListed(s, list) == \A i \in 1..Len(s) : Contains(list, s[i])

SinksAlive ==
    /\ systemLog => NoneDead(surplus, life)
    /\ \A t \in Threads : pc[t] = "deliver" => AllListed(arg[t].sinks, surplus)

\* Unless calls crossed, one thread at most is in a call about the file, and the
\* file is on its way to _filename.
OneAboutFile == ~crossed => \A t, u \in AboutTheFile : t = u

Settled(loc, a, name, f) ==
    /\ loc \in {"compareName", "closeFile"} => name = a.path
    /\ loc = "openNamed" => a.path = name /\ ~f.open
    /\ loc = "opened" /\ f.open => f.name = name
    /\ loc \in {"rotateRename", "rotateOpen"} => ~f.open

FileSettles ==
    \A t \in AboutTheFile : ~crossed => Settled(pc[t], arg[t], filename, file)

\* An heir and its parent are registered, and nobody is about to set the level of an
\* heir itself.
Listed(n, levels) == n \in Names /\ levels[n] # Unregistered

HeirsRegistered ==
    /\ \A n \in heirs : Listed(n, categories) /\ Listed(ParentName(n), categories)
    /\ \A t \in Threads :
          pc[t] = "setLevel" => Listed(arg[t].cat, categories) /\ arg[t].cat \notin heirs

-----------------------------------------------------------------------------
(* Sequences                                                               *)

\* What fails for some number fails for a least one.
LEMMA LeastExists ==
    ASSUME NEW T, T \subseteq Nat, T # {}
    PROVE  \E m \in T : \A k \in T : m <= k
<1> DEFINE R == OpToRel(<, Nat)
<1>1. IsWellFoundedOn(R, Nat)
  BY NatLessThanWellFounded
<1>2. PICK m \in T : \A k \in T : ~ (<<k, m>> \in R)
  <2> HIDE DEF R
  <2> QED
    BY <1>1, WFMin
<1>3. \A k \in T : ~ (k < m)
  BY <1>2 DEF OpToRel
<1> QED
  BY <1>3

\* What a rule computes step by step from a base exists, for any number of steps.
Computes(f, S, n, base, rule) ==
    /\ f \in [0..n -> S]
    /\ f[0] = base
    /\ \A i \in 1..n : f[i] = rule[i][f[i - 1]]

LEMMA StepsExist ==
    ASSUME NEW S, NEW n \in Nat, NEW base \in S, NEW rule \in [1..n -> [S -> S]]
    PROVE  \E f : Computes(f, S, n, base, rule)
<1> DEFINE Begins(f, m) ==
               f[0] = base /\ \A i \in 1..m : f[i] = rule[i][f[i - 1]]
           Missing == {m \in 0..n : ~\E f \in [0..m -> S] : Begins(f, m)}
<1>1. SUFFICES ASSUME Missing # {} PROVE FALSE
  <2>1. n \in 0..n
    OBVIOUS
  <2> QED
    BY <1>1, <2>1 DEF Computes
<1>2. PICK m \in Missing : \A k \in Missing : m <= k
  <2>1. Missing \subseteq Nat
    OBVIOUS
  <2> HIDE DEF Missing
  <2> QED
    BY <1>1, <2>1, LeastExists
<1>3. m # 0
  <2>1. [i \in 0..0 |-> base] \in [0..0 -> S] /\ Begins([i \in 0..0 |-> base], 0)
    OBVIOUS
  <2> QED
    BY <2>1
<1>4. m - 1 \in 0..n /\ m - 1 \notin Missing /\ m \in 1..n
  BY <1>2, <1>3
<1>5. PICK g \in [0..(m - 1) -> S] : Begins(g, m - 1)
  BY <1>4
<1> DEFINE f == [i \in 0..m |-> IF i = m THEN rule[m][g[m - 1]] ELSE g[i]]
<1>6. f \in [0..m -> S]
  BY <1>4, <1>5
<1>7. Begins(f, m)
  <2>1. f[0] = base
    BY <1>4, <1>5
  <2>2. ASSUME NEW i \in 1..m PROVE f[i] = rule[i][f[i - 1]]
    <3>1. CASE i = m
      BY <1>4, <3>1
    <3>2. CASE i # m
      BY <1>4, <1>5, <3>2
    <3> QED
      BY <3>1, <3>2
  <2> QED
    BY <2>1, <2>2
<1> QED
  BY <1>2, <1>6, <1>7

\* removeAll() leaves a list of the others.
LEMMA WithoutLeavesOthers ==
    ASSUME NEW S, NEW s \in Seq(S), NEW k
    PROVE  Without(s, k) \in Seq(S \ {k})
<1> DEFINE R == Seq(S \ {k})
           n == Len(s)
           rule == [i \in 1..n |-> [q \in R |-> IF s[i] = k THEN q ELSE Append(q, s[i])]]
           Kept(f) == f = [i \in 0..n |->
                              IF i = 0 THEN <<>>
                              ELSE IF s[i] = k THEN f[i - 1] ELSE Append(f[i - 1], s[i])]
<1>n. n \in Nat /\ n = Len(s)
  OBVIOUS
<1>e. <<>> \in R
  OBVIOUS
<1>a. ASSUME NEW i \in 1..n, NEW q \in R
      PROVE  (IF s[i] = k THEN q ELSE Append(q, s[i])) \in R
  <2>1. s[i] # k => s[i] \in S \ {k}
    OBVIOUS
  <2> QED
    BY <2>1
<1> HIDE DEF R, n
<1>1. rule \in [1..n -> [R -> R]]
  BY <1>a
<1>2. PICK f : Computes(f, R, n, <<>>, rule)
  <2> HIDE DEF rule
  <2> QED
    BY <1>1, <1>n, <1>e, StepsExist
<1>3. Kept(f)
  <2>1. ASSUME NEW i \in 1..n
        PROVE  f[i] = IF s[i] = k THEN f[i - 1] ELSE Append(f[i - 1], s[i])
    <3>1. i - 1 \in 0..n /\ f[i - 1] \in R
      BY <1>2, <1>n DEF Computes
    <3> QED
      BY <1>2, <3>1 DEF Computes
  <2>2. f = [i \in 0..n |-> f[i]] /\ f[0] = <<>>
    BY <1>2 DEF Computes
  <2>3. \A i \in 0..n : i # 0 => i \in 1..n
    BY <1>n
  <2>4. \A i \in 0..n : f[i] = IF i = 0 THEN <<>>
                               ELSE IF s[i] = k THEN f[i - 1] ELSE Append(f[i - 1], s[i])
    BY <2>1, <2>2, <2>3
  <2> QED
    BY <2>2, <2>4
<1>4. ASSUME NEW g, Kept(g)
      PROVE  g[n] \in R
  <2> DEFINE Bad == {i \in 0..n : g[i] \notin R}
  <2>1. SUFFICES ASSUME Bad # {} PROVE FALSE
    BY <1>n
  <2>2. PICK i \in Bad : \A j \in Bad : i <= j
    <3>1. Bad \subseteq Nat
      OBVIOUS
    <3> HIDE DEF Bad
    <3> QED
      BY <2>1, <3>1, LeastExists
  <2>3. \A j \in 0..n : g[j] = IF j = 0 THEN <<>>
                               ELSE IF s[j] = k THEN g[j - 1] ELSE Append(g[j - 1], s[j])
    BY <1>4
  <2>4. i \in 0..n /\ g[i] \notin R
    OBVIOUS
  <2>5. i # 0
    BY <2>3, <2>4, <1>e
  <2>6. i \in 1..n /\ i - 1 \in 0..n /\ i - 1 \notin Bad
    BY <2>2, <2>4, <2>5, <1>n
  <2>7. g[i - 1] \in R
    BY <2>6
  <2>8. g[i] = IF s[i] = k THEN g[i - 1] ELSE Append(g[i - 1], s[i])
    BY <2>3, <2>4, <2>5
  <2> QED
    BY <1>a, <2>4, <2>6, <2>7, <2>8
<1> QED
  <2>1. Kept(CHOOSE g : Kept(g))
    <3> HIDE DEF Kept
    <3> QED
      BY <1>3
  <2> QED
    BY <1>4, <2>1 DEF Without, n, R


-----------------------------------------------------------------------------
(* Types, and who has the lock                                             *)

Arguments == [call : {"none", "logText", "setFilename", "rotateLog"},
              cat : Names \cup {NoName}, sev : Levels,
              path : Paths \cup {NoPath}, msg : Nat, sinks : Seq(Consumers)]

HoldsLock(loc, a) ==
    \/ loc \in {"deliver", "register", "registerToSet", "rotateRename", "rotateOpen"}
    \/ loc \in {"openFile", "openNamed", "opened"} /\ a.call = "rotateLog"

\* What thread t's step does to pc and arg.
Moves(t, loc, a) == pc' = [pc EXCEPT ![t] = loc] /\ arg' = [arg EXCEPT ![t] = a]

\* The arguments that the calls begin with.
LEMMA Beginnings ==
    /\ NoArg \in Arguments
    /\ \A n \in Names \cup {NoName}, v \in Levels :
          /\ [NoArg EXCEPT !.call = "logText", !.cat = n, !.sev = v] \in Arguments
          /\ [NoArg EXCEPT !.cat = n, !.sev = v] \in Arguments
    /\ \A n \in Names : [NoArg EXCEPT !.cat = n] \in Arguments
    /\ \A p \in Paths :
          /\ [NoArg EXCEPT !.call = "setFilename", !.path = p] \in Arguments
          /\ [NoArg EXCEPT !.call = "rotateLog", !.path = p] \in Arguments
    /\ \A k \in Consumers : [NoArg EXCEPT !.sinks = <<k>>] \in Arguments
<1>1. 0 \in Levels /\ <<>> \in Seq(Consumers) /\ \A k \in Consumers : <<k>> \in Seq(Consumers)
  BY LoggerAssumption DEF Levels
<1>2. NoArg \in Arguments
  BY <1>1 DEF NoArg, Arguments
<1> QED
  BY <1>1, <1>2 DEF Arguments

\* A step that leaves the thread's call matched and its lock where it belongs, and
\* takes the lock from nobody else, keeps what the invariant says of all threads.
LEMMA MoveKeeps ==
    ASSUME LoggerInv, NEW t \in Threads, NEW loc \in Locations, NEW a \in Arguments,
           Moves(t, loc, a), CallFits(loc, a),
           lock' = t <=> HoldsLock(loc, a),
           lock' = lock \/ (lock = Nobody /\ lock' = t) \/ (lock = t /\ lock' = Nobody)
    PROVE  /\ lock' \in Threads \cup {Nobody}
           /\ \A u \in Threads : lock' = u <=> Locked(u)'
           /\ pc' \in [Threads -> Locations]
           /\ arg' \in [Threads -> Arguments]
           /\ CallMatches'
<1>1. /\ pc \in [Threads -> Locations] /\ arg \in [Threads -> Arguments]
      /\ lock \in Threads \cup {Nobody} /\ Nobody \notin Threads
  BY LoggerAssumption DEF LoggerInv, TypeOK, Arguments
<1>2. /\ pc' \in [Threads -> Locations] /\ arg' \in [Threads -> Arguments]
      /\ lock' \in Threads \cup {Nobody}
      /\ pc'[t] = loc /\ arg'[t] = a
      /\ \A u \in Threads : u # t => pc'[u] = pc[u] /\ arg'[u] = arg[u]
  BY <1>1 DEF Moves
<1>3. \A u \in Threads : lock' = u <=> Locked(u)'
  <2> TAKE u \in Threads
  <2>1. CASE u = t
    BY <1>2, <2>1 DEF Locked, HoldsLock
  <2>2. CASE u # t
    <3>1. lock = u <=> Locked(u)
      BY DEF LoggerInv, TypeOK
    <3>2. Locked(u)' <=> Locked(u)
      BY <1>2, <2>2 DEF Locked
    <3>3. lock' = u <=> lock = u
      BY <1>1, <2>2
    <3> QED
      BY <3>1, <3>2, <3>3
  <2> QED
    BY <2>1, <2>2
<1>4. CallMatches'
  <2>1. \A u \in Threads : CallFits(pc'[u], arg'[u])
    BY <1>2 DEF LoggerInv, CallMatches
  <2> QED
    BY <2>1 DEF CallMatches
<1> QED
  BY <1>2, <1>3, <1>4

\* The types of the data, and the step of a thread that fits.
DataOK ==
    /\ systemLog \in BOOLEAN
    /\ level \in Levels /\ toFile \in BOOLEAN
    /\ categories \in [Names -> Levels \cup {Unregistered}]
    /\ filename \in Paths \cup {NoPath}
    /\ file \in [open : BOOLEAN, name : Paths \cup {NoPath}]
    /\ disk \in [Paths -> Seq(Nat) \cup {NoFile}]
    /\ logOpen \in BOOLEAN
    /\ surplus \in Seq(Consumers)
    /\ life \in [Consumers -> {"alive", "dying", "dead"}]
    /\ received \in [Consumers -> Seq(Nat)]
    /\ written \in Nat

Fits(t) ==
    \E loc \in Locations, a \in Arguments :
        /\ Moves(t, loc, a) /\ CallFits(loc, a)
        /\ lock' = t <=> HoldsLock(loc, a)
        /\ \/ lock' = lock
           \/ lock = Nobody /\ lock' = t
           \/ lock = t /\ lock' = Nobody

\* What LoggerInv says of a thread, of its place and of the data.
LEMMA InvFacts ==
    ASSUME LoggerInv, NEW t \in Threads
    PROVE  /\ pc \in [Threads -> Locations] /\ arg \in [Threads -> Arguments]
           /\ pc[t] \in Locations /\ arg[t] \in Arguments
           /\ lock \in Threads \cup {Nobody} /\ Nobody \notin Threads
           /\ lock = t <=> HoldsLock(pc[t], arg[t])
           /\ CallFits(pc[t], arg[t])
           /\ DataOK
BY LoggerAssumption
   DEF LoggerInv, TypeOK, Arguments, CallMatches, Locked, HoldsLock, DataOK

\* The calls that begin, and return at once or take the lock.
LEMMA CallFitsIn ==
    ASSUME LoggerInv, NEW t \in Threads, Call(t)
    PROVE  Fits(t) /\ DataOK' /\ OpenFileExists'
<1> USE DEF Fits, Goto, Return, Take, Free
<1>0. /\ pc \in [Threads -> Locations] /\ arg \in [Threads -> Arguments]
      /\ pc[t] \in Locations /\ arg[t] \in Arguments
      /\ lock \in Threads \cup {Nobody} /\ Nobody \notin Threads
      /\ lock = t <=> HoldsLock(pc[t], arg[t])
      /\ DataOK /\ OpenFileExists
  BY InvFacts DEF LoggerInv
<1>a. Moves(t, pc[t], arg[t]) <=> UNCHANGED <<pc, arg>>
  BY <1>0 DEF Moves
<1>b. CallFits("idle", arg[t]) /\ ~ HoldsLock("idle", arg[t]) /\ "idle" \in Locations
  BY DEF CallFits, HoldsLock, Locations
<1>1. ASSUME NEW n \in Names \cup {NoName}, NEW v \in Levels, LogText(t, n, v)
      PROVE  Fits(t) /\ DataOK' /\ OpenFileExists'
  <2>1. DataOK' /\ OpenFileExists' /\ lock' = lock
    BY <1>0, <1>1 DEF LogText, DataOK, OpenFileExists, settings, files, consumers, output
  <2>2. CASE v > level
    BY <1>0, <1>a, <1>b, <1>1, <2>1, <2>2 DEF LogText
  <2>3. CASE ~(v > level)
    <3> DEFINE a == [NoArg EXCEPT !.call = "logText", !.cat = n, !.sev = v]
               loc == IF n = NoName THEN "open" ELSE "lookup"
    <3>1. Moves(t, loc, a) /\ a \in Arguments /\ a.call = "logText" /\ loc \in Locations
      BY <1>1, <2>3, Beginnings DEF LogText, Moves, NoArg, Locations
    <3>2. CallFits(loc, a) /\ ~HoldsLock(loc, a)
      BY <3>1 DEF CallFits, HoldsLock
    <3> QED
      BY <1>0, <1>1, <1>b, <2>1, <3>1, <3>2 DEF LogText
  <2> QED
    BY <2>2, <2>3
<1>2. ASSUME NEW n \in Names \cup {NoName}, NEW v \in Levels, LogHex(t, n, v)
      PROVE  Fits(t) /\ DataOK' /\ OpenFileExists'
  <2>1. DataOK' /\ OpenFileExists' /\ lock' = lock
    BY <1>0, <1>2 DEF LogHex, DataOK, OpenFileExists, settings, files, consumers, output
  <2>2. CASE v > level
    BY <1>0, <1>a, <1>b, <1>2, <2>1, <2>2 DEF LogHex
  <2>3. CASE ~(v > level)
    <3> DEFINE a == [NoArg EXCEPT !.call = "logText", !.cat = n, !.sev = v]
    <3>1. Moves(t, "write", a) /\ a \in Arguments /\ a.call = "logText" /\ "write" \in Locations
      BY <1>2, <2>3, Beginnings DEF LogHex, Moves, NoArg, Locations
    <3>2. CallFits("write", a) /\ ~HoldsLock("write", a)
      BY <3>1 DEF CallFits, HoldsLock
    <3> QED
      BY <1>0, <1>2, <1>b, <2>1, <3>1, <3>2 DEF LogHex
  <2> QED
    BY <2>2, <2>3
<1>3. ASSUME NEW v \in Levels, SetLevel(t, v)
      PROVE  Fits(t) /\ DataOK' /\ OpenFileExists'
  <2>1. DataOK' /\ OpenFileExists' /\ lock' = lock /\ UNCHANGED <<pc, arg>> /\ pc[t] = "idle"
    BY <1>0, <1>3 DEF SetLevel, DataOK, OpenFileExists, settings, files, consumers, output
  <2> QED
    BY <1>0, <1>a, <1>b, <2>1
<1>4. ASSUME NEW on \in BOOLEAN, SetToFile(t, on)
      PROVE  Fits(t) /\ DataOK' /\ OpenFileExists'
  <2>1. DataOK' /\ OpenFileExists' /\ lock' = lock /\ UNCHANGED <<pc, arg>> /\ pc[t] = "idle"
    BY <1>0, <1>4 DEF SetToFile, DataOK, OpenFileExists, settings, files, consumers, output
  <2> QED
    BY <1>0, <1>a, <1>b, <2>1
<1>5. ASSUME NEW n \in Names, NEW v \in Levels, SetCategoryLevel(t, n, v)
      PROVE  Fits(t) /\ DataOK' /\ OpenFileExists'
  <2> DEFINE a == [NoArg EXCEPT !.cat = n, !.sev = v]
             loc == "registerToSet"
  <2>1. DataOK' /\ OpenFileExists' /\ pc[t] = "idle" /\ lock = Nobody /\ lock' = t
    BY <1>0, <1>5 DEF SetCategoryLevel, DataOK, OpenFileExists, settings, files, consumers, output
  <2>2. Moves(t, loc, a) /\ a \in Arguments /\ a.cat \in Names /\ loc \in Locations
    BY <1>5, Beginnings DEF SetCategoryLevel, Moves, NoArg, Locations
  <2>3. CallFits(loc, a) /\ HoldsLock(loc, a)
    BY <2>2 DEF CallFits, HoldsLock
  <2> QED
    BY <1>0, <1>b, <2>1, <2>2, <2>3
<1>6. ASSUME NEW p \in Paths, SetFilename(t, p)
      PROVE  Fits(t) /\ DataOK' /\ OpenFileExists'
  <2> DEFINE a == [NoArg EXCEPT !.call = "setFilename", !.path = p]
             loc == "compareName"
  <2>1. DataOK' /\ OpenFileExists' /\ pc[t] = "idle" /\ lock' = lock
    BY <1>0, <1>6 DEF SetFilename, DataOK, OpenFileExists, settings, files, consumers, output
  <2>2. Moves(t, loc, a) /\ a \in Arguments /\ a.call = "setFilename" /\ loc \in Locations
    BY <1>6, Beginnings DEF SetFilename, Moves, NoArg, Locations
  <2>3. CallFits(loc, a) /\ ~HoldsLock(loc, a)
    BY <2>2 DEF CallFits, HoldsLock
  <2> QED
    BY <1>0, <1>b, <2>1, <2>2, <2>3
<1>7. ASSUME NEW p \in Paths, RotateLog(t, p)
      PROVE  Fits(t) /\ DataOK' /\ OpenFileExists'
  <2> DEFINE a == [NoArg EXCEPT !.call = "rotateLog", !.path = p]
             loc == "rotateRename"
  <2>1. DataOK' /\ OpenFileExists' /\ pc[t] = "idle" /\ lock = Nobody /\ lock' = t
    BY <1>0, <1>7 DEF RotateLog, DataOK, OpenFileExists, settings, files, consumers, output
  <2>2. Moves(t, loc, a) /\ a \in Arguments /\ a.call = "rotateLog" /\ loc \in Locations
    BY <1>7, Beginnings DEF RotateLog, Moves, NoArg, Locations
  <2>3. CallFits(loc, a) /\ HoldsLock(loc, a)
    BY <2>2 DEF CallFits, HoldsLock
  <2> QED
    BY <1>0, <1>b, <2>1, <2>2, <2>3
<1>8. ASSUME NEW k \in Consumers, AddConsumer(t, k)
      PROVE  Fits(t) /\ DataOK' /\ OpenFileExists'
  <2>1. DataOK' /\ OpenFileExists' /\ lock' = lock /\ UNCHANGED <<pc, arg>> /\ pc[t] = "idle"
    BY <1>0, <1>8 DEF AddConsumer, DataOK, OpenFileExists, settings, files, consumers, output
  <2> QED
    BY <1>0, <1>a, <1>b, <2>1
<1>9. ASSUME NEW k \in Consumers, RemoveConsumer(t, k)
      PROVE  Fits(t) /\ DataOK' /\ OpenFileExists'
  <2>1. Without(surplus, k) \in Seq(Consumers)
    <3>1. Without(surplus, k) \in Seq(Consumers \ {k})
      BY <1>0, WithoutLeavesOthers DEF DataOK
    <3> HIDE DEF Without
    <3> QED
      BY <3>1
  <2>2. DataOK' /\ OpenFileExists' /\ lock' = lock /\ UNCHANGED <<pc, arg>> /\ pc[t] = "idle"
    BY <1>0, <1>9, <2>1 DEF RemoveConsumer, DataOK, OpenFileExists, settings, files, consumers, output
  <2> QED
    BY <1>0, <1>a, <1>b, <2>2
<1>10. ASSUME NEW k \in Consumers, DestroyConsumer(t, k)
      PROVE  Fits(t) /\ DataOK' /\ OpenFileExists'
  <2> DEFINE a == [NoArg EXCEPT !.sinks = <<k>>]
             loc == "remove"
  <2>1. DataOK' /\ OpenFileExists' /\ pc[t] = "idle" /\ lock' = lock
    BY <1>0, <1>10 DEF DestroyConsumer, DataOK, OpenFileExists, settings, files, consumers, output
  <2>2. Moves(t, loc, a) /\ a \in Arguments /\ a.sinks # <<>> /\ loc \in Locations
    BY <1>10, Beginnings DEF DestroyConsumer, Moves, NoArg, Locations
  <2>3. CallFits(loc, a) /\ ~HoldsLock(loc, a)
    BY <2>2 DEF CallFits, HoldsLock
  <2> QED
    BY <1>0, <1>b, <2>1, <2>2, <2>3
<1> QED
  BY <1>1, <1>2, <1>3, <1>4, <1>5, <1>6, <1>7, <1>8, <1>9, <1>10 DEF Call

LEMMA RegistrationFits ==
    ASSUME LoggerInv, NEW t \in Threads, NEW n \in Names, RegisterCategory(t, n)
    PROVE  Fits(t) /\ DataOK' /\ OpenFileExists'
<1> USE DEF Fits, Goto, Return, Take, Free
<1>0. /\ pc \in [Threads -> Locations] /\ arg \in [Threads -> Arguments]
      /\ pc[t] \in Locations /\ arg[t] \in Arguments
      /\ lock \in Threads \cup {Nobody} /\ Nobody \notin Threads
      /\ lock = t <=> HoldsLock(pc[t], arg[t])
      /\ CallFits(pc[t], arg[t])
      /\ DataOK /\ OpenFileExists
  BY InvFacts DEF LoggerInv
<1> DEFINE a == [NoArg EXCEPT !.cat = n]
           loc == "register"
<1>1. DataOK' /\ OpenFileExists' /\ pc[t] = "idle" /\ lock = Nobody /\ lock' = t
  <2>1. lock = Nobody /\ lock' = t /\ pc[t] = "idle"
    BY DEF RegisterCategory
  <2>2. UNCHANGED <<settings, categories, files, consumers, written>>
    BY DEF RegisterCategory
  <2> HIDE DEF a, loc
  <2> QED
    BY <1>0, <2>1, <2>2 DEF DataOK, OpenFileExists, settings, files, consumers, output
<1>2. Moves(t, loc, a) /\ a \in Arguments /\ a.cat \in Names /\ loc \in Locations
  BY Beginnings DEF RegisterCategory, Moves, NoArg, Locations
<1>3. CallFits(loc, a) /\ HoldsLock(loc, a)
  BY <1>2 DEF CallFits, HoldsLock
<1> QED
  BY <1>0, <1>1, <1>2, <1>3

LEMMA RegisterFits ==
    ASSUME LoggerInv, NEW t \in Threads, Register(t)
    PROVE  Fits(t) /\ DataOK' /\ OpenFileExists'
<1> USE DEF Fits, Goto, Return, Take, Free
<1>0. /\ pc \in [Threads -> Locations] /\ arg \in [Threads -> Arguments]
      /\ pc[t] \in Locations /\ arg[t] \in Arguments
      /\ lock \in Threads \cup {Nobody} /\ Nobody \notin Threads
      /\ lock = t <=> HoldsLock(pc[t], arg[t])
      /\ CallFits(pc[t], arg[t])
      /\ DataOK /\ OpenFileExists
  BY InvFacts DEF LoggerInv
<1>1. arg[t].cat \in Names /\ HoldsLock(pc[t], arg[t])
  BY <1>0 DEF Register, CallFits, HoldsLock
<1>2. LevelOfRegistered(arg[t].cat) \in Levels
  BY <1>0, LoggerAssumption DEF LevelOfRegistered, Registered, DataOK, Levels
<1>3. DataOK' /\ OpenFileExists' /\ lock = t /\ lock' = Nobody
  BY <1>0, <1>1, <1>2 DEF Register, DataOK, OpenFileExists, settings, files, consumers, output
<1>4. CASE pc[t] = "register"
  <2>1. Moves(t, "idle", NoArg) /\ NoArg \in Arguments
    BY <1>4, Beginnings DEF Register, Moves
  <2>2. CallFits("idle", NoArg) /\ ~HoldsLock("idle", NoArg) /\ "idle" \in Locations
    BY DEF CallFits, HoldsLock, Locations
  <2> QED
    BY <1>0, <1>3, <2>1, <2>2
<1>5. CASE pc[t] # "register"
  <2>1. Moves(t, "setLevel", arg[t])
    BY <1>0, <1>5 DEF Register, Moves
  <2>2. CallFits("setLevel", arg[t]) /\ ~HoldsLock("setLevel", arg[t]) /\ "setLevel" \in Locations
    BY <1>1 DEF CallFits, HoldsLock, Locations
  <2> QED
    BY <1>0, <1>3, <2>1, <2>2
<1> QED
  BY <1>4, <1>5

LEMMA ProceedFits ==
    ASSUME LoggerInv, NEW t \in Threads, Proceed(t)
    PROVE  Fits(t) /\ DataOK' /\ OpenFileExists'
<1> USE DEF Fits, Goto, Return, Take, Free
<1>0. /\ pc \in [Threads -> Locations] /\ arg \in [Threads -> Arguments]
      /\ pc[t] \in Locations /\ arg[t] \in Arguments
      /\ lock \in Threads \cup {Nobody} /\ Nobody \notin Threads
      /\ lock = t <=> HoldsLock(pc[t], arg[t])
      /\ CallFits(pc[t], arg[t])
      /\ DataOK /\ OpenFileExists
  BY InvFacts DEF LoggerInv
<1>i. /\ NoArg \in Arguments /\ "idle" \in Locations
      /\ CallFits("idle", NoArg) /\ ~HoldsLock("idle", NoArg)
  BY Beginnings DEF CallFits, HoldsLock, Locations
<1>1. ASSUME Lookup(t)
      PROVE  Fits(t) /\ DataOK' /\ OpenFileExists'
  <2>1. DataOK' /\ OpenFileExists' /\ lock' = lock
    BY <1>0, <1>1 DEF Lookup, DataOK, OpenFileExists, settings, files, consumers, output
  <2>2. ~HoldsLock(pc[t], arg[t]) /\ arg[t].call = "logText"
    BY <1>0, <1>1 DEF Lookup, HoldsLock, CallFits
  <2>3. CASE Moves(t, "idle", NoArg)
    BY <1>0, <1>i, <2>1, <2>2, <2>3
  <2>4. CASE Moves(t, "open", arg[t])
    <3>1. CallFits("open", arg[t]) /\ ~HoldsLock("open", arg[t]) /\ "open" \in Locations
      BY <2>2 DEF CallFits, HoldsLock, Locations
    <3> QED
      BY <1>0, <2>1, <2>2, <2>4, <3>1
  <2>5. Moves(t, "idle", NoArg) \/ Moves(t, "open", arg[t])
    BY <1>0, <1>1 DEF Lookup, Moves
  <2> QED
    BY <2>3, <2>4, <2>5
<1>2. ASSUME OpenFirst(t)
      PROVE  Fits(t) /\ DataOK' /\ OpenFileExists'
  <2>1. DataOK' /\ OpenFileExists' /\ lock' = lock
    BY <1>0, <1>2 DEF OpenFirst, DataOK, OpenFileExists, settings, files, consumers, output
  <2>2. ~HoldsLock(pc[t], arg[t]) /\ arg[t].call = "logText"
    BY <1>0, <1>2 DEF OpenFirst, HoldsLock, CallFits
  <2>3. PICK loc \in {"write", "openFile", "opened"} : Moves(t, loc, arg[t])
    BY <1>0, <1>2 DEF OpenFirst, OpenLog, Moves
  <2>4. CallFits(loc, arg[t]) /\ ~HoldsLock(loc, arg[t]) /\ loc \in Locations
    BY <2>2 DEF CallFits, HoldsLock, Locations
  <2> QED
    BY <1>0, <2>1, <2>2, <2>3, <2>4
<1>3. ASSUME Write(t)
      PROVE  Fits(t) /\ DataOK' /\ OpenFileExists'
  <2> DEFINE a == [arg[t] EXCEPT !.msg = written', !.sinks = surplus]
  <2>1. written' = written + 1 /\ written' \in Nat
    BY <1>0, <1>3 DEF Write, PutOut, DataOK
  <2>2. disk' \in [Paths -> Seq(Nat) \cup {NoFile}] /\ OpenFileExists'
    <3>1. CASE toFile /\ file.open
      <4>1. file.name \in Paths /\ disk[file.name] \in Seq(Nat)
        BY <1>0, <3>1 DEF DataOK, OpenFileExists
      <4>2. Append(disk[file.name], written') \in Seq(Nat)
        BY <2>1, <4>1
      <4>3. disk' = [disk EXCEPT ![file.name] = Append(disk[file.name], written')] /\ file' = file
        BY <1>3, <3>1 DEF Write, PutOut, files
      <4> QED
        BY <1>0, <4>1, <4>2, <4>3, LoggerAssumption DEF DataOK, OpenFileExists
    <3>2. CASE ~(toFile /\ file.open)
      <4>1. disk' = disk /\ file' = file
        BY <1>3, <3>2 DEF Write, PutOut, files
      <4> QED
        BY <1>0, <4>1 DEF DataOK, OpenFileExists
    <3> QED
      BY <3>1, <3>2
  <2>3. DataOK' /\ lock = Nobody /\ lock' = t
    BY <1>0, <1>3, <2>1, <2>2 DEF Write, PutOut, DataOK, settings, files, consumers, output
  <2>4. Moves(t, "deliver", a) /\ a \in Arguments /\ a.call = arg[t].call
    BY <1>0, <1>3, <2>1 DEF Write, PutOut, Moves, Arguments, DataOK
  <2>5. arg[t].call = "logText"
    BY <1>0, <1>3 DEF Write, PutOut, CallFits
  <2>6. CallFits("deliver", a) /\ HoldsLock("deliver", a) /\ "deliver" \in Locations
    BY <2>4, <2>5 DEF CallFits, HoldsLock, Locations
  <2> QED
    BY <1>0, <2>2, <2>3, <2>4, <2>6
<1>4. ASSUME Deliver(t)
      PROVE  Fits(t) /\ DataOK' /\ OpenFileExists'
  <2> DEFINE a == [arg[t] EXCEPT !.sinks = Tail(arg[t].sinks)]
             k == Head(arg[t].sinks)
  <2>1. arg[t].sinks \in Seq(Consumers) /\ arg[t].sinks # <<>> /\ arg[t].msg \in Nat
    BY <1>0, <1>4 DEF Deliver, Arguments
  <2>2. k \in Consumers /\ Tail(arg[t].sinks) \in Seq(Consumers)
    BY <2>1
  <2>3. received' \in [Consumers -> Seq(Nat)]
    BY <1>0, <1>4, <2>1, <2>2 DEF Deliver, DataOK
  <2>4. DataOK' /\ OpenFileExists' /\ lock' = lock
    BY <1>0, <1>4, <2>3 DEF Deliver, DataOK, OpenFileExists, settings, files, consumers, output
  <2>5. Moves(t, "deliver", a) /\ a \in Arguments /\ a.call = arg[t].call
    BY <1>0, <1>4, <2>2 DEF Deliver, Moves, Arguments
  <2>6. HoldsLock(pc[t], arg[t]) /\ arg[t].call = "logText"
    BY <1>0, <1>4 DEF Deliver, HoldsLock, CallFits
  <2>7. CallFits("deliver", a) /\ HoldsLock("deliver", a) /\ "deliver" \in Locations
    BY <2>5, <2>6 DEF CallFits, HoldsLock, Locations
  <2> QED
    BY <1>0, <2>4, <2>5, <2>6, <2>7
<1>5. ASSUME Unlock(t)
      PROVE  Fits(t) /\ DataOK' /\ OpenFileExists'
  <2>1. DataOK' /\ OpenFileExists' /\ lock' = Nobody
    BY <1>0, <1>5 DEF Unlock, DataOK, OpenFileExists, settings, files, consumers, output
  <2>2. HoldsLock(pc[t], arg[t]) /\ Moves(t, "idle", NoArg)
    BY <1>5 DEF Unlock, HoldsLock, Moves
  <2> QED
    BY <1>0, <1>i, <2>1, <2>2
<1>6. ASSUME SetLevels(t)
      PROVE  Fits(t) /\ DataOK' /\ OpenFileExists'
  <2>1. DataOK' /\ OpenFileExists' /\ lock' = Nobody /\ lock = Nobody
    BY <1>0, <1>6 DEF SetLevels, DataOK, OpenFileExists, settings, files, consumers, output, Arguments
  <2>2. Moves(t, "idle", NoArg)
    BY <1>6 DEF SetLevels, Moves
  <2> QED
    BY <1>0, <1>i, <2>1, <2>2
<1>7. ASSUME OpenFile(t)
      PROVE  Fits(t) /\ DataOK' /\ OpenFileExists'
  <2>1. DataOK' /\ OpenFileExists' /\ lock' = lock
    BY <1>0, <1>7 DEF OpenFile, DataOK, OpenFileExists, settings, files, consumers, output
  <2>2. CASE Moves(t, "opened", arg[t])
    <3>1. /\ CallFits("opened", arg[t]) /\ "opened" \in Locations
          /\ HoldsLock("opened", arg[t]) <=> HoldsLock(pc[t], arg[t])
      BY <1>0, <1>7 DEF OpenFile, CallFits, HoldsLock, Locations
    <3> QED
      BY <1>0, <2>1, <2>2, <3>1
  <2>3. CASE Moves(t, "openNamed", [arg[t] EXCEPT !.path = filename])
    <3> DEFINE a == [arg[t] EXCEPT !.path = filename]
    <3>1. a \in Arguments /\ a.call = arg[t].call
      BY <1>0 DEF Arguments, DataOK
    <3>2. /\ CallFits("openNamed", a) /\ "openNamed" \in Locations
          /\ HoldsLock("openNamed", a) <=> HoldsLock(pc[t], arg[t])
      BY <1>0, <1>7, <3>1 DEF OpenFile, CallFits, HoldsLock, Locations
    <3> QED
      BY <1>0, <2>1, <2>3, <3>1, <3>2
  <2>4. \/ Moves(t, "opened", arg[t])
        \/ Moves(t, "openNamed", [arg[t] EXCEPT !.path = filename])
    BY <1>0, <1>7 DEF OpenFile, Moves
  <2> QED
    BY <2>2, <2>3, <2>4
<1>8. ASSUME OpenNamed(t)
      PROVE  Fits(t) /\ DataOK' /\ OpenFileExists'
  <2>1. /\ file' \in [open : BOOLEAN, name : Paths \cup {NoPath}]
        /\ file'.open => file'.name \in Paths
    <3>1. arg[t].path \in Paths \cup {NoPath}
      BY <1>0 DEF Arguments
    <3>2. PICK opened \in {arg[t].path # NoPath, FALSE} :
                 file' = [open |-> opened, name |-> arg[t].path]
      BY <1>8 DEF OpenNamed
    <3>3. opened \in BOOLEAN /\ (opened => arg[t].path # NoPath)
      BY <3>2
    <3> QED
      BY <3>1, <3>2, <3>3
  <2>2. disk' \in [Paths -> Seq(Nat) \cup {NoFile}] /\ OpenFileExists'
    <3>1. disk' = IF file'.open /\ disk[file'.name] = NoFile
                  THEN [disk EXCEPT ![file'.name] = <<>>] ELSE disk
      BY <1>8 DEF OpenNamed
    <3>2. <<>> \in Seq(Nat)
      OBVIOUS
    <3> QED
      BY <1>0, <2>1, <3>1, <3>2, LoggerAssumption DEF DataOK, OpenFileExists
  <2>3. DataOK' /\ lock' = lock
    BY <1>0, <1>8, <2>1, <2>2 DEF OpenNamed, DataOK, settings, files, consumers, output
  <2>4. Moves(t, "opened", arg[t])
    BY <1>0, <1>8 DEF OpenNamed, Moves
  <2>5. /\ CallFits("opened", arg[t]) /\ "opened" \in Locations
        /\ HoldsLock("opened", arg[t]) <=> HoldsLock(pc[t], arg[t])
    BY <1>0, <1>8 DEF OpenNamed, CallFits, HoldsLock, Locations
  <2> QED
    BY <1>0, <2>2, <2>3, <2>4, <2>5
<1>9. ASSUME Opened(t)
      PROVE  Fits(t) /\ DataOK' /\ OpenFileExists'
  <2>1. DataOK' /\ OpenFileExists' /\ lock' = (IF arg[t].call = "rotateLog" THEN Nobody ELSE lock)
    BY <1>0, <1>9 DEF Opened, DataOK, OpenFileExists, settings, files, consumers, output
  <2>2. HoldsLock(pc[t], arg[t]) <=> arg[t].call = "rotateLog"
    BY <1>9 DEF Opened, HoldsLock
  <2>3. CASE arg[t].call = "logText"
    <3> DEFINE a == [arg[t] EXCEPT !.path = NoPath]
    <3>1. Moves(t, "write", a) /\ a \in Arguments /\ a.call = "logText"
      BY <1>0, <1>9, <2>3 DEF Opened, Moves, Arguments
    <3>2. CallFits("write", a) /\ "write" \in Locations /\ ~HoldsLock("write", a)
      BY <3>1 DEF CallFits, HoldsLock, Locations
    <3> QED
      BY <1>0, <2>1, <2>2, <2>3, <3>1, <3>2
  <2>4. CASE arg[t].call # "logText"
    <3>1. Moves(t, "idle", NoArg)
      BY <1>9, <2>4 DEF Opened, Moves
    <3> QED
      BY <1>0, <1>i, <2>1, <2>2, <3>1
  <2> QED
    BY <2>3, <2>4
<1>10. ASSUME CompareName(t)
      PROVE  Fits(t) /\ DataOK' /\ OpenFileExists'
  <2>1. DataOK' /\ OpenFileExists' /\ lock' = lock
    BY <1>0, <1>10 DEF CompareName, DataOK, OpenFileExists, settings, files, consumers, output
  <2>2. arg[t].call = "setFilename" /\ ~HoldsLock(pc[t], arg[t])
    BY <1>0, <1>10 DEF CompareName, CallFits, HoldsLock
  <2>3. CASE Moves(t, "idle", NoArg)
    BY <1>0, <1>i, <2>1, <2>2, <2>3
  <2>4. CASE \E loc \in {"closeFile", "openFile"} : Moves(t, loc, arg[t])
    <3>1. PICK loc \in {"closeFile", "openFile"} : Moves(t, loc, arg[t])
      BY <2>4
    <3>2. CallFits(loc, arg[t]) /\ loc \in Locations /\ ~HoldsLock(loc, arg[t])
      BY <2>2 DEF CallFits, HoldsLock, Locations
    <3> QED
      BY <1>0, <2>1, <2>2, <3>1, <3>2
  <2>5. \/ Moves(t, "idle", NoArg)
        \/ \E loc \in {"closeFile", "openFile"} : Moves(t, loc, arg[t])
    <3>1. UNCHANGED arg => arg' = [arg EXCEPT ![t] = arg[t]]
      BY <1>0
    <3> QED
      BY <1>10, <3>1 DEF CompareName, Moves
  <2> QED
    BY <2>3, <2>4, <2>5
<1>11. ASSUME CloseFile(t)
      PROVE  Fits(t) /\ DataOK' /\ OpenFileExists'
  <2>1. DataOK' /\ OpenFileExists' /\ lock' = lock
    BY <1>0, <1>11 DEF CloseFile, DataOK, OpenFileExists, settings, files, consumers, output
  <2>2. arg[t].call = "setFilename" /\ ~HoldsLock(pc[t], arg[t])
    BY <1>0, <1>11 DEF CloseFile, CallFits, HoldsLock
  <2>3. Moves(t, "openFile", arg[t])
    BY <1>0, <1>11 DEF CloseFile, Moves
  <2>4. CallFits("openFile", arg[t]) /\ "openFile" \in Locations /\ ~HoldsLock("openFile", arg[t])
    BY <2>2 DEF CallFits, HoldsLock, Locations
  <2> QED
    BY <1>0, <2>1, <2>2, <2>3, <2>4
<1>12. ASSUME RotateRename(t)
      PROVE  Fits(t) /\ DataOK' /\ OpenFileExists'
  <2>1. file' \in [open : BOOLEAN, name : Paths \cup {NoPath}]
    <3>1. arg[t].path \in Paths \cup {NoPath} /\ file \in [open : BOOLEAN, name : Paths \cup {NoPath}]
      BY <1>0 DEF Arguments, DataOK
    <3>2. CASE file' = [open |-> FALSE, name |-> arg[t].path]
      BY <3>1, <3>2
    <3>3. CASE file' = file
      BY <3>1, <3>3
    <3> QED
      BY <1>12, <3>2, <3>3 DEF RotateRename
  <2>2. disk' \in [Paths -> Seq(Nat) \cup {NoFile}]
    BY <1>0, <1>12 DEF RotateRename, DataOK
  <2>3. DataOK' /\ lock' = lock
    BY <1>0, <1>12, <2>1, <2>2 DEF RotateRename, DataOK, settings, files, consumers, output
  <2>4. OpenFileExists'
    BY <1>0, <1>12 DEF RotateRename, OpenFileExists
  <2>5. Moves(t, "rotateOpen", arg[t])
    BY <1>0, <1>12 DEF RotateRename, Moves
  <2>6. arg[t].call = "rotateLog" /\ HoldsLock(pc[t], arg[t])
    BY <1>0, <1>12 DEF RotateRename, CallFits, HoldsLock
  <2>7. CallFits("rotateOpen", arg[t]) /\ "rotateOpen" \in Locations /\ HoldsLock("rotateOpen", arg[t])
    BY <2>6 DEF CallFits, HoldsLock, Locations
  <2> QED
    BY <1>0, <2>3, <2>4, <2>5, <2>6, <2>7
<1>13. ASSUME RotateOpen(t)
      PROVE  Fits(t) /\ DataOK' /\ OpenFileExists'
  <2>1. DataOK' /\ OpenFileExists' /\ lock' = lock
    BY <1>0, <1>13 DEF RotateOpen, DataOK, OpenFileExists, settings, files, consumers, output
  <2>2. arg[t].call = "rotateLog" /\ HoldsLock(pc[t], arg[t])
    BY <1>0, <1>13 DEF RotateOpen, CallFits, HoldsLock
  <2>3. PICK loc \in {"openFile", "opened"} : Moves(t, loc, arg[t])
    BY <1>0, <1>13 DEF RotateOpen, OpenLog, Moves
  <2>4. CallFits(loc, arg[t]) /\ loc \in Locations /\ HoldsLock(loc, arg[t])
    BY <2>2 DEF CallFits, HoldsLock, Locations
  <2> QED
    BY <1>0, <2>1, <2>2, <2>3, <2>4
<1>14. ASSUME ConsumerDies(t)
      PROVE  Fits(t) /\ DataOK' /\ OpenFileExists'
  <2> DEFINE k == Head(arg[t].sinks)
  <2>1. k \in Consumers
    BY <1>0, <1>14 DEF ConsumerDies, CallFits, Arguments
  <2>2. Without(surplus, k) \in Seq(Consumers)
    <3>1. Without(surplus, k) \in Seq(Consumers \ {k})
      BY <1>0, WithoutLeavesOthers DEF DataOK
    <3> HIDE DEF Without, k
    <3> QED
      BY <3>1
  <2>3. /\ surplus' \in {Without(surplus, k), surplus}
        /\ life' = [life EXCEPT ![k] = "dead"]
        /\ lock' = lock /\ ~HoldsLock(pc[t], arg[t])
    BY <1>14 DEF ConsumerDies, HoldsLock
  <2>4. DataOK' /\ OpenFileExists' /\ lock' = lock /\ lock # t
    <3> HIDE DEF k
    <3> QED
      BY <1>0, <1>14, <2>1, <2>2, <2>3 DEF ConsumerDies, DataOK, OpenFileExists, settings, files, output
  <2>5. Moves(t, "idle", NoArg)
    BY <1>14 DEF ConsumerDies, Moves
  <2> QED
    BY <1>0, <1>i, <2>4, <2>5
<1> QED
  BY <1>1, <1>2, <1>3, <1>4, <1>5, <1>6, <1>7, <1>8, <1>9, <1>10, <1>11, <1>12, <1>13, <1>14 DEF Proceed

\* An invariant is inductive.
LEMMA LoggerInvInductive ==
    /\ HistoryInit => LoggerInv
    /\ LoggerInv /\ [Next]_historyVars => LoggerInv'
<1>1. HistoryInit => LoggerInv
  <2> SUFFICES ASSUME HistoryInit PROVE LoggerInv
    OBVIOUS
  <2>1. <<>> \in Seq(Consumers) /\ <<>> \in Seq(Nat) /\ Debug \in Levels
    BY LoggerAssumption DEF Levels
  <2>2. DataOK
    BY <2>1 DEF HistoryInit, Init, DataOK
  <2>3. /\ lock \in Threads \cup {Nobody} /\ pc \in [Threads -> Locations]
        /\ arg \in [Threads -> Arguments]
        /\ \A t \in Threads : lock = t <=> Locked(t)
    BY LoggerAssumption, Beginnings DEF HistoryInit, Init, Locations, Locked
  <2>4. CallMatches /\ OpenFileExists /\ HistoryTypeOK
    BY DEF HistoryInit, Init, CallMatches, CallFits, OpenFileExists, HistoryTypeOK
  <2> QED
    BY <2>2, <2>3, <2>4 DEF LoggerInv, TypeOK, DataOK, Arguments
<1>2. ASSUME LoggerInv, Next PROVE LoggerInv'
  <2>1. \E t \in Threads : Fits(t) /\ DataOK' /\ OpenFileExists'
    BY <1>2, CallFitsIn, RegistrationFits, RegisterFits, ProceedFits DEF Next
  <2>2. /\ lock' \in Threads \cup {Nobody}
        /\ \A u \in Threads : lock' = u <=> Locked(u)'
        /\ pc' \in [Threads -> Locations]
        /\ arg' \in [Threads -> Arguments]
        /\ CallMatches'
    BY <1>2, <2>1, MoveKeeps DEF Fits
  <2>3. TypeOK'
    BY <2>1, <2>2 DEF TypeOK, DataOK, Arguments, Locked
  <2>4. HistoryTypeOK'
    <3>1. (calls' \in Nat) /\ (crossed' \in BOOLEAN)
      <4>1. (calls' = calls \/ calls' = calls + 1) /\ RememberFileCalls
        BY <1>2 DEF Next, CountCall
      <4>2. crossed \in BOOLEAN /\ calls \in Nat
        BY <1>2 DEF LoggerInv, HistoryTypeOK
      <4>3. crossed' = TRUE \/ crossed' = FALSE \/ crossed' = crossed
        BY <4>1 DEF RememberFileCalls
      <4>4. calls' \in Nat
        BY <4>1, <4>2
      <4>5. crossed' \in BOOLEAN
        BY <4>2, <4>3, Zenon
      <4> QED
        BY <4>4, <4>5
    <3>2. heirs' \subseteq Names
      BY <1>2 DEF LoggerInv, HistoryTypeOK, Next, HeirsAfter, CallMatches, CallFits, Register
    <3> QED
      BY <3>1, <3>2 DEF HistoryTypeOK
  <2> QED
    BY <2>1, <2>2, <2>3, <2>4 DEF LoggerInv
<1>3. ASSUME LoggerInv, UNCHANGED historyVars PROVE LoggerInv'
  BY <1>3 DEF LoggerInv, TypeOK, CallMatches, OpenFileExists, HistoryTypeOK, Locked,
              historyVars, vars, settings, files, consumers, output
<1> QED
  BY <1>1, <1>2, <1>3

\* The variables keep their types, and _writeLock belongs to the thread that is where
\* the lock is held, if there is one (log.cpp:54-331).
THEOREM TypeCorrect == Spec => []TypeOK
<1>1. LoggerInv => TypeOK
  BY DEF LoggerInv
<1> QED
  BY <1>1, LoggerInvInductive, PTL DEF Spec

-----------------------------------------------------------------------------
(* What is written and handed out                                          *)

\* Nobody begins to hand out messages but by Write, and only the thread at it changes
\* what is left to do.
LEMMA DeliverersStay ==
    ASSUME LoggerInv, NEW t \in Threads,
           \/ Call(t)
           \/ \E n \in Names : RegisterCategory(t, n)
           \/ Register(t)
           \/ Proceed(t) /\ ~Write(t) /\ ~Deliver(t)
    PROVE  \A u \in Threads : pc'[u] = "deliver" => pc[u] = "deliver" /\ arg'[u] = arg[u]
<1> USE DEF Goto, Return
<1> DEFINE Stay == \A u \in Threads : pc'[u] = "deliver" => pc[u] = "deliver" /\ arg'[u] = arg[u]
<1>0. pc \in [Threads -> Locations] /\ arg \in [Threads -> Arguments]
  BY InvFacts
<1>1. ASSUME NEW n \in Names \cup {NoName}, NEW v \in Levels, LogText(t, n, v) PROVE Stay
  BY <1>0, <1>1 DEF LogText
<1>2. ASSUME NEW n \in Names \cup {NoName}, NEW v \in Levels, LogHex(t, n, v) PROVE Stay
  BY <1>0, <1>2 DEF LogHex
<1>3. ASSUME NEW v \in Levels, SetLevel(t, v) PROVE Stay
  BY <1>0, <1>3 DEF SetLevel
<1>4. ASSUME NEW on \in BOOLEAN, SetToFile(t, on) PROVE Stay
  BY <1>0, <1>4 DEF SetToFile
<1>5. ASSUME NEW n \in Names, NEW v \in Levels, SetCategoryLevel(t, n, v) PROVE Stay
  BY <1>0, <1>5 DEF SetCategoryLevel
<1>6. ASSUME NEW p \in Paths, SetFilename(t, p) PROVE Stay
  BY <1>0, <1>6 DEF SetFilename
<1>7. ASSUME NEW p \in Paths, RotateLog(t, p) PROVE Stay
  BY <1>0, <1>7 DEF RotateLog
<1>8. ASSUME NEW k \in Consumers, AddConsumer(t, k) PROVE Stay
  BY <1>0, <1>8 DEF AddConsumer
<1>9. ASSUME NEW k \in Consumers, RemoveConsumer(t, k) PROVE Stay
  BY <1>0, <1>9 DEF RemoveConsumer
<1>10. ASSUME NEW k \in Consumers, DestroyConsumer(t, k) PROVE Stay
  BY <1>0, <1>10 DEF DestroyConsumer
<1>11. ASSUME NEW n \in Names, RegisterCategory(t, n) PROVE Stay
  BY <1>0, <1>11 DEF RegisterCategory
<1>12. ASSUME Register(t) PROVE Stay
  BY <1>0, <1>12 DEF Register
<1>13. ASSUME Lookup(t) PROVE Stay
  BY <1>0, <1>13 DEF Lookup
<1>14. ASSUME OpenFirst(t) PROVE Stay
  BY <1>0, <1>14 DEF OpenFirst, OpenLog
<1>15. ASSUME Unlock(t) PROVE Stay
  BY <1>0, <1>15 DEF Unlock
<1>16. ASSUME SetLevels(t) PROVE Stay
  BY <1>0, <1>16 DEF SetLevels
<1>17. ASSUME OpenFile(t) PROVE Stay
  BY <1>0, <1>17 DEF OpenFile
<1>18. ASSUME OpenNamed(t) PROVE Stay
  BY <1>0, <1>18 DEF OpenNamed
<1>19. ASSUME Opened(t) PROVE Stay
  BY <1>0, <1>19 DEF Opened
<1>20. ASSUME CompareName(t) PROVE Stay
  BY <1>0, <1>20 DEF CompareName
<1>21. ASSUME CloseFile(t) PROVE Stay
  BY <1>0, <1>21 DEF CloseFile
<1>22. ASSUME RotateRename(t) PROVE Stay
  BY <1>0, <1>22 DEF RotateRename
<1>23. ASSUME RotateOpen(t) PROVE Stay
  BY <1>0, <1>23 DEF RotateOpen, OpenLog
<1>24. ASSUME ConsumerDies(t) PROVE Stay
  BY <1>0, <1>24 DEF ConsumerDies
<1>25. Call(t) => Stay
  BY <1>1, <1>2, <1>3, <1>4, <1>5, <1>6, <1>7, <1>8, <1>9, <1>10 DEF Call
<1>26. Proceed(t) /\ ~Write(t) /\ ~Deliver(t) => Stay
  BY <1>13, <1>14, <1>15, <1>16, <1>17, <1>18, <1>19, <1>20, <1>21, <1>22, <1>23, <1>24 DEF Proceed
<1> QED
  BY <1>11, <1>12, <1>25, <1>26

\* What is written to a file, and what a consumer is handed, changes in four places.
LEMMA OutputStays ==
    ASSUME NEW t \in Threads,
           \/ Call(t)
           \/ \E n \in Names : RegisterCategory(t, n)
           \/ Register(t)
           \/ Proceed(t) /\ ~Write(t) /\ ~Deliver(t) /\ ~OpenNamed(t) /\ ~RotateRename(t)
    PROVE  UNCHANGED <<disk, received, written>>
<1> USE DEF settings, files, consumers, output
<1>1. Call(t) => UNCHANGED <<disk, received, written>>
  BY DEF Call, LogText, LogHex, SetLevel, SetToFile, SetCategoryLevel, SetFilename, RotateLog, AddConsumer, RemoveConsumer, DestroyConsumer
<1>2. (\E n \in Names : RegisterCategory(t, n)) \/ Register(t) => UNCHANGED <<disk, received, written>>
  BY DEF RegisterCategory, Register
<1>3. ASSUME Proceed(t), ~Write(t), ~Deliver(t), ~OpenNamed(t), ~RotateRename(t)
      PROVE  UNCHANGED <<disk, received, written>>
  BY <1>3 DEF Proceed, Lookup, OpenFirst, Unlock, SetLevels, OpenFile, Opened, CompareName, CloseFile, RotateOpen, ConsumerDies
<1> QED
  BY <1>1, <1>2, <1>3

\* A message that is not earlier than those before it can be added.
LEMMA AppendKeepsOrder ==
    ASSUME NEW s \in Seq(Nat), NEW last \in Nat, NEW x \in Nat,
           Increasing(s), UpTo(s, last), last <= x
    PROVE  Increasing(Append(s, x)) /\ UpTo(Append(s, x), x)
<1>1. /\ Len(Append(s, x)) = Len(s) + 1 /\ Len(s) \in Nat
      /\ \A i \in 1..Len(s) : s[i] \in Nat /\ Append(s, x)[i] = s[i]
      /\ Append(s, x)[Len(s) + 1] = x
  OBVIOUS
<1>2. \A i \in 1..Len(s) : s[i] <= x
  BY <1>1 DEF UpTo
<1>3. UpTo(Append(s, x), x)
  BY <1>1, <1>2 DEF UpTo
<1>4. Increasing(Append(s, x))
  <2> SUFFICES ASSUME NEW i \in 1..Len(s) PROVE Append(s, x)[i] <= Append(s, x)[i + 1]
    BY <1>1 DEF Increasing
  <2>1. CASE i = Len(s)
    BY <1>1, <1>2, <2>1
  <2>2. CASE i # Len(s)
    <3>1. i \in 1..(Len(s) - 1) /\ i + 1 \in 1..Len(s)
      BY <1>1, <2>2
    <3> QED
      BY <1>1, <3>1 DEF Increasing
  <2> QED
    BY <2>1, <2>2
<1> QED
  BY <1>3, <1>4

\* What was put out before stays before what is put out later.
LEMMA UpToLater ==
    ASSUME NEW s \in Seq(Nat), NEW last \in Nat, UpTo(s, last)
    PROVE  UpTo(s, last + 1)
<1>1. Len(s) \in Nat /\ \A i \in 1..Len(s) : s[i] \in Nat
  OBVIOUS
<1> QED
  BY <1>1 DEF UpTo

\* The messages of a file and of a consumer keep the order of writing, because the
\* lock is held from the number of a message to its last delivery
\* (log.cpp:88-114, 314-324).
THEOREM OneOrderHolds == Spec => []OneOrder
<1> DEFINE Inv == LoggerInv /\ OneOrder /\ NothingLater
<1>1. HistoryInit => OneOrder /\ NothingLater
  BY DEF HistoryInit, Init, OneOrder, NothingLater, Increasing, UpTo
<1>2. ASSUME LoggerInv, OneOrder, NothingLater, Next, LoggerInv'
      PROVE  OneOrder' /\ NothingLater'
  <2>1. PICK t \in Threads : \/ Call(t)
                             \/ \E n \in Names : RegisterCategory(t, n)
                             \/ Register(t)
                             \/ Proceed(t)
    BY <1>2 DEF Next
  <2>2. /\ disk \in [Paths -> Seq(Nat) \cup {NoFile}] /\ NoFile \notin Seq(Nat)
        /\ received \in [Consumers -> Seq(Nat)] /\ written \in Nat
        /\ pc \in [Threads -> Locations] /\ arg \in [Threads -> Arguments]
        /\ lock \in Threads \cup {Nobody} /\ Nobody \notin Threads
        /\ \A u \in Threads : pc[u] = "deliver" => lock = u
    BY <1>2, LoggerAssumption, InvFacts DEF DataOK, LoggerInv, TypeOK, Locked, Arguments
  <2>a. /\ \A p \in Paths : disk[p] # NoFile =>
                               /\ disk[p] \in Seq(Nat)
                               /\ Increasing(disk[p]) /\ UpTo(disk[p], written)
        /\ \A k \in Consumers : /\ received[k] \in Seq(Nat)
                                /\ Increasing(received[k]) /\ UpTo(received[k], written)
    BY <1>2, <2>2 DEF OneOrder, NothingLater
  <2>3. CASE Write(t)
    <3>1. written' = written + 1 /\ received' = received /\ lock = Nobody
      BY <2>3 DEF Write, PutOut, Take, consumers
    <3>2. ASSUME NEW p \in Paths, disk'[p] # NoFile
          PROVE  Increasing(disk'[p]) /\ UpTo(disk'[p], written')
      <4>1. CASE toFile /\ file.open /\ p = file.name
        <5>1. disk[p] \in Seq(Nat) /\ disk[p] # NoFile
          BY <1>2, <2>2, <4>1 DEF LoggerInv, OpenFileExists
        <5>2. disk'[p] = Append(disk[p], written + 1)
          BY <2>2, <2>3, <3>1, <4>1 DEF Write, PutOut
        <5>3. Increasing(disk[p]) /\ UpTo(disk[p], written) /\ written <= written + 1
          BY <2>2, <2>a, <5>1
        <5> QED
          BY <2>2, <3>1, <5>1, <5>2, <5>3, AppendKeepsOrder
      <4>2. CASE ~(toFile /\ file.open /\ p = file.name)
        <5>1. disk'[p] = disk[p]
          BY <2>2, <2>3, <4>2 DEF Write, PutOut
        <5> QED
          BY <2>2, <2>a, <3>1, <3>2, <5>1, UpToLater
      <4> QED
        BY <4>1, <4>2
    <3>3. \A k \in Consumers : Increasing(received'[k]) /\ UpTo(received'[k], written')
      BY <2>2, <2>a, <3>1, UpToLater
    <3>4. ASSUME NEW u \in Threads, pc'[u] = "deliver" PROVE arg'[u].msg = written'
      <4>1. u = t
        BY <2>2, <2>3, <3>1, <3>4 DEF Write, PutOut, Goto
      <4>2. arg'[t].msg = written'
        BY <2>2, <2>3 DEF Write, PutOut, Arguments
      <4> QED
        BY <4>1, <4>2
    <3> QED
      BY <3>2, <3>3, <3>4 DEF OneOrder, NothingLater
  <2>4. CASE Deliver(t)
    <3> DEFINE k == Head(arg[t].sinks)
    <3>1. k \in Consumers /\ arg[t].msg = written
      BY <1>2, <2>2, <2>4 DEF Deliver, NothingLater, Arguments
    <3>2. disk' = disk /\ written' = written /\ pc' = pc
      BY <2>4 DEF Deliver, files, output
    <3>3. received' = [received EXCEPT ![k] = Append(received[k], written)]
      BY <2>4, <3>1 DEF Deliver
    <3>4. Increasing(Append(received[k], written)) /\ UpTo(Append(received[k], written), written)
      BY <2>2, <2>a, <3>1, AppendKeepsOrder
    <3>5. \A j \in Consumers : Increasing(received'[j]) /\ UpTo(received'[j], written')
      <4> TAKE j \in Consumers
      <4> HIDE DEF k
      <4>1. CASE j = k
        BY <2>2, <3>1, <3>2, <3>3, <3>4, <4>1
      <4>2. CASE j # k
        BY <2>2, <2>a, <3>1, <3>2, <3>3, <4>2
      <4> QED
        BY <4>1, <4>2
    <3>6. \A u \in Threads : pc'[u] = "deliver" => arg'[u].msg = written'
      BY <1>2, <2>2, <2>4, <3>2 DEF Deliver, NothingLater, Arguments
    <3> QED
      BY <2>a, <3>2, <3>5, <3>6 DEF OneOrder, NothingLater
  <2>5. CASE OpenNamed(t)
    <3>1. received' = received /\ written' = written
      BY <2>5 DEF OpenNamed, consumers, output
    <3>2. ASSUME NEW p \in Paths, disk'[p] # NoFile
          PROVE  Increasing(disk'[p]) /\ UpTo(disk'[p], written')
      <4>1. disk'[p] = disk[p] \/ disk'[p] = <<>>
        BY <2>2, <2>5 DEF OpenNamed
      <4>2. Increasing(<<>>) /\ UpTo(<<>>, written)
        BY DEF Increasing, UpTo
      <4> QED
        BY <2>a, <3>1, <3>2, <4>1, <4>2
    <3>3. \A u \in Threads : pc'[u] = "deliver" => arg'[u].msg = written'
      BY <1>2, <2>2, <2>5, <3>1 DEF OpenNamed, Goto, NothingLater
    <3> QED
      BY <2>a, <3>1, <3>2, <3>3 DEF OneOrder, NothingLater
  <2>6. CASE RotateRename(t)
    <3>1. received' = received /\ written' = written
      BY <2>6 DEF RotateRename, consumers, output
    <3>2. ASSUME NEW p \in Paths, disk'[p] # NoFile
          PROVE  Increasing(disk'[p]) /\ UpTo(disk'[p], written')
      <4>1. \E q \in Paths : disk'[p] = disk[q]
        <5>1. file \in [open : BOOLEAN, name : Paths \cup {NoPath}]
          BY <1>2 DEF LoggerInv, TypeOK
        <5> QED
          BY <2>2, <2>6, <3>2, <5>1 DEF RotateRename
      <4> QED
        BY <2>a, <3>1, <3>2, <4>1
    <3>3. \A u \in Threads : pc'[u] = "deliver" => arg'[u].msg = written'
      BY <1>2, <2>2, <2>6, <3>1 DEF RotateRename, Goto, NothingLater
    <3> QED
      BY <2>a, <3>1, <3>2, <3>3 DEF OneOrder, NothingLater
  <2>7. CASE /\ ~Write(t) /\ ~Deliver(t) /\ ~OpenNamed(t) /\ ~RotateRename(t)
    <3>1. UNCHANGED <<disk, received, written>>
      BY <2>1, <2>7, OutputStays
    <3>2. \A u \in Threads : pc'[u] = "deliver" => pc[u] = "deliver" /\ arg'[u] = arg[u]
      BY <1>2, <2>1, <2>7, DeliverersStay
    <3> QED
      BY <1>2, <3>1, <3>2 DEF OneOrder, NothingLater
  <2> QED
    BY <2>3, <2>4, <2>5, <2>6, <2>7
<1>3. ASSUME OneOrder, NothingLater, UNCHANGED historyVars
      PROVE  OneOrder' /\ NothingLater'
  BY <1>3 DEF OneOrder, NothingLater, historyVars, vars, files, consumers, output
<1>4. HistoryInit => Inv
  BY <1>1, LoggerInvInductive
<1>5. Inv /\ [Next]_historyVars => Inv'
  BY <1>2, <1>3, LoggerInvInductive
<1>6. Inv => OneOrder
  OBVIOUS
<1> QED
  BY <1>4, <1>5, <1>6, PTL DEF Spec

-----------------------------------------------------------------------------
(* The consumers                                                           *)

\* The list of consumers changes in three places, and their life in two.
LEMMA ConsumersStay ==
    ASSUME NEW t \in Threads,
           \/ Call(t)
           \/ \E n \in Names : RegisterCategory(t, n)
           \/ Register(t)
           \/ Proceed(t) /\ ~Write(t) /\ ~Deliver(t)
    PROVE  \/ UNCHANGED <<surplus, life, received>>
           \/ \E k \in Consumers : \/ AddConsumer(t, k) \/ RemoveConsumer(t, k)
                                   \/ DestroyConsumer(t, k)
           \/ ConsumerDies(t)
<1> USE DEF consumers
<1>1. Call(t) => \/ UNCHANGED <<surplus, life, received>>
                 \/ \E k \in Consumers : \/ AddConsumer(t, k) \/ RemoveConsumer(t, k)
                                         \/ DestroyConsumer(t, k)
  BY DEF Call, LogText, LogHex, SetLevel, SetToFile, SetCategoryLevel, SetFilename, RotateLog
<1>2. (\E n \in Names : RegisterCategory(t, n)) \/ Register(t)
      => UNCHANGED <<surplus, life, received>>
  BY DEF RegisterCategory, Register
<1>3. ASSUME Proceed(t), ~Write(t), ~Deliver(t), ~ConsumerDies(t)
      PROVE  UNCHANGED <<surplus, life, received>>
  BY <1>3 DEF Proceed, Lookup, OpenFirst, Unlock, SetLevels, OpenFile, OpenNamed, Opened, CompareName, CloseFile, RotateRename, RotateOpen
<1> QED
  BY <1>1, <1>2, <1>3

\* A list without dead consumers is a list of the others.
LEMMA NoneDeadMeans ==
    ASSUME DataOK, NEW s \in Seq(Consumers)
    PROVE  NoneDead(s, life) <=> s \in Seq({k \in Consumers : life[k] # "dead"})
<1>1. ASSUME NoneDead(s, life) PROVE s \in Seq({k \in Consumers : life[k] # "dead"})
  <2>1. \A i \in 1..Len(s) : s[i] \in {k \in Consumers : life[k] # "dead"}
    BY <1>1 DEF NoneDead
  <2>2. Len(s) \in Nat /\ s = [i \in 1..Len(s) |-> s[i]]
    OBVIOUS
  <2> QED
    BY <2>1, <2>2
<1>2. ASSUME s \in Seq({k \in Consumers : life[k] # "dead"}) PROVE NoneDead(s, life)
  BY <1>2 DEF NoneDead
<1> QED
  BY <1>1, <1>2

\* A logger stays what it is.
LEMMA KindStays ==
    ASSUME NEW t \in Threads,
           \/ Call(t)
           \/ \E n \in Names : RegisterCategory(t, n)
           \/ Register(t)
           \/ Proceed(t)
    PROVE  systemLog' = systemLog
<1> USE DEF settings
<1>1. Call(t) => systemLog' = systemLog
  BY DEF Call, LogText, LogHex, SetLevel, SetToFile, SetCategoryLevel, SetFilename, RotateLog,
         AddConsumer, RemoveConsumer, DestroyConsumer
<1>2. (\E n \in Names : RegisterCategory(t, n)) \/ Register(t) => systemLog' = systemLog
  BY DEF RegisterCategory, Register
<1>3. Proceed(t) => systemLog' = systemLog
  BY DEF Proceed, Lookup, OpenFirst, Write, PutOut, Deliver, Unlock, SetLevels, OpenFile,
         OpenNamed, Opened, CompareName, CloseFile, RotateRename, RotateOpen, ConsumerDies
<1> QED
  BY <1>1, <1>2, <1>3

\* No dead consumer is on the list of the process-wide logger: one that is destroyed
\* waits for its lock, and takes all its entries off.  The list that is worked off is
\* the list itself, which nobody changes while the lock is held
\* (logconsumer.cpp:10-13, log.cpp:254-266).
LEMMA SinksAliveInductive ==
    ASSUME LoggerInv, SinksAlive, Next
    PROVE  SinksAlive'
<1>1. PICK t \in Threads : \/ Call(t)
                           \/ \E n \in Names : RegisterCategory(t, n)
                           \/ Register(t)
                           \/ Proceed(t)
  BY DEF Next
<1>2. /\ surplus \in Seq(Consumers) /\ life \in [Consumers -> {"alive", "dying", "dead"}]
      /\ pc \in [Threads -> Locations] /\ arg \in [Threads -> Arguments]
      /\ lock \in Threads \cup {Nobody} /\ Nobody \notin Threads
      /\ \A u \in Threads : pc[u] = "deliver" => lock = u
      /\ DataOK
  BY <1>1, LoggerAssumption, InvFacts DEF DataOK, LoggerInv, TypeOK, Locked
<1> DEFINE Living == {k \in Consumers : life[k] # "dead"}
<1>3. systemLog => surplus \in Seq(Living)
  BY <1>2, NoneDeadMeans DEF SinksAlive
<1>4. CASE Write(t)
  <2>1. UNCHANGED <<systemLog, surplus, life>> /\ lock = Nobody
    BY <1>4 DEF Write, PutOut, Take, consumers, settings
  <2>2. ASSUME NEW u \in Threads, pc'[u] = "deliver" PROVE arg'[u].sinks = surplus
    <3>1. u = t
      BY <1>2, <1>4, <2>1, <2>2 DEF Write, PutOut, Goto
    <3>2. arg'[t].sinks = surplus
      BY <1>2, <1>4 DEF Write, PutOut, Arguments
    <3> QED
      BY <3>1, <3>2
  <2>3. AllListed(surplus, surplus)
    BY DEF AllListed, Contains
  <2> QED
    BY <2>1, <2>2, <2>3 DEF SinksAlive, NoneDead, AllListed, Contains
<1>5. CASE Deliver(t)
  <2>1. UNCHANGED <<systemLog, surplus, life, pc>> /\ pc[t] = "deliver"
    BY <1>5 DEF Deliver, settings
  <2>2. \A u \in Threads : u # t => arg'[u] = arg[u]
    BY <1>2, <1>5 DEF Deliver
  <2>3. AllListed(arg'[t].sinks, surplus)
    <3>1. arg'[t].sinks = Tail(arg[t].sinks) /\ arg[t].sinks \in Seq(Consumers) /\ arg[t].sinks # <<>>
      BY <1>2, <1>5 DEF Deliver, Arguments
    <3>2. \A i \in 1..Len(Tail(arg[t].sinks)) : /\ i + 1 \in 1..Len(arg[t].sinks)
                                              /\ Tail(arg[t].sinks)[i] = arg[t].sinks[i + 1]
      BY <3>1
    <3>3. AllListed(arg[t].sinks, surplus)
      BY <2>1 DEF SinksAlive
    <3> QED
      BY <3>1, <3>2, <3>3 DEF AllListed
  <2> QED
    BY <2>1, <2>2, <2>3 DEF SinksAlive, NoneDead, AllListed, Contains
<1>6. CASE /\ ~Write(t) /\ ~Deliver(t)
  <2>1. \A u \in Threads : pc'[u] = "deliver" => pc[u] = "deliver" /\ arg'[u] = arg[u]
    BY <1>1, <1>6, DeliverersStay
  <2>2. systemLog' = systemLog
    BY <1>1, KindStays
  <2>3. CASE UNCHANGED <<surplus, life, received>>
    BY <2>1, <2>2, <2>3 DEF SinksAlive, NoneDead, AllListed, Contains
  <2>4. ASSUME lock = Nobody, systemLog => NoneDead(surplus', life') PROVE SinksAlive'
    BY <1>2, <2>1, <2>2, <2>4 DEF SinksAlive, NoneDead
  <2>5. ASSUME NEW k \in Consumers, AddConsumer(t, k) PROVE SinksAlive'
    <3>1. surplus' = Append(surplus, k) /\ life' = life /\ life[k] = "alive" /\ lock = Nobody
      BY <2>5 DEF AddConsumer, Free
    <3>2. ASSUME systemLog PROVE NoneDead(surplus', life')
      <4> SUFFICES ASSUME NEW i \in 1..Len(surplus') PROVE life[surplus'[i]] # "dead"
        BY <3>1 DEF NoneDead
      <4>1. (i \in 1..Len(surplus) /\ surplus'[i] = surplus[i]) \/ surplus'[i] = k
        BY <1>2, <3>1
      <4> QED
        BY <3>1, <3>2, <4>1 DEF SinksAlive, NoneDead
    <3> QED
      BY <2>4, <3>1, <3>2
  <2>6. ASSUME NEW k \in Consumers, RemoveConsumer(t, k) PROVE SinksAlive'
    <3>1. surplus' = Without(surplus, k) /\ life' = life /\ lock = Nobody
      BY <2>6 DEF RemoveConsumer, Free
    <3>2. ASSUME systemLog PROVE NoneDead(surplus', life')
      <4>1. surplus' \in Seq(Living \ {k})
        <5> HIDE DEF Living
        <5> QED
          BY <1>3, <3>1, <3>2, WithoutLeavesOthers
      <4> QED
        BY <3>1, <4>1 DEF NoneDead
    <3> QED
      BY <2>4, <3>1, <3>2
  <2>7. ASSUME NEW k \in Consumers, DestroyConsumer(t, k) PROVE SinksAlive'
    <3>1. surplus' = surplus /\ life' = [life EXCEPT ![k] = "dying"]
      BY <2>7 DEF DestroyConsumer
    <3>2. \A j \in Consumers : life[j] # "dead" => life'[j] # "dead"
      BY <1>2, <3>1
    <3>3. systemLog => NoneDead(surplus, life')
      BY <1>2, <3>2 DEF SinksAlive, NoneDead
    <3> QED
      BY <2>1, <2>2, <3>1, <3>3 DEF SinksAlive, NoneDead, AllListed, Contains
  <2>8. CASE ConsumerDies(t) /\ systemLog
    <3> DEFINE k == Head(arg[t].sinks)
    <3>1. surplus' = Without(surplus, k) /\ life' = [life EXCEPT ![k] = "dead"] /\ lock = Nobody
      BY <2>8 DEF ConsumerDies, Free
    <3>2. surplus' \in Seq(Living \ {k})
      <4> HIDE DEF Living, k
      <4> QED
        BY <1>3, <2>8, <3>1, WithoutLeavesOthers
    <3>3. \A i \in 1..Len(surplus') : surplus'[i] \in Living \ {k}
      <4> HIDE DEF Living, k
      <4> QED
        BY <3>2
    <3>4. NoneDead(surplus', life')
      <4> HIDE DEF k
      <4> QED
        BY <1>2, <3>1, <3>3 DEF NoneDead
    <3> QED
      BY <2>4, <3>1, <3>4
  <2>9. CASE ConsumerDies(t) /\ ~systemLog
    <3>1. surplus' = surplus
      BY <2>9 DEF ConsumerDies
    <3> QED
      BY <2>1, <2>2, <2>9, <3>1 DEF SinksAlive, NoneDead, AllListed, Contains
  <2> QED
    BY <1>1, <1>6, <2>3, <2>5, <2>6, <2>7, <2>8, <2>9, ConsumersStay
<1> QED
  BY <1>4, <1>5, <1>6

\* A consumer that is handed an entry is on the list, and in the process-wide logger
\* it is not dead (log.cpp:108-112, 254-266, logconsumer.cpp:10-13).
THEOREM NothingToTheDeadHolds == Spec => NothingToTheDead
<1> DEFINE Inv == LoggerInv /\ SinksAlive
           NotDead == \A k \in Consumers :
                          received'[k] # received[k]
                              => Contains(surplus, k) /\ (systemLog => life[k] # "dead")
<1>1. HistoryInit => Inv
  <2>1. HistoryInit => SinksAlive
    BY DEF HistoryInit, Init, SinksAlive, NoneDead, AllListed
  <2> QED
    BY <2>1, LoggerInvInductive
<1>2. Inv /\ [Next]_historyVars => Inv'
  <2>1. ASSUME SinksAlive, UNCHANGED historyVars PROVE SinksAlive'
    BY <2>1 DEF SinksAlive, NoneDead, AllListed, Contains, historyVars, vars, settings, consumers
  <2> QED
    BY <2>1, SinksAliveInductive, LoggerInvInductive
<1>3. Inv /\ [Next]_historyVars => [NotDead]_historyVars
  <2> SUFFICES ASSUME Inv, Next PROVE NotDead
    OBVIOUS
  <2>1. PICK t \in Threads : \/ Call(t)
                             \/ \E n \in Names : RegisterCategory(t, n)
                             \/ Register(t)
                             \/ Proceed(t)
    BY DEF Next
  <2>2. CASE Deliver(t)
    <3> DEFINE k == Head(arg[t].sinks)
    <3>1. /\ arg[t].sinks \in Seq(Consumers) /\ arg[t].sinks # <<>>
          /\ AllListed(arg[t].sinks, surplus)
      BY <2>2, InvFacts DEF Deliver, Arguments, SinksAlive
    <3>2. Contains(surplus, k)
      BY <3>1 DEF AllListed
    <3>3. systemLog => life[k] # "dead"
      BY <3>2 DEF SinksAlive, NoneDead, Contains
    <3>4. \A j \in Consumers : j # k => received'[j] = received[j]
      BY <2>2, InvFacts DEF Deliver, DataOK
    <3> HIDE DEF k
    <3> QED
      BY <3>2, <3>3, <3>4
  <2>3. CASE ~Deliver(t)
    <3>1. received' = received
      <4>1. CASE Write(t)
        BY <4>1 DEF Write, PutOut, consumers
      <4>2. CASE OpenNamed(t)
        BY <4>2 DEF OpenNamed, consumers
      <4>3. CASE RotateRename(t)
        BY <4>3 DEF RotateRename, consumers
      <4> QED
        BY <2>1, <2>3, <4>1, <4>2, <4>3, OutputStays
    <3> QED
      BY <3>1
  <2> QED
    BY <2>2, <2>3
<1> QED
  BY <1>1, <1>2, <1>3, PTL DEF Spec, NothingToTheDead

-----------------------------------------------------------------------------
(* The levels of categories                                                *)

\* The first k members of a sequence.
LEMMA BeginningOf ==
    ASSUME NEW S, NEW s \in Seq(S), NEW k \in 0..Len(s)
    PROVE  /\ SubSeq(s, 1, k) \in Seq(S) /\ Len(SubSeq(s, 1, k)) = k
           /\ \A i \in 1..k : SubSeq(s, 1, k)[i] = s[i]
OBVIOUS

\* A category is below another if its parent is that one or is below it.
LEMMA BelowByParent ==
    ASSUME NEW n \in Seq(Components), n # <<>>, NEW other \in Seq(Components)
    PROVE  /\ ParentName(n) # n
           /\ IsChildOf(n, other) <=> other = ParentName(n) \/ IsChildOf(ParentName(n), other)
<1> DEFINE m == Front(n)
<1>1. /\ m \in Seq(Components) /\ Len(m) = Len(n) - 1 /\ Len(n) \in Nat /\ Len(n) > 0
      /\ Len(other) \in Nat
      /\ \A i \in 1..Len(m) : m[i] = n[i]
  <2>1. Len(n) \in Nat /\ Len(n) > 0 /\ Len(other) \in Nat
    OBVIOUS
  <2>2. /\ SubSeq(n, 1, Len(n) - 1) \in Seq(Components)
        /\ Len(SubSeq(n, 1, Len(n) - 1)) = Len(n) - 1
        /\ \A i \in 1..(Len(n) - 1) : SubSeq(n, 1, Len(n) - 1)[i] = n[i]
    <3>1. Len(n) - 1 \in 0..Len(n)
      BY <2>1
    <3> QED
      BY <3>1, BeginningOf
  <2> QED
    BY <2>1, <2>2 DEF Front
<1>2. ParentName(n) = m
  BY DEF ParentName
<1> HIDE DEF m
<1>3. ASSUME NEW s \in Seq(Components), Len(other) <= Len(s)
      PROVE  SubSeq(other, 1, Len(other)) = SubSeq(s, 1, Len(other))
             <=> \A i \in 1..Len(other) : other[i] = s[i]
  BY <1>1, <1>3
<1>4. \A s \in Seq(Components) :
          IsChildOf(s, other) <=> /\ Len(other) <= Len(s) /\ s # other
                                  /\ \A i \in 1..Len(other) : other[i] = s[i]
  BY <1>3 DEF IsChildOf, IsStrictPrefix, IsPrefix
<1>5. \A s \in Seq(Components) :
          s = other <=> Len(s) = Len(other) /\ \A i \in 1..Len(other) : other[i] = s[i]
  BY <1>1
<1>6. \A s \in Seq(Components) :
          IsChildOf(s, other) <=> /\ Len(other) < Len(s)
                                  /\ \A i \in 1..Len(other) : other[i] = s[i]
  <2> TAKE s \in Seq(Components)
  <2>1. Len(s) \in Nat
    OBVIOUS
  <2> QED
    BY <1>1, <1>4, <1>5, <2>1
<1>7. (\A i \in 1..Len(other) : other[i] = n[i] /\ Len(other) < Len(n))
      => \A i \in 1..Len(other) : i \in 1..Len(m) /\ other[i] = m[i]
  BY <1>1
<1>8. IsChildOf(n, other) <=> /\ Len(other) <= Len(m)
                              /\ \A i \in 1..Len(other) : other[i] = m[i]
  <2>1. IsChildOf(n, other) <=> /\ Len(other) < Len(n)
                                /\ \A i \in 1..Len(other) : other[i] = n[i]
    BY <1>6
  <2>2. Len(other) < Len(n) <=> Len(other) <= Len(m)
    BY <1>1
  <2>3. Len(other) <= Len(m) => \A i \in 1..Len(other) : m[i] = n[i]
    BY <1>1
  <2> QED
    BY <2>1, <2>2, <2>3
<1>9. IsChildOf(n, other) <=> other = m \/ IsChildOf(m, other)
  BY <1>1, <1>5, <1>6, <1>8
<1>10. m # n
  BY <1>1
<1> QED
  BY <1>2, <1>9, <1>10

\* Only registering and setting a level changes levels, and who sets one.
LEMMA LevelsStay ==
    ASSUME LoggerInv, NEW t \in Threads,
           \/ Call(t)
           \/ \E n \in Names : RegisterCategory(t, n)
           \/ Proceed(t) /\ ~SetLevels(t)
    PROVE  /\ categories' = categories
           /\ \A u \in Threads : /\ pc'[u] = "setLevel" <=> pc[u] = "setLevel"
                                 /\ pc[u] = "setLevel" => arg'[u] = arg[u]
<1> USE DEF Goto, Return
<1> DEFINE Stay == /\ categories' = categories
                   /\ \A u \in Threads : /\ pc'[u] = "setLevel" <=> pc[u] = "setLevel"
                                         /\ pc[u] = "setLevel" => arg'[u] = arg[u]
<1>0. pc \in [Threads -> Locations] /\ arg \in [Threads -> Arguments]
  BY InvFacts
<1>1. ASSUME NEW n \in Names \cup {NoName}, NEW v \in Levels, LogText(t, n, v) PROVE Stay
  BY <1>0, <1>1 DEF LogText
<1>2. ASSUME NEW n \in Names \cup {NoName}, NEW v \in Levels, LogHex(t, n, v) PROVE Stay
  BY <1>0, <1>2 DEF LogHex
<1>3. ASSUME NEW v \in Levels, SetLevel(t, v) PROVE Stay
  BY <1>0, <1>3 DEF SetLevel
<1>4. ASSUME NEW on \in BOOLEAN, SetToFile(t, on) PROVE Stay
  BY <1>0, <1>4 DEF SetToFile
<1>5. ASSUME NEW n \in Names, NEW v \in Levels, SetCategoryLevel(t, n, v) PROVE Stay
  BY <1>0, <1>5 DEF SetCategoryLevel
<1>6. ASSUME NEW p \in Paths, SetFilename(t, p) PROVE Stay
  BY <1>0, <1>6 DEF SetFilename
<1>7. ASSUME NEW p \in Paths, RotateLog(t, p) PROVE Stay
  BY <1>0, <1>7 DEF RotateLog
<1>8. ASSUME NEW k \in Consumers, AddConsumer(t, k) PROVE Stay
  BY <1>0, <1>8 DEF AddConsumer
<1>9. ASSUME NEW k \in Consumers, RemoveConsumer(t, k) PROVE Stay
  BY <1>0, <1>9 DEF RemoveConsumer
<1>10. ASSUME NEW k \in Consumers, DestroyConsumer(t, k) PROVE Stay
  BY <1>0, <1>10 DEF DestroyConsumer
<1>11. ASSUME NEW n \in Names, RegisterCategory(t, n) PROVE Stay
  BY <1>0, <1>11 DEF RegisterCategory
<1>12. ASSUME Lookup(t) PROVE Stay
  BY <1>0, <1>12 DEF Lookup
<1>13. ASSUME OpenFirst(t) PROVE Stay
  BY <1>0, <1>13 DEF OpenFirst, OpenLog
<1>14. ASSUME Write(t) PROVE Stay
  BY <1>0, <1>14 DEF Write, PutOut
<1>15. ASSUME Deliver(t) PROVE Stay
  BY <1>0, <1>15 DEF Deliver
<1>16. ASSUME Unlock(t) PROVE Stay
  BY <1>0, <1>16 DEF Unlock
<1>17. ASSUME OpenFile(t) PROVE Stay
  BY <1>0, <1>17 DEF OpenFile
<1>18. ASSUME OpenNamed(t) PROVE Stay
  BY <1>0, <1>18 DEF OpenNamed
<1>19. ASSUME Opened(t) PROVE Stay
  BY <1>0, <1>19 DEF Opened
<1>20. ASSUME CompareName(t) PROVE Stay
  BY <1>0, <1>20 DEF CompareName
<1>21. ASSUME CloseFile(t) PROVE Stay
  BY <1>0, <1>21 DEF CloseFile
<1>22. ASSUME RotateRename(t) PROVE Stay
  BY <1>0, <1>22 DEF RotateRename
<1>23. ASSUME RotateOpen(t) PROVE Stay
  BY <1>0, <1>23 DEF RotateOpen, OpenLog
<1>24. ASSUME ConsumerDies(t) PROVE Stay
  BY <1>0, <1>24 DEF ConsumerDies
<1>25. Call(t) => Stay
  BY <1>1, <1>2, <1>3, <1>4, <1>5, <1>6, <1>7, <1>8, <1>9, <1>10 DEF Call
<1>26. Proceed(t) /\ ~SetLevels(t) => Stay
  BY <1>12, <1>13, <1>14, <1>15, <1>16, <1>17, <1>18, <1>19, <1>20, <1>21, <1>22, <1>23, <1>24 DEF Proceed
<1> QED
  BY <1>11, <1>25, <1>26

\* The heirs through a registration: one that is new and has a registered parent
\* is one more, and the children of one that is registered again are none.
LEMMA HeirsThroughRegister ==
    ASSUME LoggerInv, HeirsRegistered, HeirsFollow, NEW t \in Threads, Register(t),
           heirs' = HeirsAfter(arg[t].cat, pc[t] = "registerToSet")
    PROVE  HeirsRegistered' /\ HeirsFollow'
<1> DEFINE c == arg[t].cat
           isNew == ~Listed(c, categories) /\ Listed(ParentName(c), categories)
<1>1. /\ c \in Names /\ c \in Seq(Components) /\ c # <<>> /\ heirs \subseteq Names
      /\ categories \in [Names -> Levels \cup {Unregistered}]
      /\ Debug \in Levels /\ Unregistered \notin Levels
      /\ pc \in [Threads -> Locations] /\ arg \in [Threads -> Arguments]
  BY InvFacts, LoggerAssumption
     DEF LoggerInv, HistoryTypeOK, CallFits, Register, DataOK, Levels
<1>2. categories' = [categories EXCEPT ![c] = IF isNew THEN categories[ParentName(c)] ELSE Debug]
  BY DEF Register, LevelOfRegistered, Registered, Listed
<1>3. ParentName(c) # c
  BY <1>1, BelowByParent
<1>4. /\ \A u \in Threads : u # t => pc'[u] = pc[u] /\ arg'[u] = arg[u]
      /\ pc[t] # "setLevel"
      /\ pc[t] = "register" => pc'[t] = "idle"
      /\ pc[t] = "registerToSet" => pc'[t] = "setLevel" /\ arg'[t] = arg[t]
      /\ pc[t] \in {"register", "registerToSet"}
  BY <1>1 DEF Register, Goto, Return
<1>5. /\ \A n \in Names : n # c => categories'[n] = categories[n]
      /\ \A n : Listed(n, categories) => Listed(n, categories')
      /\ Listed(c, categories')
      /\ isNew => categories'[c] = categories[ParentName(c)]
  BY <1>1, <1>2 DEF Listed
<1>6. \A n \in heirs : Listed(n, categories) /\ Listed(ParentName(n), categories) /\ ParentName(n) \in Names
  BY DEF HeirsRegistered, Listed
<1>7. /\ isNew => heirs' = IF pc[t] = "registerToSet" THEN heirs ELSE heirs \cup {c}
      /\ ~isNew => heirs' = IF pc[t] = "registerToSet" THEN heirs \ {c}
                            ELSE heirs \ ({c} \cup Children(c))
  BY DEF HeirsAfter, Registered, Listed
<1>8. \A n \in heirs' : n \in heirs \/ (isNew /\ n = c /\ pc[t] = "register")
  BY <1>4, <1>7
<1>9. ASSUME NEW n \in heirs'
      PROVE  /\ Listed(n, categories') /\ Listed(ParentName(n), categories')
             /\ \/ categories'[n] = categories'[ParentName(n)]
                \/ \E u \in Threads : pc'[u] = "setLevel" /\ arg'[u].cat = ParentName(n)
  <2>1. CASE isNew /\ n = c
    <3>1. Listed(c, categories') /\ Listed(ParentName(c), categories')
      BY <1>5, <2>1
    <3>2. ParentName(c) \in Names
      BY <2>1 DEF Listed
    <3>3. categories'[ParentName(c)] = categories[ParentName(c)]
      BY <1>3, <1>5, <3>2
    <3>4. categories'[c] = categories'[ParentName(c)]
      BY <1>5, <2>1, <3>3
    <3> HIDE DEF c, isNew
    <3> QED
      BY <2>1, <3>1, <3>4 DEF ParentName
  <2>2. CASE n \in heirs /\ n # c
    <3>1. Listed(n, categories) /\ Listed(ParentName(n), categories) /\ n \in Names /\ ParentName(n) \in Names
      BY <1>1, <1>6, <2>2
    <3>2. Listed(n, categories')
      BY <1>5, <3>1
    <3>3. Listed(ParentName(n), categories')
      BY <1>5, <3>1 DEF Listed, ParentName
    <3>4. CASE ParentName(n) = c
      <4>1. ~isNew /\ n \in Children(c)
        BY <3>1, <3>4 DEF Children
      <4>2. pc[t] = "registerToSet"
        BY <1>4, <1>7, <4>1
      <4> QED
        BY <1>4, <3>2, <3>3, <3>4, <4>2
    <3>5. CASE ParentName(n) # c
      <4>1. categories'[n] = categories[n] /\ categories'[ParentName(n)] = categories[ParentName(n)]
        BY <1>5, <2>2, <3>1, <3>5
      <4>2. CASE categories[n] = categories[ParentName(n)]
        BY <3>2, <3>3, <4>1, <4>2
      <4>3. CASE \E u \in Threads : pc[u] = "setLevel" /\ arg[u].cat = ParentName(n)
        BY <1>4, <3>2, <3>3, <4>3
      <4> QED
        BY <2>2, <4>2, <4>3 DEF HeirsFollow
    <3> QED
      BY <3>4, <3>5
  <2>3. n \in heirs /\ n = c => isNew
    BY <1>4, <1>7
  <2>4. n \in heirs => n # c
    <3>1. n \in heirs => Listed(n, categories)
      BY <1>6
    <3> QED
      BY <2>3, <3>1
  <2> QED
    BY <1>8, <2>1, <2>2, <2>4
<1>10. ASSUME NEW u \in Threads, pc'[u] = "setLevel"
       PROVE  Listed(arg'[u].cat, categories') /\ arg'[u].cat \notin heirs'
  <2>1. CASE u = t
    <3>1. pc[t] = "registerToSet" /\ arg'[u].cat = c
      BY <1>4, <1>10, <2>1
    <3>2. c \notin heirs'
      <4>1. isNew => c \notin heirs
        BY <1>6
      <4> QED
        BY <1>7, <3>1, <4>1
    <3> QED
      BY <1>5, <3>1, <3>2 DEF Listed
  <2>2. CASE u # t
    <3>1. pc[u] = "setLevel" /\ arg'[u] = arg[u]
      BY <1>4, <1>10, <2>2
    <3>2. Listed(arg[u].cat, categories) /\ arg[u].cat \notin heirs
      BY <3>1 DEF HeirsRegistered
    <3>3. isNew => arg[u].cat # c
      BY <3>2
    <3>4. arg[u].cat \notin heirs'
      BY <1>8, <3>2, <3>3
    <3> QED
      BY <1>5, <3>1, <3>2, <3>4 DEF Listed
  <2> QED
    BY <2>1, <2>2
<1> QED
  BY <1>9, <1>10 DEF HeirsRegistered, HeirsFollow, Listed, ParentName

\* The heirs through the setting of a level: who is below the category is set with
\* its parent.
LEMMA HeirsThroughSetLevels ==
    ASSUME LoggerInv, HeirsRegistered, HeirsFollow, NEW t \in Threads, SetLevels(t),
           heirs' = heirs
    PROVE  HeirsRegistered' /\ HeirsFollow'
<1> DEFINE c == arg[t].cat
           v == arg[t].sev
<1>1. /\ c \in Names /\ heirs \subseteq Names /\ v \in Levels
      /\ Names \subseteq Seq(Components) /\ <<>> \notin Names
      /\ categories \in [Names -> Levels \cup {Unregistered}] /\ Unregistered \notin Levels
      /\ pc \in [Threads -> Locations] /\ arg \in [Threads -> Arguments]
  BY InvFacts, LoggerAssumption
     DEF LoggerInv, HistoryTypeOK, CallFits, SetLevels, DataOK, Levels, Arguments
<1>2. Listed(c, categories) /\ c \notin heirs /\ pc[t] = "setLevel"
  BY DEF HeirsRegistered, SetLevels
<1>3. /\ \A u \in Threads : u # t => pc'[u] = pc[u] /\ arg'[u] = arg[u]
      /\ pc'[t] = "idle"
  BY <1>1 DEF SetLevels, Goto, Return
<1>4. \A n \in Names :
          categories'[n] = IF n = c \/ (Listed(n, categories) /\ IsChildOf(n, c)) THEN v ELSE categories[n]
  BY DEF SetLevels, Registered, Listed
<1>5. \A n : Listed(n, categories) => Listed(n, categories')
  BY <1>1, <1>4 DEF Listed
<1>6. ASSUME NEW n \in heirs
      PROVE  /\ Listed(n, categories') /\ Listed(ParentName(n), categories')
             /\ \/ categories'[n] = categories'[ParentName(n)]
                \/ \E u \in Threads : pc'[u] = "setLevel" /\ arg'[u].cat = ParentName(n)
  <2> DEFINE m == ParentName(n)
  <2>1. /\ Listed(n, categories) /\ Listed(m, categories) /\ n \in Names /\ m \in Names /\ n # c
    BY <1>1, <1>2 DEF HeirsRegistered, Listed
  <2>2. Listed(n, categories') /\ Listed(ParentName(n), categories')
    BY <1>5, <2>1 DEF Listed, ParentName
  <2>3. IsChildOf(n, c) <=> c = m \/ IsChildOf(m, c)
    BY <1>1, <2>1, BelowByParent
  <2> HIDE DEF m, c, v
  <2>4. CASE IsChildOf(n, c)
    <3>1. categories'[n] = v /\ categories'[m] = v
      BY <1>4, <2>1, <2>3, <2>4
    <3> QED
      BY <2>2, <3>1 DEF m
  <2>5. CASE ~IsChildOf(n, c)
    <3>1. categories'[n] = categories[n] /\ categories'[m] = categories[m] /\ m # c
      BY <1>4, <2>1, <2>3, <2>5
    <3>2. CASE categories[n] = categories[m]
      BY <2>2, <3>1, <3>2 DEF m
    <3>3. CASE \E u \in Threads : pc[u] = "setLevel" /\ arg[u].cat = m
      <4>1. PICK u \in Threads : pc[u] = "setLevel" /\ arg[u].cat = m
        BY <3>3
      <4>2. u # t
        BY <3>1, <4>1 DEF c
      <4> QED
        BY <1>3, <2>2, <4>1, <4>2 DEF m
    <3> QED
      BY <3>2, <3>3 DEF HeirsFollow, m
  <2> QED
    BY <2>4, <2>5
<1>7. ASSUME NEW u \in Threads, pc'[u] = "setLevel"
      PROVE  Listed(arg'[u].cat, categories') /\ arg'[u].cat \notin heirs'
  <2>1. pc[u] = "setLevel" /\ arg'[u] = arg[u]
    BY <1>3, <1>7
  <2>2. Listed(arg[u].cat, categories) /\ arg[u].cat \notin heirs
    BY <2>1 DEF HeirsRegistered
  <2> QED
    BY <1>5, <2>1, <2>2 DEF Listed
<1> QED
  BY <1>6, <1>7 DEF HeirsRegistered, HeirsFollow, Listed, ParentName

\* An heir has the level of its parent, or somebody is about to set it
\* (log.cpp:196-216, 239-252).
THEOREM HeirsFollowHolds == Spec => []HeirsFollow
<1> DEFINE Inv == LoggerInv /\ HeirsRegistered /\ HeirsFollow
<1>1. HistoryInit => HeirsRegistered /\ HeirsFollow
  BY DEF HistoryInit, Init, HeirsRegistered, HeirsFollow
<1>2. ASSUME LoggerInv, HeirsRegistered, HeirsFollow, Next
      PROVE  HeirsRegistered' /\ HeirsFollow'
  <2>1. PICK t \in Threads :
           \/ /\ Call(t) \/ Proceed(t) \/ \E n \in Names : RegisterCategory(t, n)
              /\ heirs' = heirs
           \/ Register(t) /\ heirs' = HeirsAfter(arg[t].cat, pc[t] = "registerToSet")
    BY <1>2 DEF Next
  <2>2. CASE Register(t) /\ heirs' = HeirsAfter(arg[t].cat, pc[t] = "registerToSet")
    BY <1>2, <2>2, HeirsThroughRegister
  <2>3. CASE SetLevels(t) /\ heirs' = heirs
    BY <1>2, <2>3, HeirsThroughSetLevels
  <2>4. CASE /\ \/ Call(t)
                \/ \E n \in Names : RegisterCategory(t, n)
                \/ Proceed(t) /\ ~SetLevels(t)
             /\ heirs' = heirs
    <3>1. /\ categories' = categories
          /\ \A u \in Threads : /\ pc'[u] = "setLevel" <=> pc[u] = "setLevel"
                                /\ pc[u] = "setLevel" => arg'[u] = arg[u]
      BY <1>2, <2>4, LevelsStay
    <3>2. HeirsRegistered'
      BY <1>2, <2>4, <3>1 DEF HeirsRegistered, Listed, ParentName
    <3>3. HeirsFollow'
      BY <1>2, <2>4, <3>1 DEF HeirsFollow, ParentName
    <3> QED
      BY <3>2, <3>3
  <2> QED
    BY <2>1, <2>2, <2>3, <2>4
<1>3. ASSUME HeirsRegistered, HeirsFollow, UNCHANGED historyVars
      PROVE  HeirsRegistered' /\ HeirsFollow'
  BY <1>3 DEF HeirsRegistered, HeirsFollow, Listed, ParentName, historyVars, vars
<1>4. HistoryInit => Inv
  BY <1>1, LoggerInvInductive
<1>5. Inv /\ [Next]_historyVars => Inv'
  BY <1>2, <1>3, LoggerInvInductive
<1>6. Inv => HeirsFollow
  OBVIOUS
<1> QED
  BY <1>4, <1>5, <1>6, PTL DEF Spec

-----------------------------------------------------------------------------
(* The file                                                                *)

FileSteps(t) ==
    \/ \E p \in Paths : SetFilename(t, p) \/ RotateLog(t, p)
    \/ OpenFirst(t) \/ CompareName(t) \/ CloseFile(t) \/ OpenFile(t) \/ OpenNamed(t)
    \/ Opened(t) \/ RotateRename(t) \/ RotateOpen(t)

\* The other steps leave the file alone, and who is in a call about it.
LEMMA FileStays ==
    ASSUME LoggerInv, NEW t \in Threads, ~FileSteps(t),
           \/ Call(t)
           \/ \E n \in Names : RegisterCategory(t, n)
           \/ Register(t)
           \/ Proceed(t)
    PROVE  /\ filename' = filename /\ file' = file
           /\ \A u \in Threads : /\ pc'[u] \in FileCalls <=> pc[u] \in FileCalls
                                 /\ pc[u] \in FileCalls => pc'[u] = pc[u] /\ arg'[u] = arg[u]
<1> USE DEF Goto, Return, FileCalls, files
<1> DEFINE Stay == /\ filename' = filename /\ file' = file
                   /\ \A u \in Threads : /\ pc'[u] \in FileCalls <=> pc[u] \in FileCalls
                                         /\ pc[u] \in FileCalls => pc'[u] = pc[u] /\ arg'[u] = arg[u]
<1>0. pc \in [Threads -> Locations] /\ arg \in [Threads -> Arguments]
  BY InvFacts
<1>1. ASSUME NEW n \in Names \cup {NoName}, NEW v \in Levels, LogText(t, n, v) PROVE Stay
  BY <1>0, <1>1 DEF LogText
<1>2. ASSUME NEW n \in Names \cup {NoName}, NEW v \in Levels, LogHex(t, n, v) PROVE Stay
  BY <1>0, <1>2 DEF LogHex
<1>3. ASSUME NEW v \in Levels, SetLevel(t, v) PROVE Stay
  BY <1>0, <1>3 DEF SetLevel
<1>4. ASSUME NEW on \in BOOLEAN, SetToFile(t, on) PROVE Stay
  BY <1>0, <1>4 DEF SetToFile
<1>5. ASSUME NEW n \in Names, NEW v \in Levels, SetCategoryLevel(t, n, v) PROVE Stay
  BY <1>0, <1>5 DEF SetCategoryLevel
<1>6. ASSUME NEW k \in Consumers, AddConsumer(t, k) PROVE Stay
  BY <1>0, <1>6 DEF AddConsumer
<1>7. ASSUME NEW k \in Consumers, RemoveConsumer(t, k) PROVE Stay
  BY <1>0, <1>7 DEF RemoveConsumer
<1>8. ASSUME NEW k \in Consumers, DestroyConsumer(t, k) PROVE Stay
  BY <1>0, <1>8 DEF DestroyConsumer
<1>9. ASSUME NEW n \in Names, RegisterCategory(t, n) PROVE Stay
  BY <1>0, <1>9 DEF RegisterCategory
<1>10. ASSUME Register(t) PROVE Stay
  BY <1>0, <1>10 DEF Register
<1>11. ASSUME Lookup(t) PROVE Stay
  BY <1>0, <1>11 DEF Lookup
<1>12. ASSUME Write(t) PROVE Stay
  BY <1>0, <1>12 DEF Write, PutOut
<1>13. ASSUME Deliver(t) PROVE Stay
  BY <1>0, <1>13 DEF Deliver
<1>14. ASSUME Unlock(t) PROVE Stay
  BY <1>0, <1>14 DEF Unlock
<1>15. ASSUME SetLevels(t) PROVE Stay
  BY <1>0, <1>15 DEF SetLevels
<1>16. ASSUME ConsumerDies(t) PROVE Stay
  BY <1>0, <1>16 DEF ConsumerDies
<1>17. Call(t) => Stay
  BY <1>1, <1>2, <1>3, <1>4, <1>5, <1>6, <1>7, <1>8 DEF Call, FileSteps
<1>18. Proceed(t) => Stay
  BY <1>11, <1>12, <1>13, <1>14, <1>15, <1>16 DEF Proceed, FileSteps
<1> QED
  BY <1>9, <1>10, <1>17, <1>18

\* If no calls have crossed after a step, one thread at most is in a call about the
\* file, and none had crossed before unless a setFilename() has just begun.
LEMMA NotCrossed ==
    ASSUME RememberFileCalls, ~crossed',
           ~\E u \in Threads : /\ pc'[u] \in FileCalls /\ arg[u].call = "none"
                               /\ arg'[u].call = "setFilename"
    PROVE  ~crossed
<1>1. ~\E u \in AboutTheFile' : arg[u].call = "none" /\ arg'[u].call = "setFilename"
  BY DEF AboutTheFile
<1> QED
  BY <1>1, Zenon DEF RememberFileCalls

LEMMA AloneAfter ==
    ASSUME RememberFileCalls, ~crossed'
    PROVE  \A u, w \in Threads : pc'[u] \in FileCalls /\ pc'[w] \in FileCalls => u = w
<1>1. ~\E u, w \in AboutTheFile' : u # w
  BY Zenon DEF RememberFileCalls
<1> QED
  BY <1>1 DEF AboutTheFile

\* A step of the calls about the file takes it nearer to _filename, if no other
\* thread is in such a call; who leaves the call leaves the file settled.
LEMMA StepSettles ==
    ASSUME LoggerInv, NEW t \in Threads, FileSteps(t), ~crossed',
           RememberFileCalls, FileSettles, FileIsFilename, OneAboutFile
    PROVE  /\ \A u \in Threads : u # t => pc'[u] = pc[u] /\ arg'[u] = arg[u]
           /\ pc'[t] \in FileCalls => Settled(pc'[t], arg'[t], filename', file')
           /\ pc'[t] \notin FileCalls =>
                 /\ filename' = filename /\ file' = file /\ ~crossed
                 /\ file.open /\ pc[t] \in FileCalls => file.name = filename
<1> USE DEF Goto, Return
<1>0. /\ pc \in [Threads -> Locations] /\ arg \in [Threads -> Arguments]
      /\ pc[t] \in Locations /\ arg[t] \in Arguments
      /\ CallFits(pc[t], arg[t])
      /\ file \in [open : BOOLEAN, name : Paths \cup {NoPath}]
  BY InvFacts DEF DataOK
<1>1. \A u \in Threads : u # t => pc'[u] = pc[u] /\ arg'[u] = arg[u]
  BY <1>0 DEF FileSteps, SetFilename, RotateLog, OpenFirst, OpenLog, CompareName, CloseFile,
              OpenFile, OpenNamed, Opened, RotateRename, RotateOpen
<1>2. pc'[t] \in FileCalls => \A u \in Threads : pc'[u] \in FileCalls => u = t
  BY AloneAfter
<1>3. ASSUME NEW p \in Paths, SetFilename(t, p)
      PROVE  pc'[t] = "compareName" /\ filename' = arg'[t].path
  BY <1>0, <1>3 DEF SetFilename, NoArg
<1>4. (\E p \in Paths : SetFilename(t, p)) \/ ~crossed
  <2> SUFFICES ASSUME ~\E p \in Paths : SetFilename(t, p) PROVE ~crossed
    OBVIOUS
  <2>1. arg'[t].call = "setFilename" => arg[t].call = "setFilename"
    <3>1. \/ OpenFirst(t) \/ CloseFile(t) \/ OpenNamed(t) \/ RotateRename(t) \/ RotateOpen(t)
          => arg' = arg
      BY DEF OpenFirst, CloseFile, OpenNamed, RotateRename, RotateOpen
    <3>2. (\E p \in Paths : RotateLog(t, p)) => arg'[t].call = "rotateLog"
      BY <1>0 DEF RotateLog, NoArg
    <3>3. CompareName(t) \/ Opened(t) \/ OpenFile(t)
          => arg'[t].call \in {"none", arg[t].call}
      BY <1>0 DEF CompareName, Opened, OpenFile, NoArg, Arguments
    <3> QED
      BY <3>1, <3>2, <3>3 DEF FileSteps
  <2>2. ~\E u \in Threads : /\ pc'[u] \in FileCalls /\ arg[u].call = "none"
                            /\ arg'[u].call = "setFilename"
    BY <1>1, <2>1
  <2> QED
    BY <2>2, NotCrossed
<1>5. ASSUME ~crossed, pc[t] \in FileCalls PROVE Settled(pc[t], arg[t], filename, file)
  BY <1>5 DEF FileSettles, AboutTheFile, Settled
<1>6. ASSUME ~crossed, pc[t] \notin FileCalls, pc'[t] \in FileCalls, file.open
      PROVE  file.name = filename
  <2>1. AboutTheFile = {}
    BY <1>1, <1>2, <1>6 DEF AboutTheFile
  <2> QED
    BY <1>6, <2>1 DEF FileIsFilename
<1> DEFINE Goal == /\ pc'[t] \in FileCalls => Settled(pc'[t], arg'[t], filename', file')
                   /\ pc'[t] \notin FileCalls =>
                         /\ filename' = filename /\ file' = file /\ ~crossed
                         /\ file.open /\ pc[t] \in FileCalls => file.name = filename
<1>7. (\E p \in Paths : SetFilename(t, p)) => Goal
  BY <1>3 DEF Settled, FileCalls
<1>8. ASSUME ~crossed, NEW p \in Paths, RotateLog(t, p) PROVE Goal
  BY <1>0, <1>8 DEF RotateLog, Settled, FileCalls
<1>9. ASSUME ~crossed, OpenFirst(t) PROVE Goal
  <2>1. /\ pc[t] = "open" /\ pc'[t] \in {"write", "openFile", "opened"}
        /\ filename' = filename /\ file' = file
    BY <1>0, <1>9 DEF OpenFirst, OpenLog, files
  <2> QED
    BY <1>6, <1>9, <2>1 DEF Settled, FileCalls
<1>10. ASSUME ~crossed, CompareName(t) PROVE Goal
  <2>1. /\ pc[t] = "compareName" /\ filename' = filename /\ file' = file
        /\ filename = arg[t].path
    BY <1>5, <1>10 DEF CompareName, files, Settled, FileCalls
  <2>2. CASE pc'[t] = "idle"
    <3>1. file.open /\ file.name = arg[t].path
      BY <1>0, <1>10, <2>2 DEF CompareName
    <3> QED
      BY <1>10, <2>1, <2>2, <3>1 DEF FileCalls
  <2>3. CASE pc'[t] # "idle"
    <3>1. pc'[t] \in {"closeFile", "openFile"} /\ arg' = arg
      BY <1>0, <1>10, <2>3 DEF CompareName
    <3> QED
      BY <2>1, <3>1 DEF Settled, FileCalls
  <2> QED
    BY <2>2, <2>3
<1>11. ASSUME ~crossed, CloseFile(t) PROVE Goal
  BY <1>0, <1>11 DEF CloseFile, Settled, FileCalls
<1>12. ASSUME ~crossed, OpenFile(t) PROVE Goal
  BY <1>0, <1>12 DEF OpenFile, Settled, FileCalls, Arguments
<1>13. ASSUME ~crossed, OpenNamed(t) PROVE Goal
  <2>1. arg[t].path = filename
    BY <1>5, <1>13 DEF OpenNamed, Settled, FileCalls
  <2> QED
    BY <1>0, <1>13, <2>1 DEF OpenNamed, Settled, FileCalls
<1>14. ASSUME ~crossed, Opened(t) PROVE Goal
  <2>1. /\ pc[t] = "opened" /\ filename' = filename /\ file' = file
        /\ pc'[t] \in {"write", "idle"}
    BY <1>0, <1>14 DEF Opened, files
  <2> QED
    BY <1>5, <1>14, <2>1 DEF Settled, FileCalls
<1>15. ASSUME ~crossed, RotateRename(t) PROVE Goal
  <2>1. ~file.open /\ pc[t] = "rotateRename"
    BY <1>5, <1>15 DEF RotateRename, Settled, FileCalls
  <2>2. ~file'.open /\ pc'[t] = "rotateOpen"
    BY <1>0, <1>15, <2>1 DEF RotateRename
  <2> QED
    BY <2>2 DEF Settled, FileCalls
<1>16. ASSUME ~crossed, RotateOpen(t) PROVE Goal
  <2>1. ~file.open /\ pc[t] = "rotateOpen" /\ file' = file
    BY <1>5, <1>16 DEF RotateOpen, Settled, FileCalls, files
  <2>2. pc'[t] \in {"openFile", "opened"}
    BY <1>0, <1>16 DEF RotateOpen, OpenLog
  <2> QED
    BY <2>1, <2>2 DEF Settled, FileCalls
<1>17. Goal
  BY <1>4, <1>7, <1>8, <1>9, <1>10, <1>11, <1>12, <1>13, <1>14, <1>15, <1>16 DEF FileSteps
<1> QED
  BY <1>1, <1>17

LEMMA FileSettlesInductive ==
    ASSUME LoggerInv, OneAboutFile, FileSettles, FileIsFilename, Next
    PROVE  OneAboutFile' /\ FileSettles' /\ FileIsFilename'
<1>1. PICK t \in Threads : /\ \/ Call(t)
                              \/ \E n \in Names : RegisterCategory(t, n)
                              \/ Register(t)
                              \/ Proceed(t)
                           /\ RememberFileCalls
  BY DEF Next
<1>2. CASE crossed'
  BY <1>2 DEF OneAboutFile, FileSettles, FileIsFilename
<1>3. CASE ~crossed'
  <2>1. \A u, w \in Threads : pc'[u] \in FileCalls /\ pc'[w] \in FileCalls => u = w
    BY <1>1, <1>3, AloneAfter
  <2>2. OneAboutFile'
    BY <2>1 DEF OneAboutFile, AboutTheFile
  <2>3. /\ \A u \in Threads : pc'[u] \in FileCalls => Settled(pc'[u], arg'[u], filename', file')
        /\ file'.open /\ (\A u \in Threads : pc'[u] \notin FileCalls) => file'.name = filename'
    <3>1. CASE FileSteps(t)
      <4>1. /\ \A u \in Threads : u # t => pc'[u] = pc[u] /\ arg'[u] = arg[u]
            /\ pc'[t] \in FileCalls => Settled(pc'[t], arg'[t], filename', file')
            /\ pc'[t] \notin FileCalls =>
                  /\ filename' = filename /\ file' = file /\ ~crossed
                  /\ file.open /\ pc[t] \in FileCalls => file.name = filename
        BY <1>1, <1>3, <3>1, StepSettles
      <4>2. CASE pc'[t] \in FileCalls
        BY <2>1, <4>1, <4>2
      <4>3. CASE pc'[t] \notin FileCalls
        <5>1. \A u \in Threads : pc[u] \in FileCalls => Settled(pc[u], arg[u], filename, file)
          BY <4>1, <4>3 DEF FileSettles, AboutTheFile, Settled
        <5>2. \A u \in Threads : pc'[u] \in FileCalls => u # t
          BY <4>3
        <5>3. ASSUME \A u \in Threads : pc'[u] \notin FileCalls, file'.open
              PROVE  file'.name = filename'
          <6>1. CASE pc[t] \in FileCalls
            BY <4>1, <4>3, <5>3, <6>1
          <6>2. CASE pc[t] \notin FileCalls
            <7>1. AboutTheFile = {}
              BY <4>1, <5>3, <6>2 DEF AboutTheFile
            <7> QED
              BY <4>1, <4>3, <5>3, <7>1 DEF FileIsFilename
          <6> QED
            BY <6>1, <6>2
        <5> QED
          BY <4>1, <4>3, <5>1, <5>2, <5>3
      <4> QED
        BY <4>2, <4>3
    <3>2. CASE ~FileSteps(t)
      <4>1. /\ filename' = filename /\ file' = file
            /\ \A u \in Threads : /\ pc'[u] \in FileCalls <=> pc[u] \in FileCalls
                                  /\ pc[u] \in FileCalls => pc'[u] = pc[u] /\ arg'[u] = arg[u]
        BY <1>1, <3>2, FileStays
      <4>2. ~\E u \in Threads : /\ pc'[u] \in FileCalls /\ arg[u].call = "none"
                                /\ arg'[u].call = "setFilename"
        BY <4>1
      <4>3. ~crossed
        BY <1>1, <1>3, <4>2, NotCrossed
      <4>4. \A u \in Threads : pc[u] \in FileCalls => Settled(pc[u], arg[u], filename, file)
        BY <4>3 DEF FileSettles, AboutTheFile, Settled
      <4>5. ASSUME \A u \in Threads : pc'[u] \notin FileCalls, file'.open
            PROVE  file'.name = filename'
        <5>1. AboutTheFile = {}
          BY <4>1, <4>5 DEF AboutTheFile
        <5> QED
          BY <4>1, <4>3, <4>5, <5>1 DEF FileIsFilename
      <4> QED
        BY <4>1, <4>4, <4>5
    <3> QED
      BY <3>1, <3>2
  <2>4. FileSettles'
    BY <2>3 DEF FileSettles, AboutTheFile, Settled
  <2>5. FileIsFilename'
    BY <2>3 DEF FileIsFilename, AboutTheFile
  <2> QED
    BY <2>2, <2>4, <2>5
<1> QED
  BY <1>2, <1>3

\* An open file is the one that _filename names, between calls about the file that
\* have not crossed (log.cpp:54-63, 84-86, 176-188, 268-279).
THEOREM FileIsFilenameHolds == Spec => []FileIsFilename
<1> DEFINE Inv == LoggerInv /\ OneAboutFile /\ FileSettles /\ FileIsFilename
<1>1. HistoryInit => OneAboutFile /\ FileSettles /\ FileIsFilename
  BY DEF HistoryInit, Init, OneAboutFile, FileSettles, FileIsFilename, AboutTheFile, FileCalls
<1>2. ASSUME OneAboutFile, FileSettles, FileIsFilename, UNCHANGED historyVars
      PROVE  OneAboutFile' /\ FileSettles' /\ FileIsFilename'
  BY <1>2 DEF OneAboutFile, FileSettles, FileIsFilename, AboutTheFile, historyVars, vars, files
<1>3. HistoryInit => Inv
  BY <1>1, LoggerInvInductive
<1>4. Inv /\ [Next]_historyVars => Inv'
  BY <1>2, FileSettlesInductive, LoggerInvInductive
<1>5. Inv => FileIsFilename
  OBVIOUS
<1> QED
  BY <1>3, <1>4, <1>5, PTL DEF Spec

=============================================================================
