------------------------- MODULE MutexEventProofs ---------------------------
(* Proofs about MutexEvent and its history, for any set of threads.        *)
EXTENDS MutexEventHistory, FiniteSetTheorems, TLAPS

\* Every step of the event with history, as the event's own step: the three
\* proofs below share this case split.
LEMMA HistorySteps ==
    ASSUME HistoryNext
    PROVE  \/ Set /\ worth' = worth + SetWorth /\ UNCHANGED grants
           \/ \E t \in Threads :
                 /\ WaitReturns(t)
                 /\ grants' = grants + 1
                 /\ UNCHANGED worth
           \/ \E t \in Threads : CountedWake(t)
           \/ Uncounted
  BY DEF HistoryNext, CountedSet, CountedReturn

\* What a notification does to a well-formed wait queue: somebody blocked is
\* released if there is anybody, and nobody already released is forgotten.
LEMMA NotifiedOutcomesFacts ==
    ASSUME TypeOK, NEW w \in NotifiedOutcomes(waiter)
    PROVE  /\ w \in [Threads -> Kinds \cup {"none", "notified", "expired"}]
           /\ Blocked(waiter) # {} => Notified(w) # {}
           /\ ~wakeAll => \/ Notified(w) = Notified(waiter)
                          \/ \E t \in Threads : Notified(w) = Notified(waiter) \cup {t}
<1> USE DEF TypeOK, Kinds, Blocked, Notified
<1>1. CASE Blocked(waiter) = {}
  <2>1. w = waiter
    BY <1>1 DEF NotifiedOutcomes
  <2> QED
    BY <2>1, <1>1
<1>2. CASE Blocked(waiter) # {} /\ wakeAll
  <2>1. w = NotifyAll(waiter)
    BY <1>2 DEF NotifiedOutcomes
  <2>2. PICK t \in Threads : waiter[t] \in Kinds
    BY <1>2
  <2>3. w[t] = "notified"
    BY <2>1, <2>2 DEF NotifyAll
  <2> QED
    BY <1>2, <2>1, <2>3 DEF NotifyAll
<1>3. CASE Blocked(waiter) # {} /\ ~wakeAll
  <2>1. PICK t \in Threads : w = [waiter EXCEPT ![t] = "notified"]
    BY <1>3 DEF NotifiedOutcomes
  <2>2. Notified(w) = Notified(waiter) \cup {t}
    BY <2>1
  <2> QED
    BY <2>1, <2>2
<1> QED
  BY <1>1, <1>2, <1>3

\* Type correctness of the event and its history.
THEOREM HistoryTypeCorrect == HistorySpec => []HistoryTypeOK
<1> USE DEF HistoryTypeOK
<1>1. HistoryInit => HistoryTypeOK
  <2> SUFFICES ASSUME HistoryInit
               PROVE  HistoryTypeOK
    OBVIOUS
  <2>1. isset \in BOOLEAN /\ isWaiting \in BOOLEAN /\ wakeAll \in BOOLEAN
    BY DEF HistoryInit, Init
  <2>2. waiter \in [Threads -> Kinds \cup {"none", "notified", "expired"}]
    BY DEF HistoryInit, Init
  <2>3. worth \in Nat /\ grants \in Nat
    BY DEF HistoryInit
  <2> QED
    BY <2>1, <2>2, <2>3 DEF TypeOK
<1>2. HistoryTypeOK /\ [HistoryNext]_historyVars => HistoryTypeOK'
  <2> SUFFICES ASSUME HistoryTypeOK, [HistoryNext]_historyVars
               PROVE  HistoryTypeOK'
    OBVIOUS
  <2>0. SetWorth \in Nat
    BY FS_CardinalityType, HistoryAssumption DEF SetWorth
  <2>1. CASE Set /\ worth' = worth + SetWorth /\ UNCHANGED grants
    BY <2>1, <2>0, NotifiedOutcomesFacts DEF Set, TypeOK
  <2>2. ASSUME NEW t \in Threads, WaitReturns(t), grants' = grants + 1, UNCHANGED worth
        PROVE  HistoryTypeOK'
    <3>1. TypeOK'
      BY <2>2 DEF WaitReturns, TypeOK
    <3> QED
      BY <2>2, <3>1
  <2>3. ASSUME NEW t \in Threads, CountedWake(t)
        PROVE  HistoryTypeOK'
    <3>1. TypeOK'
      BY <2>3 DEF CountedWake, WaitWakes, TypeOK
    <3>2. worth' \in Nat /\ grants' \in Nat
      BY <2>3 DEF CountedWake
    <3> QED
      BY <3>1, <3>2
  <2>4. CASE Uncounted
    BY <2>4 DEF Uncounted, history, Clear, SetWakeAllWaiters, WaitBlocks, Expire,
                TypeOK, Kinds
  <2>5. CASE UNCHANGED historyVars
    BY <2>5 DEF historyVars, TypeOK
  <2> QED
    BY <2>1, <2>2, <2>3, <2>4, <2>5, HistorySteps
<1> QED
  BY <1>1, <1>2, PTL DEF HistorySpec

\* A raised flag never faces sleeping threads alone: while it is up and some
\* thread is blocked, a released thread is still on its way out of wait().
THEOREM NoStrandedSignalHolds == HistorySpec => []NoStrandedSignal
<1> USE DEF NoStrandedSignal
<1>1. HistoryInit => NoStrandedSignal
  BY DEF HistoryInit, Init
<1>2. HistoryTypeOK /\ NoStrandedSignal /\ [HistoryNext]_historyVars
         => NoStrandedSignal'
  <2> SUFFICES ASSUME HistoryTypeOK, NoStrandedSignal, [HistoryNext]_historyVars
               PROVE  NoStrandedSignal'
    OBVIOUS
  <2>0. TypeOK
    BY DEF HistoryTypeOK
  <2>1. CASE Set
    <3>1. Blocked(waiter)' # {} => Blocked(waiter) # {}
      BY <2>0, <2>1 DEF Set, NotifiedOutcomes, Blocked
    <3> QED
      BY <3>1, <2>0, <2>1, NotifiedOutcomesFacts DEF Set, Blocked, Notified
  <2>2. ASSUME NEW t \in Threads, WaitReturns(t)
        PROVE  NoStrandedSignal'
    BY <2>2 DEF WaitReturns
  <2>3. ASSUME NEW t \in Threads, CountedWake(t)
        PROVE  NoStrandedSignal'
    BY <2>3 DEF CountedWake, WaitWakes
  <2>4. CASE Uncounted
    <3>1. CASE Clear
      BY <3>1 DEF Clear
    <3>2. ASSUME NEW value \in BOOLEAN, SetWakeAllWaiters(value)
          PROVE  NoStrandedSignal'
      BY <3>2 DEF SetWakeAllWaiters, Blocked, Notified
    <3>3. ASSUME NEW t \in Threads, NEW kind \in Kinds, WaitBlocks(t, kind)
          PROVE  NoStrandedSignal'
      BY <3>3 DEF WaitBlocks
    <3>4. ASSUME NEW t \in Threads, Expire(t)
          PROVE  NoStrandedSignal'
      BY <3>4, <2>0 DEF Expire, TypeOK, Kinds, Blocked, Notified
    <3> QED
      BY <2>4, <3>1, <3>2, <3>3, <3>4 DEF Uncounted
  <2>5. CASE UNCHANGED historyVars
    BY <2>5 DEF historyVars, Blocked, Notified
  <2> QED
    BY <2>1, <2>2, <2>3, <2>4, <2>5, HistorySteps
<1> QED
  BY <1>1, <1>2, HistoryTypeCorrect, PTL DEF HistorySpec

-----------------------------------------------------------------------------
\* The number of notified threads: a natural number, at most one more when one
\* thread joins them, and one less when a notified thread leaves wait().
LEMMA NotifiedCount ==
    ASSUME TypeOK
    PROVE  /\ IsFiniteSet(Notified(waiter))
           /\ Cardinality(Notified(waiter)) \in Nat
           /\ Cardinality(Notified(waiter)) <= Cardinality(Threads)
<1>1. Notified(waiter) \subseteq Threads
  BY DEF Notified
<1> QED
  BY <1>1, HistoryAssumption, FS_Subset, FS_CardinalityType

\* The waits granted, with those still to be granted, never exceed what the
\* calls of set() were worth.
THEOREM GrantsBoundedHolds == HistorySpec => []GrantsBounded
<1> DEFINE Flag(b) == IF b THEN 1 ELSE 0
           N == Cardinality(Notified(waiter))
           M == Cardinality(Threads)
<1>1. HistoryInit => GrantsBounded
  <2> SUFFICES ASSUME HistoryInit
               PROVE  GrantsBounded
    OBVIOUS
  <2>1. Notified(waiter) = {}
    BY DEF HistoryInit, Init, Notified
  <2>2. Cardinality(Notified(waiter)) = 0
    BY <2>1, FS_EmptySet
  <2> QED
    BY <2>2 DEF HistoryInit, Init, GrantsBounded, Outstanding
<1>2. HistoryTypeOK /\ HistoryTypeOK' /\ GrantsBounded /\ [HistoryNext]_historyVars
         => GrantsBounded'
  <2> SUFFICES ASSUME HistoryTypeOK, HistoryTypeOK', GrantsBounded,
                      [HistoryNext]_historyVars
               PROVE  GrantsBounded'
    OBVIOUS
  <2>0. TypeOK /\ TypeOK' /\ worth \in Nat /\ grants \in Nat
    BY DEF HistoryTypeOK
  <2>a. N \in Nat /\ IsFiniteSet(Notified(waiter))
    BY <2>0, NotifiedCount
  <2>b. N' \in Nat /\ N' <= M
    <3>1. Notified(waiter)' \subseteq Threads
      BY DEF Notified
    <3> QED
      BY <3>1, HistoryAssumption, FS_Subset, FS_CardinalityType
  <2>c. M \in Nat
    BY HistoryAssumption, FS_CardinalityType
  <2>d. grants + N + Flag(isset) <= worth
    BY <2>a, <2>0 DEF GrantsBounded, Outstanding
  <2>e. SUFFICES grants' + N' + Flag(isset') <= worth'
    <3>1. grants' \in Nat
      BY DEF HistoryTypeOK
    <3> QED
      BY <2>b, <3>1 DEF GrantsBounded, Outstanding
  <2>1. CASE Set /\ worth' = worth + SetWorth /\ UNCHANGED grants
    <3>1. CASE wakeAll
      BY <3>1, <2>1, <2>0, <2>a, <2>b, <2>c, <2>d DEF SetWorth, Set
    <3>2. CASE ~wakeAll
      <4>1. \/ Notified(waiter)' = Notified(waiter)
            \/ \E t \in Threads : Notified(waiter)' = Notified(waiter) \cup {t}
        BY <2>0, <2>1, <3>2, NotifiedOutcomesFacts DEF Set, Notified
      <4>4. N' <= N + 1
        BY <4>1, <2>a, FS_AddElement
      <4>5. Flag(isset') = 1 /\ worth' = worth + 2 /\ grants' = grants
        BY <2>1, <3>2 DEF Set, SetWorth
      <4>6. Flag(isset) \in 0..1
        OBVIOUS
      <4> QED
        BY <4>4, <4>5, <4>6, <2>0, <2>a, <2>b, <2>d
    <3> QED
      BY <3>1, <3>2
  <2>2. ASSUME NEW t \in Threads, WaitReturns(t), grants' = grants + 1, UNCHANGED worth
        PROVE  grants' + N' + Flag(isset') <= worth'
    BY <2>2, <2>0, <2>a, <2>d DEF WaitReturns
  <2>3. ASSUME NEW t \in Threads, CountedWake(t)
        PROVE  grants' + N' + Flag(isset') <= worth'
    <3>1. Flag(isset') = 0 /\ worth' = worth
      BY <2>3 DEF CountedWake, WaitWakes
    <3>2. CASE Granted(t)
      <4>1. /\ t \in Notified(waiter)
            /\ Notified(waiter)' = Notified(waiter) \ {t}
        BY <2>3, <2>0, <3>2 DEF CountedWake, WaitWakes, Granted, Notified, TypeOK
      <4>2. N' = N - 1
        BY <4>1, <2>a, FS_RemoveElement
      <4>3. grants' = grants + 1
        BY <2>3, <3>2 DEF CountedWake
      <4>4. Flag(isset) \in 0..1
        OBVIOUS
      <4> HIDE DEF Flag, N
      <4> QED
        BY <4>2, <4>3, <4>4, <3>1, <2>0, <2>a, <2>d
    <3>3. CASE ~Granted(t)
      <4>1. Notified(waiter)' = Notified(waiter)
        BY <2>3, <2>0, <3>3 DEF CountedWake, WaitWakes, Granted, Notified, TypeOK
      <4>2. grants' = grants
        BY <2>3, <3>3 DEF CountedWake
      <4> QED
        BY <4>1, <4>2, <3>1, <2>0, <2>a, <2>d
    <3> QED
      BY <3>2, <3>3
  <2>4. CASE Uncounted
    <3>1. grants' = grants /\ worth' = worth
      BY <2>4 DEF Uncounted, history
    <3>2. Notified(waiter)' = Notified(waiter)
      BY <2>4, <2>0 DEF Uncounted, Clear, SetWakeAllWaiters, WaitBlocks, Expire,
                        Notified, TypeOK, Kinds
    <3>3. Flag(isset') <= Flag(isset)
      BY <2>4 DEF Uncounted, Clear, SetWakeAllWaiters, WaitBlocks, Expire
    <3> QED
      BY <3>1, <3>2, <3>3, <2>0, <2>a, <2>d
  <2>5. CASE UNCHANGED historyVars
    BY <2>5, <2>d DEF historyVars, Notified
  <2> QED
    BY <2>1, <2>2, <2>3, <2>4, <2>5, HistorySteps
<1> QED
  BY <1>1, <1>2, HistoryTypeCorrect, PTL DEF HistorySpec

=============================================================================
