------------------------ MODULE RollingCounterProofs ------------------------
(***************************************************************************)
(* Proofs about the rolling counter, for any number of buckets, slot size  *)
(* and callers: its buckets share one time, hold nothing older than it,    *)
(* and no sum counts what is older than a window.                          *)
(***************************************************************************)
EXTENDS RollingCounter, TLAPS

\* A window lasts at least a tick.
LEMMA WindowPositive == Window \in Nat /\ Window > 0
  BY CounterAssumption DEF Window

LEMMA SumNatural == \A m, n \in Nat : m + n \in Nat
  OBVIOUS

\* The slot of a time is one of the buckets.
LEMMA SlotInRange == ASSUME NEW t \in Nat PROVE Slot(t) \in Buckets
<1>1. t \div SlotSize \in Int
  BY CounterAssumption
<1>2. \A x \in Int : x % NumBuckets \in 0..(NumBuckets - 1)
  BY CounterAssumption
<1> QED
  BY <1>1, <1>2 DEF Slot, Buckets

-----------------------------------------------------------------------------
\* Where a caller may be.
Places == {"idle", "lock", "evict", "add", "store", "sum", "done"}

\* Types only.
LEMMA TypeInit == Init => TypeOK
<1>1. 0 \in Buckets
  BY CounterAssumption DEF Buckets
<1> QED
  BY <1>1, CounterAssumption DEF Init, TypeOK

LEMMA TypeStep == TypeOK /\ [Next]_vars => TypeOK'
<1> SUFFICES ASSUME TypeOK, [Next]_vars PROVE TypeOK'
  OBVIOUS
<1> USE CounterAssumption DEF TypeOK, history
<1>1. ASSUME NEW c \in Callers, NEW d \in Deltas \cup {0}, Call(c, d) PROVE TypeOK'
  <2>1. d \in Nat /\ now \in 0..MaxTime
    OBVIOUS
  <2>2. adds' \in 0..MaxAdds
    BY <1>1 DEF Call
  <2>3. pc' \in [Callers -> Places]
    BY <1>1 DEF Call, Places
  <2>4. delta' \in [Callers -> Nat] /\ read' \in [Callers -> 0..MaxTime]
    BY <1>1, <2>1 DEF Call
  <2> QED
    BY <1>1, <2>2, <2>3, <2>4 DEF Call, Places
<1>2. ASSUME NEW c \in Callers, Step(c) PROVE TypeOK'
  <2>1. CASE Lock(c)
    BY <2>1 DEF Lock
  <2>2. CASE Unlock(c)
    BY <2>2 DEF Unlock
  <2>3. CASE AddBucket(c)
    <3>1. idx[c] \in Buckets /\ 0 \in Buckets
      BY DEF Buckets
    <3>2. buckets[idx[c]] + delta[c] \in Nat
      <4>1. buckets[idx[c]] \in Nat /\ delta[c] \in Nat
        BY <3>1
      <4> QED
        BY <4>1, SumNatural, Zenon
    <3>3. added[now] + delta[c] \in Nat
      <4>1. added[now] \in Nat /\ delta[c] \in Nat
        OBVIOUS
      <4> QED
        BY <4>1, SumNatural, Zenon
    <3>4. /\ buckets' \in [Buckets -> Nat]
          /\ since' \in [Buckets -> 0..MaxTime \cup {None}]
          /\ added' \in [0..MaxTime -> Nat]
          /\ idx' \in [Callers -> Buckets]
      BY <2>3, <3>1, <3>2, <3>3 DEF AddBucket
    <3> QED
      BY <2>3, <3>4 DEF AddBucket
  <2>4. CASE Return(c)
    <3>1. pc' \in [Callers -> Places]
      BY <2>4 DEF Return, Places
    <3>2. /\ delta' \in [Callers -> Nat] /\ total' \in [Callers -> Nat]
          /\ read' \in [Callers -> 0..MaxTime]
      BY <2>4 DEF Return
    <3> QED
      BY <2>4, <3>1, <3>2 DEF Return, Places
  <2>5. ASSUME NEW i \in Buckets, EvictBucket(c, i) PROVE TypeOK'
    <3>1. CASE Due(c, i)
      <4>1. /\ buckets' \in [Buckets -> Nat]
            /\ times' \in [Buckets -> 0..MaxTime]
            /\ since' \in [Buckets -> 0..MaxTime \cup {None}]
            /\ left' \in [Callers -> SUBSET Buckets]
        <5>1. read[c] \in 0..MaxTime /\ 0 \in Nat
          OBVIOUS
        <5>2. buckets' \in [Buckets -> Nat]
          BY <2>5, <3>1, <5>1 DEF EvictBucket, Emptied
        <5>3. times' \in [Buckets -> 0..MaxTime]
          BY <2>5, <3>1, <5>1 DEF EvictBucket, Renewed
        <5>4. since' \in [Buckets -> 0..MaxTime \cup {None}]
          BY <2>5, <3>1 DEF EvictBucket
        <5>5. left' \in [Callers -> SUBSET Buckets]
          BY <2>5 DEF EvictBucket
        <5> QED
          BY <5>2, <5>3, <5>4, <5>5
      <4> QED
        BY <2>5, <4>1 DEF EvictBucket
    <3>2. CASE ~Due(c, i)
      BY <2>5, <3>2 DEF EvictBucket
    <3> QED
      BY <3>1, <3>2
  <2>6. ASSUME NEW i \in Buckets, LoadBucket(c, i) PROVE TypeOK'
    <3>0. total[c] \in Nat /\ buckets[i] \in Nat
      BY <2>6
    <3>1. total[c] + buckets[i] \in Nat
      BY <3>0, SumNatural, Zenon
    <3>2. total' \in [Callers -> Nat] /\ left' \in [Callers -> SUBSET Buckets]
      BY <2>6, <3>1 DEF LoadBucket
    <3>3. pc' \in [Callers -> Places]
      BY <2>6 DEF LoadBucket, Places
    <3> QED
      BY <2>6, <3>2, <3>3 DEF LoadBucket, Places
  <2>7. CASE ChooseBucket(c)
    <3>1. Slot(now) \in Buckets
      BY SlotInRange
    <3>2. idx' \in [Callers -> Buckets]
      BY <2>7, <3>1 DEF ChooseBucket
    <3>3. pc' \in [Callers -> Places]
      BY <2>7 DEF ChooseBucket, Places
    <3> QED
      BY <2>7, <3>2, <3>3 DEF ChooseBucket, Places
  <2> QED
    BY <1>2, <2>1, <2>2, <2>3, <2>4, <2>5, <2>6, <2>7 DEF Step
<1>3. CASE Tick
  BY <1>3 DEF Tick
<1>4. CASE UNCHANGED vars
  BY <1>4 DEF vars
<1> QED
  BY <1>1, <1>2, <1>3, <1>4 DEF Next

\* Counts stay natural numbers, times within the clock.
THEOREM TypeCorrect == Spec => []TypeOK
  BY TypeInit, TypeStep, PTL DEF Spec

-----------------------------------------------------------------------------
\* The holder of the lock is the one that evicts.
Locking == \A c \in Callers : pc[c] = "evict" <=> mu = c

\* No time lies in the future.
Past ==
    /\ \A i \in Buckets : times[i] <= now
    /\ \A c \in Callers : read[c] <= now

\* The evict of c has found all buckets with time t and renewed those it has
\* visited, or none.
Visited(c, t) ==
    \A i \in Buckets :
        times[i] = IF i \notin left[c] /\ read[c] - t >= Window THEN read[c] ELSE t

Uniform == \A c \in Callers : mu = c => \E t \in 0..MaxTime : Visited(c, t)

\* A bucket the evict of c has visited is younger than a window by its clock,
\* and stays so.
Young ==
    \A c \in Callers, i \in Buckets :
        \/ pc[c] = "evict" /\ i \notin left[c]
        \/ pc[c] \in {"add", "store", "sum"}
        => read[c] - times[i] < Window

Inv ==
    /\ TypeOK /\ Locking /\ Past
    /\ AllTimesEqual /\ Uniform /\ HeldSinceCleared /\ Young

\* Young, and nothing older than the time of its bucket: nothing stale.
LEMMA InvImplies == Inv => NothingStale
  BY CounterAssumption, WindowPositive
  DEF Inv, TypeOK, Young, HeldSinceCleared, NothingStale

LEMMA InvInit == Init => Inv
  BY TypeInit, CounterAssumption
  DEF Init, Inv, Locking, Past, AllTimesEqual, Uniform, HeldSinceCleared, Young

\* What the loop of evict keeps: the lock holder renews the next bucket if all
\* it found were due.
LEMMA EvictKeeps ==
  ASSUME Inv, TypeOK', NEW c \in Callers, NEW i \in Buckets, EvictBucket(c, i)
  PROVE  Inv'
<1> USE CounterAssumption, WindowPositive
<1>1. /\ pc[c] = "evict" /\ i \in left[c] /\ mu = c
      /\ left' = [left EXCEPT ![c] = left[c] \ {i}]
      /\ now' = now /\ mu' = mu /\ pc' = pc /\ read' = read
  BY DEF EvictBucket, NextBucket, Inv, Locking
<1>2. \/ /\ read[c] - times[i] >= Window
         /\ times' = [times EXCEPT ![i] = read[c]]
         /\ since' = [since EXCEPT ![i] = None]
      \/ /\ ~(read[c] - times[i] >= Window)
         /\ times' = times /\ since' = since
  BY DEF EvictBucket, Due, Renewed
<1>3. Locking'
  BY <1>1 DEF Inv, Locking
<1>4. Past'
  BY <1>1, <1>2 DEF Inv, TypeOK, Past
<1>5. AllTimesEqual'
  BY <1>1 DEF AllTimesEqual
<1>6. Uniform'
  <2>1. PICK t \in 0..MaxTime : Visited(c, t)
    BY <1>1 DEF Inv, Uniform
  <2>2. times[i] = t
    BY <1>1, <2>1 DEF Visited
  <2>3. Visited(c, t)'
    BY <1>1, <1>2, <2>1, <2>2 DEF Visited, Inv, TypeOK
  <2>4. \A d \in Callers : mu' = d => d = c
    BY <1>1
  <2> QED
    BY <2>3, <2>4 DEF Uniform
<1>7. HeldSinceCleared'
  BY <1>2 DEF Inv, TypeOK, HeldSinceCleared
<1>8. ASSUME NEW j \in Buckets
      PROVE  /\ times[j] \in Int /\ times'[j] \in Int /\ times'[j] >= times[j]
  <2>1. times[j] \in Int /\ times[i] \in Int /\ read[c] \in Int
    BY DEF Inv, TypeOK
  <2>2. \/ times'[j] = times[j]
        \/ j = i /\ times'[j] = read[c] /\ read[c] - times[i] >= Window
    BY <1>2 DEF Inv, TypeOK
  <2> QED
    BY <2>1, <2>2
<1>9. Young'
  <2> SUFFICES ASSUME NEW d \in Callers, NEW j \in Buckets,
                      \/ pc[d] = "evict" /\ j \notin left'[d]
                      \/ pc[d] \in {"add", "store", "sum"}
               PROVE  read[d] - times'[j] < Window
    BY <1>1 DEF Young
  <2>1. CASE d = c /\ j = i
    <3>1. times[i] \in Int /\ read[c] \in Int
      BY DEF Inv, TypeOK
    <3>2. \/ times'[i] = read[c]
          \/ times'[i] = times[i] /\ ~(read[c] - times[i] >= Window)
      BY <1>2 DEF Inv, TypeOK
    <3> QED
      BY <2>1, <3>1, <3>2
  <2>2. CASE ~(d = c /\ j = i)
    <3>1. read[d] - times[j] < Window
      BY <1>1, <2>2 DEF Inv, TypeOK, Young
    <3>2. read[d] \in Int
      BY DEF Inv, TypeOK
    <3> QED
      BY <1>8, <3>1, <3>2
  <2> QED
    BY <2>1, <2>2
<1> QED
  BY <1>3, <1>4, <1>5, <1>6, <1>7, <1>9 DEF Inv

\* Every step keeps the invariant: one step per action of Next.
LEMMA InvStep == Inv /\ [Next]_vars => Inv'
<1> SUFFICES ASSUME Inv, [Next]_vars PROVE Inv'
  OBVIOUS
<1> USE CounterAssumption, WindowPositive
<1>0. TypeOK'
  BY TypeStep DEF Inv
<1>1. ASSUME NEW c \in Callers, NEW d \in Deltas \cup {0}, Call(c, d) PROVE Inv'
  <2>1. Locking' /\ Past' /\ AllTimesEqual' /\ HeldSinceCleared'
    BY <1>1 DEF Call, Inv, TypeOK, Locking, Past, AllTimesEqual, HeldSinceCleared
  <2>2. Uniform'
    <3>1. mu # c /\ mu' = mu /\ times' = times /\ left' = left
      BY <1>1 DEF Call, Inv, Locking
    <3>2. \A e \in Callers : e # c => read'[e] = read[e]
      BY <1>1 DEF Call, Inv, TypeOK
    <3> QED
      BY <3>1, <3>2 DEF Inv, Uniform, Visited
  <2>3. Young'
    BY <1>1 DEF Call, Inv, TypeOK, Young
  <2> QED
    BY <1>0, <2>1, <2>2, <2>3 DEF Inv
<1>2. ASSUME NEW c \in Callers, Lock(c) PROVE Inv'
  <2>1. Locking' /\ Past' /\ AllTimesEqual' /\ HeldSinceCleared'
    BY <1>2 DEF Lock, history, Inv, TypeOK, Locking, Past, AllTimesEqual,
                HeldSinceCleared
  <2>2. Uniform'
    <3>1. \A i, j \in Buckets : times[i] = times[j]
      BY <1>2 DEF Lock, Inv, AllTimesEqual
    <3>2. 0 \in Buckets
      BY DEF Buckets
    <3>3. times[0] \in 0..MaxTime /\ \A i \in Buckets : times[i] = times[0]
      BY <3>1, <3>2 DEF Inv, TypeOK
    <3>4. Visited(c, times[0])'
      BY <1>2, <3>3 DEF Lock, Visited, Inv, TypeOK
    <3>5. \A d \in Callers : mu' = d => d = c
      BY <1>2 DEF Lock
    <3>6. times' = times
      BY <1>2 DEF Lock
    <3> QED
      BY <3>3, <3>4, <3>5, <3>6 DEF Uniform
  <2>3. Young'
    BY <1>2 DEF Lock, Inv, TypeOK, Young
  <2> QED
    BY <1>0, <2>1, <2>2, <2>3 DEF Inv
<1>3. ASSUME NEW c \in Callers, Unlock(c) PROVE Inv'
  <2>1. Locking' /\ Past' /\ HeldSinceCleared'
    BY <1>3 DEF Unlock, history, Inv, TypeOK, Locking, Past, HeldSinceCleared
  <2>2. AllTimesEqual'
    <3>1. mu = c /\ left[c] = {}
      BY <1>3 DEF Unlock, Inv, Locking
    <3>2. PICK t \in 0..MaxTime : Visited(c, t)
      BY <3>1 DEF Inv, Uniform
    <3>3. \A i, j \in Buckets : times[i] = times[j]
      BY <3>1, <3>2 DEF Visited
    <3> QED
      BY <1>3, <3>3 DEF Unlock, AllTimesEqual
  <2>3. Uniform'
    BY <1>3 DEF Unlock, Uniform
  <2>4. Young'
    BY <1>3 DEF Unlock, Inv, TypeOK, Young
  <2> QED
    BY <1>0, <2>1, <2>2, <2>3, <2>4 DEF Inv
<1>4. ASSUME NEW c \in Callers, AddBucket(c) PROVE Inv'
  <2>1. idx[c] \in Buckets
    BY DEF Inv, TypeOK
  <2>2. Locking' /\ Past' /\ AllTimesEqual'
    BY <1>4 DEF AddBucket, Inv, TypeOK, Locking, Past, AllTimesEqual
  <2>4. Uniform'
    BY <1>4 DEF AddBucket, Inv, Uniform, Visited
  <2>5. Young'
    BY <1>4 DEF AddBucket, Inv, TypeOK, Young
  <2>3. HeldSinceCleared'
    BY <1>4, <2>1 DEF AddBucket, Inv, TypeOK, Past, HeldSinceCleared
  <2> QED
    BY <1>0, <2>2, <2>3, <2>4, <2>5 DEF Inv
<1>5. ASSUME NEW c \in Callers, Return(c) PROVE Inv'
  <2>1. Locking' /\ Past' /\ AllTimesEqual' /\ HeldSinceCleared'
    BY <1>5 DEF Return, history, Inv, TypeOK, Locking, Past, AllTimesEqual,
                HeldSinceCleared
  <2>2. Uniform'
    <3>1. mu # c /\ mu' = mu /\ times' = times /\ left' = left
      BY <1>5 DEF Return, Inv, Locking
    <3>2. \A e \in Callers : e # c => read'[e] = read[e]
      BY <1>5 DEF Return, Inv, TypeOK
    <3> QED
      BY <3>1, <3>2 DEF Inv, Uniform, Visited
  <2>3. Young'
    BY <1>5 DEF Return, Inv, TypeOK, Young
  <2> QED
    BY <1>0, <2>1, <2>2, <2>3 DEF Inv
<1>6. ASSUME NEW c \in Callers, NEW i \in Buckets, EvictBucket(c, i) PROVE Inv'
  BY <1>0, <1>6, EvictKeeps
<1>7. ASSUME NEW c \in Callers, NEW i \in Buckets, LoadBucket(c, i) PROVE Inv'
  <2>1. Locking' /\ Past' /\ AllTimesEqual' /\ HeldSinceCleared'
    BY <1>7 DEF LoadBucket, history, Inv, TypeOK, Locking, Past, AllTimesEqual,
                HeldSinceCleared
  <2>2. Uniform'
    <3>1. mu # c /\ mu' = mu /\ times' = times /\ read' = read
      BY <1>7 DEF LoadBucket, Inv, Locking
    <3>2. \A e \in Callers : e # c => left'[e] = left[e]
      BY <1>7 DEF LoadBucket, Inv, TypeOK
    <3> QED
      BY <3>1, <3>2 DEF Inv, Uniform, Visited
  <2>3. Young'
    BY <1>7 DEF LoadBucket, Inv, TypeOK, Young
  <2> QED
    BY <1>0, <2>1, <2>2, <2>3 DEF Inv
<1>8. CASE Tick
  BY <1>0, <1>8 DEF Tick, history, Inv, TypeOK, Locking, Past, AllTimesEqual,
                    Uniform, Visited, HeldSinceCleared, Young
<1>9. CASE UNCHANGED vars
  BY <1>0, <1>9 DEF vars, history, Inv, TypeOK, Locking, Past, AllTimesEqual,
                    Uniform, Visited, HeldSinceCleared, Young
<1>10. ASSUME NEW c \in Callers, ChooseBucket(c) PROVE Inv'
  <2>1. Locking' /\ Past' /\ AllTimesEqual' /\ HeldSinceCleared'
    BY <1>10 DEF ChooseBucket, history, Inv, TypeOK, Locking, Past, AllTimesEqual,
                 HeldSinceCleared
  <2>2. Uniform' /\ Young'
    BY <1>10 DEF ChooseBucket, Inv, TypeOK, Uniform, Visited, Young
  <2> QED
    BY <1>0, <2>1, <2>2 DEF Inv
<1> QED
  BY <1>1, <1>2, <1>3, <1>4, <1>5, <1>6, <1>7, <1>8, <1>9, <1>10 DEF Next, Step

LEMMA InvAlways == Spec => []Inv
  BY InvInit, InvStep, PTL DEF Spec

-----------------------------------------------------------------------------
\* evict clears all buckets or none: outside the lock they carry one time.
THEOREM OneTime == Spec => []AllTimesEqual
<1>1. Inv => AllTimesEqual
  BY DEF Inv
<1> QED
  BY <1>1, InvAlways, PTL

\* No bucket holds a delta older than its time, and no sum counts one that is
\* older than the window at the evict of that call.
THEOREM NeverStale == Spec => [](HeldSinceCleared /\ NothingStale)
<1>1. Inv => HeldSinceCleared /\ NothingStale
  BY InvImplies DEF Inv
<1> QED
  BY <1>1, InvAlways, PTL
=============================================================================
