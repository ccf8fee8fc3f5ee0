------------------------ MODULE SessionManagerProofs ------------------------
(***************************************************************************)
(* Proofs about SessionManager for any number of callers, keys, nodes and  *)
(* TTLs, and for any bounds on the clock and the counters.                 *)
(***************************************************************************)
EXTENDS SessionManager, TLAPS

LEMMA TypeInit == Init => TypeOK
BY SessionAssumption DEF Init, TypeOK, Idle, Task

LEMMA IdleType == Idle \in Task
BY DEF Idle, Task

\* Ending a call keeps the types.
LEMMA ReturnType ==
    ASSUME TypeOK, NEW c \in Callers, NEW k \in Keys, NEW p \in Proxy,
           Return(c, k, p) \/ ReturnNone(c)
    PROVE  /\ task' \in [Callers -> Task]
           /\ \A d \in Callers :
                 /\ task'[d].pc # "idle" => task'[d].key \in Keys
                 /\ task'[d].pc \in {"insert", "update"} => task'[d].proxy \in Proxy
           /\ reply' \in [Callers -> [key : Keys, proxy : Proxy] \cup {None}]
<1>1. task' = [task EXCEPT ![c] = Idle]
    BY DEF Return, ReturnNone
<1>2. reply' \in [Callers -> [key : Keys, proxy : Proxy] \cup {None}]
    BY DEF Return, ReturnNone, TypeOK
<1>3. Idle.pc = "idle"
    BY DEF Idle
<1> QED BY <1>1, <1>2, <1>3, IdleType DEF TypeOK

\* What a source answers is a proxy.
LEMMA ResolvedType ==
    ASSUME TypeOK, NEW c \in Callers, NEW n \in Nodes, task[c].pc # "idle"
    PROVE  Resolved(c, n) \in Proxy
BY DEF Resolved, Proxy, NewSessionSeed, SessionSeed, TypeOK, Task

\* The entries a commit writes are entries.
LEMMA NewEntryType ==
    ASSUME TypeOK, NEW c \in Callers, task[c].pc = "insert"
    PROVE  NewEntry(c) \in SessionEntry
<1>1. task[c] \in Task /\ task[c].key \in Keys /\ task[c].proxy \in Proxy
    BY DEF TypeOK
<1> QED BY <1>1 DEF NewEntry, SessionEntry, NewSessionSeed, SessionSeed, Task

LEMMA RotatedType ==
    ASSUME TypeOK, NEW c \in Callers, task[c].pc = "update",
           NEW e \in SessionEntry
    PROVE  Rotated(c, e) \in SessionEntry
<1>1. task[c] \in Task /\ task[c].key \in Keys /\ task[c].proxy \in Proxy
    BY DEF TypeOK
<1>2. /\ task[c].rotation \in Nat /\ task[c].at \in Nat
      /\ task[c].at + task[c].ttl \in Nat
    BY <1>1 DEF Task
<1>3. NewSessionSeed(task[c].key, task[c].rotation) \in SessionSeed
    BY <1>1, <1>2 DEF NewSessionSeed, SessionSeed
<1> QED BY <1>1, <1>2, <1>3 DEF Rotated, SessionEntry

LEMMA TypeStep == TypeOK /\ [Next]_vars => TypeOK'
<1> SUFFICES ASSUME TypeOK, [Next]_vars PROVE TypeOK'
    OBVIOUS
<1>1. ASSUME NEW c \in Callers, NEW k \in Keys \cup {NoKey}, NEW ttl \in TTLs,
             ResolvePassThrough(c, k, ttl)
      PROVE  TypeOK'
    BY <1>1, IdleType DEF ResolvePassThrough, ReturnNone, TypeOK, Idle
<1>2. ASSUME NEW c \in Callers, NEW k \in Keys \cup {NoKey}, NEW ttl \in TTLs,
             ResolveHit(c, k, ttl)
      PROVE  TypeOK'
    <2>1. k \in Keys /\ entries[k].proxy \in Proxy
        BY <1>2 DEF ResolveHit, Live, TypeOK, SessionEntry
    <2> QED BY <1>2, <2>1, ReturnType DEF ResolveHit, TypeOK
<1>3. ASSUME NEW c \in Callers, NEW k \in Keys \cup {NoKey}, NEW ttl \in TTLs,
             ResolveMiss(c, k, ttl)
      PROVE  TypeOK'
    <2> DEFINE t == [Idle EXCEPT !.pc = "resolve", !.key = k, !.ttl = ttl]
    <2>0. ttl \in Nat /\ k \in Keys
        BY <1>3, SessionAssumption DEF ResolveMiss
    <2>1. t \in Task /\ k \in Keys /\ t.key = k /\ t.pc = "resolve"
        BY <2>0 DEF Idle, Task
    <2>2. task' = [task EXCEPT ![c] = t]
        BY <1>3 DEF ResolveMiss
    <2> HIDE DEF t
    <2> QED BY <1>3, <2>1, <2>2 DEF ResolveMiss, TypeOK
<1>4. ASSUME NEW c \in Callers, NEW n \in Nodes, ResolveSource(c, n)
      PROVE  TypeOK'
    <2>1. task[c].pc # "idle" /\ Resolved(c, n) \in Proxy
        BY <1>4, ResolvedType DEF ResolveSource
    <2> DEFINE t == [task[c] EXCEPT !.pc = "insert", !.proxy = Resolved(c, n),
                                    !.at = now, !.id = nextID]
    <2>2. task[c] \in Task /\ task[c].key \in Keys /\ now \in Nat /\ nextID \in Nat
        BY <2>1 DEF TypeOK
    <2>3. t \in Task /\ t.key \in Keys /\ t.proxy \in Proxy
        BY <2>1, <2>2 DEF Task
    <2>4. task' = [task EXCEPT ![c] = t]
        BY <1>4 DEF ResolveSource
    <2>5. nextID' \in Nat
        BY <1>4, <2>2 DEF ResolveSource, NewID
    <2> HIDE DEF t
    <2> QED BY <1>4, <2>3, <2>4, <2>5 DEF ResolveSource, TypeOK
<1>5. ASSUME NEW c \in Callers, SourceFails(c) PROVE TypeOK'
    BY <1>5, IdleType DEF SourceFails, ReturnNone, TypeOK, Idle
<1>6. ASSUME NEW c \in Callers, ResolveInsert(c) PROVE TypeOK'
    <2> DEFINE k == task[c].key
    <2>1. k \in Keys /\ task[c].pc = "insert" /\ task[c].proxy \in Proxy
        BY <1>6 DEF ResolveInsert, TypeOK
    <2>2. Live(k) => entries[k].proxy \in Proxy
        BY <2>1 DEF Live, TypeOK, SessionEntry
    <2>3. entries' \in [Keys -> SessionEntry \cup {None}]
        BY <1>6, <2>1, NewEntryType DEF ResolveInsert, TypeOK
    <2>4. PICK p \in Proxy : Return(c, k, p)
        BY <1>6, <2>1, <2>2 DEF ResolveInsert
    <2> HIDE DEF k
    <2> QED BY <1>6, <2>1, <2>3, <2>4, ReturnType DEF ResolveInsert, TypeOK
<1>7. ASSUME NEW c \in Callers, NEW k \in Keys, RotateAbsent(c, k)
      PROVE  TypeOK'
    BY <1>7, IdleType DEF RotateAbsent, ReturnNone, TypeOK, Idle
<1>8. ASSUME NEW c \in Callers, NEW k \in Keys, RotateRead(c, k)
      PROVE  TypeOK'
    <2> DEFINE t == [Idle EXCEPT !.pc = "rotate", !.key = k,
                                 !.ttl = entries[k].duration,
                                 !.rotation = entries[k].rotation + 1]
    <2>0. entries[k].duration \in Nat /\ entries[k].rotation + 1 \in Nat
        BY <1>8 DEF RotateRead, Live, TypeOK, SessionEntry
    <2>1. t \in Task /\ t.key = k /\ t.pc = "rotate"
        BY <2>0 DEF Idle, Task
    <2>2. task' = [task EXCEPT ![c] = t]
        BY <1>8 DEF RotateRead
    <2> HIDE DEF t
    <2> QED BY <1>8, <2>1, <2>2 DEF RotateRead, TypeOK
<1>9. ASSUME NEW c \in Callers, NEW n \in Nodes, RotateSource(c, n)
      PROVE  TypeOK'
    <2>1. task[c].pc # "idle" /\ Resolved(c, n) \in Proxy
        BY <1>9, ResolvedType DEF RotateSource
    <2> DEFINE t == [task[c] EXCEPT !.pc = "update", !.proxy = Resolved(c, n),
                                    !.at = now]
    <2>2. task[c] \in Task /\ task[c].key \in Keys /\ now \in Nat
        BY <2>1 DEF TypeOK
    <2>3. t \in Task /\ t.key \in Keys /\ t.proxy \in Proxy
        BY <2>1, <2>2 DEF Task
    <2>4. task' = [task EXCEPT ![c] = t]
        BY <1>9 DEF RotateSource
    <2> HIDE DEF t
    <2> QED BY <1>9, <2>3, <2>4 DEF RotateSource, TypeOK
<1>10. ASSUME NEW c \in Callers, RotateUpdate(c) PROVE TypeOK'
    <2> DEFINE k == task[c].key
    <2>1. k \in Keys /\ task[c].pc = "update" /\ task[c].proxy \in Proxy
        BY <1>10 DEF RotateUpdate, TypeOK
    <2>2. entries' \in [Keys -> SessionEntry \cup {None}]
        <3>1. CASE entries[k] = None
            BY <1>10, <3>1 DEF RotateUpdate, TypeOK
        <3>2. CASE entries[k] # None
            BY <1>10, <2>1, <3>2, RotatedType DEF RotateUpdate, TypeOK
        <3> QED BY <3>1, <3>2
    <2>3. Return(c, k, task[c].proxy) \/ ReturnNone(c)
        BY <1>10 DEF RotateUpdate
    <2> HIDE DEF k
    <2> QED BY <1>10, <2>1, <2>2, <2>3, ReturnType DEF RotateUpdate, TypeOK
<1>11. CASE Cleanup
    BY <1>11 DEF Cleanup, CleanupTick, CleanupSweep, TypeOK
<1>12. CASE Tick
    BY <1>12 DEF Tick, TypeOK
<1>13. CASE UNCHANGED vars
    BY <1>13 DEF vars, TypeOK
<1> QED
    BY <1>1, <1>2, <1>3, <1>4, <1>5, <1>6, <1>7, <1>8, <1>9, <1>10, <1>11,
       <1>12, <1>13 DEF Next, Begin, Continue

\* The session table, the calls in progress and the replies keep their types.
THEOREM TypeCorrect == Spec => []TypeOK
BY TypeInit, TypeStep, PTL DEF Spec
-----------------------------------------------------------------------------
\* The ways a step can change a call in progress: it ends, begins, or gets
\* the answer of the source under the seed of its key and rotation.
LEMMA TaskChange ==
    ASSUME TypeOK, [Next]_vars, NEW c \in Callers
    PROVE  \/ task'[c] = task[c]
           \/ task'[c].pc = "idle"
           \/ task'[c].pc = "resolve" /\ task'[c].rotation = 0
           \/ task'[c].pc = "rotate"
           \/ /\ \/ task[c].pc = "resolve" /\ task'[c].pc = "insert"
                 \/ task[c].pc = "rotate" /\ task'[c].pc = "update"
              /\ task'[c].key = task[c].key
              /\ task'[c].rotation = task[c].rotation
              /\ task'[c].proxy.seed = NewSessionSeed(task[c].key, task[c].rotation)
<1> USE DEF TypeOK
<1>0. Idle.pc = "idle"
    BY DEF Idle
<1>1. ASSUME NEW d \in Callers, task' = [task EXCEPT ![d] = Idle]
      PROVE  task'[c] = task[c] \/ task'[c].pc = "idle"
    BY <1>0, <1>1
<1>2. ASSUME NEW d \in Callers, Begin(d)
      PROVE  \/ task'[c] = task[c]
             \/ task'[c].pc = "idle"
             \/ task'[c].pc = "resolve" /\ task'[c].rotation = 0
             \/ task'[c].pc = "rotate"
    <2>1. ASSUME NEW k \in Keys \cup {NoKey}, NEW ttl \in TTLs, ResolveMiss(d, k, ttl)
          PROVE  \/ task'[c] = task[c]
                 \/ task'[c].pc = "resolve" /\ task'[c].rotation = 0
        BY <2>1 DEF ResolveMiss, Idle
    <2>2. ASSUME NEW k \in Keys, RotateRead(d, k)
          PROVE  task'[c] = task[c] \/ task'[c].pc = "rotate"
        BY <2>2 DEF RotateRead, Idle
    <2>3. ASSUME NEW k \in Keys \cup {NoKey}, NEW ttl \in TTLs,
                 ResolvePassThrough(d, k, ttl) \/ ResolveHit(d, k, ttl)
          PROVE  task' = [task EXCEPT ![d] = Idle]
        BY <2>3 DEF ResolvePassThrough, ResolveHit, Return, ReturnNone
    <2>4. ASSUME NEW k \in Keys, RotateAbsent(d, k)
          PROVE  task' = [task EXCEPT ![d] = Idle]
        BY <2>4 DEF RotateAbsent, ReturnNone
    <2> QED BY <1>1, <1>2, <2>1, <2>2, <2>3, <2>4 DEF Begin
<1>3. ASSUME NEW d \in Callers, NEW n \in Nodes,
             ResolveSource(d, n) \/ RotateSource(d, n)
      PROVE  \/ task'[c] = task[c]
             \/ /\ \/ task[c].pc = "resolve" /\ task'[c].pc = "insert"
                   \/ task[c].pc = "rotate" /\ task'[c].pc = "update"
                /\ task'[c].key = task[c].key
                /\ task'[c].rotation = task[c].rotation
                /\ task'[c].proxy.seed = NewSessionSeed(task[c].key, task[c].rotation)
    <2>1. Resolved(d, n).seed = NewSessionSeed(task[d].key, task[d].rotation)
        BY DEF Resolved
    <2>2. task[d] \in Task
        OBVIOUS
    <2>3. CASE c # d
        BY <1>3, <2>3 DEF ResolveSource, RotateSource
    <2>4. CASE c = d
        <3>1. CASE ResolveSource(d, n)
            <4>1. task'[d] = [task[d] EXCEPT !.pc = "insert",
                                             !.proxy = Resolved(d, n),
                                             !.at = now, !.id = nextID]
                BY <3>1 DEF ResolveSource
            <4> QED BY <2>1, <2>2, <2>4, <3>1, <4>1 DEF ResolveSource, Task
        <3>2. CASE RotateSource(d, n)
            <4>1. task'[d] = [task[d] EXCEPT !.pc = "update",
                                             !.proxy = Resolved(d, n), !.at = now]
                BY <3>2 DEF RotateSource
            <4> QED BY <2>1, <2>2, <2>4, <3>2, <4>1 DEF RotateSource, Task
        <3> QED BY <1>3, <3>1, <3>2
    <2> QED BY <2>3, <2>4
<1>4. ASSUME NEW d \in Callers, SourceFails(d) \/ ResolveInsert(d) \/ RotateUpdate(d)
      PROVE  task' = [task EXCEPT ![d] = Idle]
    BY <1>4 DEF SourceFails, ResolveInsert, RotateUpdate, Return, ReturnNone
<1>5. CASE Cleanup \/ Tick \/ UNCHANGED vars
    BY <1>5 DEF Cleanup, CleanupTick, CleanupSweep, Tick, vars
<1> QED BY <1>1, <1>2, <1>3, <1>4, <1>5 DEF Next, Continue

\* The ways a step can change an entry: the cleanup finds it expired, a call
\* that found no live entry inserts, or a rotation updates it.
LEMMA EntryChange ==
    ASSUME TypeOK, [Next]_vars, NEW k \in Keys
    PROVE  \/ entries'[k] = entries[k]
           \/ sweep # None /\ Expired(k) /\ entries'[k] = None
           \/ \E c \in Callers : /\ task[c].pc = "insert" /\ task[c].key = k
                                 /\ ~Live(k)
                                 /\ entries'[k] = NewEntry(c)
           \/ \E c \in Callers : /\ task[c].pc = "update" /\ task[c].key = k
                                 /\ entries[k] # None
                                 /\ entries'[k] = Rotated(c, entries[k])
<1> USE DEF TypeOK
<1>1. ASSUME NEW c \in Callers, ResolveInsert(c)
      PROVE  \/ entries'[k] = entries[k]
             \/ /\ task[c].pc = "insert" /\ task[c].key = k
                /\ ~Live(k)
                /\ entries'[k] = NewEntry(c)
    BY <1>1 DEF ResolveInsert
<1>2. ASSUME NEW c \in Callers, RotateUpdate(c)
      PROVE  \/ entries'[k] = entries[k]
             \/ /\ task[c].pc = "update" /\ task[c].key = k
                /\ entries[k] # None
                /\ entries'[k] = Rotated(c, entries[k])
    BY <1>2 DEF RotateUpdate
<1>3. CASE CleanupSweep
    BY <1>3 DEF CleanupSweep
<1>4. ASSUME NEW c \in Callers,
             Begin(c) \/ SourceFails(c)
                \/ \E n \in Nodes : ResolveSource(c, n) \/ RotateSource(c, n)
      PROVE  entries' = entries
    BY <1>4 DEF Begin, SourceFails, ResolveSource, RotateSource, RotateAbsent,
       RotateRead, ResolvePassThrough, ResolveHit, ResolveMiss
<1>5. CASE CleanupTick \/ Tick \/ UNCHANGED vars
    BY <1>5 DEF CleanupTick, Tick, vars
<1> QED BY <1>1, <1>2, <1>3, <1>4, <1>5 DEF Next, Continue, Cleanup
-----------------------------------------------------------------------------
\* What a call carries to its commit: the proxy was resolved under the seed
\* of the rotation it is about to record.
TaskSeeds ==
    \A c \in Callers :
        /\ task[c].pc \in {"resolve", "insert"} => task[c].rotation = 0
        /\ task[c].pc \in {"insert", "update"} =>
              task[c].proxy.seed = NewSessionSeed(task[c].key, task[c].rotation)

\* A session's proxy was always resolved under the seed and rotation the
\* session records, however rotations, expiries and inserts overlap.
THEOREM SeedsMatch == Spec => []ProxyMatchesSeed
<1>1. Init => TaskSeeds /\ ProxyMatchesSeed
    BY DEF Init, TaskSeeds, ProxyMatchesSeed, Idle
<1>2. TypeOK /\ TaskSeeds /\ [Next]_vars => TaskSeeds'
    <2> SUFFICES ASSUME TypeOK, TaskSeeds, [Next]_vars, NEW c \in Callers
                 PROVE  /\ task'[c].pc \in {"resolve", "insert"} => task'[c].rotation = 0
                        /\ task'[c].pc \in {"insert", "update"} =>
                              task'[c].proxy.seed =
                                  NewSessionSeed(task'[c].key, task'[c].rotation)
        BY DEF TaskSeeds, NewSessionSeed
    <2> QED BY TaskChange DEF TaskSeeds
<1>3. TypeOK /\ TaskSeeds /\ ProxyMatchesSeed /\ [Next]_vars => ProxyMatchesSeed'
    <2> SUFFICES ASSUME TypeOK, TaskSeeds, ProxyMatchesSeed, [Next]_vars,
                        NEW k \in Keys, entries'[k] # None
                 PROVE  /\ entries'[k].seed = NewSessionSeed(k, entries'[k].rotation)
                        /\ entries'[k].proxy.seed = entries'[k].seed
        BY DEF ProxyMatchesSeed, NewSessionSeed
    <2>1. CASE entries'[k] = entries[k]
        BY <2>1 DEF ProxyMatchesSeed
    <2>2. ASSUME NEW c \in Callers, task[c].pc = "insert", task[c].key = k,
                 entries'[k] = NewEntry(c)
          PROVE  /\ entries'[k].seed = NewSessionSeed(k, entries'[k].rotation)
                 /\ entries'[k].proxy.seed = entries'[k].seed
        BY <2>2 DEF NewEntry, TaskSeeds
    <2>3. ASSUME NEW c \in Callers, task[c].pc = "update", task[c].key = k,
                 entries[k] # None, entries'[k] = Rotated(c, entries[k])
          PROVE  /\ entries'[k].seed = NewSessionSeed(k, entries'[k].rotation)
                 /\ entries'[k].proxy.seed = entries'[k].seed
        <3>1. entries[k] \in SessionEntry
            BY <2>3 DEF TypeOK
        <3>2. /\ entries'[k].seed = NewSessionSeed(k, task[c].rotation)
              /\ entries'[k].rotation = task[c].rotation
              /\ entries'[k].proxy = task[c].proxy
            BY <2>3, <3>1 DEF Rotated, SessionEntry
        <3> QED BY <2>3, <3>2 DEF TaskSeeds
    <2> QED BY <2>1, <2>2, <2>3, EntryChange
<1> QED BY TypeInit, TypeStep, <1>1, <1>2, <1>3, PTL DEF Spec
-----------------------------------------------------------------------------
\* The clock value the cleanup works with is not ahead of the clock.
SweepBehind == sweep # None => sweep <= now

LEMMA SweepStays == Spec => []SweepBehind
<1>1. Init => SweepBehind
    BY DEF Init, SweepBehind
<1>2. TypeOK /\ SweepBehind /\ [Next]_vars => SweepBehind'
    <2> SUFFICES ASSUME TypeOK, SweepBehind, [Next]_vars PROVE SweepBehind'
        OBVIOUS
    <2>1. CASE Tick
        BY <2>1 DEF Tick, SweepBehind, TypeOK
    <2>2. CASE CleanupTick
        BY <2>2 DEF CleanupTick, SweepBehind, TypeOK
    <2>3. CASE CleanupSweep
        BY <2>3 DEF CleanupSweep, SweepBehind
    <2>4. CASE (\E c \in Callers : Begin(c) \/ Continue(c)) \/ UNCHANGED vars
        BY <2>4 DEF SweepBehind, vars, Begin, Continue, SourceFails, ResolveSource,
           RotateSource, RotateAbsent, RotateRead, ResolvePassThrough,
           ResolveHit, ResolveMiss, ResolveInsert, RotateUpdate
    <2> QED BY <2>1, <2>2, <2>3, <2>4 DEF Next, Cleanup
<1> QED BY TypeInit, TypeStep, <1>1, <1>2, PTL DEF Spec

\* No step drops or replaces a live session: not a Resolve that missed it,
\* not the cleanup with its older clock value, not a rotation that read an
\* earlier session of the key.
THEOREM LiveSessionsStay == Spec => LiveSessionKept
<1>1. TypeOK /\ SweepBehind /\ [Next]_vars =>
         [\A k \in Keys : Live(k) =>
            /\ entries'[k] # None
            /\ entries'[k].id = entries[k].id
            /\ entries'[k].startedAt = entries[k].startedAt
            /\ entries'[k].duration = entries[k].duration]_vars
    <2> SUFFICES ASSUME TypeOK, SweepBehind, [Next]_vars, NEW k \in Keys, Live(k)
                 PROVE  /\ entries'[k] # None
                        /\ entries'[k].id = entries[k].id
                        /\ entries'[k].startedAt = entries[k].startedAt
                        /\ entries'[k].duration = entries[k].duration
        OBVIOUS
    <2>1. entries[k] # None /\ entries[k] \in SessionEntry
        BY DEF Live, TypeOK
    <2>2. ~(sweep # None /\ Expired(k))
        BY <2>1 DEF Live, Expired, SweepBehind, TypeOK, SessionEntry
    <2>3. ASSUME NEW c \in Callers, task[c].pc = "update",
                 entries'[k] = Rotated(c, entries[k])
          PROVE  /\ entries'[k] # None
                 /\ entries'[k].id = entries[k].id
                 /\ entries'[k].startedAt = entries[k].startedAt
                 /\ entries'[k].duration = entries[k].duration
        <3>1. entries'[k] \in SessionEntry
            BY <2>1, <2>3, RotatedType
        <3> QED BY <2>1, <2>3, <3>1, NoneAssumption DEF Rotated, SessionEntry
    <2> QED BY <2>1, <2>2, <2>3, EntryChange
<1> QED BY TypeCorrect, SweepStays, <1>1, PTL DEF Spec, LiveSessionKept
-----------------------------------------------------------------------------
\* A step that brings no id into the table or into an insert.
LEMMA IdsKept ==
    ASSUME TypeOK, UniqueIds, nextID' = nextID,
           \A k \in Keys : entries'[k] # None =>
               entries[k] # None /\ entries'[k].id = entries[k].id,
           \A c \in Callers : task'[c].pc = "insert" =>
               task[c].pc = "insert" /\ task'[c].id = task[c].id
    PROVE  UniqueIds'
BY DEF UniqueIds

LEMMA IdsStep == TypeOK /\ UniqueIds /\ [Next]_vars => UniqueIds'
<1> SUFFICES ASSUME TypeOK, UniqueIds, [Next]_vars PROVE UniqueIds'
    OBVIOUS
<1>0. Idle.pc = "idle"
    BY DEF Idle
<1>1. ASSUME NEW c \in Callers, NEW n \in Nodes, ResolveSource(c, n)
      PROVE  UniqueIds'
    <2>1. /\ entries' = entries /\ nextID' = nextID + 1
          /\ \A d \in Callers \ {c} : task'[d] = task[d]
        BY <1>1 DEF ResolveSource, NewID, TypeOK
    <2>2. task'[c].id = nextID
        <3>1. task[c] \in Task
            BY DEF TypeOK
        <3>2. task'[c] = [task[c] EXCEPT !.pc = "insert", !.proxy = Resolved(c, n),
                                         !.at = now, !.id = nextID]
            BY <1>1 DEF ResolveSource, TypeOK
        <3> QED BY <3>1, <3>2 DEF Task
    <2>3. /\ \A k \in Keys : entries[k] # None => entries[k].id \in Nat
          /\ \A d \in Callers : task[d].id \in Nat
          /\ nextID \in Nat
        BY DEF TypeOK, SessionEntry, Task
    <2> QED BY <2>1, <2>2, <2>3 DEF UniqueIds
<1>2. ASSUME NEW c \in Callers, ResolveInsert(c) PROVE UniqueIds'
    <2>1. PICK k \in Keys : k = task[c].key
        BY <1>2 DEF ResolveInsert, TypeOK
    <2>2. /\ task'[c].pc = "idle" /\ nextID' = nextID
          /\ \A d \in Callers \ {c} : task'[d] = task[d]
          /\ \A j \in Keys \ {k} : entries'[j] = entries[j]
        BY <1>2, <1>0, <2>1 DEF ResolveInsert, Return, TypeOK
    <2>3. CASE Live(k)
        <3>1. entries' = entries
            BY <1>2, <2>1, <2>3 DEF ResolveInsert, TypeOK
        <3> QED BY <2>2, <3>1, IdsKept
    <2>4. CASE ~Live(k)
        <3>1. entries'[k].id = task[c].id /\ task[c].pc = "insert"
            BY <1>2, <2>1, <2>4 DEF ResolveInsert, NewEntry, TypeOK
        <3> QED BY <2>2, <3>1 DEF UniqueIds
    <2> QED BY <2>3, <2>4
<1>3. ASSUME NEW c \in Callers, RotateUpdate(c) PROVE UniqueIds'
    <2>1. nextID' = nextID /\ task' = [task EXCEPT ![c] = Idle]
        BY <1>3 DEF RotateUpdate, Return, ReturnNone
    <2>2. ASSUME NEW k \in Keys, entries'[k] # None
          PROVE  entries[k] # None /\ entries'[k].id = entries[k].id
        <3>1. CASE entries'[k] = entries[k]
            BY <2>2, <3>1
        <3>2. CASE entries'[k] # entries[k]
            <4>1. entries[k] # None /\ entries'[k] = Rotated(c, entries[k])
                BY <1>3, <3>2 DEF RotateUpdate, TypeOK
            <4>2. entries[k] \in SessionEntry
                BY <4>1 DEF TypeOK
            <4> QED BY <4>1, <4>2 DEF Rotated, SessionEntry
        <3> QED BY <3>1, <3>2
    <2> QED BY <1>0, <2>1, <2>2, IdsKept DEF TypeOK
<1>4. CASE Cleanup \/ Tick \/ UNCHANGED vars
    BY <1>4, IdsKept DEF Cleanup, CleanupTick, CleanupSweep, Tick, vars, TypeOK
<1>5. ASSUME NEW c \in Callers,
             \/ Begin(c)
             \/ SourceFails(c)
             \/ \E n \in Nodes : RotateSource(c, n)
      PROVE  UniqueIds'
    <2>1. entries' = entries /\ nextID' = nextID
        BY <1>5 DEF Begin, SourceFails, RotateSource, RotateAbsent, RotateRead,
           ResolvePassThrough, ResolveHit, ResolveMiss
    <2>2. task'[c].pc # "insert"
        <3>2. ASSUME NEW k \in Keys \cup {NoKey}, NEW ttl \in TTLs, ResolveMiss(c, k, ttl)
              PROVE  task'[c].pc # "insert"
            BY <3>2 DEF ResolveMiss, Idle, TypeOK
        <3>3. ASSUME NEW k \in Keys, RotateRead(c, k)
              PROVE  task'[c].pc # "insert"
            BY <3>3 DEF RotateRead, Idle, TypeOK
        <3>4. ASSUME NEW n \in Nodes, RotateSource(c, n)
              PROVE  task'[c].pc # "insert"
            BY <3>4 DEF RotateSource, TypeOK, Task
        <3>5. CASE task' = [task EXCEPT ![c] = Idle]
            BY <1>0, <3>5 DEF TypeOK
        <3> QED BY <1>5, <3>2, <3>3, <3>4, <3>5 DEF Begin, SourceFails, RotateAbsent,
               ResolvePassThrough, ResolveHit, Return, ReturnNone
    <2>3. \A d \in Callers \ {c} : task'[d] = task[d]
        BY <1>5 DEF Begin, SourceFails, RotateSource, RotateAbsent, RotateRead,
           ResolvePassThrough, ResolveHit, ResolveMiss, Return, ReturnNone, TypeOK
    <2> QED BY <2>1, <2>2, <2>3, IdsKept
<1> QED BY <1>1, <1>2, <1>3, <1>4, <1>5 DEF Next, Continue

\* Session ids are unique, among sessions and inserts under way.
THEOREM IdsUnique == Spec => []UniqueIds
<1>1. Init => UniqueIds
    BY DEF Init, UniqueIds, Idle
<1> QED BY TypeInit, TypeStep, IdsStep, <1>1, PTL DEF Spec
-----------------------------------------------------------------------------
\* The client's view of an entry.
View(e) == [id |-> e.id, proxy |-> e.proxy, until |-> e.expiresAt]

LEMMA ViewIsSession ==
    ASSUME NEW e \in SessionEntry
    PROVE  View(e) # None
BY NoneAssumption DEF View, SessionEntry

LEMMA ViewOf ==
    ASSUME TypeOK, NEW k \in Keys
    PROVE  /\ entries[k] = None => SessionView[k] = None
           /\ entries[k] # None => /\ SessionView[k] # None
                                   /\ SessionView[k].id = entries[k].id
                                   /\ SessionView[k].proxy = entries[k].proxy
           /\ Sticky!Alive(k) <=> Live(k)
<1>1. entries[k] # None => View(entries[k]) # None
    BY ViewIsSession DEF TypeOK
<1>2. /\ entries[k] = None => SessionView[k] = None
      /\ entries[k] # None => SessionView[k] = View(entries[k])
    BY DEF SessionView, View
<1> QED BY <1>1, <1>2 DEF Sticky!Alive, Live, View

\* A commit that writes an entry of key k assigns a session to k alone.
LEMMA CommitAssigns ==
    ASSUME TypeOK, TypeOK', NEW k \in Keys, NEW e \in SessionEntry,
           entries' = [entries EXCEPT ![k] = e]
    PROVE  Sticky!Assigns(k) /\ SessionView'[k] = View(e)
<1>1. entries'[k] = e /\ e # None
    BY NoneAssumption DEF TypeOK
<1>2. SessionView'[k] = View(e)
    BY <1>1 DEF SessionView, View
<1>3. \A j \in Keys \ {k} : SessionView'[j] = SessionView[j]
    BY DEF SessionView, TypeOK
<1>4. SessionView' = [SessionView EXCEPT ![k] = SessionView'[k]]
    <2>1. /\ SessionView = [j \in Keys |-> SessionView[j]]
          /\ SessionView' = [j \in Keys |-> SessionView'[j]]
        BY DEF SessionView
    <2> QED BY <1>3, <2>1
<1> QED BY <1>1, <1>2, <1>4, ViewIsSession DEF Sticky!Assigns

LEMMA StepIsSticky ==
    ASSUME TypeOK, TypeOK', UniqueIds, SweepBehind, [Next]_vars
    PROVE  [Sticky!Next]_Sticky!svars
<1>1. CASE Tick
    <2>1. SessionView' = SessionView
        BY <1>1 DEF Tick, SessionView
    <2> QED BY <1>1, <2>1 DEF Tick, Sticky!Next, Sticky!Tick
<1>2. CASE CleanupTick \/ UNCHANGED vars
    <2>1. SessionView' = SessionView
        BY <1>2 DEF CleanupTick, SessionView, vars
    <2> QED BY <1>2, <2>1 DEF CleanupTick, Sticky!svars, vars
<1>3. CASE CleanupSweep
    <2> DEFINE K == {k \in Keys : Expired(k)}
    <2>1. \A k \in K : ~Live(k)
        BY <1>3 DEF CleanupSweep, Expired, Live, SweepBehind, TypeOK, SessionEntry
    <2>2. \A k \in K : ~Sticky!Alive(k)
        BY <2>1, ViewOf
    <2>3. SessionView' = [k \in Keys |-> IF k \in K THEN None ELSE SessionView[k]]
        BY <1>3 DEF CleanupSweep, SessionView
    <2>4. Sticky!Forget(K)
        BY <1>3, <2>2, <2>3 DEF CleanupSweep, Sticky!Forget
    <2>5. K \in SUBSET Keys
        OBVIOUS
    <2> HIDE DEF K
    <2> QED BY <2>4, <2>5 DEF Sticky!Next
<1>4. ASSUME NEW c \in Callers, ReturnNone(c),
             UNCHANGED <<now, entries, nextID>>
      PROVE  Sticky!Next
    <2>1. SessionView' = SessionView
        BY <1>4 DEF SessionView
    <2> QED BY <1>4, <2>1 DEF ReturnNone, Sticky!Next, Sticky!Untracked
<1>5. ASSUME UNCHANGED <<now, entries, nextID, reply>>
      PROVE  UNCHANGED Sticky!svars
    <2>1. SessionView' = SessionView
        BY <1>5 DEF SessionView
    <2> QED BY <1>5, <2>1 DEF Sticky!svars
<1>6. ASSUME NEW c \in Callers, NEW k \in Keys, Live(k),
             Return(c, k, entries[k].proxy), UNCHANGED <<now, entries, nextID>>
      PROVE  Sticky!Next
    <2>1. SessionView' = SessionView
        BY <1>6 DEF SessionView
    <2>2. Sticky!Alive(k) /\ SessionView[k].proxy = entries[k].proxy
        BY <1>6, ViewOf DEF Live
    <2>3. Sticky!Stick(c, k)
        BY <1>6, <2>1, <2>2 DEF Return, Sticky!Stick, Sticky!Answered
    <2> QED BY <2>3 DEF Sticky!Next
<1>7. ASSUME NEW c \in Callers, NEW n \in Nodes, ResolveSource(c, n)
      PROVE  Sticky!Next
    <2>1. SessionView' = SessionView
        BY <1>7 DEF ResolveSource, SessionView
    <2> QED BY <1>7, <2>1 DEF ResolveSource, NewID, Sticky!Next, Sticky!TakeID
<1>8. ASSUME NEW c \in Callers, ResolveInsert(c)
      PROVE  Sticky!Next
    <2>1. PICK k \in Keys : k = task[c].key
        BY <1>8 DEF ResolveInsert, TypeOK
    <2>2. CASE Live(k)
        <3>1. entries' = entries
            BY <1>8, <2>1, <2>2 DEF ResolveInsert, TypeOK
        <3> QED BY <1>6, <1>8, <2>1, <2>2, <3>1 DEF ResolveInsert
    <2>3. CASE ~Live(k)
        <3>1. /\ task[c].pc = "insert"
              /\ NewEntry(c) \in SessionEntry
              /\ entries' = [entries EXCEPT ![k] = NewEntry(c)]
              /\ Return(c, k, task[c].proxy)
            BY <1>8, <2>1, <2>3, NewEntryType DEF ResolveInsert, TypeOK
        <3>2. Sticky!Assigns(k) /\ SessionView'[k] = View(NewEntry(c))
            BY <3>1, CommitAssigns
        <3>3. SessionView'[k].id = task[c].id /\ SessionView'[k].proxy = task[c].proxy
            BY <3>2 DEF View, NewEntry
        <3>4. \A j \in Keys : SessionView[j] # None => SessionView[j].id # task[c].id
            BY <3>1, ViewOf DEF UniqueIds
        <3>5. task[c].id < nextID
            BY <3>1 DEF UniqueIds
        <3>6. ~Sticky!Alive(k)
            BY <2>3, ViewOf
        <3>7. Sticky!Establish(c, k)
            BY <1>8, <3>1, <3>2, <3>3, <3>4, <3>5, <3>6
               DEF ResolveInsert, Return, Sticky!Establish, Sticky!Answered
        <3> QED BY <3>7 DEF Sticky!Next
    <2> QED BY <2>2, <2>3
<1>9. ASSUME NEW c \in Callers, RotateUpdate(c)
      PROVE  Sticky!Next
    <2>1. PICK k \in Keys : k = task[c].key
        BY <1>9 DEF RotateUpdate, TypeOK
    <2>2. CASE entries[k] = None
        BY <1>4, <1>9, <2>1, <2>2 DEF RotateUpdate
    <2>3. CASE entries[k] # None
        <3>1. entries[k] \in SessionEntry
            BY <2>3 DEF TypeOK
        <3>2. /\ Rotated(c, entries[k]) \in SessionEntry
              /\ entries' = [entries EXCEPT ![k] = Rotated(c, entries[k])]
              /\ Return(c, k, task[c].proxy)
            BY <1>9, <2>1, <2>3, <3>1, RotatedType DEF RotateUpdate
        <3>3. Sticky!Assigns(k) /\ SessionView'[k] = View(Rotated(c, entries[k]))
            BY <3>2, CommitAssigns
        <3>4. /\ SessionView'[k].id = entries[k].id
              /\ SessionView'[k].proxy = task[c].proxy
            BY <3>1, <3>3 DEF View, Rotated, SessionEntry
        <3>5. SessionView[k] # None /\ SessionView[k].id = entries[k].id
            BY <2>3, ViewOf
        <3>6. Sticky!Rotate(c, k)
            BY <1>9, <3>2, <3>3, <3>4, <3>5
               DEF RotateUpdate, Return, Sticky!Rotate, Sticky!Answered
        <3> QED BY <3>6 DEF Sticky!Next
    <2> QED BY <2>2, <2>3
<1>10. ASSUME NEW c \in Callers, NEW k \in Keys \cup {NoKey}, NEW ttl \in TTLs,
              ResolveHit(c, k, ttl)
       PROVE  Sticky!Next
    BY <1>6, <1>10 DEF ResolveHit
<1>11. ASSUME NEW c \in Callers, Begin(c)
       PROVE  Sticky!Next \/ UNCHANGED Sticky!svars
    BY <1>4, <1>5, <1>10, <1>11 DEF Begin, ResolvePassThrough, ResolveMiss,
       RotateAbsent, RotateRead
<1>12. ASSUME NEW c \in Callers, Continue(c)
       PROVE  Sticky!Next \/ UNCHANGED Sticky!svars
    BY <1>4, <1>5, <1>7, <1>8, <1>9, <1>12 DEF Continue, SourceFails, RotateSource
<1> QED BY <1>1, <1>2, <1>3, <1>11, <1>12 DEF Next, Cleanup

\* The session manager implements sticky sessions for its clients.
THEOREM SessionsSticky == Spec => StickyForClients
<1>1. Init => Sticky!Init
    BY DEF Init, Sticky!Init, SessionView
<1>2. TypeOK /\ TypeOK' /\ UniqueIds /\ SweepBehind /\ [Next]_vars
         => [Sticky!Next]_Sticky!svars
    BY StepIsSticky
<1>3. Spec => [](TypeOK /\ UniqueIds /\ SweepBehind)
    BY TypeCorrect, IdsUnique, SweepStays, PTL
<1> QED BY <1>1, <1>2, <1>3, PTL DEF Spec, StickyForClients, Sticky!Spec
=============================================================================
