--------------------------- MODULE SessionManager ---------------------------
(***************************************************************************)
(* proxy-kit/utils/session_manager.go: the table of sticky sessions shared *)
(* by the goroutines of all client connections and of the REST API.        *)
(*                                                                         *)
(* One step is one critical section of m.mu, or one call of the source.    *)
(* The source (next.Resolve) is called with no lock held, so between the   *)
(* lookup of a call and its commit any other call, the cleanup and the     *)
(* clock may run.  A SessionSeed is the pair it is hashed from.            *)
(***************************************************************************)
EXTENDS Integers, FiniteSets

CONSTANTS
    Keys,           \* non-zero top-level seeds
    NoKey,          \* the zero top-level seed
    TTLs,           \* seed TTLs of requests, in clock ticks; 0 for none
    Callers,        \* goroutines that call Resolve or ForceRotate
    Nodes,          \* upstream proxies a source chooses among
    None,           \* nil
    MaxTime,        \* bound on the clock
    MaxRotation,    \* bound: no rotation starts from this rotation count
    MaxSessions     \* bound: no request starts once so many ids are taken

ASSUME SessionAssumption ==
    /\ NoKey \notin Keys
    /\ TTLs \subseteq Int
    /\ MaxTime \in Nat /\ MaxRotation \in Nat /\ MaxSessions \in Nat

SessionSeed == Keys \X Nat
NewSessionSeed(k, rotation) == <<k, rotation>>

\* What distinguishes resolved proxies: the upstream chosen, and the seed the
\* source derived its session id and country from (None without affinity).
Proxy == [node : Nodes, seed : SessionSeed \cup {None}]

SessionEntry ==
    [id : Nat, proxy : Proxy, seed : SessionSeed, rotation : Nat,
     startedAt : Nat, expiresAt : Nat, lastRotationAt : Nat, duration : Nat]

\* The local variables of a call, which is either waiting for the source
\* ("resolve", "rotate") or for the write lock ("insert", "update").
Task ==
    [pc : {"idle", "resolve", "insert", "rotate", "update"},
     key : Keys \cup {NoKey}, ttl : Nat, rotation : Nat,
     proxy : Proxy \cup {None}, at : Nat, id : Nat]

\* nil is no entry, and not what a client sees of one.
ASSUME NoneAssumption ==
    /\ None \notin SessionEntry
    /\ None \notin [id : Nat, proxy : Proxy, until : Nat]

VARIABLES
    now,            \* time.Now()
    entries,        \* m.entries
    nextID,         \* m.nextID
    task,           \* the call each caller is in
    reply,          \* the session proxy each caller was last handed, or None
    sweep           \* the clock value runCleanup works with, or None

vars == <<now, entries, nextID, task, reply, sweep>>

Idle == [pc |-> "idle", key |-> NoKey, ttl |-> 0, rotation |-> 0,
         proxy |-> None, at |-> 0, id |-> 0]

TypeOK ==
    /\ now \in Nat
    /\ entries \in [Keys -> SessionEntry \cup {None}]
    /\ nextID \in Nat
    /\ task \in [Callers -> Task]
    /\ \A c \in Callers :
          /\ task[c].pc # "idle" => task[c].key \in Keys
          /\ task[c].pc \in {"insert", "update"} => task[c].proxy \in Proxy
    /\ reply \in [Callers -> [key : Keys, proxy : Proxy] \cup {None}]
    /\ sweep \in Nat \cup {None}

Init ==
    /\ now = 0
    /\ entries = [k \in Keys |-> None]
    /\ nextID = 0
    /\ task = [c \in Callers |-> Idle]
    /\ reply = [c \in Callers |-> None]
    /\ sweep = None
-----------------------------------------------------------------------------
\* ok && time.Now().Before(e.expiresAt): what Resolve, ForceRotate,
\* GetSession and ListEntries take for an active session.
Live(k) == entries[k] # None /\ now < entries[k].expiresAt

\* The call returns the proxy of a session, or something else.
Return(c, k, p) ==
    /\ task' = [task EXCEPT ![c] = Idle]
    /\ reply' = [reply EXCEPT ![c] = [key |-> k, proxy |-> p]]
ReturnNone(c) ==
    /\ task' = [task EXCEPT ![c] = Idle]
    /\ reply' = [reply EXCEPT ![c] = None]

\* No TTL or no seed: next.Resolve without a SessionSeed, nothing cached.
ResolvePassThrough(c, k, ttl) ==
    /\ task[c].pc = "idle"
    /\ ttl <= 0 \/ k = NoKey
    /\ ReturnNone(c)
    /\ UNCHANGED <<now, entries, nextID, sweep>>

\* The read-locked lookup finds a live entry.
ResolveHit(c, k, ttl) ==
    /\ task[c].pc = "idle"
    /\ ttl > 0 /\ k \in Keys
    /\ Live(k)
    /\ Return(c, k, entries[k].proxy)
    /\ UNCHANGED <<now, entries, nextID, sweep>>

\* The lookup finds none: the source is called with the seed of rotation 0.
ResolveMiss(c, k, ttl) ==
    /\ task[c].pc = "idle"
    /\ nextID < MaxSessions
    /\ ttl > 0 /\ k \in Keys
    /\ ~Live(k)
    /\ task' = [task EXCEPT ![c] = [Idle EXCEPT !.pc = "resolve", !.key = k,
                                                !.ttl = ttl]]
    /\ UNCHANGED <<now, entries, nextID, reply, sweep>>

\* A mutant: the id is read but not taken.
NewIDMutant(n) == n

\* m.nextID.Add(1)
NewID(n) == n + 1

\* What a source answers when it is called with the seed of a task.
Resolved(c, n) ==
    [node |-> n, seed |-> NewSessionSeed(task[c].key, task[c].rotation)]

\* The source answers; the call reads the clock and takes an id.  Neither
\* read depends on the other's instant, so they are one step.
ResolveSource(c, n) ==
    /\ task[c].pc = "resolve"
    /\ task' = [task EXCEPT ![c] = [@ EXCEPT !.pc = "insert",
                                             !.proxy = Resolved(c, n),
                                             !.at = now, !.id = nextID]]
    /\ nextID' = NewID(nextID)
    /\ UNCHANGED <<now, entries, reply, sweep>>

\* The source fails or resolves no proxy: Resolve hands that on, ForceRotate
\* returns the error; the table is left alone.
SourceFails(c) ==
    /\ task[c].pc \in {"resolve", "rotate"}
    /\ ReturnNone(c)
    /\ UNCHANGED <<now, entries, nextID, sweep>>

NewEntry(c) ==
    [id |-> task[c].id, proxy |-> task[c].proxy,
     seed |-> NewSessionSeed(task[c].key, 0), rotation |-> 0,
     startedAt |-> task[c].at, expiresAt |-> task[c].at + task[c].ttl,
     lastRotationAt |-> task[c].at, duration |-> task[c].ttl]

\* A mutant: the second check under the write lock is forgotten.
ResolveInsertMutant(c) ==
    LET k == task[c].key
    IN  /\ task[c].pc = "insert"
        /\ entries' = [entries EXCEPT ![k] = NewEntry(c)]
        /\ Return(c, k, task[c].proxy)
        /\ UNCHANGED <<now, nextID, sweep>>

\* The write-locked commit.  Another call may have inserted meanwhile: its
\* live entry stays and its proxy is returned, the own one is dropped.
ResolveInsert(c) ==
    LET k == task[c].key
    IN  /\ task[c].pc = "insert"
        /\ entries' = [entries EXCEPT ![k] = IF Live(k) THEN @ ELSE NewEntry(c)]
        /\ Return(c, k, IF Live(k) THEN entries[k].proxy ELSE task[c].proxy)
        /\ UNCHANGED <<now, nextID, sweep>>
-----------------------------------------------------------------------------
\* ForceRotate, read-locked: no active session, or its next rotation and its
\* duration are read.
RotateAbsent(c, k) ==
    /\ task[c].pc = "idle"
    /\ ~Live(k)
    /\ ReturnNone(c)
    /\ UNCHANGED <<now, entries, nextID, sweep>>

RotateRead(c, k) ==
    /\ task[c].pc = "idle"
    /\ Live(k)
    /\ entries[k].rotation < MaxRotation
    /\ task' = [task EXCEPT ![c] =
                   [Idle EXCEPT !.pc = "rotate", !.key = k,
                                !.ttl = entries[k].duration,
                                !.rotation = entries[k].rotation + 1]]
    /\ UNCHANGED <<now, entries, nextID, reply, sweep>>

\* The source answers under the new seed; the call reads the clock.
RotateSource(c, n) ==
    /\ task[c].pc = "rotate"
    /\ task' = [task EXCEPT ![c] = [@ EXCEPT !.pc = "update",
                                             !.proxy = Resolved(c, n),
                                             !.at = now]]
    /\ UNCHANGED <<now, entries, nextID, reply, sweep>>

\* Mutants: the rotation count is bumped in place, not the one the source was
\* asked with; the new expiry is set back instead of forward.
RotatedMutant(c, e) ==
    [e EXCEPT !.proxy = task[c].proxy,
              !.seed = NewSessionSeed(task[c].key, task[c].rotation),
              !.rotation = @ + 1,
              !.lastRotationAt = task[c].at,
              !.expiresAt = task[c].at + task[c].ttl]

BackdatedMutant(c, e) ==
    [e EXCEPT !.proxy = task[c].proxy,
              !.seed = NewSessionSeed(task[c].key, task[c].rotation),
              !.rotation = task[c].rotation,
              !.lastRotationAt = task[c].at,
              !.expiresAt = task[c].at - task[c].ttl]

\* The entry after the rotation of task c.
Rotated(c, e) ==
    [e EXCEPT !.proxy = task[c].proxy,
              !.seed = NewSessionSeed(task[c].key, task[c].rotation),
              !.rotation = task[c].rotation,
              !.lastRotationAt = task[c].at,
              !.expiresAt = task[c].at + task[c].ttl]

\* The write-locked update asks only that some entry is there: not that it
\* is live, nor that it is the one that was read.
RotateUpdate(c) ==
    LET k == task[c].key
    IN  /\ task[c].pc = "update"
        /\ IF entries[k] = None
           THEN ReturnNone(c) /\ UNCHANGED entries
           ELSE /\ entries' = [entries EXCEPT ![k] = Rotated(c, @)]
                /\ Return(c, k, task[c].proxy)
        /\ UNCHANGED <<now, nextID, sweep>>
-----------------------------------------------------------------------------
\* A tick of the cleanup goroutine: the clock is read before the lock.
CleanupTick ==
    /\ sweep = None
    /\ sweep' = now
    /\ UNCHANGED <<now, entries, nextID, task, reply>>

\* Mutants: the sweep compares the wrong way round, or goes by the time the
\* session was meant to last at first, so that rotated sessions are dropped.
InvertedMutant(k) == entries[k] # None /\ sweep < entries[k].expiresAt
FirstExpiryMutant(k) ==
    entries[k] # None /\ ~(sweep < entries[k].startedAt + entries[k].duration)

\* !now.Before(e.expiresAt)
Expired(k) == entries[k] # None /\ ~(sweep < entries[k].expiresAt)

CleanupSweep ==
    /\ sweep # None
    /\ entries' = [k \in Keys |-> IF Expired(k) THEN None ELSE entries[k]]
    /\ sweep' = None
    /\ UNCHANGED <<now, nextID, task, reply>>

Tick ==
    /\ now < MaxTime
    /\ now' = now + 1
    /\ UNCHANGED <<entries, nextID, task, reply, sweep>>

Begin(c) ==
    \/ \E k \in Keys \cup {NoKey}, ttl \in TTLs :
          ResolvePassThrough(c, k, ttl) \/ ResolveHit(c, k, ttl) \/ ResolveMiss(c, k, ttl)
    \/ \E k \in Keys : RotateAbsent(c, k) \/ RotateRead(c, k)

Continue(c) ==
    \/ \E n \in Nodes : ResolveSource(c, n) \/ RotateSource(c, n)
    \/ SourceFails(c)
    \/ ResolveInsert(c)
    \/ RotateUpdate(c)

Cleanup == CleanupTick \/ CleanupSweep

Next ==
    \/ \E c \in Callers : Begin(c) \/ Continue(c)
    \/ Cleanup
    \/ Tick

Spec == Init /\ [][Next]_vars

\* The ticker keeps firing; a source may take for ever.
FairSpec == Spec /\ WF_vars(Cleanup)
-----------------------------------------------------------------------------
\* The proxy a session hands out was resolved under the seed and the rotation
\* count the session records (providers put that seed into the upstream
\* session id), whatever rotations and expiries overlapped.
ProxyMatchesSeed ==
    \A k \in Keys : entries[k] # None =>
        /\ entries[k].seed = NewSessionSeed(k, entries[k].rotation)
        /\ entries[k].proxy.seed = entries[k].seed

\* No two sessions, present or about to be inserted, share a session_id.
UniqueIds ==
    /\ \A k \in Keys : entries[k] # None => entries[k].id < nextID
    /\ \A c \in Callers : task[c].pc = "insert" => task[c].id < nextID
    /\ \A j, k \in Keys :
          j # k /\ entries[j] # None /\ entries[k] # None =>
              entries[j].id # entries[k].id
    /\ \A c \in Callers, k \in Keys :
          task[c].pc = "insert" /\ entries[k] # None => task[c].id # entries[k].id
    /\ \A c, d \in Callers :
          c # d /\ task[c].pc = "insert" /\ task[d].pc = "insert" =>
              task[c].id # task[d].id

\* A live session is never dropped or replaced: neither a Resolve that missed
\* before it was inserted, nor the cleanup with a clock value read earlier,
\* removes it; session_id, created_at and duration stay.
LiveSessionKept ==
    [][\A k \in Keys : Live(k) =>
          /\ entries'[k] # None
          /\ entries'[k].id = entries[k].id
          /\ entries'[k].startedAt = entries[k].startedAt
          /\ entries'[k].duration = entries[k].duration]_vars

\* Expired sessions do not stay in the table: the cleanup removes them,
\* unless a request or a rotation renews them first.
ExpiredSessionsLeave ==
    \A k \in Keys :
        (entries[k] # None /\ ~Live(k)) ~> (entries[k] = None \/ Live(k))

\* What clients can tell of the table.
SessionView ==
    [k \in Keys |-> IF entries[k] = None THEN None
                    ELSE [id |-> entries[k].id, proxy |-> entries[k].proxy,
                          until |-> entries[k].expiresAt]]

\* Every Resolve and ForceRotate takes effect at one instant, between its
\* start and its return: the table implements the sticky sessions promised to
\* clients, although calls look up, call the source and commit separately.
Sticky == INSTANCE StickySessions
             WITH session <- SessionView, lastID <- nextID, answer <- reply
StickyForClients == Sticky!Spec
=============================================================================
