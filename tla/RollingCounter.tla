--------------------------- MODULE RollingCounter ---------------------------
(***************************************************************************)
(* The rollingCounter of proxy-kit/ratelimit.go: buckets of counts, each   *)
(* with the time it was last cleared.  evict runs under the mutex, but     *)
(* Add writes its bucket and sum reads all of them without it, so both may *)
(* run between any two stores of another goroutine's evict.                *)
(***************************************************************************)
EXTENDS Integers, FiniteSets, FiniteSetsExt

CONSTANTS
    NumBuckets,     \* numBuckets
    SlotSize,       \* slotSize, in clock ticks
    Deltas,         \* what Add is called with
    Callers,        \* goroutines using the counter
    None,           \* no one, nothing
    MaxTime,        \* bound on the clock
    MaxAdds         \* bound on the calls of Add

ASSUME CounterAssumption ==
    /\ NumBuckets \in Nat \ {0}
    /\ SlotSize \in Nat \ {0}
    /\ Deltas \subseteq Nat \ {0}
    /\ None \notin Callers
    /\ MaxTime \in Nat /\ MaxAdds \in Nat

Buckets == 0..(NumBuckets - 1)
Window == SlotSize * NumBuckets

VARIABLES
    now,            \* time.Now()
    buckets,        \* c.buckets
    times,          \* c.times
    mu,             \* the goroutine that holds c.mu, or None
    pc,             \* where each caller is
    delta,          \* what it adds; 0 in Total
    read,           \* the clock value of its evict
    idx,            \* the bucket its Add has chosen
    left,           \* buckets its evict or its sum has still to visit
    total,          \* the sum it has read so far
    adds,           \* how many Adds have been called
    since,          \* history: the time of the oldest delta in each bucket
    added           \* history: what was added at each time

history == <<adds, since, added>>
vars == <<now, buckets, times, mu, pc, delta, read, idx, left, total, history>>

TypeOK ==
    /\ now \in 0..MaxTime
    /\ buckets \in [Buckets -> Nat]
    /\ times \in [Buckets -> 0..MaxTime]
    /\ mu \in Callers \cup {None}
    /\ pc \in [Callers -> {"idle", "lock", "evict", "add", "store", "sum", "done"}]
    /\ delta \in [Callers -> Nat]
    /\ read \in [Callers -> 0..MaxTime]
    /\ idx \in [Callers -> Buckets]
    /\ left \in [Callers -> SUBSET Buckets]
    /\ total \in [Callers -> Nat]
    /\ adds \in 0..MaxAdds
    /\ since \in [Buckets -> 0..MaxTime \cup {None}]
    /\ added \in [0..MaxTime -> Nat]

\* newRollingCounter: every bucket carries the time of creation.
Init ==
    /\ now = 0
    /\ buckets = [i \in Buckets |-> 0]
    /\ times = [i \in Buckets |-> 0]
    /\ mu = None
    /\ pc = [c \in Callers |-> "idle"]
    /\ delta = [c \in Callers |-> 0]
    /\ read = [c \in Callers |-> 0]
    /\ idx = [c \in Callers |-> 0]
    /\ left = [c \in Callers |-> {}]
    /\ total = [c \in Callers |-> 0]
    /\ adds = 0
    /\ since = [i \in Buckets |-> None]
    /\ added = [t \in 0..MaxTime |-> 0]
-----------------------------------------------------------------------------
\* Add(d), or Total() for d = 0: evict reads the clock before it locks.
Call(c, d) ==
    /\ pc[c] = "idle"
    /\ d > 0 => adds < MaxAdds
    /\ pc' = [pc EXCEPT ![c] = "lock"]
    /\ delta' = [delta EXCEPT ![c] = d]
    /\ read' = [read EXCEPT ![c] = now]
    /\ adds' = adds + (IF d > 0 THEN 1 ELSE 0)
    /\ UNCHANGED <<now, buckets, times, mu, idx, left, total, since, added>>

Lock(c) ==
    /\ pc[c] = "lock" /\ mu = None
    /\ mu' = c
    /\ pc' = [pc EXCEPT ![c] = "evict"]
    /\ left' = [left EXCEPT ![c] = Buckets]
    /\ UNCHANGED <<now, buckets, times, delta, read, idx, total, history>>

\* Loops visit the buckets in order.
NextBucket(c, i) == i \in left[c] /\ \A j \in left[c] : i <= j

\* Mutants: a bucket kept one slot too long; every bucket with an age limit
\* of its own.
LateMutant(c, i) == read[c] - times[i] > Window + SlotSize
StaggeredMutant(c, i) == read[c] - times[i] >= SlotSize * (i + 1)

\* now.Sub(c.times[i]) >= windowSize
Due(c, i) == read[c] - times[i] >= Window

\* c.times[i] = now
Renewed(c, i) == read[c]

\* A mutant: the count is subtracted twice.
EmptiedMutant(i) == 0 - buckets[i]

\* c.buckets[i].Store(0)
Emptied(i) == 0

\* One turn of the loop of evict.
EvictBucket(c, i) ==
    /\ pc[c] = "evict"
    /\ NextBucket(c, i)
    /\ left' = [left EXCEPT ![c] = @ \ {i}]
    /\ IF Due(c, i)
       THEN /\ buckets' = [buckets EXCEPT ![i] = Emptied(i)]
            /\ times' = [times EXCEPT ![i] = Renewed(c, i)]
            /\ since' = [since EXCEPT ![i] = None]
       ELSE UNCHANGED <<buckets, times, since>>
    /\ UNCHANGED <<now, mu, pc, delta, read, idx, total, adds, added>>

\* evict returns and unlocks; Total goes on to the sum.
Unlock(c) ==
    /\ pc[c] = "evict" /\ left[c] = {}
    /\ mu' = None
    /\ pc' = [pc EXCEPT ![c] = IF delta[c] > 0 THEN "add" ELSE "sum"]
    /\ left' = [left EXCEPT ![c] = Buckets]
    /\ UNCHANGED <<now, buckets, times, delta, read, idx, total, history>>

\* The bucket of the slot of time t.
Slot(t) == (t \div SlotSize) % NumBuckets

\* Add reads the clock again for its bucket ...
ChooseBucket(c) ==
    /\ pc[c] = "add"
    /\ idx' = [idx EXCEPT ![c] = Slot(now)]
    /\ pc' = [pc EXCEPT ![c] = "store"]
    /\ UNCHANGED <<now, buckets, times, mu, delta, read, left, total, history>>

\* ... and adds to it: others may have evicted, and time may have passed.
AddBucket(c) ==
    /\ pc[c] = "store"
    /\ buckets' = [buckets EXCEPT ![idx[c]] = @ + delta[c]]
    /\ since' = [since EXCEPT ![idx[c]] = IF @ = None THEN now ELSE @]
    /\ added' = [added EXCEPT ![now] = @ + delta[c]]
    /\ pc' = [pc EXCEPT ![c] = "sum"]
    /\ idx' = [idx EXCEPT ![c] = 0]
    /\ UNCHANGED <<now, times, mu, delta, read, left, total, adds>>

\* One load of sum.
LoadBucket(c, i) ==
    /\ pc[c] = "sum"
    /\ NextBucket(c, i)
    /\ total' = [total EXCEPT ![c] = @ + buckets[i]]
    /\ left' = [left EXCEPT ![c] = @ \ {i}]
    /\ pc' = [pc EXCEPT ![c] = IF left[c] = {i} THEN "done" ELSE @]
    /\ UNCHANGED <<now, buckets, times, mu, delta, read, idx, history>>

\* The sum is returned.
Return(c) ==
    /\ pc[c] = "done"
    /\ pc' = [pc EXCEPT ![c] = "idle"]
    /\ delta' = [delta EXCEPT ![c] = 0]
    /\ read' = [read EXCEPT ![c] = 0]
    /\ total' = [total EXCEPT ![c] = 0]
    /\ UNCHANGED <<now, buckets, times, mu, idx, left, history>>

Tick ==
    /\ now < MaxTime
    /\ now' = now + 1
    /\ UNCHANGED <<buckets, times, mu, pc, delta, read, idx, left, total, history>>

Step(c) ==
    \/ Lock(c) \/ Unlock(c) \/ ChooseBucket(c) \/ AddBucket(c) \/ Return(c)
    \/ \E i \in Buckets : EvictBucket(c, i) \/ LoadBucket(c, i)

Next ==
    \/ \E c \in Callers, d \in Deltas \cup {0} : Call(c, d)
    \/ \E c \in Callers : Step(c)
    \/ Tick

Spec == Init /\ [][Next]_vars
-----------------------------------------------------------------------------
\* While nobody evicts, all buckets carry the same time: Add never renews the
\* time of the bucket it writes, so evict clears all buckets or none.
AllTimesEqual ==
    mu = None => \A i, j \in Buckets : times[i] = times[j]

\* A bucket never holds a delta older than the time it carries, though Add
\* writes without the lock and evict may work with an old clock value.
HeldSinceCleared ==
    \A i \in Buckets : since[i] # None => since[i] >= times[i]

\* What a sum counts was added less than one window before the evict of that
\* call: nothing is held against a client for longer than the window.
NothingStale ==
    \A c \in Callers, i \in Buckets :
        pc[c] \in {"add", "store", "sum"} /\ since[i] # None =>
            read[c] - since[i] < Window

\* "Rolling window": a sum read by a single caller counts everything that was
\* added within the window, but for the slot that is rolling out of it.
CountsWholeWindow ==
    \A c \in Callers :
        pc[c] = "done" =>
            total[c] >= MapThenSumSet(LAMBDA t : added[t],
                            {t \in 0..read[c] : read[c] - t < Window - SlotSize})
=============================================================================
