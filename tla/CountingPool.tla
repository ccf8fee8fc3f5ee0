---------------------------- MODULE CountingPool ----------------------------
(***************************************************************************)
(* The lock-free least-used pool of proxy-kit/utils/counting_pool.go, as   *)
(* goroutines run it: every atomic Load and Add of a use counter is a step *)
(* of its own, so calls interleave between any two of them.  A call scans  *)
(* the counters once for the minimum, scans them again for the entries     *)
(* still at that minimum (the candidates), picks one candidate with the    *)
(* tie breaker, and increments its counter.  With no candidate left, the   *)
(* expression tieBreaker % len(candidates) divides by zero and panics.     *)
(***************************************************************************)
EXTENDS Integers, FiniteSets

CONSTANTS
    NumEntries,     \* size of the pool
    Callers,        \* goroutines that may be inside the pool at once
    ExcludeSets,    \* what the equal() of NextExcluding may match: sets of
                    \* entries; {} stands for Next and NextWithSeed
    TieBreakers,    \* values of CheapRandom() or of the session seed
    MaxUses         \* bound: no call starts once a counter has reached it

Entries == 0..(NumEntries - 1)

\* A StaticFileSource is never built over an empty list
\* (provider_static_file.go:43), so the nil results for an empty pool are
\* out of reach of the gateway.
ASSUME PoolAssumption ==
    /\ NumEntries \in Nat \ {0}
    /\ IsFiniteSet(Callers)
    /\ ExcludeSets \subseteq SUBSET Entries
    /\ TieBreakers \subseteq Nat
    /\ MaxUses \in Nat

VARIABLES
    useCount,       \* entries[i].useCount
    pc,             \* where each caller is
    excluded,       \* the entries equal() matches in its call
    todo,           \* indices its current scan has not loaded yet
    minCount,       \* minCount of the first scan
    candidates,     \* candidates of the second scan
    tieBreaker,     \* its tie breaker
    idx             \* the entry it selected

local == <<excluded, todo, minCount, candidates, tieBreaker, idx>>
vars == <<useCount, pc, local>>

TypeOK ==
    /\ useCount \in [Entries -> Nat]
    /\ pc \in [Callers -> {"idle", "min", "scan", "pick", "add", "panicked"}]
    /\ excluded \in [Callers -> SUBSET Entries]
    /\ todo \in [Callers -> SUBSET Entries]
    /\ minCount \in [Callers -> Nat]
    /\ candidates \in [Callers -> SUBSET Entries]
    /\ tieBreaker \in [Callers -> Nat]
    /\ idx \in [Callers -> Entries]

Init ==
    /\ useCount = [e \in Entries |-> 0]
    /\ pc = [c \in Callers |-> "idle"]
    /\ excluded = [c \in Callers |-> {}]
    /\ todo = [c \in Callers |-> {}]
    /\ minCount = [c \in Callers |-> 0]
    /\ candidates = [c \in Callers |-> {}]
    /\ tieBreaker = [c \in Callers |-> 0]
    /\ idx = [c \in Callers |-> 0]
-----------------------------------------------------------------------------
\* Mutants: NextExcluding that forgets to filter, and a loop over the entries
\* that runs one too far.
UnfilteredMutant(X) == Entries
OneTooFarMutant(X) == 0..NumEntries

\* The indices whose value equal() does not match, or all of them when it
\* matches every one.
NonExcluded(X) == IF Entries \ X = {} THEN Entries ELSE Entries \ X

\* The indices caller c selects among.
Indices(c) == NonExcluded(excluded[c])

\* The entries every call selects among: all of them, if only Next and
\* NextWithSeed are called.
AlwaysEligible == {f \in Entries : \A X \in ExcludeSets : f \in NonExcluded(X)}

\* Caller c enters Next or NextWithSeed (X = {}) or NextExcluding.  The tie
\* breaker is drawn before the scans.
Call(c, X, t) ==
    /\ pc[c] = "idle"
    /\ \A e \in Entries : useCount[e] < MaxUses
    /\ pc' = [pc EXCEPT ![c] = "min"]
    /\ excluded' = [excluded EXCEPT ![c] = X]
    /\ todo' = [todo EXCEPT ![c] = NonExcluded(X)]
    /\ tieBreaker' = [tieBreaker EXCEPT ![c] = t]
    /\ UNCHANGED <<useCount, minCount, candidates, idx>>

\* Both scans load the indices in ascending order.
NextIndex(c, i) == i \in todo[c] /\ \A j \in todo[c] : i <= j

\* A mutant: the minimum stays at what the first index holds.
FirstCountMutant(c, i) == FALSE

\* The load of entry i replaces the minimum found so far.
Smaller(c, i) == useCount[i] < minCount[c]

\* One load of the first scan; the first index sets the minimum.
LoadMin(c, i) ==
    /\ pc[c] = "min"
    /\ NextIndex(c, i)
    /\ minCount' = [minCount EXCEPT ![c] =
                       IF todo[c] = Indices(c) \/ Smaller(c, i)
                       THEN useCount[i] ELSE @]
    /\ LET last == todo[c] = {i}
       IN  /\ todo' = [todo EXCEPT ![c] = IF last THEN Indices(c) ELSE @ \ {i}]
           /\ pc' = [pc EXCEPT ![c] = IF last THEN "scan" ELSE @]
           /\ candidates' = [candidates EXCEPT ![c] = {}]
    /\ UNCHANGED <<useCount, excluded, tieBreaker, idx>>

\* A mutant: the second scan lets entries one above the minimum through.
NearMinimumMutant(c, i) == useCount[i] <= minCount[c] + 1

\* The load of the second scan makes entry i a candidate.
AtMinimum(c, i) == useCount[i] = minCount[c]

\* One load of the second scan.
LoadCandidate(c, i) ==
    /\ pc[c] = "scan"
    /\ NextIndex(c, i)
    /\ candidates' = [candidates EXCEPT ![c] =
                         IF AtMinimum(c, i) THEN @ \cup {i} ELSE @]
    /\ todo' = [todo EXCEPT ![c] = @ \ {i}]
    /\ pc' = [pc EXCEPT ![c] = IF todo[c] = {i} THEN "pick" ELSE @]
    /\ UNCHANGED <<useCount, excluded, minCount, tieBreaker, idx>>

\* i is candidates[tieBreaker % len(candidates)]; candidates is ascending.
TieBroken(c, i) ==
    /\ i \in candidates[c]
    /\ Cardinality({j \in candidates[c] : j < i})
         = tieBreaker[c] % Cardinality(candidates[c])

Pick(c, i) ==
    /\ pc[c] = "pick"
    /\ TieBroken(c, i)
    /\ idx' = [idx EXCEPT ![c] = i]
    /\ pc' = [pc EXCEPT ![c] = "add"]
    /\ UNCHANGED <<useCount, excluded, todo, minCount, candidates, tieBreaker>>

\* Every index left the minimum between the two scans: division by zero.
Panic(c) ==
    /\ pc[c] = "pick"
    /\ candidates[c] = {}
    /\ pc' = [pc EXCEPT ![c] = "panicked"]
    /\ UNCHANGED <<useCount, local>>

\* The entry is charged and returned; the call's variables go out of scope.
Add(c) ==
    /\ pc[c] = "add"
    /\ useCount' = [useCount EXCEPT ![idx[c]] = @ + 1]
    /\ pc' = [pc EXCEPT ![c] = "idle"]
    /\ excluded' = [excluded EXCEPT ![c] = {}]
    /\ minCount' = [minCount EXCEPT ![c] = 0]
    /\ candidates' = [candidates EXCEPT ![c] = {}]
    /\ tieBreaker' = [tieBreaker EXCEPT ![c] = 0]
    /\ idx' = [idx EXCEPT ![c] = 0]
    /\ UNCHANGED todo

\* One step of the call caller c is in.
Step(c) ==
    \/ \E i \in Entries : LoadMin(c, i) \/ LoadCandidate(c, i) \/ Pick(c, i)
    \/ Panic(c)
    \/ Add(c)

\* The bound is reached and every call has ended.
Rest ==
    /\ \A c \in Callers : pc[c] \in {"idle", "panicked"}
    /\ \/ \E e \in Entries : useCount[e] >= MaxUses
       \/ \A c \in Callers : pc[c] = "panicked"
    /\ UNCHANGED vars

Next ==
    \/ \E c \in Callers, X \in ExcludeSets, t \in TieBreakers : Call(c, X, t)
    \/ \E c \in Callers : Step(c)
    \/ Rest

Spec == Init /\ [][Next]_vars
-----------------------------------------------------------------------------
\* pickLeastUsed never works with a minimum above what any of its indices
\* holds now, whatever other callers charged since it loaded them: an entry
\* that passes the second scan is least-used at that very load.
MinimumIsSound ==
    \A c \in Callers : pc[c] \in {"scan", "pick"} =>
        \A i \in Indices(c) : minCount[c] <= useCount[i]

\* Load balancing of the static file source: no interleaving of Next,
\* NextWithSeed and NextExcluding takes a use counter further ahead of an
\* entry that is never excluded than the number of goroutines in the pool at
\* once (one for a sequential caller, which is what
\* TestCountingPoolDistributesEvenly sees).
Balanced ==
    \A e \in Entries, f \in AlwaysEligible :
        useCount[e] <= useCount[f] + Cardinality(Callers)

\* NextExcluding never returns an excluded entry, unless it excludes them all,
\* however the counters move between its scans.
ExclusionHonoured ==
    \A c \in Callers :
        pc[c] = "add" => idx[c] \notin excluded[c] \/ excluded[c] = Entries

\* A non-empty pool always hands out an entry ("Next returns the least-used
\* entry"): no call ends in the division by zero of an empty candidate list.
NoPanic == \A c \in Callers : pc[c] # "panicked"

\* "Next returns the least-used entry" for goroutines that share the pool: the
\* entry a call charges was, at some moment of that very call, least-used among
\* the entries the call may use, whatever the others charge before, between
\* and after its two scans.
Abstract == INSTANCE LeastUsed
               WITH eligible <- [c \in Callers |-> Indices(c)],
                    admitted <- candidates
LeastUsedDuringCall == Abstract!Spec
-----------------------------------------------------------------------------
\* Callers that found e at their minimum and may still charge it.
Claims(e) ==
    {c \in Callers : \/ pc[c] \in {"scan", "pick"} /\ e \in candidates[c]
                     \/ pc[c] = "add" /\ idx[c] = e}

\* Why Balanced holds: every caller that still may charge e was admitted to e
\* at the minimum, so even if all of them do, e stays within the number of
\* callers of every entry it competes with.  (Inductive; Balanced alone is not.)
ClaimsBounded ==
    \A e \in Entries, f \in AlwaysEligible :
        useCount[e] + Cardinality(Claims(e))
            <= useCount[f] + Cardinality(Callers)
=============================================================================
