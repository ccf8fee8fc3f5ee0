----------------------------- MODULE RateLimiter -----------------------------
(***************************************************************************)
(* proxy-kit/ratelimit.go with the traffic accounting of relay.go: the     *)
(* per-key limits on connections and bytes.                                *)
(*                                                                         *)
(* A connection goroutine looks up (or creates) the userState of its key,  *)
(* checks the byte rules, resolves, takes a slot for every concurrent rule *)
(* and a count for every total rule, and then relays; the two relay        *)
(* goroutines of an open connection record every chunk they read.  Only    *)
(* getState takes a lock: each atomic Add and Load is a step.  A rolling   *)
(* counter adds a delta in one step and sums in a later one; here it is    *)
(* one number that drops to zero when its window passes (how the buckets   *)
(* do that is the subject of RollingCounter).                              *)
(***************************************************************************)
EXTENDS Integers, FiniteSets, Sequences

CONSTANTS
    Keys,           \* identities, the results of keyFn
    Conns,          \* connection goroutines
    Rules,          \* the rules of StaticLimits, in order
    Chunks,         \* sizes of one read of the relay
    MaxCount,       \* bound: no call starts once a counter has reached it
    MaxWindows,     \* bound on how often a window passes
    None            \* no userState

RuleIds == 1..Len(Rules)
ByteTypes == {"upload", "download", "bytes"}

ASSUME RulesAssumption ==
    /\ IsFiniteSet(Conns)
    /\ Rules \in Seq([type : {"concurrent", "total"} \cup ByteTypes,
                      realtime : BOOLEAN, max : Nat])
    /\ Len(Rules) > 0
    /\ Chunks \subseteq Nat \ {0}
    /\ MaxCount \in Nat /\ MaxWindows \in Nat

\* At most one userState per getState call can ever be created.
States == Keys \X Conns

ASSUME NoneAssumption == None \notin States

\* newUserState leaves counters[i] nil for realtime and concurrent rules.
HasCounter(i) == ~Rules[i].realtime /\ Rules[i].type # "concurrent"

\* A mutant: the loop counts the rules from zero.
ByteRulesMutant == {i - 1 : i \in RuleIds}

\* The rules each loop of a call does something for.
ByteRules == {i \in RuleIds : Rules[i].type \in ByteTypes /\ HasCounter(i)}
ConcurrentRules == {i \in RuleIds : Rules[i].type = "concurrent"}
TotalRules == {i \in RuleIds : Rules[i].type = "total" /\ HasCounter(i)}

\* The rules RecordTraffic counts a chunk of one direction for.
TrafficRules(d) ==
    {i \in ByteRules : Rules[i].type = "bytes" \/ Rules[i].type = d}

Directions == {"upload", "download"}

VARIABLES
    state,          \* h.state: the userState of each key, or None
    concurrent,     \* concurrent of each userState
    counter,        \* counters of each userState
    pc,             \* where each connection is
    key,            \* its key
    st,             \* the userState it works on
    todo,           \* the rules its current loop has left
    cut,            \* cancelConn was called: its reads fail from now on
    rpc,            \* where each relay goroutine is
    rtodo,          \* the rules its RecordTraffic has left
    chunk,          \* the bytes it records
    windows,        \* how many windows have passed
    admitted,       \* history: connections a total rule has let pass since its
                    \* window last passed
    straddling      \* history: calls that had been counted and not compared
                    \* yet when that window passed

conn == <<pc, key, st, todo>>
history == <<admitted, straddling>>
relayVars == <<cut, rpc, rtodo, chunk>>
vars == <<state, concurrent, counter, conn, relayVars, windows, history>>

TypeOK ==
    /\ state \in [Keys -> States \cup {None}]
    /\ concurrent \in [States -> Int]
    /\ counter \in [States -> [RuleIds -> Nat]]
    /\ pc \in [Conns -> {"idle", "create", "check", "inner", "slots", "totals",
                         "sum", "undo", "open", "closing"}]
    /\ key \in [Conns -> Keys]
    /\ st \in [Conns -> States \cup {None}]
    /\ todo \in [Conns -> SUBSET RuleIds]
    /\ cut \in [Conns -> BOOLEAN]
    /\ rpc \in [Conns \X Directions -> {"idle", "add", "sum"}]
    /\ rtodo \in [Conns \X Directions -> SUBSET RuleIds]
    /\ chunk \in [Conns \X Directions -> Nat]
    /\ windows \in Nat
    /\ admitted \in [States -> [RuleIds -> Nat]]
    /\ straddling \in [States -> [RuleIds -> Nat]]

Init ==
    /\ state = [k \in Keys |-> None]
    /\ concurrent = [s \in States |-> 0]
    /\ counter = [s \in States |-> [i \in RuleIds |-> 0]]
    /\ pc = [c \in Conns |-> "idle"]
    /\ key \in [Conns -> Keys]
    /\ st = [c \in Conns |-> None]
    /\ todo = [c \in Conns |-> {}]
    /\ cut = [c \in Conns |-> FALSE]
    /\ rpc = [r \in Conns \X Directions |-> "idle"]
    /\ rtodo = [r \in Conns \X Directions |-> {}]
    /\ chunk = [r \in Conns \X Directions |-> 0]
    /\ windows = 0
    /\ admitted = [s \in States |-> [i \in RuleIds |-> 0]]
    /\ straddling = [s \in States |-> [i \in RuleIds |-> 0]]
-----------------------------------------------------------------------------
Goto(c, where, loop) ==
    /\ pc' = [pc EXCEPT ![c] = where]
    /\ todo' = [todo EXCEPT ![c] = loop]

\* The call ends: it is refused, fails, or its connection is closed.
Leave(c) == Goto(c, "idle", {}) /\ st' = [st EXCEPT ![c] = None]

\* The rules of a loop are taken in order.
FirstOf(S, i) == i \in S /\ \A j \in S : i <= j

\* getState, read-locked.
Lookup(c) ==
    LET s == state[key[c]]
    IN  /\ pc[c] = "idle"
        /\ \A t \in States, i \in RuleIds : counter[t][i] < MaxCount
        /\ st' = [st EXCEPT ![c] = s]
        /\ IF s = None THEN Goto(c, "create", {}) ELSE Goto(c, "check", ByteRules)
        /\ UNCHANGED <<state, concurrent, counter, key, relayVars, windows, history>>

\* A mutant: getState does not look again under the write lock.
UserStateMutant(c) == <<key[c], c>>

\* The state of the key if there is one by now, else a new one.
UserState(c) == IF state[key[c]] # None THEN state[key[c]] ELSE <<key[c], c>>

\* getState, write-locked.
Create(c) ==
    /\ pc[c] = "create"
    /\ state' = [state EXCEPT ![key[c]] = UserState(c)]
    /\ st' = [st EXCEPT ![c] = UserState(c)]
    /\ Goto(c, "check", ByteRules)
    /\ UNCHANGED <<concurrent, counter, key, relayVars, windows, history>>

\* Total() >= rl.Max
Exhausted(c, i) == counter[st[c]][i] >= Rules[i].max

\* checkWindowedLimits, one rule.
CheckRule(c, i) ==
    /\ pc[c] = "check"
    /\ FirstOf(todo[c], i)
    /\ IF Exhausted(c, i)
       THEN Leave(c)
       ELSE Goto(c, "check", todo[c] \ {i}) /\ UNCHANGED st
    /\ UNCHANGED <<state, concurrent, counter, key, relayVars, windows, history>>

ChecksDone(c) ==
    /\ pc[c] = "check" /\ todo[c] = {}
    /\ Goto(c, "inner", {})
    /\ UNCHANGED <<state, concurrent, counter, key, st, relayVars, windows, history>>

\* next.Resolve fails or resolves no proxy, or the slots are taken next.
InnerFails(c) ==
    /\ pc[c] = "inner"
    /\ Leave(c)
    /\ UNCHANGED <<state, concurrent, counter, key, relayVars, windows, history>>

InnerResolves(c) ==
    /\ pc[c] = "inner"
    /\ Goto(c, "slots", ConcurrentRules)
    /\ UNCHANGED <<state, concurrent, counter, key, st, relayVars, windows, history>>

\* A mutant: one more let in than the rule allows.
OverMutant(n, i) == n > Rules[i].max + 1

\* More than rule i allows.
Over(n, i) == n > Rules[i].max

\* concurrent.Add(1) for one concurrent rule.
TakeSlot(c, i) ==
    LET current == concurrent[st[c]] + 1
    IN  /\ pc[c] = "slots"
        /\ FirstOf(todo[c], i)
        /\ concurrent' = [concurrent EXCEPT ![st[c]] = current]
        /\ IF Over(current, i)
           THEN Goto(c, "undo", {})
           ELSE Goto(c, "slots", todo[c] \ {i})
        /\ UNCHANGED <<state, counter, key, st, relayVars, windows, history>>

SlotsTaken(c) ==
    /\ pc[c] = "slots" /\ todo[c] = {}
    /\ Goto(c, "totals", TotalRules)
    /\ UNCHANGED <<state, concurrent, counter, key, st, relayVars, windows, history>>

\* counters[i].Add(1) for one total rule: the delta, then the sum.
CountTotal(c, i) ==
    /\ pc[c] = "totals"
    /\ FirstOf(todo[c], i)
    /\ counter' = [counter EXCEPT ![st[c]][i] = @ + 1]
    /\ Goto(c, "sum", todo[c])
    /\ UNCHANGED <<state, concurrent, key, st, relayVars, windows, history>>

SumTotal(c, i) ==
    /\ pc[c] = "sum"
    /\ FirstOf(todo[c], i)
    /\ IF Over(counter[st[c]][i], i)
       THEN Goto(c, "undo", {}) /\ UNCHANGED admitted
       ELSE /\ Goto(c, "totals", todo[c] \ {i})
            /\ admitted' = [admitted EXCEPT ![st[c]][i] = @ + 1]
    /\ UNCHANGED <<state, concurrent, counter, key, st, relayVars, windows, straddling>>

\* A mutant: the refused call keeps its slot.
UndoMutant(c) ==
    /\ pc[c] = "undo"
    /\ Leave(c)
    /\ UNCHANGED <<state, concurrent, counter, key, relayVars, windows, history>>

\* A refused call gives one slot back, whatever it took.
Undo(c) ==
    /\ pc[c] = "undo"
    /\ concurrent' = [concurrent EXCEPT ![st[c]] = @ - 1]
    /\ Leave(c)
    /\ UNCHANGED <<state, counter, key, relayVars, windows, history>>

\* The call returns its rlConnTracker; the connection is dialled and relayed.
Open(c) ==
    /\ pc[c] = "totals" /\ todo[c] = {}
    /\ Goto(c, "open", {})
    /\ UNCHANGED <<state, concurrent, counter, key, st, relayVars, windows, history>>
-----------------------------------------------------------------------------
\* A relay goroutine reads a chunk; countingReader.Read calls RecordTraffic.
Read(c, d, n) ==
    /\ pc[c] = "open" /\ ~cut[c]
    /\ rpc[<<c, d>>] = "idle"
    /\ TrafficRules(d) # {}
    /\ rpc' = [rpc EXCEPT ![<<c, d>>] = "add"]
    /\ rtodo' = [rtodo EXCEPT ![<<c, d>>] = TrafficRules(d)]
    /\ chunk' = [chunk EXCEPT ![<<c, d>>] = n]
    /\ UNCHANGED <<state, concurrent, counter, conn, cut, windows, history>>

\* counters[i].Add(delta): the delta, then the sum.
AddBytes(c, d, i) ==
    /\ rpc[<<c, d>>] = "add"
    /\ FirstOf(rtodo[<<c, d>>], i)
    /\ counter' = [counter EXCEPT ![st[c]][i] = @ + chunk[<<c, d>>]]
    /\ rpc' = [rpc EXCEPT ![<<c, d>>] = "sum"]
    /\ UNCHANGED <<state, concurrent, conn, cut, rtodo, chunk, windows, history>>

\* A mutant: the connection is never cut.
UsedUpMutant(c, i) == FALSE

\* Total() >= rl.Max, after the chunk was added.
UsedUp(c, i) == counter[st[c]][i] >= Rules[i].max

\* The limit is reached: cancelConn expires both deadlines, and the rules
\* that are left are not counted.
SumBytes(c, d, i) ==
    LET r == <<c, d>>
        left == IF UsedUp(c, i) THEN {} ELSE rtodo[r] \ {i}
    IN  /\ rpc[r] = "sum"
        /\ FirstOf(rtodo[r], i)
        /\ cut' = [cut EXCEPT ![c] = @ \/ UsedUp(c, i)]
        /\ rtodo' = [rtodo EXCEPT ![r] = left]
        /\ rpc' = [rpc EXCEPT ![r] = IF left = {} THEN "idle" ELSE "add"]
        /\ chunk' = [chunk EXCEPT ![r] = IF left = {} THEN 0 ELSE @]
        /\ UNCHANGED <<state, concurrent, counter, conn, windows, history>>

\* The dial failed, or both directions of the relay have ended: Close loads
\* the slot count ...
CloseLoad(c) ==
    /\ pc[c] = "open"
    /\ \A d \in Directions : rpc[<<c, d>>] = "idle"
    /\ IF concurrent[st[c]] > 0
       THEN Goto(c, "closing", {}) /\ UNCHANGED st
       ELSE Leave(c)
    /\ cut' = [cut EXCEPT ![c] = FALSE]
    /\ UNCHANGED <<state, concurrent, counter, key, rpc, rtodo, chunk, windows, history>>

\* ... and, if there was one, gives it back.
CloseAdd(c) ==
    /\ pc[c] = "closing"
    /\ concurrent' = [concurrent EXCEPT ![st[c]] = @ - 1]
    /\ Leave(c)
    /\ UNCHANGED <<state, counter, key, relayVars, windows, history>>

\* Calls that have added to rule i and not read the sum yet.
Pending(s, i) ==
    {c \in Conns : st[c] = s /\ pc[c] = "sum" /\ FirstOf(todo[c], i)}

\* The window of rule i passes: evict clears the buckets, what pending calls
\* have added included, and a new window begins with nobody admitted.
WindowPasses(s, i) ==
    /\ windows < MaxWindows
    /\ HasCounter(i)
    /\ counter[s][i] > 0
    /\ windows' = windows + 1
    /\ counter' = [counter EXCEPT ![s][i] = 0]
    /\ admitted' = [admitted EXCEPT ![s][i] = 0]
    /\ straddling' = [straddling EXCEPT ![s][i] = Cardinality(Pending(s, i))]
    /\ UNCHANGED <<state, concurrent, conn, relayVars>>

\* The goroutines of connection c.
Resolve(c) ==
    \/ Create(c) \/ ChecksDone(c) \/ InnerFails(c) \/ InnerResolves(c)
    \/ SlotsTaken(c) \/ Undo(c) \/ Open(c)
    \/ \E i \in RuleIds :
          CheckRule(c, i) \/ TakeSlot(c, i) \/ CountTotal(c, i) \/ SumTotal(c, i)

Relay(c, d) ==
    \/ \E n \in Chunks : Read(c, d, n)
    \/ \E i \in RuleIds : AddBytes(c, d, i) \/ SumBytes(c, d, i)

\* The bound is reached and every connection is closed.
Rest ==
    /\ \A c \in Conns : pc[c] = "idle"
    /\ \E s \in States, i \in RuleIds : counter[s][i] >= MaxCount
    /\ UNCHANGED vars

Next ==
    \/ \E c \in Conns : Lookup(c) \/ Resolve(c) \/ CloseLoad(c) \/ CloseAdd(c)
    \/ \E c \in Conns, d \in Directions : Relay(c, d)
    \/ \E s \in States, i \in RuleIds : WindowPasses(s, i)
    \/ Rest

Spec == Init /\ [][Next]_vars
-----------------------------------------------------------------------------
\* Calls that were let in by the concurrent rules and have not closed yet.
LetIn(c) ==
    \/ pc[c] = "slots" /\ todo[c] = {}
    \/ pc[c] \in {"totals", "sum", "open", "closing"}

\* Calls that have taken a slot they have not given back yet.
Holding(c) == LetIn(c) \/ pc[c] = "undo"

\* LimitConcurrentConnections, "max simultaneous open connections", per key:
\* however lookups, slot taking, refusals and closes interleave, also while
\* two calls create the state of the key at once.
ConcurrencyLimit ==
    \A k \in Keys, i \in ConcurrentRules :
        Cardinality({c \in Conns : key[c] = k /\ LetIn(c)}) <= Rules[i].max

\* With one concurrent rule the slot counter is exactly the number of calls
\* holding a slot: no slot is leaked or given back twice.
SlotsAccounted ==
    \A s \in States :
        concurrent[s] = Cardinality({c \in Conns : st[c] = s /\ Holding(c)})

\* LimitTotalConnections, as far as Add keeps it, for counting a connection and
\* reading the sum are separate steps: one window lets at most Max connections
\* of a key pass and, on top, those calls that were in between when it began.
\* Their count went with the old window, so nobody who comes later sees them:
\* the bound is reached, and the documented limit, Max, exceeded.
TotalLimit ==
    \A s \in States, i \in TotalRules :
        admitted[s][i] <= Rules[i].max + straddling[s][i]

\* Byte limits overshoot by at most one chunk per relay goroutine that the
\* limit applies to: whoever reads on past the limit is cut after that chunk,
\* and no new connection gets in.
OvershootBounded ==
    \A s \in States, i \in ByteRules, m \in Chunks :
        (\A n \in Chunks : n <= m) =>
            counter[s][i] < Rules[i].max
                + m * Cardinality({r \in Conns \X Directions :
                                      i \in TrafficRules(r[2])})
==============================================================================
