------------------------- MODULE RateLimiterProofs -------------------------
(***************************************************************************)
(* Proofs about RateLimiter for any rules, keys and finite number of       *)
(* connections.  Each limit is kept by a different balance:                *)
(*                                                                         *)
(*  - slots: the slot counter of a key is never below the number of calls  *)
(*    that have taken one, so who passes a rule was counted with all who   *)
(*    passed it before (SlotsCover, PassersLimited);                       *)
(*  - totals: who counted and has not summed yet is covered by the counter *)
(*    beside all who were admitted (CountsCover);                          *)
(*  - bytes: once a counter is at its limit, each relay goroutine adds to  *)
(*    it at most once more (OvershootCovered).                             *)
(***************************************************************************)
EXTENDS RateLimiter, FiniteSetTheorems, TLAPS

\* Which rules a loop has left, and which userState a call works on: from the
\* lookup on, it is the one and only userState of its key.
Located ==
    \A c \in Conns :
        /\ pc[c] \in {"idle", "create"} => st[c] = None
        /\ pc[c] \notin {"idle", "create"} => st[c] \in States /\ st[c] = state[key[c]]
        /\ pc[c] = "slots" => todo[c] \subseteq ConcurrentRules
        /\ pc[c] \in {"totals", "sum"} => todo[c] \subseteq TotalRules

\* Relay goroutines of open connections only record, for rules of their
\* direction, and not more than a chunk.
Recording ==
    \A c \in Conns, d \in Directions :
        /\ rtodo[<<c, d>>] \subseteq TrafficRules(d)
        /\ rpc[<<c, d>>] # "idle" => pc[c] = "open" /\ chunk[<<c, d>>] \in Chunks

\* Calls that have taken a slot at least.
Took(c) ==
    \/ pc[c] = "slots" /\ todo[c] # ConcurrentRules
    \/ pc[c] \in {"totals", "sum", "undo", "open", "closing"}
Takers(s) == {c \in Conns : st[c] = s /\ Took(c)}

\* Calls that rule i has let pass.
Passed(c, i) ==
    \/ pc[c] = "slots" /\ i \notin todo[c]
    \/ pc[c] \in {"totals", "sum", "open", "closing"}
Passers(s, i) == {c \in Conns : st[c] = s /\ Passed(c, i)}

SlotsCover ==
    ConcurrentRules # {} =>
        \A s \in States : Cardinality(Takers(s)) <= concurrent[s]

PassersLimited ==
    \A s \in States, i \in ConcurrentRules :
        Cardinality(Passers(s, i)) <= Rules[i].max

\* With one concurrent rule nobody takes two slots.
SlotsExact ==
    \A s \in States : concurrent[s] = Cardinality(Takers(s))

\* Whoever was admitted in this window, or waits for its sum, is counted in it
\* or was counted in the one before.
CountsCover ==
    \A s \in States, i \in RuleIds :
        admitted[s][i] + Cardinality(Pending(s, i))
            <= counter[s][i] + straddling[s][i]

\* Relay goroutines that may add to the counter of rule i once it is at its
\* limit: the call has passed, or will pass, no further check of the rule,
\* and the goroutine holds a chunk it has not added or may read another.
MayAdd(s, i, r) ==
    LET c == r[1]
        added == rpc[r] = "sum" /\ FirstOf(rtodo[r], i)
    IN  /\ i \in TrafficRules(r[2])
        /\ st[c] = s
        /\ pc[c] \in {"check", "inner", "slots", "totals", "sum", "open"}
        /\ pc[c] = "check" => i \notin todo[c]
        /\ ~added
        /\ cut[c] => i \in rtodo[r]

Recorders(i) == {r \in Conns \X Directions : i \in TrafficRules(r[2])}
Spent(s, i) == {r \in Recorders(i) : ~MayAdd(s, i, r)}

OvershootCovered ==
    \A s \in States, i \in ByteRules, m \in Chunks :
        ((\A n \in Chunks : n <= m) /\ counter[s][i] >= Rules[i].max) =>
            counter[s][i] < Rules[i].max + m * Cardinality(Spent(s, i))
-----------------------------------------------------------------------------
LEMMA ElementOfSeq ==
    ASSUME NEW S, NEW q \in Seq(S), NEW i \in 1..Len(q)
    PROVE  q[i] \in S
OBVIOUS

\* The sets of rules that loops go through are sets of rules, whose limits
\* are natural numbers.
LEMMA RuleFacts ==
    /\ ByteRules \subseteq RuleIds
    /\ ConcurrentRules \subseteq RuleIds
    /\ TotalRules \subseteq RuleIds
    /\ \A d \in Directions : TrafficRules(d) \subseteq ByteRules
    /\ \A i \in RuleIds : Rules[i].max \in Nat
    /\ RuleIds \subseteq Int
<1>1. \A i \in RuleIds : Rules[i].max \in Nat
    <2> SUFFICES ASSUME NEW i \in RuleIds PROVE Rules[i].max \in Nat
        OBVIOUS
    <2>1. Rules[i] \in [type : {"concurrent", "total"} \cup ByteTypes,
                        realtime : BOOLEAN, max : Nat]
        BY RulesAssumption, ElementOfSeq, Zenon DEF RuleIds
    <2> QED BY <2>1
<1>2. RuleIds \subseteq Int
    BY RulesAssumption DEF RuleIds
<1> QED
    BY <1>1, <1>2 DEF ByteRules, ConcurrentRules, TotalRules, TrafficRules

LEMMA FirstUnique ==
    ASSUME NEW S, NEW i \in RuleIds, NEW j \in RuleIds, FirstOf(S, i), FirstOf(S, j)
    PROVE  i = j
<1>1. i \in Int /\ j \in Int /\ i <= j /\ j <= i
    BY RuleFacts DEF FirstOf
<1> QED BY <1>1

\* What writing one counter of one userState does to all of them.
LEMMA SetCell ==
    ASSUME NEW S, NEW R, NEW V, NEW f \in [S -> [R -> V]],
           NEW s \in S, NEW i \in R, NEW v \in V
    PROVE  LET g == [f EXCEPT ![s][i] = v]
           IN  /\ g \in [S -> [R -> V]]
               /\ g[s][i] = v
               /\ \A t \in S, j \in R : t # s \/ j # i => g[t][j] = f[t][j]
OBVIOUS

LEMMA TypeInit == Init => TypeOK
BY DEF Init, TypeOK

LEMMA TypeStep == TypeOK /\ Located /\ Recording /\ [Next]_vars => TypeOK'
<1> SUFFICES ASSUME TypeOK, Located, Recording, [Next]_vars PROVE TypeOK'
    OBVIOUS
<1> USE DEF TypeOK, Goto, Leave, history
<1>1. ASSUME NEW c \in Conns, Lookup(c) PROVE TypeOK'
    <2>1. CASE state[key[c]] = None
        BY <1>1, <2>1 DEF Lookup, relayVars
    <2>2. CASE state[key[c]] # None
        <3>1. /\ st' = [st EXCEPT ![c] = state[key[c]]]
              /\ pc' = [pc EXCEPT ![c] = "check"]
              /\ todo' = [todo EXCEPT ![c] = ByteRules]
              /\ UNCHANGED <<state, concurrent, counter, key, relayVars, windows, history>>
            BY <1>1, <2>2 DEF Lookup
        <3>2. ByteRules \in SUBSET RuleIds
            BY RuleFacts
        <3> QED BY <3>1, <3>2 DEF relayVars
    <2> QED BY <2>1, <2>2
<1>2. ASSUME NEW c \in Conns, Create(c) PROVE TypeOK'
    <2>1. UserState(c) \in States
        BY DEF UserState, States
    <2> QED BY <1>2, <2>1, RuleFacts DEF Create, relayVars
<1>3. ASSUME NEW c \in Conns, NEW i \in RuleIds, CheckRule(c, i) PROVE TypeOK'
    <2>1. CASE Exhausted(c, i)
        BY <1>3, <2>1 DEF CheckRule, relayVars
    <2>2. CASE ~Exhausted(c, i)
        <3>1. todo[c] \ {i} \in SUBSET RuleIds
            OBVIOUS
        <3> QED BY <1>3, <2>2, <3>1 DEF CheckRule, relayVars
    <2> QED BY <2>1, <2>2
<1>4. ASSUME NEW c \in Conns,
             \/ ChecksDone(c) \/ InnerFails(c) \/ InnerResolves(c)
             \/ SlotsTaken(c) \/ Open(c)
      PROVE  TypeOK'
    BY <1>4, RuleFacts
    DEF ChecksDone, InnerFails, InnerResolves, SlotsTaken, Open, relayVars
<1>5. ASSUME NEW c \in Conns, NEW i \in RuleIds, TakeSlot(c, i) PROVE TypeOK'
    <2>1. st[c] \in States
        BY <1>5 DEF TakeSlot, Located
    <2>2. concurrent' \in [States -> Int]
        BY <1>5, <2>1 DEF TakeSlot
    <2>3. CASE Over(concurrent[st[c]] + 1, i)
        BY <1>5, <2>2, <2>3 DEF TakeSlot, relayVars
    <2>4. CASE ~Over(concurrent[st[c]] + 1, i)
        <3>1. todo[c] \ {i} \in SUBSET RuleIds
            OBVIOUS
        <3>2. Goto(c, "slots", todo[c] \ {i})
            BY <1>5, <2>4, Zenon DEF TakeSlot
        <3>3. UNCHANGED <<state, counter, key, st, relayVars, windows, history>>
            BY <1>5 DEF TakeSlot
        <3> QED BY <2>2, <3>1, <3>2, <3>3 DEF relayVars
    <2> QED BY <2>3, <2>4
<1>6. ASSUME NEW c \in Conns, NEW i \in RuleIds, CountTotal(c, i) PROVE TypeOK'
    <2>1. st[c] \in States
        BY <1>6 DEF CountTotal, Located
    <2> QED BY <1>6, <2>1 DEF CountTotal, relayVars
<1>7. ASSUME NEW c \in Conns, NEW i \in RuleIds, SumTotal(c, i) PROVE TypeOK'
    <2>1. st[c] \in States
        BY <1>7 DEF SumTotal, Located
    <2>2. CASE Over(counter[st[c]][i], i)
        BY <1>7, <2>2 DEF SumTotal, relayVars
    <2>3. CASE ~Over(counter[st[c]][i], i)
        <3>1. admitted' = [admitted EXCEPT ![st[c]][i] = admitted[st[c]][i] + 1]
            BY <1>7, <2>3 DEF SumTotal
        <3>2. admitted[st[c]][i] + 1 \in Nat
            BY <2>1
        <3>3. admitted' \in [States -> [RuleIds -> Nat]]
            BY <2>1, <3>1, <3>2, SetCell
        <3>4. todo[c] \ {i} \in SUBSET RuleIds
            OBVIOUS
        <3> QED BY <1>7, <2>3, <3>3, <3>4 DEF SumTotal, relayVars
    <2> QED BY <2>2, <2>3
<1>8. ASSUME NEW c \in Conns, Undo(c) \/ CloseAdd(c) PROVE TypeOK'
    <2>1. st[c] \in States
        BY <1>8 DEF Undo, CloseAdd, Located
    <2>2. CASE Undo(c)
        BY <2>1, <2>2 DEF Undo, relayVars
    <2>3. CASE CloseAdd(c)
        BY <2>1, <2>3 DEF CloseAdd, relayVars
    <2> QED BY <1>8, <2>2, <2>3
<1>9. ASSUME NEW c \in Conns, CloseLoad(c) PROVE TypeOK'
    BY <1>9 DEF CloseLoad
<1>10. ASSUME NEW c \in Conns, NEW d \in Directions, NEW n \in Chunks, Read(c, d, n)
       PROVE  TypeOK'
    <2>1. n \in Nat /\ TrafficRules(d) \subseteq RuleIds
        BY RulesAssumption, RuleFacts
    <2> QED BY <1>10, <2>1 DEF Read, conn
<1>11. ASSUME NEW c \in Conns, NEW d \in Directions, NEW i \in RuleIds,
              AddBytes(c, d, i)
       PROVE  TypeOK'
    <2>1. st[c] \in States /\ <<c, d>> \in Conns \X Directions
        BY <1>11 DEF AddBytes, Located, Recording
    <2> QED BY <1>11, <2>1 DEF AddBytes, conn
<1>12. ASSUME NEW c \in Conns, NEW d \in Directions, NEW i \in RuleIds,
              SumBytes(c, d, i)
       PROVE  TypeOK'
    <2>1. (IF UsedUp(c, i) THEN {} ELSE rtodo[<<c, d>>] \ {i}) \in SUBSET RuleIds
        BY DEF Directions
    <2>2. (cut[c] \/ UsedUp(c, i)) \in BOOLEAN
        BY DEF UsedUp
    <2> QED BY <1>12, <2>1, <2>2 DEF SumBytes, conn
<1>13. ASSUME NEW s \in States, NEW i \in RuleIds, WindowPasses(s, i)
       PROVE  TypeOK'
    <2>1. Cardinality(Pending(s, i)) \in Nat
        BY RulesAssumption, FS_Subset, FS_CardinalityType DEF Pending
    <2> QED BY <1>13, <2>1 DEF WindowPasses, conn, relayVars
<1>14. CASE UNCHANGED vars
    BY <1>14 DEF vars, conn, relayVars
<1> QED
    BY <1>1, <1>2, <1>3, <1>4, <1>5, <1>6, <1>7, <1>8, <1>9, <1>10, <1>11,
       <1>12, <1>13, <1>14 DEF Next, Resolve, Relay, Rest

LEMMA LocatedInit == Init => Located /\ Recording
BY DEF Init, Located, Recording, TrafficRules

LEMMA LocatedStep == TypeOK /\ Located /\ Recording /\ [Next]_vars => Located'
<1> SUFFICES ASSUME TypeOK, Located, Recording, [Next]_vars PROVE Located'
    OBVIOUS
<1> USE DEF TypeOK, Located, Goto, Leave
<1>1. ASSUME NEW c \in Conns, Lookup(c) PROVE Located'
    BY <1>1, NoneAssumption DEF Lookup
<1>2. ASSUME NEW c \in Conns, Create(c) PROVE Located'
    <2>1. UserState(c) \in States
        BY DEF UserState, States
    <2>2. \A k \in Keys : state[k] # None => state'[k] = state[k]
        BY <1>2 DEF Create, UserState
    <2>3. state'[key[c]] = UserState(c)
        BY <1>2 DEF Create
    <2> QED BY <1>2, <2>1, <2>2, <2>3, NoneAssumption DEF Create
<1>3. ASSUME NEW c \in Conns, NEW i \in RuleIds, CheckRule(c, i) PROVE Located'
    BY <1>3 DEF CheckRule
<1>4. ASSUME NEW c \in Conns,
             \/ ChecksDone(c) \/ InnerFails(c) \/ InnerResolves(c)
             \/ SlotsTaken(c) \/ Open(c)
      PROVE  Located'
    BY <1>4
    DEF ChecksDone, InnerFails, InnerResolves, SlotsTaken, Open
<1>5. ASSUME NEW c \in Conns, NEW i \in RuleIds, TakeSlot(c, i) PROVE Located'
    <2>1. Goto(c, "undo", {}) \/ Goto(c, "slots", todo[c] \ {i})
        BY <1>5 DEF TakeSlot
    <2>2. pc[c] = "slots" /\ UNCHANGED <<state, key, st>>
        BY <1>5 DEF TakeSlot
    <2>3. CASE Goto(c, "undo", {})
        BY <2>2, <2>3
    <2>4. CASE Goto(c, "slots", todo[c] \ {i})
        BY <2>2, <2>4
    <2> QED BY <2>1, <2>3, <2>4
<1>6. ASSUME NEW c \in Conns, NEW i \in RuleIds, CountTotal(c, i) PROVE Located'
    BY <1>6 DEF CountTotal
<1>7. ASSUME NEW c \in Conns, NEW i \in RuleIds, SumTotal(c, i) PROVE Located'
    <2>1. Goto(c, "undo", {}) \/ Goto(c, "totals", todo[c] \ {i})
        BY <1>7 DEF SumTotal
    <2>2. pc[c] = "sum" /\ UNCHANGED <<state, key, st>>
        BY <1>7 DEF SumTotal
    <2>3. CASE Goto(c, "undo", {})
        BY <2>2, <2>3
    <2>4. CASE Goto(c, "totals", todo[c] \ {i})
        BY <2>2, <2>4
    <2> QED BY <2>1, <2>3, <2>4
<1>8. ASSUME NEW c \in Conns, Undo(c) \/ CloseAdd(c) PROVE Located'
    BY <1>8 DEF Undo, CloseAdd
<1>9. ASSUME NEW c \in Conns, CloseLoad(c) PROVE Located'
    BY <1>9 DEF CloseLoad
<1>10. ASSUME NEW c \in Conns, NEW d \in Directions, Relay(c, d) PROVE Located'
    BY <1>10 DEF Relay, Read, AddBytes, SumBytes, conn
<1>11. ASSUME NEW s \in States, NEW i \in RuleIds, WindowPasses(s, i)
       PROVE  Located'
    BY <1>11 DEF WindowPasses, conn
<1>12. CASE UNCHANGED vars
    BY <1>12 DEF vars, conn
<1> QED
    BY <1>1, <1>2, <1>3, <1>4, <1>5, <1>6, <1>7, <1>8, <1>9, <1>10, <1>11,
       <1>12 DEF Next, Resolve, Rest

LEMMA RecordingStep == TypeOK /\ Recording /\ [Next]_vars => Recording'
<1> SUFFICES ASSUME TypeOK, Recording, [Next]_vars PROVE Recording'
    OBVIOUS
<1> USE DEF TypeOK, Recording, Goto, Leave
<1>1. ASSUME NEW c \in Conns, Lookup(c) \/ Resolve(c) \/ CloseAdd(c) PROVE Recording'
    <2>1. pc[c] # "open" /\ UNCHANGED <<rpc, rtodo, chunk>>
        BY <1>1 DEF Lookup, Resolve, CloseAdd, Create, ChecksDone, InnerFails,
           InnerResolves, SlotsTaken, Undo, Open, CheckRule, TakeSlot, CountTotal,
           SumTotal, relayVars
    <2>2. \A o \in Conns \ {c} : pc'[o] = pc[o]
        BY <1>1 DEF Lookup, Resolve, CloseAdd, Create, ChecksDone, InnerFails,
           InnerResolves, SlotsTaken, Undo, Open, CheckRule, TakeSlot, CountTotal,
           SumTotal
    <2> QED BY <2>1, <2>2
<1>2. ASSUME NEW c \in Conns, CloseLoad(c) PROVE Recording'
    BY <1>2 DEF CloseLoad
<1>3. ASSUME NEW c \in Conns, NEW d \in Directions, NEW n \in Chunks, Read(c, d, n)
      PROVE  Recording'
    BY <1>3 DEF Read, conn
<1>4. ASSUME NEW c \in Conns, NEW d \in Directions, NEW i \in RuleIds,
             AddBytes(c, d, i)
      PROVE  Recording'
    BY <1>4 DEF AddBytes, conn
<1>5. ASSUME NEW c \in Conns, NEW d \in Directions, NEW i \in RuleIds,
             SumBytes(c, d, i)
      PROVE  Recording'
    BY <1>5 DEF SumBytes, conn
<1>6. CASE \E s \in States, i \in RuleIds : WindowPasses(s, i)
    BY <1>6 DEF WindowPasses, conn, relayVars
<1>7. CASE UNCHANGED vars
    BY <1>7 DEF vars, conn, relayVars
<1> QED
    BY <1>1, <1>2, <1>3, <1>4, <1>5, <1>6, <1>7 DEF Next, Relay, Rest

LEMMA TypeInvariant == Spec => [](TypeOK /\ Located /\ Recording)
BY TypeInit, LocatedInit, TypeStep, LocatedStep, RecordingStep, PTL DEF Spec

\* Every variable of the limiter keeps its type, windowed counts natural numbers
\* among them, and with them every place a connection or relay is in.
THEOREM TypeCorrect == Spec => []TypeOK
BY TypeInvariant, PTL
-----------------------------------------------------------------------------
\* Sets of connections are finite; how one changes when connections leave it,
\* or one joins it.
LEMMA Counting ==
    ASSUME NEW S \in SUBSET Conns
    PROVE  /\ IsFiniteSet(S) /\ Cardinality(S) \in Nat
           /\ \A T \in SUBSET S : /\ Cardinality(T) \in Nat
                                  /\ Cardinality(T) <= Cardinality(S)
           /\ \A c \in S : Cardinality(S \ {c}) = Cardinality(S) - 1
           /\ \A c \in Conns \ S : Cardinality(S \cup {c}) = Cardinality(S) + 1
<1>1. IsFiniteSet(S) /\ Cardinality(S) \in Nat
    BY RulesAssumption, FS_Subset, FS_CardinalityType
<1>2. \A T \in SUBSET S : Cardinality(T) \in Nat /\ Cardinality(T) <= Cardinality(S)
    BY <1>1, FS_Subset, FS_CardinalityType
<1> QED BY <1>1, <1>2, FS_AddElement, FS_RemoveElement

LEMMA SlotsInit == Init => SlotsCover /\ SlotsExact /\ PassersLimited
<1> SUFFICES ASSUME Init PROVE SlotsCover /\ SlotsExact /\ PassersLimited
    OBVIOUS
<1>1. \A s \in States : Takers(s) = {} /\ \A i \in ConcurrentRules : Passers(s, i) = {}
    BY DEF Init, Takers, Took, Passers, Passed
<1>2. \A s \in States : concurrent[s] = 0
    BY DEF Init
<1>3. \A s \in States : Cardinality(Takers(s)) = concurrent[s]
    BY <1>1, <1>2, FS_EmptySet
<1>4. \A s \in States, i \in ConcurrentRules : Cardinality(Passers(s, i)) = 0
    BY <1>1, FS_EmptySet
<1>5. \A i \in ConcurrentRules : 0 <= Rules[i].max
    BY RuleFacts
<1> QED BY <1>2, <1>3, <1>4, <1>5 DEF SlotsCover, SlotsExact, PassersLimited

LEMMA FewerPass ==
    ASSUME PassersLimited,
           \A s \in States, i \in ConcurrentRules :
               Passers(s, i)' \in SUBSET Passers(s, i)
    PROVE  PassersLimited'
<1> SUFFICES ASSUME NEW s \in States, NEW i \in ConcurrentRules
             PROVE  Cardinality(Passers(s, i)') <= Rules[i].max
    BY DEF PassersLimited
<1>1. Passers(s, i) \in SUBSET Conns
    BY DEF Passers
<1> QED BY <1>1, Counting, RuleFacts DEF PassersLimited

\* The usual rule list: a connection takes one slot.  With two concurrent rules
\* it takes two and Close gives back one; with none a refused connection gives
\* back one that it never took.
OneConcurrentRule == \E i \in RuleIds : ConcurrentRules = {i}

\* The call gives back the one slot it answers for, and ends.
LEMMA SlotReturned ==
    ASSUME TypeOK, Located, SlotsCover, PassersLimited, NEW c \in Conns,
           pc[c] \in {"undo", "closing"}, Leave(c),
           concurrent' = [concurrent EXCEPT ![st[c]] = @ - 1]
    PROVE  SlotsCover' /\ PassersLimited' /\ (SlotsExact => SlotsExact')
<1>1. /\ pc' = [pc EXCEPT ![c] = "idle"] /\ todo' = [todo EXCEPT ![c] = {}]
      /\ st' = [st EXCEPT ![c] = None]
    BY DEF Leave, Goto
<1>2. st[c] \in States
    BY DEF Located
<1>3. \A s \in States : /\ Takers(s) \in SUBSET Conns
                        /\ concurrent[s] \in Int
                        /\ s # st[c] => concurrent'[s] = concurrent[s]
                        /\ s = st[c] => concurrent'[s] = concurrent[s] - 1
    BY <1>2 DEF Takers, TypeOK
<1>4. ASSUME NEW s \in States PROVE Takers(s)' = Takers(s) \ {c}
    BY <1>1, NoneAssumption DEF Takers, Took, TypeOK
<1>5. c \in Takers(st[c])
    BY DEF Takers, Took
<1>6. ASSUME NEW s \in States, s # st[c] PROVE c \notin Takers(s)
    BY <1>6 DEF Takers
<1>7. ASSUME NEW s \in States
      PROVE  /\ Cardinality(Takers(s)) \in Nat
             /\ s # st[c] => Cardinality(Takers(s)') = Cardinality(Takers(s))
             /\ s = st[c] => Cardinality(Takers(s)') = Cardinality(Takers(s)) - 1
    <2>1. CASE s = st[c]
        BY <1>3, <1>4, <1>5, <2>1, Counting
    <2>2. CASE s # st[c]
        <3>1. Takers(s) \ {c} = Takers(s)
            BY <1>6, <2>2
        <3> QED BY <1>3, <1>4, <2>2, <3>1, Counting
    <2> QED BY <2>1, <2>2
<1>8. SlotsCover'
    BY <1>3, <1>7 DEF SlotsCover
<1>9. SlotsExact => SlotsExact'
    BY <1>3, <1>7 DEF SlotsExact
<1>10. ASSUME NEW s \in States, NEW i \in ConcurrentRules
       PROVE  Passers(s, i)' \in SUBSET Passers(s, i)
    BY <1>1, NoneAssumption DEF Passers, Passed, TypeOK
<1> QED BY <1>8, <1>9, <1>10, FewerPass

\* A call takes a slot: it is counted together with all who hold one, so if
\* it passes the rule there is room for all who passed it.
LEMMA SlotTaken ==
    ASSUME TypeOK, Located, SlotsCover, PassersLimited,
           NEW c \in Conns, NEW i \in RuleIds, TakeSlot(c, i)
    PROVE  /\ SlotsCover' /\ PassersLimited'
           /\ OneConcurrentRule /\ SlotsExact => SlotsExact'
<1>1. /\ pc[c] = "slots" /\ st[c] \in States /\ st' = st
      /\ i \in todo[c] /\ todo[c] \subseteq ConcurrentRules
      /\ concurrent' = [concurrent EXCEPT ![st[c]] = concurrent[st[c]] + 1]
    BY DEF TakeSlot, FirstOf, Located
<1>2. \A s \in States : /\ Takers(s) \in SUBSET Conns
                        /\ concurrent[s] \in Int
                        /\ s # st[c] => concurrent'[s] = concurrent[s]
                        /\ s = st[c] => concurrent'[s] = concurrent[s] + 1
    BY <1>1 DEF Takers, TypeOK
<1>3. \/ Over(concurrent[st[c]] + 1, i) /\ Goto(c, "undo", {})
      \/ ~Over(concurrent[st[c]] + 1, i) /\ Goto(c, "slots", todo[c] \ {i})
    BY DEF TakeSlot
<1>4. \A o \in Conns \ {c} : pc'[o] = pc[o] /\ todo'[o] = todo[o]
    BY <1>3 DEF Goto, TypeOK
<1>5. \/ Over(concurrent[st[c]] + 1, i) /\ pc'[c] = "undo"
      \/ /\ ~Over(concurrent[st[c]] + 1, i)
         /\ pc'[c] = "slots" /\ todo'[c] = todo[c] \ {i}
    BY <1>1, <1>3 DEF Goto, TypeOK
<1>6. Took(c)' /\ \A o \in Conns \ {c} : Took(o)' <=> Took(o)
    BY <1>1, <1>4, <1>5 DEF Took
<1>7. ASSUME NEW s \in States
      PROVE  Takers(s)' = IF s = st[c] THEN Takers(s) \cup {c} ELSE Takers(s)
    BY <1>1, <1>6 DEF Takers
<1>8. ASSUME NEW s \in States
      PROVE  /\ Cardinality(Takers(s)) \in Nat /\ Cardinality(Takers(s)') \in Nat
             /\ s # st[c] => Cardinality(Takers(s)') = Cardinality(Takers(s))
             /\ s = st[c] => /\ Cardinality(Takers(s)') <= Cardinality(Takers(s)) + 1
                             /\ c \notin Takers(s) =>
                                   Cardinality(Takers(s)') = Cardinality(Takers(s)) + 1
    <2>1. CASE s # st[c]
        BY <1>2, <1>7, <2>1, Counting
    <2>2. CASE s = st[c] /\ c \in Takers(s)
        <3>1. Takers(s)' = Takers(s)
            BY <1>7, <2>2
        <3> QED BY <1>2, <2>2, <3>1, Counting
    <2>3. CASE s = st[c] /\ c \notin Takers(s)
        <3>1. Cardinality(Takers(s)') = Cardinality(Takers(s)) + 1
            BY <1>2, <1>7, <2>3, Counting
        <3>2. Cardinality(Takers(s)) \in Nat
            BY <1>2, Counting
        <3> QED BY <2>3, <3>1, <3>2
    <2> QED BY <2>1, <2>2, <2>3
<1>9. SlotsCover'
    BY <1>2, <1>8 DEF SlotsCover
<1>10. ASSUME OneConcurrentRule, SlotsExact PROVE SlotsExact'
    <2>1. todo[c] = ConcurrentRules
        BY <1>1, <1>10 DEF OneConcurrentRule
    <2>2. c \notin Takers(st[c])
        BY <1>1, <2>1 DEF Takers, Took
    <2> QED BY <1>2, <1>8, <1>10, <2>2 DEF SlotsExact
<1>11. ASSUME NEW s \in States, NEW j \in ConcurrentRules
       PROVE  Cardinality(Passers(s, j)') <= Rules[j].max
    <2>1. Passers(s, j) \in SUBSET Conns /\ Cardinality(Passers(s, j)) <= Rules[j].max
        BY DEF Passers, PassersLimited
    <2>2. CASE s = st[c] /\ j = i /\ ~Over(concurrent[st[c]] + 1, i)
        <3>1. Passers(s, j)' \subseteq Takers(s)'
            BY <1>1, <1>4, <1>6, <2>2 DEF Passers, Passed, Takers, Took
        <3>2. Cardinality(Takers(s)') <= concurrent'[s]
            BY <1>9, <2>2 DEF SlotsCover
        <3>3. concurrent'[s] <= Rules[j].max
            BY <1>2, <2>2, RuleFacts DEF Over
        <3>4. Takers(s)' \in SUBSET Conns
            BY <1>2, <1>7
        <3>5. /\ Cardinality(Passers(s, j)') \in Nat /\ Cardinality(Takers(s)') \in Nat
              /\ Cardinality(Passers(s, j)') <= Cardinality(Takers(s)')
            BY <3>1, <3>4, Counting
        <3> QED BY <1>2, <2>2, <3>2, <3>3, <3>5, RuleFacts
    <2>3. CASE ~(s = st[c] /\ j = i /\ ~Over(concurrent[st[c]] + 1, i))
        <3>1. Passers(s, j)' \in SUBSET Passers(s, j)
            BY <1>1, <1>4, <1>5, <2>3 DEF Passers, Passed
        <3> QED BY <2>1, <3>1, Counting, RuleFacts
    <2> QED BY <2>2, <2>3
<1> QED BY <1>9, <1>10, <1>11 DEF PassersLimited

\* A step that neither takes nor returns a slot, and lets no call pass a rule.
LEMMA SlotsUntouched ==
    ASSUME SlotsCover, PassersLimited, concurrent' = concurrent,
           \A s \in States, o \in Conns :
               /\ (st'[o] = s /\ Took(o)') <=> (st[o] = s /\ Took(o))
               /\ \A i \in ConcurrentRules :
                     (st'[o] = s /\ Passed(o, i)') => (st[o] = s /\ Passed(o, i))
    PROVE  SlotsCover' /\ PassersLimited' /\ (SlotsExact => SlotsExact')
<1>1. \A s \in States : Takers(s)' = Takers(s)
    BY DEF Takers
<1>2. \A s \in States, i \in ConcurrentRules : Passers(s, i)' \in SUBSET Passers(s, i)
    BY DEF Passers
<1> QED BY <1>1, <1>2, FewerPass DEF SlotsCover, SlotsExact

LEMMA SlotsStep ==
    ASSUME TypeOK, Located, SlotsCover, PassersLimited, [Next]_vars,
           ConcurrentRules # {}
    PROVE  /\ SlotsCover' /\ PassersLimited'
           /\ OneConcurrentRule /\ SlotsExact => SlotsExact'
<1> DEFINE Kept == /\ SlotsCover' /\ PassersLimited'
                   /\ OneConcurrentRule /\ SlotsExact => SlotsExact'
<1>1. ASSUME NEW c \in Conns,
             \/ Lookup(c) \/ Create(c) \/ ChecksDone(c) \/ InnerFails(c)
             \/ \E i \in RuleIds : CheckRule(c, i)
      PROVE  Kept
    <2>1. /\ pc[c] \in {"idle", "create", "check", "inner"}
          /\ pc'[c] \in {"idle", "create", "check", "inner"}
          /\ \A o \in Conns \ {c} :
                pc'[o] = pc[o] /\ todo'[o] = todo[o] /\ st'[o] = st[o]
          /\ concurrent' = concurrent
        BY <1>1 DEF TypeOK, Lookup, Create, ChecksDone, InnerFails, CheckRule,
           Goto, Leave
    <2>2. ~Took(c) /\ ~Took(c)' /\ \A i \in ConcurrentRules : ~Passed(c, i)'
        BY <2>1 DEF Took, Passed
    <2> QED BY <2>1, <2>2, SlotsUntouched DEF Took, Passed
<1>2. ASSUME NEW c \in Conns, InnerResolves(c) PROVE Kept
    <2>1. /\ pc[c] = "inner" /\ pc'[c] = "slots" /\ todo'[c] = ConcurrentRules
          /\ \A o \in Conns \ {c} : pc'[o] = pc[o] /\ todo'[o] = todo[o]
          /\ UNCHANGED <<st, concurrent>>
        BY <1>2 DEF TypeOK, InnerResolves, Goto
    <2> QED BY <2>1, SlotsUntouched DEF Took, Passed
<1>3. ASSUME NEW c \in Conns,
             \/ SlotsTaken(c) \/ Open(c)
             \/ \E i \in RuleIds : CountTotal(c, i) \/ SumTotal(c, i)
      PROVE  Kept
    <2>1. /\ (pc[c] = "slots" /\ todo[c] = {}) \/ pc[c] \in {"totals", "sum"}
          /\ pc'[c] \in {"totals", "sum", "undo", "open"}
          /\ \A o \in Conns \ {c} : pc'[o] = pc[o] /\ todo'[o] = todo[o]
          /\ UNCHANGED <<st, concurrent>>
        BY <1>3 DEF TypeOK, SlotsTaken, Open, CountTotal, SumTotal, Goto
    <2>2. /\ Took(c) /\ Took(c)'
          /\ \A i \in ConcurrentRules : Passed(c, i)
        BY <2>1 DEF Took, Passed
    <2> QED BY <2>1, <2>2, SlotsUntouched DEF Took, Passed
<1>4. ASSUME NEW c \in Conns, NEW i \in RuleIds, TakeSlot(c, i) PROVE Kept
    BY <1>4, SlotTaken
<1>5. ASSUME NEW c \in Conns, Undo(c) \/ CloseAdd(c) PROVE Kept
    BY <1>5, SlotReturned DEF Undo, CloseAdd
\* Close finds a slot to give back: its own.
<1>6. ASSUME NEW c \in Conns, CloseLoad(c) PROVE Kept
    <2>1. pc[c] = "open" /\ st[c] \in States /\ concurrent' = concurrent
        BY <1>6 DEF CloseLoad, Located
    <2>2. c \in Takers(st[c]) /\ Takers(st[c]) \in SUBSET Conns
        BY <2>1 DEF Takers, Took
    <2>3. Cardinality(Takers(st[c])) \in Nat \ {0}
        BY <2>2, Counting, FS_EmptySet
    <2>4. concurrent[st[c]] > 0
        <3>1. Cardinality(Takers(st[c])) <= concurrent[st[c]]
            BY <2>1 DEF SlotsCover
        <3>2. concurrent[st[c]] \in Int
            BY <2>1 DEF TypeOK
        <3> QED BY <2>3, <3>1, <3>2
    <2>5. pc' = [pc EXCEPT ![c] = "closing"] /\ todo' = [todo EXCEPT ![c] = {}] /\ st' = st
        BY <1>6, <2>4 DEF CloseLoad, Goto
    <2>6. /\ pc'[c] = "closing"
          /\ \A o \in Conns \ {c} : pc'[o] = pc[o] /\ todo'[o] = todo[o]
        BY <2>5 DEF TypeOK
    <2> QED BY <2>1, <2>5, <2>6, SlotsUntouched DEF Took, Passed
<1>7. CASE UNCHANGED <<conn, concurrent>>
    BY <1>7, SlotsUntouched DEF conn, Took, Passed
<1>8. ASSUME NEW c \in Conns, NEW d \in Directions, Relay(c, d) PROVE Kept
    BY <1>7, <1>8 DEF Relay, Read, AddBytes, SumBytes
<1>9. CASE \E s \in States, i \in RuleIds : WindowPasses(s, i)
    BY <1>7, <1>9 DEF WindowPasses
<1>10. CASE UNCHANGED vars
    BY <1>7, <1>10 DEF vars
<1> QED
    BY <1>1, <1>2, <1>3, <1>4, <1>5, <1>6, <1>8, <1>9, <1>10
    DEF Next, Resolve, Rest

LEMMA SlotsInvariant == Spec => [](SlotsCover /\ PassersLimited)
<1>1. TypeOK /\ Located /\ SlotsCover /\ PassersLimited /\ [Next]_vars
         => SlotsCover' /\ PassersLimited'
    BY SlotsStep DEF SlotsCover, PassersLimited
<1> QED BY <1>1, SlotsInit, TypeInvariant, PTL DEF Spec

\* A key never has more connections open than any of its concurrent rules
\* allows, for any number of keys, connections and rules of all kinds, however
\* Resolve, openConnection and Close overlap (also while two calls create the
\* userState of the key at once).
THEOREM LimitKept == Spec => []ConcurrencyLimit
<1>1. TypeOK /\ Located /\ PassersLimited => ConcurrencyLimit
    <2> SUFFICES ASSUME TypeOK, Located, PassersLimited,
                        NEW k \in Keys, NEW i \in ConcurrentRules
                 PROVE  Cardinality({c \in Conns : key[c] = k /\ LetIn(c)})
                           <= Rules[i].max
        BY DEF ConcurrencyLimit
    <2> DEFINE In == {c \in Conns : key[c] = k /\ LetIn(c)}
    <2>1. CASE state[k] \in States
        <3>1. In \in SUBSET Passers(state[k], i)
            BY DEF Located, LetIn, Passers, Passed
        <3>2. Passers(state[k], i) \in SUBSET Conns
            BY DEF Passers
        <3>3. Cardinality(Passers(state[k], i)) <= Rules[i].max
            BY <2>1 DEF PassersLimited
        <3> HIDE DEF In
        <3>4. /\ Cardinality(In) \in Nat /\ Cardinality(Passers(state[k], i)) \in Nat
              /\ Cardinality(In) <= Cardinality(Passers(state[k], i))
            BY <3>1, <3>2, Counting
        <3>5. Cardinality(In) <= Rules[i].max
            BY <3>3, <3>4, RuleFacts
        <3> QED BY <3>5 DEF In
    <2>2. CASE state[k] \notin States
        <3>1. In = {}
            BY <2>2 DEF Located, LetIn
        <3> HIDE DEF In
        <3>2. Cardinality(In) = 0
            BY <3>1, FS_EmptySet
        <3>3. Cardinality(In) <= Rules[i].max
            BY <3>2, RuleFacts
        <3> QED BY <3>3 DEF In
    <2> QED BY <2>1, <2>2
<1> QED BY <1>1, TypeInvariant, SlotsInvariant, PTL

\* With one concurrent rule the slot counter of a userState is at any moment
\* the number of calls that hold a slot: Close and refusals give back what
\* openConnection took, once.
THEOREM SlotsBalanced ==
    ASSUME OneConcurrentRule
    PROVE  Spec => []SlotsAccounted
<1>1. TypeOK /\ Located /\ SlotsCover /\ PassersLimited /\ SlotsExact /\ [Next]_vars
         => SlotsExact'
    BY SlotsStep DEF OneConcurrentRule
<1>2. TypeOK /\ Located /\ SlotsExact => SlotsAccounted
    <2> SUFFICES ASSUME TypeOK, Located, SlotsExact, NEW s \in States
                 PROVE  concurrent[s] = Cardinality({c \in Conns : st[c] = s /\ Holding(c)})
        BY DEF SlotsAccounted
    <2>1. \A c \in Conns : pc[c] = "slots" => (todo[c] = {} <=> todo[c] # ConcurrentRules)
        BY DEF Located, OneConcurrentRule
    <2>2. {c \in Conns : st[c] = s /\ Holding(c)} = Takers(s)
        BY <2>1 DEF Takers, Took, Holding, LetIn
    <2> QED BY <2>2 DEF SlotsExact
<1> QED BY <1>1, <1>2, SlotsInit, TypeInvariant, SlotsInvariant, PTL DEF Spec
-----------------------------------------------------------------------------
LEMMA PendingCount ==
    ASSUME NEW s, NEW i
    PROVE  Pending(s, i) \in SUBSET Conns /\ Cardinality(Pending(s, i)) \in Nat
<1>1. Pending(s, i) \in SUBSET Conns
    BY DEF Pending
<1> QED BY <1>1, Counting

LEMMA CountsInit == Init => CountsCover /\ TotalLimit
<1> SUFFICES ASSUME Init PROVE CountsCover /\ TotalLimit
    OBVIOUS
<1>1. \A s \in States, i \in RuleIds :
         /\ Pending(s, i) = {} /\ admitted[s][i] = 0
         /\ counter[s][i] = 0 /\ straddling[s][i] = 0
    BY DEF Init, Pending
<1>2. \A i \in TotalRules : i \in RuleIds /\ 0 <= Rules[i].max + 0
    BY RuleFacts
<1>3. \A s \in States, i \in RuleIds : Cardinality(Pending(s, i)) = 0
    BY <1>1, FS_EmptySet
<1>4. CountsCover
    BY <1>1, <1>3 DEF CountsCover
<1>5. TotalLimit
    BY <1>1, <1>2 DEF TotalLimit
<1> QED BY <1>4, <1>5

\* Steps that count for no total rule: nobody begins to wait for a sum, and no
\* counter goes down.
LEMMA CountsUntouched ==
    ASSUME TypeOK, TypeOK', CountsCover, TotalLimit, UNCHANGED history,
           \A s \in States, i \in RuleIds :
               /\ counter[s][i] <= counter'[s][i]
               /\ Pending(s, i)' \in SUBSET Pending(s, i)
    PROVE  CountsCover' /\ TotalLimit'
<1>1. ASSUME NEW s \in States, NEW i \in RuleIds
      PROVE  admitted[s][i] + Cardinality(Pending(s, i)')
                <= counter'[s][i] + straddling[s][i]
    <2>1. admitted[s][i] + Cardinality(Pending(s, i)) <= counter[s][i] + straddling[s][i]
        BY DEF CountsCover
    <2>2. /\ admitted[s][i] \in Nat /\ straddling[s][i] \in Nat
          /\ counter[s][i] \in Nat /\ counter'[s][i] \in Nat
        BY DEF TypeOK
    <2>3. /\ Cardinality(Pending(s, i)) \in Nat /\ Cardinality(Pending(s, i)') \in Nat
          /\ Cardinality(Pending(s, i)') <= Cardinality(Pending(s, i))
        BY PendingCount, Counting
    <2> QED BY <2>1, <2>2, <2>3
<1> QED BY <1>1 DEF CountsCover, TotalLimit, history

LEMMA CountsStep ==
    ASSUME TypeOK, TypeOK', Located, Recording, CountsCover, TotalLimit, [Next]_vars
    PROVE  CountsCover' /\ TotalLimit'
<1>1. \A s \in States, i \in RuleIds :
         /\ admitted[s][i] \in Nat /\ counter[s][i] \in Nat
         /\ admitted'[s][i] \in Nat /\ counter'[s][i] \in Nat
         /\ straddling[s][i] \in Nat /\ straddling'[s][i] \in Nat
    BY DEF TypeOK
<1>2. \A s \in States, i \in RuleIds :
         admitted[s][i] + Cardinality(Pending(s, i)) <= counter[s][i] + straddling[s][i]
    BY DEF CountsCover
\* Only CountTotal brings a call to the place of a sum.
<1>3. ASSUME NEW c \in Conns, UNCHANGED <<counter, history>>,
             \A o \in Conns \ {c} : /\ pc'[o] = pc[o] /\ todo'[o] = todo[o]
                                    /\ st'[o] = st[o],
             pc'[c] # "sum"
      PROVE  CountsCover' /\ TotalLimit'
    <2>1. \A s \in States, i \in RuleIds : Pending(s, i)' \in SUBSET Pending(s, i)
        BY <1>3 DEF Pending
    <2> QED BY <1>1, <1>3, <2>1, CountsUntouched
<1>4. ASSUME NEW c \in Conns,
             \/ Lookup(c) \/ Create(c) \/ ChecksDone(c) \/ InnerFails(c)
             \/ InnerResolves(c) \/ SlotsTaken(c) \/ Undo(c) \/ Open(c)
             \/ CloseLoad(c) \/ CloseAdd(c)
             \/ \E i \in RuleIds : CheckRule(c, i) \/ TakeSlot(c, i)
      PROVE  CountsCover' /\ TotalLimit'
    <2>1. UNCHANGED <<counter, history>>
        BY <1>4
        DEF Lookup, Create, ChecksDone, InnerFails, InnerResolves, SlotsTaken,
            Undo, Open, CloseLoad, CloseAdd, CheckRule, TakeSlot
    <2>2. /\ pc'[c] # "sum"
          /\ \A o \in Conns \ {c} : /\ pc'[o] = pc[o] /\ todo'[o] = todo[o]
                                    /\ st'[o] = st[o]
        BY <1>4
        DEF TypeOK, Lookup, Create, ChecksDone, InnerFails, InnerResolves,
            SlotsTaken, Undo, Open, CloseLoad, CloseAdd, CheckRule, TakeSlot,
            Goto, Leave
    <2> QED BY <1>3, <2>1, <2>2
<1>5. ASSUME NEW c \in Conns, NEW i \in RuleIds, CountTotal(c, i)
      PROVE  CountsCover' /\ TotalLimit'
    <2>1. /\ pc[c] = "totals" /\ FirstOf(todo[c], i) /\ st[c] \in States
          /\ counter' = [counter EXCEPT ![st[c]][i] = counter[st[c]][i] + 1]
          /\ pc' = [pc EXCEPT ![c] = "sum"] /\ todo' = [todo EXCEPT ![c] = todo[c]]
          /\ UNCHANGED <<st, admitted, straddling>>
        BY <1>5 DEF CountTotal, Located, Goto, history
    <2>2. /\ counter'[st[c]][i] = counter[st[c]][i] + 1
          /\ \A s \in States, j \in RuleIds :
                s # st[c] \/ j # i => counter'[s][j] = counter[s][j]
        BY <2>1 DEF TypeOK
    <2>3. todo' = todo
        BY <2>1 DEF TypeOK
    <2>4. /\ Pending(st[c], i)' = Pending(st[c], i) \cup {c}
          /\ c \notin Pending(st[c], i)
        BY <2>1, <2>3 DEF Pending, TypeOK
    <2>5. ASSUME NEW s \in States, NEW j \in RuleIds, s # st[c] \/ j # i
          PROVE  Pending(s, j)' = Pending(s, j)
        <3>1. FirstOf(todo[c], j) /\ s = st[c] => j = i
            BY <2>1, FirstUnique
        <3> QED BY <2>1, <2>3, <2>5, <3>1 DEF Pending, TypeOK
    <2>6. Cardinality(Pending(st[c], i)') = Cardinality(Pending(st[c], i)) + 1
        BY <2>4, PendingCount, Counting
    <2>7. ASSUME NEW s \in States, NEW j \in RuleIds
          PROVE  admitted[s][j] + Cardinality(Pending(s, j)')
                    <= counter'[s][j] + straddling[s][j]
        <3>1. CASE s = st[c] /\ j = i
            <4>1. /\ admitted[s][j] \in Nat /\ counter[s][j] \in Nat
                  /\ straddling[s][j] \in Nat
                  /\ admitted[s][j] + Cardinality(Pending(s, j))
                        <= counter[s][j] + straddling[s][j]
                  /\ Cardinality(Pending(s, j)) \in Nat
                BY <1>1, <1>2, PendingCount
            <4>2. /\ counter'[s][j] = counter[s][j] + 1
                  /\ Cardinality(Pending(s, j)') = Cardinality(Pending(s, j)) + 1
                BY <2>1, <2>2, <2>6, <3>1
            <4> QED BY <4>1, <4>2
        <3>2. CASE s # st[c] \/ j # i
            BY <1>2, <2>2, <2>5, <3>2
        <3> QED BY <3>1, <3>2
    <2> QED BY <2>1, <2>7 DEF CountsCover, TotalLimit
<1>6. ASSUME NEW c \in Conns, NEW i \in RuleIds, SumTotal(c, i)
      PROVE  CountsCover' /\ TotalLimit'
    <2>1. CASE Over(counter[st[c]][i], i)
        BY <1>3, <1>6, <2>1 DEF SumTotal, Goto, TypeOK, history
    <2>2. CASE ~Over(counter[st[c]][i], i)
        <3>1. /\ pc[c] = "sum" /\ FirstOf(todo[c], i) /\ st[c] \in States
              /\ admitted' = [admitted EXCEPT ![st[c]][i] = admitted[st[c]][i] + 1]
              /\ pc' = [pc EXCEPT ![c] = "totals"]
              /\ todo' = [todo EXCEPT ![c] = todo[c] \ {i}]
              /\ UNCHANGED <<st, counter, straddling>>
            BY <1>6, <2>2 DEF SumTotal, Located, Goto
        <3>2. /\ admitted'[st[c]][i] = admitted[st[c]][i] + 1
              /\ \A s \in States, j \in RuleIds :
                    s # st[c] \/ j # i => admitted'[s][j] = admitted[s][j]
            BY <3>1 DEF TypeOK
        <3>3. \A s \in States, j \in RuleIds : Pending(s, j)' = Pending(s, j) \ {c}
            BY <3>1 DEF Pending, TypeOK
        <3>4. c \in Pending(st[c], i)
            BY <3>1 DEF Pending
        <3>5. ASSUME NEW s \in States, NEW j \in RuleIds
              PROVE  admitted'[s][j] + Cardinality(Pending(s, j)')
                        <= counter[s][j] + straddling[s][j]
            <4>1. CASE s = st[c] /\ j = i
                <5>1. Cardinality(Pending(s, j)') = Cardinality(Pending(s, j)) - 1
                    BY <3>3, <3>4, <4>1, PendingCount, Counting
                <5> QED BY <1>1, <1>2, <3>2, <4>1, <5>1, PendingCount
            <4>2. CASE s # st[c] \/ j # i
                <5>1. /\ Cardinality(Pending(s, j)') <= Cardinality(Pending(s, j))
                      /\ Cardinality(Pending(s, j)') \in Nat
                    BY <3>3, PendingCount, Counting
                <5> QED BY <1>1, <1>2, <3>2, <4>2, <5>1, PendingCount
            <4> QED BY <4>1, <4>2
        <3>6. admitted'[st[c]][i] <= Rules[i].max + straddling[st[c]][i]
            <4>1. admitted'[st[c]][i] <= counter[st[c]][i] + straddling[st[c]][i]
                BY <1>1, <3>1, <3>3, <3>5, PendingCount, Counting
            <4>2. counter[st[c]][i] <= Rules[i].max
                BY <1>1, <2>2, <3>1, RuleFacts DEF Over
            <4> QED BY <1>1, <3>1, <4>1, <4>2, RuleFacts
        <3>7. TotalLimit'
            BY <3>1, <3>2, <3>6, RuleFacts DEF TotalLimit
        <3> QED BY <3>1, <3>5, <3>7 DEF CountsCover
    <2> QED BY <2>1, <2>2
<1>7. ASSUME NEW c \in Conns, NEW d \in Directions, Relay(c, d)
      PROVE  CountsCover' /\ TotalLimit'
    <2>1. \A s \in States, i \in RuleIds : Pending(s, i)' = Pending(s, i)
        BY <1>7 DEF Relay, Read, AddBytes, SumBytes, conn, Pending
    <2>2. UNCHANGED history
        BY <1>7 DEF Relay, Read, AddBytes, SumBytes
    <2>3. \A s \in States, i \in RuleIds : counter[s][i] <= counter'[s][i]
        <3>1. CASE counter' = counter
            BY <1>1, <3>1
        <3>2. ASSUME NEW i \in RuleIds, AddBytes(c, d, i)
              PROVE  \A s \in States, j \in RuleIds : counter[s][j] <= counter'[s][j]
            <4>1. st[c] \in States /\ chunk[<<c, d>>] \in Nat
                BY <3>2 DEF AddBytes, Located, Recording, TypeOK
            <4>2. /\ counter'[st[c]][i] = counter[st[c]][i] + chunk[<<c, d>>]
                  /\ \A s \in States, j \in RuleIds :
                        s # st[c] \/ j # i => counter'[s][j] = counter[s][j]
                BY <3>2, <4>1 DEF AddBytes, TypeOK
            <4> QED BY <1>1, <4>1, <4>2
        <3> QED BY <1>7, <3>1, <3>2 DEF Relay, Read, SumBytes
    <2> QED BY <2>1, <2>2, <2>3, CountsUntouched
<1>8. ASSUME NEW s \in States, NEW i \in RuleIds, WindowPasses(s, i)
      PROVE  CountsCover' /\ TotalLimit'
    <2>1. /\ counter' = [counter EXCEPT ![s][i] = 0]
          /\ admitted' = [admitted EXCEPT ![s][i] = 0]
          /\ straddling' = [straddling EXCEPT ![s][i] = Cardinality(Pending(s, i))]
        BY <1>8 DEF WindowPasses
    <2>2. \A t \in States, j \in RuleIds : Pending(t, j)' = Pending(t, j)
        BY <1>8 DEF WindowPasses, conn, Pending
    <2>3. /\ counter'[s][i] = 0 /\ admitted'[s][i] = 0
          /\ straddling'[s][i] = Cardinality(Pending(s, i))
          /\ \A t \in States, j \in RuleIds : t # s \/ j # i =>
                /\ counter'[t][j] = counter[t][j] /\ admitted'[t][j] = admitted[t][j]
                /\ straddling'[t][j] = straddling[t][j]
        BY <2>1, PendingCount DEF TypeOK
    <2>4. CountsCover'
        BY <1>2, <2>2, <2>3, PendingCount DEF CountsCover
    <2>5. TotalLimit'
        <3>1. ASSUME NEW t \in States, NEW j \in TotalRules
              PROVE  admitted'[t][j] <= Rules[j].max + straddling'[t][j]
            <4>1. j \in RuleIds /\ Rules[j].max \in Nat
                BY RuleFacts
            <4>2. CASE t = s /\ j = i
                BY <2>3, <4>1, <4>2, PendingCount
            <4>3. CASE t # s \/ j # i
                BY <2>3, <4>1, <4>3 DEF TotalLimit
            <4> QED BY <4>2, <4>3
        <3> QED BY <3>1 DEF TotalLimit
    <2> QED BY <2>4, <2>5
<1>9. CASE UNCHANGED vars
    <2>1. \A s \in States, i \in RuleIds : Pending(s, i)' = Pending(s, i)
        BY <1>9 DEF vars, conn, Pending
    <2> QED BY <1>1, <1>9, <2>1, CountsUntouched DEF vars
<1> QED
    BY <1>4, <1>5, <1>6, <1>7, <1>8, <1>9 DEF Next, Resolve, Rest

\* A window of a total rule lets at most Max connections of a key pass, and on
\* top of them only calls that were between counters[i].Add and the sum it
\* returns when the window began, for any rules and number of connections.
THEOREM TotalKept == Spec => []TotalLimit
<1>1. TypeOK /\ Located /\ Recording /\ CountsCover /\ TotalLimit /\ [Next]_vars
         => CountsCover' /\ TotalLimit'
    BY TypeStep, CountsStep
<1> QED BY <1>1, CountsInit, TypeInvariant, PTL DEF Spec
-----------------------------------------------------------------------------
LEMMA Multiples ==
    ASSUME NEW m \in Nat, NEW a \in Nat, NEW b \in Nat
    PROVE  /\ m * a \in Nat
           /\ a <= b => m * a <= m * b
           /\ m * (a + 1) = m * a + m
OBVIOUS

\* Relay goroutines are finitely many.
LEMMA RecordersFinite ==
    ASSUME NEW i, NEW S \in SUBSET Recorders(i)
    PROVE  /\ IsFiniteSet(S) /\ Cardinality(S) \in Nat
           /\ IsFiniteSet(Recorders(i)) /\ Cardinality(Recorders(i)) \in Nat
           /\ Cardinality(S) <= Cardinality(Recorders(i))
<1>1. IsFiniteSet(Directions)
    <2>1. Directions = {"upload"} \cup {"download"}
        BY DEF Directions
    <2>2. IsFiniteSet({"upload"})
        BY FS_Singleton
    <2> QED BY <2>1, <2>2, FS_AddElement
<1>2. IsFiniteSet(Conns \X Directions)
    BY <1>1, RulesAssumption, FS_Product
<1>3. Recorders(i) \subseteq Conns \X Directions
    BY DEF Recorders
<1>4. IsFiniteSet(Recorders(i)) /\ Cardinality(Recorders(i)) \in Nat
    BY <1>2, <1>3, FS_Subset, FS_CardinalityType
<1> QED BY <1>4, FS_Subset, FS_CardinalityType

\* A byte rule counts one direction at least.
LEMMA SomeRecorder ==
    ASSUME NEW s \in States, NEW i \in ByteRules
    PROVE  \E c \in Conns, d \in Directions : <<c, d>> \in Recorders(i)
<1>1. PICK c \in Conns : TRUE
    BY DEF States
<1>2. \E d \in Directions : i \in TrafficRules(d)
    BY DEF ByteRules, ByteTypes, TrafficRules, Directions
<1> QED BY <1>1, <1>2 DEF Recorders

LEMMA OvershootInit == Init => OvershootCovered
<1> SUFFICES ASSUME Init, NEW s \in States, NEW i \in ByteRules, NEW m \in Chunks,
                    counter[s][i] >= Rules[i].max
             PROVE  counter[s][i] < Rules[i].max + m * Cardinality(Spent(s, i))
    BY DEF OvershootCovered
<1>1. i \in RuleIds /\ counter[s][i] = 0 /\ Rules[i].max \in Nat /\ m \in Nat \ {0}
    BY RuleFacts, RulesAssumption DEF Init
<1>2. Spent(s, i) = Recorders(i)
    BY DEF Init, Spent, Recorders, MayAdd
<1>3. Recorders(i) # {}
    BY SomeRecorder
<1>4. Cardinality(Recorders(i)) \in Nat \ {0}
    BY <1>3, RecordersFinite, FS_EmptySet
<1>5. 1 <= Cardinality(Recorders(i)) /\ m * 1 = m
    BY <1>1, <1>4
<1>6. m <= m * Cardinality(Recorders(i))
    BY <1>1, <1>4, <1>5, Multiples
<1>7. m * Cardinality(Recorders(i)) \in Nat
    BY <1>1, <1>4, Multiples
<1> QED BY <1>1, <1>2, <1>6, <1>7

\* Steps that add no bytes: while a counter is at its limit, no goroutine
\* gains the right to add to it.
LEMMA OvershootKept ==
    ASSUME OvershootCovered,
           NEW s \in States, NEW i \in ByteRules, counter[s][i] \in Nat,
           counter'[s][i] = counter[s][i],
           ASSUME NEW c \in Conns, NEW d \in Directions,
                  counter[s][i] >= Rules[i].max, MayAdd(s, i, <<c, d>>)'
           PROVE  MayAdd(s, i, <<c, d>>),
           NEW m \in Chunks, \A n \in Chunks : n <= m,
           counter'[s][i] >= Rules[i].max
    PROVE  counter'[s][i] < Rules[i].max + m * Cardinality(Spent(s, i)')
<1>1. i \in RuleIds /\ Rules[i].max \in Nat /\ m \in Nat
    BY RuleFacts, RulesAssumption
<1>2. Spent(s, i) \subseteq Spent(s, i)'
    BY DEF Spent, Recorders
<1>3. Spent(s, i)' \subseteq Recorders(i)
    BY DEF Spent
<1>4. /\ Cardinality(Spent(s, i)) \in Nat /\ Cardinality(Spent(s, i)') \in Nat
      /\ Cardinality(Spent(s, i)) <= Cardinality(Spent(s, i)')
    BY <1>2, <1>3, RecordersFinite, FS_Subset
<1>5. /\ m * Cardinality(Spent(s, i)) \in Nat /\ m * Cardinality(Spent(s, i)') \in Nat
      /\ m * Cardinality(Spent(s, i)) <= m * Cardinality(Spent(s, i)')
    BY <1>1, <1>4, Multiples
<1>6. counter[s][i] < Rules[i].max + m * Cardinality(Spent(s, i))
    BY DEF OvershootCovered
<1> QED BY <1>1, <1>5, <1>6

\* A goroutine whose variables a step leaves alone.
LEMMA RightsAlone ==
    ASSUME NEW s, NEW i, NEW o \in Conns, NEW e \in Directions,
           pc'[o] = pc[o], todo'[o] = todo[o], st'[o] = st[o], cut'[o] = cut[o],
           rpc'[<<o, e>>] = rpc[<<o, e>>], rtodo'[<<o, e>>] = rtodo[<<o, e>>]
    PROVE  MayAdd(s, i, <<o, e>>)' <=> MayAdd(s, i, <<o, e>>)
BY DEF MayAdd

\* The steps of a call: who has a right to add after the step had it before,
\* for a rule at its limit is not passed.
LEMMA CallRights ==
    ASSUME TypeOK, Located, NEW s \in States, NEW i \in ByteRules,
           counter[s][i] >= Rules[i].max,
           NEW c \in Conns, Lookup(c) \/ Resolve(c) \/ CloseLoad(c) \/ CloseAdd(c),
           NEW o \in Conns, NEW e \in Directions, MayAdd(s, i, <<o, e>>)'
    PROVE  MayAdd(s, i, <<o, e>>)
<1> DEFINE Runs == {"inner", "slots", "totals", "sum", "open"}
<1>1. /\ UNCHANGED <<rpc, rtodo>>
      /\ \A q \in Conns \ {c} : /\ pc'[q] = pc[q] /\ todo'[q] = todo[q]
                                /\ st'[q] = st[q] /\ cut'[q] = cut[q]
    BY DEF TypeOK, Goto, Leave, relayVars, Lookup, Resolve, CloseLoad, CloseAdd,
       Create, ChecksDone, InnerFails, InnerResolves, SlotsTaken, Undo, Open,
       CheckRule, TakeSlot, CountTotal, SumTotal
<1>2. CASE o # c
    BY <1>1, <1>2, RightsAlone
<1>3. CASE o = c
    <2>1. CASE Lookup(c) \/ Create(c)
        <3>1. pc'[c] = "create" \/ (pc'[c] = "check" /\ todo'[c] = ByteRules)
            BY <2>1 DEF TypeOK, Lookup, Create, Goto
        <3> QED BY <1>3, <3>1 DEF MayAdd
    <2>2. ASSUME NEW j \in RuleIds, CheckRule(c, j) PROVE MayAdd(s, i, <<o, e>>)
        <3>1. CASE Exhausted(c, j)
            BY <1>3, <2>2, <3>1 DEF MayAdd, TypeOK, CheckRule, Leave, Goto
        <3>2. CASE ~Exhausted(c, j)
            <4>1. /\ pc[c] = "check" /\ pc'[c] = "check" /\ todo'[c] = todo[c] \ {j}
                  /\ UNCHANGED <<st, cut>>
                BY <2>2, <3>2 DEF TypeOK, CheckRule, Goto, relayVars
            <4>2. CASE j = i
                BY <1>3, <3>2, <4>1, <4>2, RuleFacts DEF MayAdd, Exhausted, TypeOK
            <4>3. CASE j # i
                BY <1>1, <1>3, <4>1, <4>3 DEF MayAdd
            <4> QED BY <4>2, <4>3
        <3> QED BY <3>1, <3>2
    <2>3. CASE InnerFails(c) \/ Undo(c) \/ CloseLoad(c) \/ CloseAdd(c)
        <3>1. pc'[c] \in {"idle", "closing"}
            BY <2>3 DEF TypeOK, InnerFails, Undo, CloseLoad, CloseAdd, Leave, Goto
        <3> QED BY <1>3, <3>1 DEF MayAdd
    <2>4. CASE \/ ChecksDone(c) \/ InnerResolves(c) \/ SlotsTaken(c) \/ Open(c)
               \/ \E j \in RuleIds : TakeSlot(c, j) \/ CountTotal(c, j) \/ SumTotal(c, j)
        <3>1. /\ pc[c] \in Runs \/ (pc[c] = "check" /\ todo[c] = {})
              /\ pc'[c] # "check" /\ UNCHANGED <<st, cut>>
            BY <2>4 DEF TypeOK, ChecksDone, InnerResolves, SlotsTaken, Open, TakeSlot,
               CountTotal, SumTotal, Goto, relayVars
        <3> QED BY <1>1, <1>3, <3>1 DEF MayAdd
    <2> QED BY <2>1, <2>2, <2>3, <2>4 DEF Resolve
<1> QED BY <1>2, <1>3

\* The steps of relay goroutines that add nothing to the rule: whoever adds to
\* a rule at its limit finds that out at the sum, and is cut.
LEMMA RelayRights ==
    ASSUME TypeOK, NEW s \in States, NEW i \in ByteRules,
           counter[s][i] >= Rules[i].max,
           NEW c \in Conns, NEW d \in Directions,
           \/ \E n \in Chunks : Read(c, d, n)
           \/ \E j \in RuleIds : AddBytes(c, d, j) \/ SumBytes(c, d, j),
           NEW o \in Conns, NEW e \in Directions, MayAdd(s, i, <<o, e>>)'
    PROVE  MayAdd(s, i, <<o, e>>)
<1>1. /\ UNCHANGED <<pc, todo, st>>
      /\ \A q \in Conns \ {c} : cut'[q] = cut[q]
      /\ \A q \in Conns, f \in Directions : <<q, f>> # <<c, d>> =>
            rpc'[<<q, f>>] = rpc[<<q, f>>] /\ rtodo'[<<q, f>>] = rtodo[<<q, f>>]
      /\ cut[c] => cut'[c]
    BY DEF TypeOK, Read, AddBytes, SumBytes, conn
<1>2. CASE o # c
    BY <1>1, <1>2, RightsAlone
<1>3. CASE o = c /\ e # d
    BY <1>1, <1>3 DEF MayAdd
<1>4. CASE o = c /\ e = d
    <2>1. ASSUME NEW n \in Chunks, Read(c, d, n) PROVE MayAdd(s, i, <<o, e>>)
        BY <1>1, <1>4, <2>1 DEF MayAdd, Read
    <2>2. ASSUME NEW j \in RuleIds, AddBytes(c, d, j) PROVE MayAdd(s, i, <<o, e>>)
        BY <1>1, <1>4, <2>2 DEF MayAdd, AddBytes
    <2>3. ASSUME NEW j \in RuleIds, SumBytes(c, d, j) PROVE MayAdd(s, i, <<o, e>>)
        <3>1. CASE UsedUp(c, j)
            <4>1. cut'[c] /\ rtodo'[<<c, d>>] = {}
                BY <2>3, <3>1 DEF SumBytes, TypeOK
            <4> QED BY <1>4, <4>1 DEF MayAdd
        <3>2. CASE ~UsedUp(c, j)
            <4>1. /\ cut' = cut /\ rtodo'[<<c, d>>] = rtodo[<<c, d>>] \ {j}
                  /\ FirstOf(rtodo[<<c, d>>], j)
                BY <2>3, <3>2 DEF SumBytes, TypeOK
            <4>2. st[c] = s
                BY <1>1, <1>4 DEF MayAdd
            <4>3. j # i
                BY <3>2, <4>2, RuleFacts DEF UsedUp, TypeOK
            <4>4. ~FirstOf(rtodo[<<c, d>>], i)
                BY <4>1, <4>3, FirstUnique, RuleFacts
            <4> QED BY <1>1, <1>4, <4>1, <4>4 DEF MayAdd
        <3> QED BY <3>1, <3>2
    <2> QED BY <2>1, <2>2, <2>3
<1> QED BY <1>2, <1>3, <1>4

\* The right to add to a rule is used by adding.
LEMMA RightUsed ==
    ASSUME TypeOK, Located, Recording,
           NEW c \in Conns, NEW d \in Directions, NEW i \in RuleIds, AddBytes(c, d, i)
    PROVE  /\ i \in ByteRules /\ st[c] \in States /\ <<c, d>> \in Recorders(i)
           /\ MayAdd(st[c], i, <<c, d>>) /\ ~MayAdd(st[c], i, <<c, d>>)'
<1>1. /\ pc[c] = "open" /\ st[c] \in States /\ rpc[<<c, d>>] = "add"
      /\ i \in rtodo[<<c, d>>] /\ i \in TrafficRules(d)
    BY DEF AddBytes, FirstOf, Recording, Located
<1>2. MayAdd(st[c], i, <<c, d>>)
    BY <1>1 DEF MayAdd
<1>3. rpc'[<<c, d>>] = "sum" /\ rtodo' = rtodo /\ FirstOf(rtodo[<<c, d>>], i)
    BY DEF AddBytes, TypeOK
<1> QED BY <1>1, <1>2, <1>3, RuleFacts DEF MayAdd, Recorders

LEMMA OvershootStep ==
    ASSUME TypeOK, TypeOK', Located, Recording, OvershootCovered, [Next]_vars
    PROVE  OvershootCovered'
<1> SUFFICES ASSUME NEW s \in States, NEW i \in ByteRules, NEW m \in Chunks,
                    \A n \in Chunks : n <= m, counter'[s][i] >= Rules[i].max
             PROVE  counter'[s][i] < Rules[i].max + m * Cardinality(Spent(s, i)')
    BY DEF OvershootCovered
<1> DEFINE Goal == counter'[s][i] < Rules[i].max + m * Cardinality(Spent(s, i)')
<1>1. /\ i \in RuleIds /\ Rules[i].max \in Nat /\ m \in Nat \ {0}
      /\ counter[s][i] \in Nat /\ counter'[s][i] \in Nat
    BY RuleFacts, RulesAssumption DEF TypeOK
<1>2. ASSUME NEW c \in Conns, Lookup(c) \/ Resolve(c) \/ CloseLoad(c) \/ CloseAdd(c)
      PROVE  Goal
    \* CountTotal counts for total rules only.
    <2>1. counter'[s][i] = counter[s][i]
        <3>1. CASE counter' = counter
            BY <3>1
        <3>2. ASSUME NEW j \in RuleIds, CountTotal(c, j)
              PROVE  counter'[s][i] = counter[s][i]
            <4>1. j \in TotalRules /\ st[c] \in States
                BY <3>2 DEF CountTotal, FirstOf, Located
            <4>2. j # i
                BY <4>1 DEF TotalRules, ByteRules, ByteTypes
            <4> QED BY <1>1, <3>2, <4>1, <4>2 DEF CountTotal, TypeOK
        <3> QED BY <1>2, <3>1, <3>2
            DEF Lookup, Resolve, CloseLoad, CloseAdd, Create, ChecksDone, InnerFails,
                InnerResolves, SlotsTaken, Undo, Open, CheckRule, TakeSlot, SumTotal
    <2>2. ASSUME NEW o \in Conns, NEW e \in Directions,
                 counter[s][i] >= Rules[i].max, MayAdd(s, i, <<o, e>>)'
          PROVE  MayAdd(s, i, <<o, e>>)
        BY <1>2, <2>2, CallRights
    <2> QED BY <1>1, <2>1, <2>2, OvershootKept
<1>3. ASSUME NEW c \in Conns, NEW d \in Directions, Relay(c, d),
             counter'[s][i] = counter[s][i]
      PROVE  Goal
    <2>1. ASSUME NEW o \in Conns, NEW e \in Directions,
                 counter[s][i] >= Rules[i].max, MayAdd(s, i, <<o, e>>)'
          PROVE  MayAdd(s, i, <<o, e>>)
        BY <1>3, <2>1, RelayRights DEF Relay
    <2> QED BY <1>1, <1>3, <2>1, OvershootKept
\* A chunk is added: one goroutine more is spent, for at most m bytes.
<1>4. ASSUME NEW c \in Conns, NEW d \in Directions, AddBytes(c, d, i), st[c] = s
      PROVE  Goal
    <2>1. /\ <<c, d>> \in Recorders(i)
          /\ MayAdd(s, i, <<c, d>>) /\ ~MayAdd(s, i, <<c, d>>)'
        BY <1>1, <1>4, RightUsed DEF AddBytes, conn
    <2>2. counter'[s][i] = counter[s][i] + chunk[<<c, d>>]
        BY <1>1, <1>4 DEF AddBytes, TypeOK
    <2>3. chunk[<<c, d>>] \in Nat /\ chunk[<<c, d>>] <= m
        BY <1>4, RulesAssumption DEF AddBytes, Recording
    <2>4. /\ Spent(s, i) \subseteq Recorders(i) /\ Spent(s, i)' \subseteq Recorders(i)
          /\ <<c, d>> \notin Spent(s, i) /\ <<c, d>> \in Spent(s, i)'
        BY <2>1 DEF Spent
    <2>5. /\ IsFiniteSet(Spent(s, i)) /\ IsFiniteSet(Spent(s, i)')
          /\ Cardinality(Spent(s, i)) \in Nat /\ Cardinality(Spent(s, i)') \in Nat
        BY <2>4, RecordersFinite
    <2>6. CASE counter[s][i] < Rules[i].max
        <3>1. Spent(s, i)' # {}
            BY <2>4
        <3>2. 1 <= Cardinality(Spent(s, i)') /\ m * 1 = m
            BY <1>1, <2>5, <3>1, FS_EmptySet
        <3>3. m <= m * Cardinality(Spent(s, i)') /\ m * Cardinality(Spent(s, i)') \in Nat
            BY <1>1, <2>5, <3>2, Multiples
        <3> QED BY <1>1, <2>2, <2>3, <2>6, <3>3
    <2>7. CASE counter[s][i] >= Rules[i].max
        <3>1. \A o \in Conns, e \in Directions :
                 MayAdd(s, i, <<o, e>>)' => MayAdd(s, i, <<o, e>>)
            BY <1>1, <1>4, <2>7, RelayRights
        <3>2. Spent(s, i) \cup {<<c, d>>} \subseteq Spent(s, i)'
            BY <2>4, <3>1 DEF Spent, Recorders
        <3>3. Cardinality(Spent(s, i) \cup {<<c, d>>}) = Cardinality(Spent(s, i)) + 1
            BY <2>4, <2>5, FS_AddElement
        <3>4. Cardinality(Spent(s, i)) + 1 <= Cardinality(Spent(s, i)')
            BY <2>5, <3>2, <3>3, FS_Subset
        <3>5. m * (Cardinality(Spent(s, i)) + 1) <= m * Cardinality(Spent(s, i)')
            BY <1>1, <2>5, <3>4, Multiples
        <3>6. /\ m * (Cardinality(Spent(s, i)) + 1) = m * Cardinality(Spent(s, i)) + m
              /\ m * Cardinality(Spent(s, i)) \in Nat
              /\ m * Cardinality(Spent(s, i)') \in Nat
            BY <1>1, <2>5, Multiples
        <3>7. counter[s][i] < Rules[i].max + m * Cardinality(Spent(s, i))
            BY <2>7 DEF OvershootCovered
        <3> QED BY <1>1, <2>2, <2>3, <3>5, <3>6, <3>7
    <2> QED BY <1>1, <2>6, <2>7
<1>5. ASSUME NEW c \in Conns, NEW d \in Directions, Relay(c, d) PROVE Goal
    <2>1. ASSUME NEW j \in RuleIds, AddBytes(c, d, j), ~(st[c] = s /\ j = i)
          PROVE  counter'[s][i] = counter[s][i]
        <3>1. st[c] \in States
            BY <2>1 DEF AddBytes, Recording, Located
        <3> QED BY <1>1, <2>1, <3>1 DEF AddBytes, TypeOK
    <2>2. CASE AddBytes(c, d, i) /\ st[c] = s
        BY <1>4, <2>2
    <2>3. CASE ~(AddBytes(c, d, i) /\ st[c] = s)
        <3>1. counter'[s][i] = counter[s][i]
            BY <1>5, <2>1, <2>3 DEF Relay, Read, SumBytes
        <3> QED BY <1>3, <1>5, <3>1
    <2> QED BY <2>2, <2>3
<1>6. ASSUME NEW t \in States, NEW j \in RuleIds, WindowPasses(t, j) PROVE Goal
    <2>1. \A o \in Conns, e \in Directions :
             MayAdd(s, i, <<o, e>>)' <=> MayAdd(s, i, <<o, e>>)
        BY <1>6, RightsAlone DEF WindowPasses, conn, relayVars
    <2>2. CASE t = s /\ j = i
        <3>1. counter'[s][i] = 0 /\ counter[s][i] > 0
            BY <1>1, <1>6, <2>2 DEF WindowPasses, TypeOK
        <3>2. counter[s][i] < Rules[i].max + m * Cardinality(Spent(s, i))
            BY <1>1, <3>1 DEF OvershootCovered
        <3>3. Spent(s, i)' = Spent(s, i)
            BY <2>1 DEF Spent, Recorders
        <3>4. m * Cardinality(Spent(s, i)) \in Nat
            <4>1. Cardinality(Spent(s, i)) \in Nat
                BY RecordersFinite DEF Spent
            <4> QED BY <1>1, <4>1, Multiples
        <3> QED BY <1>1, <3>1, <3>2, <3>3, <3>4
    <2>3. CASE t # s \/ j # i
        <3>1. counter'[s][i] = counter[s][i]
            BY <1>1, <1>6, <2>3 DEF WindowPasses, TypeOK
        <3> QED BY <1>1, <2>1, <3>1, OvershootKept
    <2> QED BY <2>2, <2>3
<1>7. CASE UNCHANGED vars
    <2>1. \A o \in Conns, e \in Directions :
             MayAdd(s, i, <<o, e>>)' <=> MayAdd(s, i, <<o, e>>)
        BY <1>7, RightsAlone DEF vars, conn, relayVars
    <2> QED BY <1>1, <1>7, <2>1, OvershootKept DEF vars
<1> QED
    BY <1>2, <1>5, <1>6, <1>7 DEF Next, Rest

\* A byte limit is overshot by less than one chunk per relay goroutine that it
\* counts, for any rules, chunk sizes and number of connections: RecordTraffic
\* cuts whoever adds to an exhausted rule, and checkWindowedLimits lets nobody
\* in anew.
THEOREM OvershootLimited == Spec => []OvershootBounded
<1>1. TypeOK /\ Located /\ Recording /\ OvershootCovered /\ [Next]_vars
         => OvershootCovered'
    BY TypeStep, OvershootStep
<1>2. TypeOK /\ OvershootCovered => OvershootBounded
    <2> SUFFICES ASSUME TypeOK, OvershootCovered,
                        NEW s \in States, NEW i \in ByteRules, NEW m \in Chunks,
                        \A n \in Chunks : n <= m
                 PROVE  counter[s][i] < Rules[i].max + m * Cardinality(Recorders(i))
        BY DEF OvershootBounded, Recorders
    <2>1. /\ i \in RuleIds /\ Rules[i].max \in Nat /\ m \in Nat \ {0}
          /\ counter[s][i] \in Nat
        BY RuleFacts, RulesAssumption DEF TypeOK
    <2>2. Spent(s, i) \subseteq Recorders(i) /\ Recorders(i) # {}
        BY SomeRecorder DEF Spent
    <2>3. /\ Cardinality(Spent(s, i)) \in Nat /\ Cardinality(Recorders(i)) \in Nat
          /\ Cardinality(Spent(s, i)) <= Cardinality(Recorders(i))
        BY <2>2, RecordersFinite
    <2>4. /\ m * Cardinality(Spent(s, i)) \in Nat /\ m * Cardinality(Recorders(i)) \in Nat
          /\ m * Cardinality(Spent(s, i)) <= m * Cardinality(Recorders(i))
        BY <2>1, <2>3, Multiples
    <2>5. CASE counter[s][i] < Rules[i].max
        BY <2>1, <2>4, <2>5
    <2>6. CASE counter[s][i] >= Rules[i].max
        <3>1. counter[s][i] < Rules[i].max + m * Cardinality(Spent(s, i))
            BY <2>6 DEF OvershootCovered
        <3> QED BY <2>1, <2>4, <3>1
    <2> QED BY <2>1, <2>5, <2>6
<1> QED BY <1>1, <1>2, OvershootInit, TypeInvariant, PTL DEF Spec
=============================================================================
