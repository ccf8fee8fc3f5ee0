------------------------- MODULE CountingPoolProofs -------------------------
(***************************************************************************)
(* Proofs about CountingPool for pools of any size and any finite number   *)
(* of callers.  The argument for load balancing: the first scan ends with  *)
(* a minimum no index has gone below since (MinInv); so an entry admitted  *)
(* by the second scan is globally least-used at that load, and even if     *)
(* every caller holds a claim on it, charging all the claims takes it at   *)
(* most Cardinality(Callers) above any other entry (ClaimsBounded).        *)
(* A caller that is alone finds the counters as it left them, so its       *)
(* second scan meets the minimum again (MinimumHeld).                      *)
(***************************************************************************)
EXTENDS CountingPool, FiniteSetTheorems, TLAPS

\* What NextExcluding selects among is a non-empty set of the pool's entries.
LEMMA NonExcludedType ==
    ASSUME NEW X \in SUBSET Entries
    PROVE  NonExcluded(X) \in SUBSET Entries
BY DEF NonExcluded

LEMMA TypeInit == Init => TypeOK
BY PoolAssumption DEF Init, TypeOK, Entries

LEMMA TypeStep == TypeOK /\ [Next]_vars => TypeOK'
<1> SUFFICES ASSUME TypeOK, [Next]_vars PROVE TypeOK'
    OBVIOUS
<1> USE DEF TypeOK
<1>1. ASSUME NEW c \in Callers, NEW X \in ExcludeSets, NEW t \in TieBreakers,
             Call(c, X, t)
      PROVE  TypeOK'
    <2>1. X \in SUBSET Entries /\ t \in Nat
        BY PoolAssumption
    <2>2. NonExcluded(X) \in SUBSET Entries
        BY <2>1, NonExcludedType
    <2> QED BY <1>1, <2>1, <2>2 DEF Call
<1>2. ASSUME NEW c \in Callers, NEW i \in Entries, LoadMin(c, i)
      PROVE  TypeOK'
    <2>1. Indices(c) \in SUBSET Entries
        BY NonExcludedType DEF Indices
    <2> QED BY <1>2, <2>1 DEF LoadMin
<1>3. ASSUME NEW c \in Callers, NEW i \in Entries, LoadCandidate(c, i)
      PROVE  TypeOK'
    BY <1>3 DEF LoadCandidate
<1>4. ASSUME NEW c \in Callers, NEW i \in Entries, Pick(c, i)
      PROVE  TypeOK'
    BY <1>4 DEF Pick
<1>5. ASSUME NEW c \in Callers, Panic(c) PROVE TypeOK'
    BY <1>5 DEF Panic, local
<1>6. ASSUME NEW c \in Callers, Add(c) PROVE TypeOK'
    <2>1. 0 \in Entries
        BY PoolAssumption DEF Entries
    <2> QED BY <1>6, <2>1 DEF Add
<1>7. CASE UNCHANGED vars
    BY <1>7 DEF vars, local
<1> QED
    BY <1>1, <1>2, <1>3, <1>4, <1>5, <1>6, <1>7 DEF Next, Step, Rest

\* Every variable of the pool keeps its type: counters stay natural numbers,
\* scans and candidates range over the entries.
THEOREM TypeCorrect == Spec => []TypeOK
BY TypeInit, TypeStep, PTL DEF Spec
-----------------------------------------------------------------------------
\* The loop invariant of the two scans: the minimum is no more than the
\* present count of any index already loaded, and the second scan starts
\* with all of them loaded.
MinInv ==
    \A c \in Callers :
        /\ pc[c] \in {"min", "scan"} => todo[c] \subseteq Indices(c)
        /\ pc[c] = "min" =>
              \A i \in Indices(c) \ todo[c] : minCount[c] <= useCount[i]
        /\ pc[c] \in {"scan", "pick"} =>
              \A i \in Indices(c) : minCount[c] <= useCount[i]

LEMMA MinInit == Init => MinInv
BY DEF Init, MinInv

LEMMA MinStep == TypeOK /\ MinInv /\ [Next]_vars => MinInv'
<1> SUFFICES ASSUME TypeOK, MinInv, [Next]_vars PROVE MinInv'
    OBVIOUS
<1> USE DEF TypeOK, MinInv
<1>1. ASSUME NEW c \in Callers, NEW X \in ExcludeSets, NEW t \in TieBreakers,
             Call(c, X, t)
      PROVE  MinInv'
    <2>1. X \in SUBSET Entries
        BY PoolAssumption
    <2>2. NonExcluded(X) \in SUBSET Entries
        BY <2>1, NonExcludedType
    <2> QED BY <1>1, <2>1, <2>2 DEF Call, Indices
<1>2. ASSUME NEW c \in Callers, NEW i \in Entries, LoadMin(c, i)
      PROVE  MinInv'
    <2>1. \A d \in Callers : /\ Indices(d)' = Indices(d)
                             /\ Indices(d) \in SUBSET Entries
        BY <1>2, NonExcludedType DEF LoadMin, Indices
    <2>2. \A d \in Callers \ {c} : /\ pc'[d] = pc[d]
                                   /\ todo'[d] = todo[d]
                                   /\ minCount'[d] = minCount[d]
        BY <1>2 DEF LoadMin
    <2>3. /\ useCount' = useCount /\ pc[c] = "min"
          /\ todo[c] \subseteq Indices(c) /\ i \in todo[c]
        BY <1>2 DEF LoadMin, NextIndex
    <2>4. \A j \in (Indices(c) \ todo[c]) \cup {i} : minCount'[c] <= useCount[j]
        <3>1. CASE todo[c] = Indices(c)
            BY <1>2, <2>1, <2>3, <3>1 DEF LoadMin
        <3>2. CASE todo[c] # Indices(c) /\ Smaller(c, i)
            BY <1>2, <2>1, <2>3, <3>2 DEF LoadMin, Smaller
        <3>3. CASE todo[c] # Indices(c) /\ ~Smaller(c, i)
            BY <1>2, <2>1, <2>3, <3>3 DEF LoadMin, Smaller
        <3> QED BY <3>1, <3>2, <3>3
    <2>5. CASE todo[c] = {i}
        <3>1. todo'[c] = Indices(c) /\ pc'[c] = "scan"
            BY <1>2, <2>5 DEF LoadMin
        <3> QED BY <2>1, <2>2, <2>3, <2>4, <2>5, <3>1
    <2>6. CASE todo[c] # {i}
        <3>1. todo'[c] = todo[c] \ {i} /\ pc'[c] = "min"
            BY <1>2, <2>3, <2>6 DEF LoadMin
        <3> QED BY <2>1, <2>2, <2>3, <2>4, <2>6, <3>1
    <2> QED BY <2>5, <2>6
<1>3. ASSUME NEW c \in Callers, NEW i \in Entries, LoadCandidate(c, i)
      PROVE  MinInv'
    BY <1>3 DEF LoadCandidate, Indices
<1>4. ASSUME NEW c \in Callers, NEW i \in Entries, Pick(c, i)
      PROVE  MinInv'
    BY <1>4 DEF Pick, Indices
<1>5. ASSUME NEW c \in Callers, Panic(c) PROVE MinInv'
    BY <1>5 DEF Panic, local, Indices
<1>6. ASSUME NEW c \in Callers, Add(c) PROVE MinInv'
    <2>1. \A d \in Callers : Indices(d) \in SUBSET Entries
        BY NonExcludedType DEF Indices
    <2>2. \A d \in Callers \ {c} : /\ pc'[d] = pc[d]
                                   /\ todo'[d] = todo[d]
                                   /\ minCount'[d] = minCount[d]
                                   /\ Indices(d)' = Indices(d)
        BY <1>6 DEF Add, Indices
    <2>3. \A j \in Entries : useCount[j] <= useCount'[j]
        BY <1>6 DEF Add
    <2>4. pc'[c] = "idle"
        BY <1>6 DEF Add
    <2>5. \A j \in Entries : useCount'[j] \in Nat
        BY <1>6 DEF Add
    <2>6. ASSUME NEW d \in Callers \ {c}, NEW j \in Entries,
                 minCount[d] <= useCount[j]
          PROVE  minCount[d] <= useCount'[j]
        BY <2>3, <2>5, <2>6
    <2> QED BY <2>1, <2>2, <2>4, <2>6
<1>7. CASE UNCHANGED vars
    BY <1>7 DEF vars, local, Indices
<1> QED
    BY <1>1, <1>2, <1>3, <1>4, <1>5, <1>6, <1>7 DEF Next, Step, Rest

\* The minimum found by the first scan is still a lower bound of every index
\* during the second scan, whatever the other callers charged meanwhile.
THEOREM MinimumSound == Spec => []MinimumIsSound
<1>1. MinInv => MinimumIsSound
    BY DEF MinInv, MinimumIsSound
<1> QED
    BY TypeInit, TypeStep, MinInit, MinStep, <1>1, PTL DEF Spec
-----------------------------------------------------------------------------
\* The candidates of a caller lie among its indices, so a caller that may not
\* return an excluded entry does not select one.
CandidatesInv ==
    \A c \in Callers :
        /\ pc[c] \in {"min", "scan"} => todo[c] \subseteq Indices(c)
        /\ pc[c] \in {"scan", "pick"} => candidates[c] \subseteq Indices(c)
        /\ pc[c] = "add" => idx[c] \in Indices(c)

LEMMA CandidatesInit == Init => CandidatesInv
BY DEF Init, CandidatesInv

LEMMA CandidatesStep == TypeOK /\ CandidatesInv /\ [Next]_vars => CandidatesInv'
<1> SUFFICES ASSUME TypeOK, CandidatesInv, [Next]_vars PROVE CandidatesInv'
    OBVIOUS
<1> USE DEF TypeOK, CandidatesInv
<1>1. ASSUME NEW c \in Callers, NEW X \in ExcludeSets, NEW t \in TieBreakers,
             Call(c, X, t)
      PROVE  CandidatesInv'
    <2>1. X \in SUBSET Entries
        BY PoolAssumption
    <2> QED BY <1>1, <2>1 DEF Call, Indices
<1>2. ASSUME NEW c \in Callers, NEW i \in Entries, LoadMin(c, i)
      PROVE  CandidatesInv'
    <2>1. \A d \in Callers : /\ Indices(d)' = Indices(d)
                             /\ idx'[d] = idx[d]
        BY <1>2 DEF LoadMin, Indices
    <2>2. \A d \in Callers \ {c} : /\ pc'[d] = pc[d]
                                   /\ todo'[d] = todo[d]
                                   /\ candidates'[d] = candidates[d]
        BY <1>2 DEF LoadMin
    <2>3. /\ pc'[c] \in {"min", "scan"}
          /\ todo'[c] \subseteq Indices(c)
          /\ candidates'[c] = {}
        BY <1>2 DEF LoadMin
    <2> QED BY <2>1, <2>2, <2>3
<1>3. ASSUME NEW c \in Callers, NEW i \in Entries, LoadCandidate(c, i)
      PROVE  CandidatesInv'
    <2>1. \A d \in Callers : /\ Indices(d)' = Indices(d)
                             /\ idx'[d] = idx[d]
        BY <1>3 DEF LoadCandidate, Indices
    <2>2. \A d \in Callers \ {c} : /\ pc'[d] = pc[d]
                                   /\ todo'[d] = todo[d]
                                   /\ candidates'[d] = candidates[d]
        BY <1>3 DEF LoadCandidate
    <2>3. /\ pc'[c] \in {"scan", "pick"}
          /\ todo'[c] \subseteq Indices(c)
          /\ candidates'[c] \subseteq Indices(c)
        BY <1>3 DEF LoadCandidate, NextIndex
    <2> QED BY <2>1, <2>2, <2>3
<1>4. ASSUME NEW c \in Callers, NEW i \in Entries, Pick(c, i)
      PROVE  CandidatesInv'
    BY <1>4 DEF Pick, TieBroken, Indices
<1>5. ASSUME NEW c \in Callers, Panic(c) PROVE CandidatesInv'
    BY <1>5 DEF Panic, local, Indices
<1>6. ASSUME NEW c \in Callers, Add(c) PROVE CandidatesInv'
    BY <1>6 DEF Add, Indices
<1>7. CASE UNCHANGED vars
    BY <1>7 DEF vars, local, Indices
<1> QED
    BY <1>1, <1>2, <1>3, <1>4, <1>5, <1>6, <1>7 DEF Next, Step, Rest

\* NextExcluding returns an excluded entry only when it excludes them all.
THEOREM ExclusionRespected == Spec => []ExclusionHonoured
<1>1. TypeOK /\ CandidatesInv => ExclusionHonoured
    BY DEF TypeOK, CandidatesInv, ExclusionHonoured, Indices, NonExcluded
<1> QED
    BY TypeInit, TypeStep, CandidatesInit, CandidatesStep, <1>1, PTL DEF Spec
-----------------------------------------------------------------------------
\* Every call in progress selects among the entries nobody excludes, at least.
WholePool == \A c \in Callers : pc[c] # "idle" => AlwaysEligible \subseteq Indices(c)

LEMMA WholePoolInit == Init => WholePool
BY DEF Init, WholePool

LEMMA WholePoolStep == TypeOK /\ WholePool /\ [Next]_vars => WholePool'
<1> SUFFICES ASSUME TypeOK, WholePool, [Next]_vars PROVE WholePool'
    OBVIOUS
<1> USE DEF TypeOK, WholePool
<1>1. ASSUME NEW c \in Callers, NEW X \in ExcludeSets, NEW t \in TieBreakers,
             Call(c, X, t)
      PROVE  WholePool'
    <2>1. AlwaysEligible \subseteq NonExcluded(X)
        BY DEF AlwaysEligible
    <2>2. X \in SUBSET Entries
        BY PoolAssumption
    <2> QED BY <1>1, <2>1, <2>2 DEF Call, Indices
<1>2. ASSUME NEW c \in Callers, NEW i \in Entries, LoadMin(c, i)
      PROVE  WholePool'
    BY <1>2 DEF LoadMin, Indices
<1>3. ASSUME NEW c \in Callers, NEW i \in Entries, LoadCandidate(c, i)
      PROVE  WholePool'
    BY <1>3 DEF LoadCandidate, Indices
<1>4. ASSUME NEW c \in Callers, NEW i \in Entries, Pick(c, i)
      PROVE  WholePool'
    BY <1>4 DEF Pick, Indices
<1>5. ASSUME NEW c \in Callers, Panic(c) PROVE WholePool'
    BY <1>5 DEF Panic, local, Indices
<1>6. ASSUME NEW c \in Callers, Add(c) PROVE WholePool'
    BY <1>6 DEF Add, Indices
<1>7. CASE UNCHANGED vars
    BY <1>7 DEF vars, local, Indices
<1> QED
    BY <1>1, <1>2, <1>3, <1>4, <1>5, <1>6, <1>7 DEF Next, Step, Rest

LEMMA EligibleEntries == AlwaysEligible \subseteq Entries
BY DEF AlwaysEligible

LEMMA ClaimsFinite ==
    ASSUME NEW e \in Entries
    PROVE  /\ IsFiniteSet(Claims(e))
           /\ Cardinality(Claims(e)) \in Nat
           /\ Cardinality(Callers) \in Nat
           /\ Cardinality(Claims(e)) <= Cardinality(Callers)
<1>1. Claims(e) \subseteq Callers
    BY DEF Claims
<1> QED BY <1>1, PoolAssumption, FS_Subset, FS_CardinalityType

\* A step that makes no claim and charges no entry.
LEMMA ClaimsShrink ==
    ASSUME TypeOK, ClaimsBounded, useCount' = useCount,
           \A e \in Entries : Claims(e)' \subseteq Claims(e)
    PROVE  ClaimsBounded'
<1> SUFFICES ASSUME NEW e \in Entries, NEW f \in AlwaysEligible
             PROVE  useCount[e] + Cardinality(Claims(e)')
                       <= useCount[f] + Cardinality(Callers)
    BY DEF ClaimsBounded
<1>1. /\ Cardinality(Claims(e)') \in Nat
      /\ Cardinality(Claims(e)') <= Cardinality(Claims(e))
    BY ClaimsFinite, FS_Subset, FS_CardinalityType
<1>2. useCount[e] + Cardinality(Claims(e)) <= useCount[f] + Cardinality(Callers)
    BY DEF ClaimsBounded
<1> QED BY <1>1, <1>2, ClaimsFinite, EligibleEntries DEF TypeOK

LEMMA ClaimsInit == Init => ClaimsBounded
<1> SUFFICES ASSUME Init, NEW e \in Entries, NEW f \in AlwaysEligible
             PROVE  useCount[e] + Cardinality(Claims(e))
                       <= useCount[f] + Cardinality(Callers)
    BY DEF ClaimsBounded
<1>1. useCount[e] = 0 /\ useCount[f] = 0
    BY EligibleEntries DEF Init
<1> QED BY <1>1, ClaimsFinite

LEMMA ClaimsStep ==
    TypeOK /\ MinInv /\ WholePool /\ ClaimsBounded /\ [Next]_vars => ClaimsBounded'
<1> SUFFICES ASSUME TypeOK, MinInv, WholePool, ClaimsBounded, [Next]_vars
             PROVE  ClaimsBounded'
    OBVIOUS
<1>1. ASSUME NEW c \in Callers, NEW X \in ExcludeSets, NEW t \in TieBreakers,
             Call(c, X, t)
      PROVE  ClaimsBounded'
    BY <1>1, ClaimsShrink DEF Call, Claims, TypeOK
<1>2. ASSUME NEW c \in Callers, NEW i \in Entries, LoadMin(c, i)
      PROVE  ClaimsBounded'
    BY <1>2, ClaimsShrink DEF LoadMin, Claims, TypeOK
<1>3. ASSUME NEW c \in Callers, NEW i \in Entries, LoadCandidate(c, i)
      PROVE  ClaimsBounded'
    <2>1. useCount' = useCount /\ pc[c] = "scan"
        BY <1>3 DEF LoadCandidate
    <2>2. CASE AtMinimum(c, i)
        <3>1. \A f \in AlwaysEligible : useCount[i] <= useCount[f]
            BY <2>1, <2>2, EligibleEntries DEF MinInv, WholePool, AtMinimum, TypeOK
        <3>2. \A e \in Entries \ {i} : Claims(e)' \subseteq Claims(e)
            BY <1>3 DEF LoadCandidate, Claims, TypeOK
        <3>3. Claims(i)' \subseteq Callers
            BY DEF Claims
        <3>4. /\ Cardinality(Claims(i)') \in Nat
              /\ Cardinality(Claims(i)') <= Cardinality(Callers)
            BY <3>3, PoolAssumption, FS_Subset, FS_CardinalityType
        <3> SUFFICES ASSUME NEW e \in Entries, NEW f \in AlwaysEligible
                     PROVE  useCount[e] + Cardinality(Claims(e)')
                               <= useCount[f] + Cardinality(Callers)
            BY <2>1 DEF ClaimsBounded
        <3>5. CASE e = i
            BY <3>1, <3>4, <3>5, ClaimsFinite, EligibleEntries DEF TypeOK
        <3>6. CASE e # i
            <4>1. /\ Cardinality(Claims(e)') \in Nat
                  /\ Cardinality(Claims(e)') <= Cardinality(Claims(e))
                BY <3>2, <3>6, ClaimsFinite, FS_Subset, FS_CardinalityType
            <4>2. useCount[e] + Cardinality(Claims(e))
                     <= useCount[f] + Cardinality(Callers)
                BY DEF ClaimsBounded
            <4> QED BY <4>1, <4>2, ClaimsFinite, EligibleEntries DEF TypeOK
        <3> QED BY <3>5, <3>6
    <2>3. CASE ~AtMinimum(c, i)
        <3>1. candidates' = candidates
            BY <1>3, <2>3 DEF LoadCandidate, TypeOK
        <3> QED BY <1>3, <3>1, ClaimsShrink DEF LoadCandidate, Claims, TypeOK
    <2> QED BY <2>2, <2>3
<1>4. ASSUME NEW c \in Callers, NEW i \in Entries, Pick(c, i)
      PROVE  ClaimsBounded'
    BY <1>4, ClaimsShrink DEF Pick, TieBroken, Claims, TypeOK
<1>5. ASSUME NEW c \in Callers, Panic(c) PROVE ClaimsBounded'
    BY <1>5, ClaimsShrink DEF Panic, local, Claims, TypeOK
<1>6. ASSUME NEW c \in Callers, Add(c) PROVE ClaimsBounded'
    <2>0. PICK k \in Entries : k = idx[c]
        BY <1>6 DEF TypeOK
    <2>1. c \in Claims(k)
        BY <1>6, <2>0 DEF Add, Claims, TypeOK
    <2>2. /\ useCount'[k] = useCount[k] + 1
          /\ \A f \in Entries \ {k} : useCount'[f] = useCount[f]
        BY <1>6, <2>0 DEF Add, TypeOK
    <2>3. \A e \in Entries : Claims(e)' \subseteq Claims(e) \ {c}
        BY <1>6 DEF Add, Claims, TypeOK
    <2>4. \A e \in Entries : /\ Cardinality(Claims(e)') \in Nat
                             /\ Cardinality(Claims(e)') <= Cardinality(Claims(e))
        <3> SUFFICES ASSUME NEW e \in Entries
                     PROVE  /\ Cardinality(Claims(e)') \in Nat
                            /\ Cardinality(Claims(e)') <= Cardinality(Claims(e))
            OBVIOUS
        <3>1. Claims(e)' \subseteq Claims(e)
            BY <2>3
        <3> QED BY <3>1, ClaimsFinite, FS_Subset, FS_CardinalityType
    <2>5. Cardinality(Claims(k)') <= Cardinality(Claims(k)) - 1
        <3>1. Cardinality(Claims(k) \ {c}) = Cardinality(Claims(k)) - 1
            BY <2>1, ClaimsFinite, FS_RemoveElement
        <3>2. Cardinality(Claims(k)') <= Cardinality(Claims(k) \ {c})
            <4>1. IsFiniteSet(Claims(k) \ {c})
                BY <2>1, ClaimsFinite, FS_RemoveElement
            <4> QED BY <2>1, <2>3, <4>1, FS_Subset
        <3> QED BY <3>1, <3>2
    <2> SUFFICES ASSUME NEW e \in Entries, NEW f \in AlwaysEligible
                 PROVE  useCount'[e] + Cardinality(Claims(e)')
                           <= useCount'[f] + Cardinality(Callers)
        BY DEF ClaimsBounded
    <2>6. useCount[e] + Cardinality(Claims(e)) <= useCount[f] + Cardinality(Callers)
        BY DEF ClaimsBounded
    <2>7. useCount[f] <= useCount'[f] /\ useCount'[f] \in Nat
        BY <2>1, <2>2, EligibleEntries DEF TypeOK
    <2>8. useCount'[e] + Cardinality(Claims(e)') <= useCount[e] + Cardinality(Claims(e))
        <3>1. CASE e = k
            BY <2>1, <2>2, <2>4, <2>5, <3>1, ClaimsFinite, EligibleEntries DEF TypeOK
        <3>2. CASE e # k
            BY <2>2, <2>4, <3>2, ClaimsFinite, EligibleEntries DEF TypeOK
        <3> QED BY <3>1, <3>2
    <2>9. /\ useCount[e] \in Nat /\ useCount'[e] \in Nat /\ useCount[f] \in Nat
          /\ Cardinality(Claims(e)) \in Nat /\ Cardinality(Claims(e)') \in Nat
          /\ Cardinality(Callers) \in Nat
        BY <2>1, <2>2, <2>4, ClaimsFinite, EligibleEntries DEF TypeOK
    <2> QED BY <2>6, <2>7, <2>8, <2>9
<1>7. CASE UNCHANGED vars
    BY <1>7, ClaimsShrink DEF vars, local, Claims
<1> QED
    BY <1>1, <1>2, <1>3, <1>4, <1>5, <1>6, <1>7 DEF Next, Step, Rest

\* Load balancing, for every pool size and number of callers, whatever they
\* exclude: no use counter gets further ahead of that of an entry nobody
\* excludes than the number of concurrent callers.
THEOREM PoolBalanced == Spec => [](ClaimsBounded /\ Balanced)
<1>1. TypeOK /\ ClaimsBounded => Balanced
    <2> SUFFICES ASSUME TypeOK, ClaimsBounded, NEW e \in Entries, NEW f \in AlwaysEligible
                 PROVE  useCount[e] <= useCount[f] + Cardinality(Callers)
        BY DEF Balanced
    <2>1. useCount[e] + Cardinality(Claims(e)) <= useCount[f] + Cardinality(Callers)
        BY DEF ClaimsBounded
    <2> QED BY <2>1, ClaimsFinite, EligibleEntries DEF TypeOK
<1> QED
    BY TypeInit, TypeStep, MinInit, MinStep, WholePoolInit, WholePoolStep,
       ClaimsInit, ClaimsStep, <1>1, PTL DEF Spec

\* Candidates are what a call was admitted to: there are none before the second
\* scan, and the one that is charged is among them.
AdmittedInv ==
    \A c \in Callers :
        /\ pc[c] \in {"idle", "min"} => candidates[c] = {}
        /\ pc[c] = "add" => idx[c] \in candidates[c]

LEMMA AdmittedInit == Init => AdmittedInv
BY DEF Init, AdmittedInv

LEMMA AdmittedStep == TypeOK /\ AdmittedInv /\ [Next]_vars => AdmittedInv'
<1> SUFFICES ASSUME TypeOK, AdmittedInv, [Next]_vars PROVE AdmittedInv'
    OBVIOUS
<1> USE DEF TypeOK, AdmittedInv
<1>1. ASSUME NEW c \in Callers, NEW X \in ExcludeSets, NEW t \in TieBreakers,
             Call(c, X, t)
      PROVE  AdmittedInv'
    BY <1>1 DEF Call
<1>2. ASSUME NEW c \in Callers, NEW i \in Entries, LoadMin(c, i)
      PROVE  AdmittedInv'
    BY <1>2 DEF LoadMin
<1>3. ASSUME NEW c \in Callers, NEW i \in Entries, LoadCandidate(c, i)
      PROVE  AdmittedInv'
    BY <1>3 DEF LoadCandidate
<1>4. ASSUME NEW c \in Callers, NEW i \in Entries, Pick(c, i)
      PROVE  AdmittedInv'
    BY <1>4 DEF Pick, TieBroken
<1>5. ASSUME NEW c \in Callers, Panic(c) PROVE AdmittedInv'
    BY <1>5 DEF Panic, local
<1>6. ASSUME NEW c \in Callers, Add(c) PROVE AdmittedInv'
    BY <1>6 DEF Add
<1>7. CASE UNCHANGED vars
    BY <1>7 DEF vars, local
<1> QED
    BY <1>1, <1>2, <1>3, <1>4, <1>5, <1>6, <1>7 DEF Next, Step, Rest

\* The pool implements the abstract least-used pool: whatever a call charges
\* was least-used among its indices when its second scan loaded it.
THEOREM PoolImplementsLeastUsed == Spec => LeastUsedDuringCall
<1> DEFINE eligible == [c \in Callers |-> Indices(c)]
           avars == <<useCount, eligible, candidates>>
<1>1. Init => Abstract!Init
    BY DEF Init, Abstract!Init, Indices, NonExcluded
<1>2. TypeOK /\ MinInv /\ AdmittedInv /\ [Next]_vars => [Abstract!Next]_avars
    <2> SUFFICES ASSUME TypeOK, MinInv, AdmittedInv, [Next]_vars
                 PROVE  Abstract!Next \/ UNCHANGED avars
        OBVIOUS
    <2>1. ASSUME NEW c \in Callers, NEW X \in ExcludeSets, NEW t \in TieBreakers,
                 Call(c, X, t)
          PROVE  Abstract!Next
        <3>1. X \in SUBSET Entries /\ NonExcluded(X) \in SUBSET Entries
            BY PoolAssumption, NonExcludedType
        <3>2. eligible' = [eligible EXCEPT ![c] = NonExcluded(X)]
            BY <2>1, <3>1 DEF Call, Indices, TypeOK
        <3>3. candidates[c] = {} /\ UNCHANGED <<useCount, candidates>>
            BY <2>1 DEF Call, AdmittedInv
        <3> QED BY <3>1, <3>2, <3>3 DEF Abstract!Next, Abstract!Begin
    <2>2. ASSUME NEW c \in Callers, NEW i \in Entries, LoadMin(c, i)
          PROVE  UNCHANGED avars
        <3>1. candidates' = candidates
            BY <2>2 DEF LoadMin, AdmittedInv, TypeOK
        <3> QED BY <2>2, <3>1 DEF LoadMin, Indices
    <2>3. ASSUME NEW c \in Callers, NEW i \in Entries, LoadCandidate(c, i)
          PROVE  Abstract!Next \/ UNCHANGED avars
        <3>1. UNCHANGED <<useCount, eligible>>
            BY <2>3 DEF LoadCandidate, Indices
        <3>2. CASE AtMinimum(c, i)
            <4>1. i \in Indices(c) /\ \A f \in Indices(c) : useCount[i] <= useCount[f]
                BY <2>3, <3>2 DEF LoadCandidate, NextIndex, AtMinimum, MinInv
            <4>2. candidates' = [candidates EXCEPT ![c] = @ \cup {i}]
                BY <2>3, <3>2 DEF LoadCandidate
            <4> QED BY <3>1, <4>1, <4>2
                    DEF Abstract!Next, Abstract!Admit, Abstract!LeastUsedNow
        <3>3. CASE ~AtMinimum(c, i)
            <4>1. candidates' = candidates
                BY <2>3, <3>3 DEF LoadCandidate, TypeOK
            <4> QED BY <3>1, <4>1
        <3> QED BY <3>2, <3>3
    <2>4. ASSUME NEW c \in Callers, NEW i \in Entries, Pick(c, i)
          PROVE  UNCHANGED avars
        BY <2>4 DEF Pick, Indices
    <2>5. ASSUME NEW c \in Callers, Panic(c) PROVE UNCHANGED avars
        BY <2>5 DEF Panic, local, Indices
    <2>6. ASSUME NEW c \in Callers, Add(c) PROVE Abstract!Next
        <3>1. idx[c] \in candidates[c] /\ idx[c] \in Entries
            BY <2>6 DEF Add, AdmittedInv, TypeOK
        <3>2. eligible' = [eligible EXCEPT ![c] = Entries]
            BY <2>6 DEF Add, Indices, NonExcluded, TypeOK
        <3>3. /\ useCount' = [useCount EXCEPT ![idx[c]] = @ + 1]
              /\ candidates' = [candidates EXCEPT ![c] = {}]
            BY <2>6 DEF Add
        <3>4. Abstract!Charge(c, idx[c])
            BY <3>1, <3>2, <3>3 DEF Abstract!Charge
        <3> QED BY <3>1, <3>4 DEF Abstract!Next
    <2>7. CASE UNCHANGED vars
        BY <2>7 DEF vars, local, Indices
    <2> QED
        BY <2>1, <2>2, <2>3, <2>4, <2>5, <2>6, <2>7 DEF Next, Step, Rest
<1>3. Spec => [](TypeOK /\ MinInv /\ AdmittedInv)
    BY TypeInit, TypeStep, MinInit, MinStep, AdmittedInit, AdmittedStep, PTL DEF Spec
<1> QED
    BY <1>1, <1>2, <1>3, PTL DEF Spec, LeastUsedDuringCall, Abstract!Spec, Abstract!vars
-----------------------------------------------------------------------------
\* What a caller that is alone in the pool knows: once it has loaded an index,
\* some index it has loaded holds its minimum, and the second scan meets one.
MinimumHeld ==
    \A c \in Callers :
        /\ pc[c] \in {"min", "scan"} => todo[c] \subseteq Indices(c) /\ todo[c] # {}
        /\ pc[c] = "min" /\ todo[c] # Indices(c) =>
              \E i \in Indices(c) \ todo[c] : useCount[i] = minCount[c]
        /\ pc[c] = "scan" =>
              \E i \in todo[c] \cup candidates[c] : useCount[i] = minCount[c]
        /\ pc[c] = "pick" => candidates[c] # {}
        /\ pc[c] # "panicked"

\* At most one goroutine is ever in the pool.
Alone == \A c, d \in Callers : c = d

LEMMA HeldInit == Init => MinimumHeld
BY DEF Init, MinimumHeld

LEMMA HeldStep == Alone /\ TypeOK /\ MinimumHeld /\ [Next]_vars => MinimumHeld'
<1> SUFFICES ASSUME Alone, TypeOK, MinimumHeld, [Next]_vars PROVE MinimumHeld'
    OBVIOUS
<1> USE DEF TypeOK
<1>1. ASSUME NEW c \in Callers, NEW X \in ExcludeSets, NEW t \in TieBreakers,
             Call(c, X, t)
      PROVE  MinimumHeld'
    <2>1. X \in SUBSET Entries /\ NonExcluded(X) # {}
        BY PoolAssumption DEF NonExcluded, Entries
    <2>2. /\ pc'[c] = "min" /\ todo'[c] = NonExcluded(X) /\ excluded'[c] = X
        BY <1>1 DEF Call
    <2>3. Indices(c)' = todo'[c]
        BY <2>2 DEF Indices
    <2> QED BY <2>1, <2>2, <2>3 DEF Alone, MinimumHeld
<1>2. ASSUME NEW c \in Callers, NEW i \in Entries, LoadMin(c, i)
      PROVE  MinimumHeld'
    <2>1. /\ pc[c] = "min" /\ i \in todo[c] /\ Indices(c)' = Indices(c)
          /\ useCount' = useCount
          /\ minCount'[c] = IF todo[c] = Indices(c) \/ useCount[i] < minCount[c]
                            THEN useCount[i] ELSE minCount[c]
        BY <1>2 DEF LoadMin, NextIndex, Smaller, Indices
    <2>2. todo[c] \subseteq Indices(c)
        BY <2>1 DEF MinimumHeld
    <2>3. \E j \in (Indices(c) \ todo[c]) \cup {i} : useCount[j] = minCount'[c]
        <3>1. CASE todo[c] = Indices(c) \/ useCount[i] < minCount[c]
            BY <2>1, <3>1
        <3>2. CASE ~(todo[c] = Indices(c) \/ useCount[i] < minCount[c])
            BY <2>1, <3>2 DEF MinimumHeld
        <3> QED BY <3>1, <3>2
    <2>4. CASE todo[c] = {i}
        <3>1. pc'[c] = "scan" /\ todo'[c] = Indices(c)
            BY <1>2, <2>4 DEF LoadMin
        <3> QED BY <2>1, <2>2, <2>3, <3>1 DEF Alone, MinimumHeld
    <2>5. CASE todo[c] # {i}
        <3>1. pc'[c] = "min" /\ todo'[c] = todo[c] \ {i}
            BY <1>2, <2>5 DEF LoadMin
        <3> QED BY <2>1, <2>2, <2>3, <2>5, <3>1 DEF Alone, MinimumHeld
    <2> QED BY <2>4, <2>5
<1>3. ASSUME NEW c \in Callers, NEW i \in Entries, LoadCandidate(c, i)
      PROVE  MinimumHeld'
    <2>1. /\ pc[c] = "scan" /\ i \in todo[c] /\ Indices(c)' = Indices(c)
          /\ useCount' = useCount /\ minCount'[c] = minCount[c]
          /\ candidates'[c] = IF useCount[i] = minCount[c]
                              THEN candidates[c] \cup {i} ELSE candidates[c]
          /\ todo'[c] = todo[c] \ {i}
          /\ pc'[c] = IF todo[c] = {i} THEN "pick" ELSE "scan"
        BY <1>3 DEF LoadCandidate, NextIndex, AtMinimum, Indices
    <2>2. \E j \in todo'[c] \cup candidates'[c] : useCount[j] = minCount[c]
        BY <2>1 DEF MinimumHeld
    <2>3. todo'[c] \subseteq Indices(c)
        BY <2>1 DEF MinimumHeld
    <2>4. CASE todo[c] = {i}
        BY <2>1, <2>2, <2>4 DEF Alone, MinimumHeld
    <2>5. CASE todo[c] # {i}
        BY <2>1, <2>2, <2>3, <2>5 DEF Alone, MinimumHeld
    <2> QED BY <2>4, <2>5
<1>4. ASSUME NEW c \in Callers, NEW i \in Entries, Pick(c, i)
      PROVE  MinimumHeld'
    BY <1>4 DEF Pick, Alone, MinimumHeld
<1>5. ASSUME NEW c \in Callers, Panic(c) PROVE MinimumHeld'
    BY <1>5 DEF Panic, MinimumHeld
<1>6. ASSUME NEW c \in Callers, Add(c) PROVE MinimumHeld'
    BY <1>6 DEF Add, Alone, MinimumHeld
<1>7. CASE UNCHANGED vars
    BY <1>7 DEF vars, local, Indices, MinimumHeld
<1> QED
    BY <1>1, <1>2, <1>3, <1>4, <1>5, <1>6, <1>7 DEF Next, Step, Rest

\* A goroutine that is alone in the pool always gets an entry: the division by
\* zero that the pool_panic run finds needs a second caller.
THEOREM AloneNoPanic == ASSUME Alone PROVE Spec => []NoPanic
<1>1. TypeOK /\ MinimumHeld /\ [Next]_vars => MinimumHeld'
    BY HeldStep
<1>2. MinimumHeld => NoPanic
    BY DEF MinimumHeld, NoPanic
<1> QED
    BY TypeInit, TypeStep, HeldInit, <1>1, <1>2, PTL DEF Spec

=============================================================================
