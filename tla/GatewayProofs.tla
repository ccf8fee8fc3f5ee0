--------------------------- MODULE GatewayProofs ---------------------------
(***************************************************************************)
(* Proofs about Gateway, for any configurations, usernames and number of   *)
(* callers.  That the gateway takes only steps of the session manager is   *)
(* proved first; what SessionManagerProofs shows of it is then cited here. *)
(***************************************************************************)
EXTENDS Gateway, FiniteSetTheorems, WellFoundedInduction, NaturalsInduction, TLAPS

\* The same instance as Sessions, with its theorems.
Proved == INSTANCE SessionManagerProofs
             WITH Keys <- AffinityKeys, NoKey <- None,
                  Nodes <- [set : {u.set : u \in RawUsernames}, choice : 0..MaxItems],
                  TTLs <- {SeedTTL(u) : u \in RawUsernames}
-----------------------------------------------------------------------------
\* Powers of two, by way of counting subsets: those of 1..n with n and those
\* without it are equally many.
LEMMA PowerOfTwo ==
  ASSUME NEW n \in Nat \ {0}
  PROVE  /\ 2^(n - 1) \in Nat \ {0}
         /\ 2^n = 2 * 2^(n - 1)
<1> DEFINE A == 1..(n - 1)
           Without == SUBSET A
           With == {T \cup {n} : T \in Without}
<1>1. /\ IsFiniteSet(A) /\ Cardinality(A) = n - 1
      /\ IsFiniteSet(1..n) /\ Cardinality(1..n) = n
  <2>1. IsFiniteSet(1..n) /\ Cardinality(1..n) = n - 1 + 1
    BY FS_Interval
  <2>2. IsFiniteSet(1..(n - 1)) /\ Cardinality(1..(n - 1)) = IF 1 > n - 1 THEN 0 ELSE n - 1 - 1 + 1
    BY FS_Interval
  <2> QED
    BY <2>1, <2>2
<1>2. /\ IsFiniteSet(Without) /\ Cardinality(Without) = 2^(n - 1)
      /\ IsFiniteSet(SUBSET (1..n)) /\ Cardinality(SUBSET (1..n)) = 2^n
  BY <1>1, FS_SUBSET
<1>3. Cardinality(Without) \in Nat /\ Cardinality(Without) # 0
  <2>1. {} \in Without
    OBVIOUS
  <2> QED
    BY <1>2, <2>1, FS_CardinalityType, FS_EmptySet
<1>4. IsFiniteSet(With) /\ Cardinality(With) = Cardinality(Without)
  <2> DEFINE f == [T \in Without |-> T \cup {n}]
  <2>1. ASSUME NEW S \in Without, NEW T \in Without, S \cup {n} = T \cup {n} PROVE S = T
    <3>1. n \notin S /\ n \notin T
      OBVIOUS
    <3> QED
      BY <3>1, <2>1
  <2>2. f \in [Without -> With] /\ (\A T \in With : \E S \in Without : f[S] = T)
    OBVIOUS
  <2>4. \A S, T \in Without : f[S] = f[T] => S = T
    BY <2>1
  <2>5. f \in Bijection(Without, With)
    <3> HIDE DEF f, Without, With
    <3> QED
      BY <2>2, <2>4 DEF Bijection, Injection, Surjection, IsInjective
  <2>3. ExistsBijection(Without, With)
    BY <2>5 DEF ExistsBijection
  <2> QED
    BY <1>2, <2>3, FS_Bijection
<1>5. SUBSET (1..n) = Without \cup With
  <2>1. ASSUME NEW T \in SUBSET (1..n) PROVE T \in Without \cup With
    <3>1. CASE n \in T
      <4>1. T \ {n} \in Without /\ T = (T \ {n}) \cup {n}
        BY <3>1
      <4> QED
        BY <4>1
    <3>2. CASE n \notin T
      BY <3>2
    <3> QED
      BY <3>1, <3>2
  <2>2. ASSUME NEW T \in Without \cup With PROVE T \in SUBSET (1..n)
    OBVIOUS
  <2> QED
    BY <2>1, <2>2
<1>6. Without \cap With = {}
  OBVIOUS
<1>7. Cardinality({}) = 0
  BY FS_EmptySet
<1>8. Cardinality(SUBSET (1..n)) = Cardinality(Without) + Cardinality(With) - Cardinality(Without \cap With)
  <2>1. IsFiniteSet(Without) /\ IsFiniteSet(With)
    BY <1>2, <1>4
  <2> HIDE DEF Without, With
  <2>2. Cardinality(Without \cup With)
           = Cardinality(Without) + Cardinality(With) - Cardinality(Without \cap With)
    BY <2>1, FS_Union
  <2> QED
    BY <1>5, <2>2
<1> DEFINE half == 2^(n - 1)
           all == 2^n
           w == Cardinality(Without)
<1>9. half = w /\ all = w + w - 0 /\ w \in Nat \ {0}
  BY <1>2, <1>3, <1>4, <1>6, <1>7, <1>8
<1> HIDE DEF half, all, w
<1>10. half \in Nat \ {0} /\ all = 2 * half
  BY <1>9
<1> QED
  BY <1>10 DEF half, all

\* Wrapping yields integers, and leaves alone what has room.
LEMMA WrapProperties ==
  ASSUME NEW n \in Int
  PROVE  /\ Wrap(n) \in Int
         /\ n \in 0..(2^(Width - 1) - 1) => Wrap(n) = n
<1> DEFINE h == 2^(Width - 1)
           w == 2^Width
<1>1. h \in Nat \ {0} /\ w = 2 * h
  BY PowerOfTwo, GatewayAssumption
<1> SUFFICES /\ ((n + h) % w) - h \in Int
             /\ n \in 0..(h - 1) => ((n + h) % w) - h = n
  BY DEF Wrap
<1> HIDE DEF h, w
<1>2. (n + h) % w \in Int
  BY <1>1
<1>3. ASSUME n \in 0..(h - 1) PROVE (n + h) % w = n + h
  <2> DEFINE s == n + h
  <2>1. s \in Nat /\ 0 <= s /\ s < w
    BY <1>1, <1>3
  <2> HIDE DEF s
  <2>2. s % w = s
    BY <1>1, <2>1
  <2> QED
    BY <2>2 DEF s
<1> QED
  BY <1>1, <1>2, <1>3

LEMMA TTLType == ASSUME NEW u \in RawUsernames PROVE SeedTTL(u) \in Int
  BY WrapProperties, GatewayAssumption DEF SeedTTL

\* What SessionManager assumes holds.
LEMMA SessionConstants == Proved!SessionAssumption /\ Proved!NoneAssumption
<1>1. {SeedTTL(u) : u \in RawUsernames} \subseteq Int
  BY TTLType
<1>2. Proved!SessionAssumption
  BY <1>1, GatewayAssumption, NilAssumption
<1>3. Proved!NoneAssumption
  BY NilAssumption DEF Sessions!SessionEntry, Sessions!Proxy, Sessions!SessionSeed,
     Proved!SessionEntry, Proved!Proxy, Proved!SessionSeed
<1> QED
  BY <1>2, <1>3
-----------------------------------------------------------------------------
\* The names of the two instances mean the same.
LEMMA SameTypes == Sessions!TypeOK <=> Proved!TypeOK
  BY DEF Sessions!TypeOK, Sessions!Task, Sessions!SessionEntry, Sessions!Proxy,
     Sessions!SessionSeed, Proved!TypeOK, Proved!Task, Proved!SessionEntry,
     Proved!Proxy, Proved!SessionSeed

LEMMA SameInit == Sessions!Init <=> Proved!Init
  BY DEF Sessions!Init, Sessions!Idle, Proved!Init, Proved!Idle

LEMMA SameBegin == ASSUME NEW c \in Callers PROVE Sessions!Begin(c) <=> Proved!Begin(c)
  BY DEF Sessions!Begin, Sessions!ResolvePassThrough, Sessions!ResolveHit,
     Sessions!ResolveMiss, Sessions!RotateAbsent, Sessions!RotateRead, Sessions!Live,
     Sessions!Return, Sessions!ReturnNone, Sessions!Idle,
     Proved!Begin, Proved!ResolvePassThrough, Proved!ResolveHit,
     Proved!ResolveMiss, Proved!RotateAbsent, Proved!RotateRead, Proved!Live,
     Proved!Return, Proved!ReturnNone, Proved!Idle

LEMMA SameContinue == ASSUME NEW c \in Callers PROVE Sessions!Continue(c) <=> Proved!Continue(c)
  BY DEF Sessions!Continue, Sessions!ResolveSource, Sessions!RotateSource,
     Sessions!SourceFails, Sessions!ResolveInsert, Sessions!RotateUpdate,
     Sessions!Resolved, Sessions!NewSessionSeed, Sessions!NewID, Sessions!NewEntry,
     Sessions!Rotated, Sessions!Live, Sessions!Return, Sessions!ReturnNone, Sessions!Idle,
     Proved!Continue, Proved!ResolveSource, Proved!RotateSource,
     Proved!SourceFails, Proved!ResolveInsert, Proved!RotateUpdate,
     Proved!Resolved, Proved!NewSessionSeed, Proved!NewID, Proved!NewEntry,
     Proved!Rotated, Proved!Live, Proved!Return, Proved!ReturnNone, Proved!Idle

LEMMA SameNext == Sessions!Next <=> Proved!Next
<1>1. Sessions!Cleanup <=> Proved!Cleanup
  BY DEF Sessions!Cleanup, Sessions!CleanupTick, Sessions!CleanupSweep, Sessions!Expired,
     Proved!Cleanup, Proved!CleanupTick, Proved!CleanupSweep, Proved!Expired
<1>2. Sessions!Tick <=> Proved!Tick
  BY DEF Sessions!Tick, Proved!Tick
<1> QED
  BY <1>1, <1>2, SameBegin, SameContinue DEF Sessions!Next, Proved!Next

LEMMA SameStep == [Sessions!Next]_(Sessions!vars) <=> [Proved!Next]_(Proved!vars)
  BY SameNext DEF Sessions!vars, Proved!vars

LEMMA SameSpec == Sessions!Spec <=> Proved!Spec
  BY SameInit, SameStep, PTL DEF Sessions!Spec, Proved!Spec

\* A step of the session manager keeps its types.
LEMMA SessionTypes ==
  ASSUME Sessions!TypeOK, [Sessions!Next]_(Sessions!vars) PROVE Sessions!TypeOK'
<1>1. Proved!TypeOK /\ [Proved!Next]_(Proved!vars) => Proved!TypeOK'
  BY SessionConstants, Proved!TypeStep
<1>2. Proved!TypeOK'
  BY <1>1, SameTypes, SameStep
<1> QED
  BY <1>2 DEF Sessions!TypeOK, Sessions!Task, Sessions!SessionEntry, Sessions!Proxy,
     Sessions!SessionSeed, Proved!TypeOK, Proved!Task, Proved!SessionEntry,
     Proved!Proxy, Proved!SessionSeed

-----------------------------------------------------------------------------
\* Numbers below a bound have a greatest one: a set of them that is mirrored
\* has a least one.
LEMMA LastExists ==
  ASSUME NEW n \in Nat, NEW S \in SUBSET (1..n), S # {}
  PROVE  LastOf(S) # {}
<1> DEFINE T == {n - i : i \in S}
           R == {p \in Nat \X Nat : p[1] < p[2]}
<1>1. IsWellFoundedOn(R, Nat)
  BY NatLessThanWellFounded, Zenon DEF OpToRel
<1>2. T \subseteq Nat /\ T # {}
  <2>1. \A i \in S : n - i \in Nat
    OBVIOUS
  <2>2. PICK i \in S : TRUE
    OBVIOUS
  <2> QED
    BY <2>1, <2>2
<1>3. PICK m \in T : \A y \in T : ~(<<y, m>> \in R)
  BY <1>1, <1>2, WFMin
<1>4. PICK i \in S : m = n - i
  BY <1>3
<1>5. \A j \in S : n - j \in T /\ ~(n - j < m)
  BY <1>2, <1>3
<1>6. \A j \in S : i >= j
  BY <1>4, <1>5
<1> QED
  BY <1>6 DEF LastOf

\* Sources are of the types the router knows.
LEMMA SourceType ==
  ASSUME NEW raw, NEW s \in NewSource(raw)
  PROVE  s.type \in {"static_file", "bottingtools", "geonode"}
<1>1. CASE raw.section /\ raw.source_type = "static_file"
  BY <1>1 DEF NewSource, NewStaticFileSource, Source
<1>2. CASE raw.section /\ raw.source_type = "bottingtools"
  BY <1>2 DEF NewSource, NewBottingtoolsSource, Source
<1>3. CASE raw.section /\ raw.source_type = "geonode"
  BY <1>3 DEF NewSource, NewGeonodeSource, Source
<1>4. CASE /\ ~(raw.section /\ raw.source_type = "static_file")
           /\ ~(raw.section /\ raw.source_type = "bottingtools")
           /\ ~(raw.section /\ raw.source_type = "geonode")
  BY <1>4 DEF NewSource
<1> QED
  BY <1>1, <1>2, <1>3, <1>4

\* The source a router holds for a set is one of those made from the
\* configuration.
LEMMA RoutedSource ==
  ASSUME NEW cfg \in Configs, NEW name \in SetNames(cfg),
         \A i \in DOMAIN cfg.sets : NewSource(cfg.sets[i]) # {}
  PROVE  \E i \in DOMAIN cfg.sets :
            (CHOOSE s \in NewSource(LastOfName(cfg, name)) : TRUE) \in NewSource(cfg.sets[i])
<1> DEFINE J == {j \in DOMAIN cfg.sets : cfg.sets[j].name = name}
           i == CHOOSE j \in LastOf(J) : TRUE
<1>1. cfg.sets \in Seq(Range(cfg.sets))
  BY ConfigAssumption
<1>2. Len(cfg.sets) \in Nat /\ J \in SUBSET (1..Len(cfg.sets))
  BY <1>1
<1>3. J # {}
  BY DEF SetNames
<1>4. LastOf(J) # {}
  <2> HIDE DEF J
  <2> QED
    BY <1>2, <1>3, LastExists
<1>5. i \in J
  BY <1>4 DEF LastOf
<1>6. NewSource(cfg.sets[i]) # {} /\ LastOfName(cfg, name) = cfg.sets[i]
  BY <1>5 DEF LastOfName
<1> QED
  BY <1>5, <1>6
-----------------------------------------------------------------------------
\* Proxy p was chosen for a session of k, by the source that src holds for the
\* set k names.
ChosenFor(src, p, k) ==
    /\ p.seed \in Sessions!SessionSeed /\ p.seed[1] = k
    /\ p.node.set = k.set /\ k.set \in DOMAIN src
    /\ src[k.set].type = "geonode" =>
          p.node.choice \in PickCountry(src[k.set].items, p.seed)

\* A call t carries the context u of a username for the key it works on; one
\* that makes a session lets it last as long as u asks.
WellCalled(src, t, u) ==
    /\ u = None <=> t.pc = "idle"
    /\ u # None => u \in RawUsernames /\ Valid(u) /\ Seed(u) = t.key
    /\ t.pc \in {"resolve", "insert"} => t.ttl = SeedTTL(u) /\ t.ttl > 0
    /\ t.rotation <= MaxRotation
    /\ t.pc \in {"rotate", "update"} => t.rotation > 0
    /\ t.pc \in {"insert", "update"} => ChosenFor(src, t.proxy, t.key)

WellAnswered(src, x) == x # None => ChosenFor(src, x.proxy, x.key)

\* So does a session e of key k, whose context is u; unless it was rotated, it
\* ends when u asked for.
WellKept(src, k, e, u) ==
    e # None =>
        /\ u \in RawUsernames /\ Valid(u) /\ Seed(u) = k
        /\ e.duration = SeedTTL(u) /\ e.duration > 0
        /\ e.rotation = 0 => e.expiresAt = e.startedAt + e.duration
        /\ e.rotation <= MaxRotation
        /\ ChosenFor(src, e.proxy, k)

Calls ==
    \A c \in Callers :
        WellCalled(sources, task[c], req[c]) /\ WellAnswered(sources, reply[c])

Table == \A k \in AffinityKeys : WellKept(sources, k, entries[k], ctx[k])

\* The configuration is read before anything else happens.
Fresh ==
    status = "starting" =>
        /\ config \in Configs
        /\ \A c \in Callers : task[c].pc = "idle" /\ reply[c] = None
        /\ \A k \in AffinityKeys : entries[k] = None

SourceTypes ==
    /\ status \in {"starting", "serving", "failed", "crashed"}
    /\ \A set \in DOMAIN sources :
          /\ sources[set].type \in {"static_file", "bottingtools", "geonode"}
          /\ sources[set].items \in Seq(Range(sources[set].items))
          /\ Len(sources[set].items) <= MaxItems

ContextTypes ==
    /\ req \in [Callers -> RawUsernames \cup {None}]
    /\ ctx \in [AffinityKeys -> RawUsernames \cup {None}]

Own == SourceTypes /\ Fresh /\ ContextTypes /\ Calls /\ Table

Inv == Sessions!TypeOK /\ Own

LEMMA IdleCall == Sessions!Idle.pc = "idle" /\ Sessions!Idle.rotation = 0
  BY DEF Sessions!Idle

LEMMA InvInit == Init => Inv
<1> SUFFICES ASSUME Init PROVE Inv
  OBVIOUS
<1>1. Sessions!TypeOK
  <2>1. Proved!TypeOK
    BY SameInit, SessionConstants, Proved!TypeInit DEF Init
  <2> QED
    BY <2>1, SameTypes
<1>2. /\ \A c \in Callers : task[c] = Sessions!Idle /\ reply[c] = None /\ req[c] = None
      /\ \A k \in AffinityKeys : entries[k] = None
  BY DEF Init, Sessions!Init
<1>3. SourceTypes /\ Fresh /\ ContextTypes
  BY <1>2, IdleCall DEF Init, SourceTypes, Fresh, ContextTypes
<1>4. Calls
  BY <1>2, IdleCall, GatewayAssumption DEF Calls, WellCalled, WellAnswered
<1>5. Table
  BY <1>2 DEF Table, WellKept
<1> QED
  BY <1>1, <1>3, <1>4, <1>5 DEF Inv, Own

\* A caller goes on; nothing happens to the table.
LEMMA CallKeeps ==
  ASSUME Own, status = "serving", UNCHANGED <<status, sources, entries, ctx>>,
         NEW c \in Callers, NEW t, NEW u, NEW x,
         WellCalled(sources, t, u), WellAnswered(sources, x),
         task \in [Callers -> Sessions!Task], DOMAIN reply = Callers,
         task' = [task EXCEPT ![c] = t],
         req' = [req EXCEPT ![c] = u],
         reply' = [reply EXCEPT ![c] = x]
  PROVE  Own'
<1>1. SourceTypes' /\ Fresh'
  BY DEF Own, SourceTypes, Fresh
<1>2. ContextTypes'
  BY DEF Own, ContextTypes, WellCalled
<1>3. Calls'
  BY DEF Own, ContextTypes, Calls
<1>4. Table'
  BY DEF Own, Table
<1> QED
  BY <1>1, <1>2, <1>3, <1>4 DEF Own

\* A caller is done, and the session of k is what it left.
LEMMA CommitKeeps ==
  ASSUME Own, status = "serving", UNCHANGED <<status, sources>>,
         NEW c \in Callers, NEW x, WellAnswered(sources, x),
         NEW k \in AffinityKeys, NEW e, NEW u \in RawUsernames \cup {None},
         WellKept(sources, k, e, u),
         task \in [Callers -> Sessions!Task], DOMAIN reply = Callers,
         DOMAIN entries = AffinityKeys,
         task' = [task EXCEPT ![c] = Sessions!Idle],
         req' = [req EXCEPT ![c] = None],
         reply' = [reply EXCEPT ![c] = x],
         entries' = [entries EXCEPT ![k] = e],
         ctx' = [ctx EXCEPT ![k] = u]
  PROVE  Own'
<1>1. SourceTypes' /\ Fresh'
  BY DEF Own, SourceTypes, Fresh
<1>2. ContextTypes'
  BY DEF Own, ContextTypes
<1>3. WellCalled(sources, Sessions!Idle, None)
  BY IdleCall, GatewayAssumption DEF WellCalled
<1>4. Calls'
  BY <1>3 DEF Own, ContextTypes, Calls
<1>5. Table'
  BY DEF Own, ContextTypes, Table
<1> QED
  BY <1>1, <1>2, <1>4, <1>5 DEF Own

\* What the session manager's types say, in the names used here.
LEMMA Types ==
  ASSUME Inv
  PROVE  /\ task \in [Callers -> Sessions!Task]
         /\ DOMAIN reply = Callers /\ DOMAIN entries = AffinityKeys
         /\ now \in Nat /\ nextID \in Nat
         /\ \A k \in AffinityKeys : entries[k] # None => entries[k] \in Sessions!SessionEntry
         /\ \A c \in Callers : reply[c] # None =>
               reply[c].key \in AffinityKeys /\ reply[c].proxy \in Sessions!Proxy
  BY DEF Inv, Sessions!TypeOK

\* A source offers what there is.
LEMMA OfferType ==
  ASSUME Own, NEW k \in AffinityKeys, NEW r \in 0..MaxRotation, NEW set,
         NEW i \in Offers(set, Sessions!NewSessionSeed(k, r))
  PROVE  /\ i \in 0..MaxItems /\ set \in DOMAIN sources
         /\ sources[set].type = "geonode" =>
               i \in PickCountry(sources[set].items, Sessions!NewSessionSeed(k, r))
<1> DEFINE seed == Sessions!NewSessionSeed(k, r)
           s == sources[set]
<1>1. set \in DOMAIN sources
  BY DEF Offers
<1>2. /\ s.type \in {"static_file", "bottingtools", "geonode"}
      /\ s.items \in Seq(Range(s.items)) /\ Len(s.items) <= MaxItems
  BY <1>1 DEF Own, SourceTypes
<1>3. MaxItems \in Nat /\ Hash(seed) \in Nat
  BY ConfigAssumption
<1>4. seed # None
  BY NilAssumption, GatewayAssumption DEF Sessions!SessionSeed, Sessions!NewSessionSeed
<1>5. CASE s.type = "static_file"
  <2>1. i \in DOMAIN s.items
    BY <1>1, <1>5 DEF Offers, StaticFileOffers
  <2> QED
    BY <1>1, <1>2, <1>3, <1>5, <2>1
<1>6. CASE s.type = "geonode"
  <2>1. i \in PickCountry(s.items, seed)
    BY <1>1, <1>6 DEF Offers, GeonodeOffers
  <2> HIDE DEF seed, s
  <2>2. CASE s.items = <<>>
    BY <1>1, <1>3, <1>4, <1>6, <2>1, <2>2 DEF PickCountry, seed, s
  <2>3. CASE s.items # <<>>
    <3>1. i = (Hash(seed) % Len(s.items)) + 1
      BY <1>4, <2>1, <2>3 DEF PickCountry
    <3>2. Len(s.items) \in Nat /\ Len(s.items) > 0
      BY <1>2, <2>3
    <3>3. Hash(seed) % Len(s.items) \in 0..(Len(s.items) - 1)
      BY <1>3, <3>2
    <3>4. i \in 0..MaxItems
      BY <1>2, <1>3, <3>1, <3>2, <3>3
    <3> QED
      BY <1>1, <2>1, <3>4 DEF seed, s
  <2> QED
    BY <2>2, <2>3
<1>7. CASE s.type = "bottingtools"
  <2>1. i = 0
    BY <1>1, <1>7 DEF Offers, BottingtoolsOffers
  <2> QED
    BY <1>1, <1>3, <1>7, <2>1
<1> QED
  BY <1>2, <1>5, <1>6, <1>7
-----------------------------------------------------------------------------
\* One lemma per action: the gateway's own invariant stays, and the step is one
\* of the session manager or leaves its table alone.
LEMMA BuildServerKeeps ==
  ASSUME Inv, BuildServer PROVE Own' /\ UNCHANGED Sessions!vars
<1>1. /\ status = "starting" /\ UNCHANGED <<req, ctx, now, entries, nextID, task, reply, sweep>>
      /\ config \in Configs
      /\ \A c \in Callers : task[c].pc = "idle" /\ reply[c] = None
      /\ \A k \in AffinityKeys : entries[k] = None
  BY DEF BuildServer, table, Inv, Own, Fresh
<1>2. status' \in {"failed", "serving"}
  BY DEF BuildServer
<1>3. SourceTypes'
  <2>1. CASE \E i \in DOMAIN config.sets : NewSource(config.sets[i]) = {}
    BY <1>2, <2>1 DEF BuildServer, Inv, Own, SourceTypes
  <2>2. CASE \A i \in DOMAIN config.sets : NewSource(config.sets[i]) # {}
    <3>1. sources' = [name \in SetNames(config) |->
                        CHOOSE s \in NewSource(LastOfName(config, name)) : TRUE]
      BY <2>2 DEF BuildServer
    <3>2. ASSUME NEW name \in DOMAIN sources'
          PROVE  /\ sources'[name].type \in {"static_file", "bottingtools", "geonode"}
                 /\ sources'[name].items \in Seq(Range(sources'[name].items))
                 /\ Len(sources'[name].items) <= MaxItems
      <4>1. name \in SetNames(config)
        BY <3>1, <3>2
      <4>2. PICK i \in DOMAIN config.sets : sources'[name] \in NewSource(config.sets[i])
        BY <1>1, <2>2, <3>1, <4>1, RoutedSource
      <4> QED
        BY <1>1, <4>2, SourceType, ConfigAssumption
    <3> QED
      BY <1>2, <3>2 DEF SourceTypes
  <2> QED
    BY <2>1, <2>2
<1>4. Fresh' /\ ContextTypes'
  BY <1>1, <1>2 DEF Inv, Own, Fresh, ContextTypes
<1>5. Calls'
  BY <1>1 DEF Inv, Own, Calls, WellCalled, WellAnswered
<1>6. Table'
  BY <1>1 DEF Table, WellKept
<1> QED
  BY <1>1, <1>3, <1>4, <1>5, <1>6 DEF Own, Sessions!vars

\* A request without a context, that is one not begun, is at the start.
LEMMA ReadyIsIdle ==
  ASSUME Inv, NEW c \in Callers, Ready(c)
  PROVE  status = "serving" /\ task[c].pc = "idle" /\ req[c] = None
  BY DEF Ready, Inv, Own, Calls, WellCalled

\* A call that ends with nothing to keep.
LEMMA NothingKeeps ==
  ASSUME Inv, NEW c \in Callers, status = "serving", UNCHANGED <<status, sources, entries, ctx>>,
         Sessions!ReturnNone(c), req' = [req EXCEPT ![c] = None]
  PROVE  Own'
<1>1. WellCalled(sources, Sessions!Idle, None) /\ WellAnswered(sources, None)
  BY IdleCall, GatewayAssumption DEF WellCalled, WellAnswered
<1> QED
  BY <1>1, Types, CallKeeps DEF Inv, Sessions!ReturnNone

LEMMA RefusedKeeps ==
  ASSUME Inv, NEW c \in Callers, Refused(c)
  PROVE  Own' /\ Sessions!Next
<1>1. /\ status = "serving" /\ task[c].pc = "idle" /\ req[c] = None
      /\ Sessions!ReturnNone(c)
      /\ UNCHANGED <<status, sources, req, ctx, now, entries, nextID, sweep>>
  BY ReadyIsIdle DEF Refused, server
<1>2. req' = [req EXCEPT ![c] = None]
  BY <1>1 DEF Inv, Own, ContextTypes
<1>3. Own'
  BY <1>1, <1>2, NothingKeeps
<1>4. PICK raw \in RawUsernames : TRUE
  BY GatewayAssumption
<1>5. Sessions!ResolvePassThrough(c, None, SeedTTL(raw))
  BY <1>1 DEF Sessions!ResolvePassThrough
<1>6. Sessions!Begin(c)
  BY <1>5 DEF Sessions!Begin
<1> QED
  BY <1>3, <1>6 DEF Sessions!Next

\* Usernames that are let in have a key.
LEMMA KeyOf == ASSUME NEW raw \in RawUsernames, Valid(raw) PROVE Seed(raw) \in AffinityKeys
  BY DEF AffinityKeys

LEMMA HitKeeps ==
  ASSUME Inv, NEW c \in Callers, NEW raw \in RawUsernames, Valid(raw), Hit(c, raw)
  PROVE  Own' /\ Sessions!Next
<1> DEFINE k == Seed(raw)
           x == [key |-> k, proxy |-> entries[k].proxy]
<1>1. /\ status = "serving" /\ task[c].pc = "idle" /\ req[c] = None
      /\ Sessions!ResolveHit(c, k, SeedTTL(raw))
      /\ UNCHANGED <<status, sources, req, ctx>>
  BY ReadyIsIdle DEF Hit, server
<1>2. /\ k \in AffinityKeys /\ entries[k] # None /\ entries' = entries
      /\ task' = [task EXCEPT ![c] = Sessions!Idle]
      /\ reply' = [reply EXCEPT ![c] = x]
  BY <1>1 DEF Sessions!ResolveHit, Sessions!Live, Sessions!Return
<1>3. req' = [req EXCEPT ![c] = None]
  BY <1>1 DEF Inv, Own, ContextTypes
<1>4. WellAnswered(sources, x)
  BY <1>2 DEF Inv, Own, Table, WellKept, WellAnswered
<1>5. WellCalled(sources, Sessions!Idle, None)
  BY IdleCall, GatewayAssumption DEF WellCalled
<1>6. Own'
  <2> HIDE DEF x
  <2> QED
    BY <1>1, <1>2, <1>3, <1>4, <1>5, Types, CallKeeps DEF Inv
<1>7. Sessions!Begin(c)
  BY <1>1, <1>2 DEF Sessions!Begin
<1> QED
  BY <1>6, <1>7 DEF Sessions!Next

LEMMA MissKeeps ==
  ASSUME Inv, NEW c \in Callers, NEW raw \in RawUsernames, Valid(raw), Miss(c, raw)
  PROVE  Own' /\ Sessions!Next
<1> DEFINE k == Seed(raw)
           t == [Sessions!Idle EXCEPT !.pc = "resolve", !.key = k, !.ttl = SeedTTL(raw)]
<1>1. /\ status = "serving" /\ task[c].pc = "idle" /\ req[c] = None
      /\ Sessions!ResolveMiss(c, k, SeedTTL(raw))
      /\ req' = [req EXCEPT ![c] = raw]
      /\ UNCHANGED <<status, sources, ctx>>
  BY ReadyIsIdle DEF Miss, Carry, server
<1>2. /\ k \in AffinityKeys /\ SeedTTL(raw) > 0 /\ entries' = entries
      /\ task' = [task EXCEPT ![c] = t] /\ reply' = reply
  BY <1>1 DEF Sessions!ResolveMiss
<1>3. /\ t.pc = "resolve" /\ t.key = k /\ t.ttl = SeedTTL(raw) /\ t.rotation = 0
  BY DEF Sessions!Idle
<1>4. WellCalled(sources, t, raw)
  <2> HIDE DEF t
  <2> QED
    BY <1>2, <1>3, NilAssumption, GatewayAssumption DEF WellCalled
<1>5. /\ WellAnswered(sources, reply[c])
      /\ reply' = [reply EXCEPT ![c] = reply[c]]
  BY <1>2, Types DEF Inv, Own, Calls, Sessions!TypeOK
<1>6. Own'
  <2> HIDE DEF t
  <2> QED
    BY <1>1, <1>2, <1>4, <1>5, Types, CallKeeps DEF Inv
<1>7. Sessions!Begin(c)
  BY <1>1, <1>2 DEF Sessions!Begin
<1> QED
  BY <1>6, <1>7 DEF Sessions!Next

LEMMA PassThroughKeeps ==
  ASSUME Inv, NEW c \in Callers, NEW raw \in RawUsernames, Valid(raw), PassThrough(c, raw)
  PROVE  Own' /\ Sessions!Next
<1>1. /\ status = "serving" /\ task[c].pc = "idle" /\ req[c] = None
      /\ Sessions!ResolvePassThrough(c, Seed(raw), SeedTTL(raw))
      /\ UNCHANGED <<status, sources, req, ctx>>
  BY ReadyIsIdle DEF PassThrough, server
<1>2. req' = [req EXCEPT ![c] = None]
  BY <1>1 DEF Inv, Own, ContextTypes
<1>3. Own'
  BY <1>1, <1>2, NothingKeeps DEF Sessions!ResolvePassThrough
<1>4. Sessions!Begin(c)
  BY <1>1, KeyOf DEF Sessions!Begin
<1> QED
  BY <1>3, <1>4 DEF Sessions!Next

LEMMA RotateKeeps ==
  ASSUME Inv, NEW c \in Callers, NEW raw \in RawUsernames, Valid(raw), Rotate(c, raw)
  PROVE  Own' /\ Sessions!Next
<1> DEFINE k == Seed(raw)
<1>1. /\ status = "serving" /\ task[c].pc = "idle" /\ req[c] = None
      /\ UNCHANGED <<status, sources, ctx>>
      /\ k \in AffinityKeys
  BY ReadyIsIdle, KeyOf DEF Rotate, server
<1>2. CASE Sessions!RotateAbsent(c, k) /\ UNCHANGED req
  <2>1. req' = [req EXCEPT ![c] = None]
    BY <1>1, <1>2 DEF Inv, Own, ContextTypes
  <2>2. Own'
    BY <1>1, <1>2, <2>1, NothingKeeps DEF Sessions!RotateAbsent
  <2>3. Sessions!Begin(c)
    BY <1>1, <1>2 DEF Sessions!Begin
  <2> QED
    BY <2>2, <2>3 DEF Sessions!Next
<1>3. CASE Sessions!RotateRead(c, k) /\ Carry(c, ctx[k])
  <2> DEFINE t == [Sessions!Idle EXCEPT !.pc = "rotate", !.key = k,
                                        !.ttl = entries[k].duration,
                                        !.rotation = entries[k].rotation + 1]
  <2>1. /\ entries[k] # None /\ entries[k].rotation < MaxRotation
        /\ entries' = entries /\ reply' = reply
        /\ task' = [task EXCEPT ![c] = t]
        /\ req' = [req EXCEPT ![c] = ctx[k]]
    BY <1>3 DEF Sessions!RotateRead, Sessions!Live, Carry
  <2>2. ctx[k] \in RawUsernames /\ Valid(ctx[k]) /\ Seed(ctx[k]) = k
    BY <1>1, <2>1 DEF Inv, Own, Table, WellKept
  <2>3. t.pc = "rotate" /\ t.key = k /\ t.rotation = entries[k].rotation + 1
    BY DEF Sessions!Idle
  <2>4. entries[k].rotation \in Nat
    BY <1>1, <2>1, Types DEF Sessions!SessionEntry
  <2>5. t.rotation <= MaxRotation /\ t.rotation > 0
    BY <2>1, <2>3, <2>4, GatewayAssumption
  <2>6. WellCalled(sources, t, ctx[k])
    <3> HIDE DEF t, k
    <3> QED
      BY <2>2, <2>3, <2>5, NilAssumption DEF WellCalled
  <2>7. /\ WellAnswered(sources, reply[c])
        /\ reply' = [reply EXCEPT ![c] = reply[c]]
    BY <2>1, Types DEF Inv, Own, Calls, Sessions!TypeOK
  <2>8. Own'
    <3> HIDE DEF t
    <3> QED
      BY <1>1, <2>1, <2>6, <2>7, Types, CallKeeps DEF Inv
  <2>9. Sessions!Begin(c)
    BY <1>1, <1>3 DEF Sessions!Begin
  <2> QED
    BY <2>8, <2>9 DEF Sessions!Next
<1> QED
  BY <1>2, <1>3 DEF Rotate

LEMMA SourceAnswersKeeps ==
  ASSUME Inv, NEW c \in Callers, SourceAnswers(c)
  PROVE  Own' /\ Sessions!Next
<1> DEFINE k == task[c].key
           seed == Sessions!NewSessionSeed(k, task[c].rotation)
           u == req[c]
<1>1. PICK i \in Offers(u.set, seed) :
         \/ Sessions!ResolveSource(c, Node(u.set, i))
         \/ Sessions!RotateSource(c, Node(u.set, i))
  BY DEF SourceAnswers
<1>2. /\ status = "serving" /\ task[c].pc \in {"resolve", "rotate"}
      /\ UNCHANGED <<status, sources, req, ctx>>
  BY DEF SourceAnswers, server
<1>3. /\ u \in RawUsernames /\ Valid(u) /\ Seed(u) = k /\ k \in AffinityKeys
      /\ task[c].rotation <= MaxRotation
      /\ task[c].pc = "resolve" => task[c].ttl = SeedTTL(u) /\ task[c].ttl > 0
      /\ task[c].pc = "rotate" => task[c].rotation > 0
  BY <1>2, KeyOf DEF Inv, Own, Calls, WellCalled
<1>4. task[c].rotation \in 0..MaxRotation
  BY <1>3, Types, GatewayAssumption DEF Sessions!Task
<1>5. /\ i \in 0..MaxItems /\ u.set \in DOMAIN sources
      /\ sources[u.set].type = "geonode" => i \in PickCountry(sources[u.set].items, seed)
  BY <1>1, <1>3, <1>4, OfferType DEF Inv
<1>6. k.set = u.set
  BY <1>3 DEF Seed
<1> DEFINE n == Node(u.set, i)
           p == Sessions!Resolved(c, n)
<1>7. p.node = n /\ p.seed = seed /\ n.set = u.set /\ n.choice = i
  BY DEF Sessions!Resolved, Node
<1>8. seed \in Sessions!SessionSeed /\ seed[1] = k
  BY <1>3, <1>4, GatewayAssumption DEF Sessions!SessionSeed, Sessions!NewSessionSeed
<1>9. ChosenFor(sources, p, k)
  <2> HIDE DEF p, n, seed, k, u
  <2> QED
    BY <1>5, <1>6, <1>7, <1>8 DEF ChosenFor
<1>10. n \in [set : {raw.set : raw \in RawUsernames}, choice : 0..MaxItems]
  BY <1>3, <1>5 DEF Node
<1>11. task[c] \in Sessions!Task /\ task[c].pc # "idle" /\ u # None
  BY <1>2, <1>3, Types, NilAssumption
<1>12. CASE Sessions!ResolveSource(c, n)
  <2> DEFINE t == [task[c] EXCEPT !.pc = "insert", !.proxy = p, !.at = now, !.id = nextID]
  <2>1. task[c].pc = "resolve" /\ task' = [task EXCEPT ![c] = t] /\ UNCHANGED <<entries, reply>>
    BY <1>12 DEF Sessions!ResolveSource
  <2>2. /\ t.pc = "insert" /\ t.key = k /\ t.rotation = task[c].rotation
        /\ t.ttl = task[c].ttl /\ t.proxy = p
    <3> HIDE DEF p
    <3> QED
      BY <1>11 DEF Sessions!Task
  <2>3. WellCalled(sources, t, u)
    <3> HIDE DEF t, p, k, u
    <3> QED
      BY <1>3, <1>9, <1>11, <2>1, <2>2 DEF WellCalled
  <2>4. /\ WellAnswered(sources, reply[c])
        /\ reply' = [reply EXCEPT ![c] = reply[c]] /\ req' = [req EXCEPT ![c] = u]
    BY <1>2, <2>1, Types DEF Inv, Own, Calls, ContextTypes, Sessions!TypeOK
  <2>5. Own'
    <3> HIDE DEF t, u
    <3> QED
      BY <1>2, <2>1, <2>3, <2>4, Types, CallKeeps DEF Inv
  <2>6. Sessions!Continue(c)
    BY <1>10, <1>12 DEF Sessions!Continue
  <2> QED
    BY <2>5, <2>6 DEF Sessions!Next
<1>13. CASE Sessions!RotateSource(c, n)
  <2> DEFINE t == [task[c] EXCEPT !.pc = "update", !.proxy = p, !.at = now]
  <2>1. task[c].pc = "rotate" /\ task' = [task EXCEPT ![c] = t] /\ UNCHANGED <<entries, reply>>
    BY <1>13 DEF Sessions!RotateSource
  <2>2. /\ t.pc = "update" /\ t.key = k /\ t.rotation = task[c].rotation
        /\ t.proxy = p
    <3> HIDE DEF p
    <3> QED
      BY <1>11 DEF Sessions!Task
  <2>3. WellCalled(sources, t, u)
    <3> HIDE DEF t, p, k, u
    <3> QED
      BY <1>3, <1>9, <1>11, <2>1, <2>2 DEF WellCalled
  <2>4. /\ WellAnswered(sources, reply[c])
        /\ reply' = [reply EXCEPT ![c] = reply[c]] /\ req' = [req EXCEPT ![c] = u]
    BY <1>2, <2>1, Types DEF Inv, Own, Calls, ContextTypes, Sessions!TypeOK
  <2>5. Own'
    <3> HIDE DEF t, u
    <3> QED
      BY <1>2, <2>1, <2>3, <2>4, Types, CallKeeps DEF Inv
  <2>6. Sessions!Continue(c)
    BY <1>10, <1>13 DEF Sessions!Continue
  <2> QED
    BY <2>5, <2>6 DEF Sessions!Next
<1> QED
  BY <1>1, <1>12, <1>13

LEMMA SourceFailsKeeps ==
  ASSUME Inv, NEW c \in Callers, SourceFails(c)
  PROVE  Own' /\ Sessions!Next
<1>1. /\ status = "serving" /\ UNCHANGED <<status, sources, ctx>>
      /\ Sessions!SourceFails(c) /\ req' = [req EXCEPT ![c] = None]
  BY DEF SourceFails, Carry, server
<1>2. Own'
  BY <1>1, NothingKeeps DEF Sessions!SourceFails
<1>3. Sessions!Continue(c)
  BY <1>1 DEF Sessions!Continue
<1> QED
  BY <1>2, <1>3 DEF Sessions!Next

LEMMA CrashKeeps ==
  ASSUME Inv, NEW c \in Callers, NEW set, Crash(c, set)
  PROVE  Own' /\ UNCHANGED Sessions!vars
<1>1. /\ status' = "crashed"
      /\ UNCHANGED <<sources, req, ctx, now, entries, nextID, task, reply, sweep>>
  BY DEF Crash, table
<1>2. SourceTypes' /\ Fresh' /\ ContextTypes'
  BY <1>1 DEF Inv, Own, SourceTypes, Fresh, ContextTypes
<1>3. Calls' /\ Table'
  BY <1>1 DEF Inv, Own, Calls, Table
<1> QED
  BY <1>1, <1>2, <1>3 DEF Own, Sessions!vars

\* Of two calls that race the first decides, with its own context; a session
\* that has expired is replaced together with its context.
LEMMA InsertKeeps ==
  ASSUME Inv, NEW c \in Callers, Insert(c)
  PROVE  Own' /\ Sessions!Next
<1> DEFINE k == task[c].key
           e == IF Sessions!Live(k) THEN entries[k] ELSE Sessions!NewEntry(c)
           u == IF Sessions!Live(k) THEN ctx[k] ELSE req[c]
           x == [key |-> k, proxy |-> IF Sessions!Live(k) THEN entries[k].proxy ELSE task[c].proxy]
<1>1. /\ status = "serving" /\ UNCHANGED <<status, sources>>
      /\ Sessions!ResolveInsert(c) /\ req' = [req EXCEPT ![c] = None]
      /\ ctx' = [ctx EXCEPT ![k] = IF Sessions!Live(k) THEN @ ELSE req[c]]
  BY DEF Insert, Carry, server
<1>2. /\ task[c].pc = "insert"
      /\ entries' = [entries EXCEPT ![k] = IF Sessions!Live(k) THEN @ ELSE Sessions!NewEntry(c)]
      /\ task' = [task EXCEPT ![c] = Sessions!Idle]
      /\ reply' = [reply EXCEPT ![c] = x]
  BY <1>1 DEF Sessions!ResolveInsert, Sessions!Return
<1>3. /\ req[c] \in RawUsernames /\ Valid(req[c]) /\ Seed(req[c]) = k /\ k \in AffinityKeys
      /\ task[c].ttl = SeedTTL(req[c]) /\ task[c].ttl > 0
      /\ ChosenFor(sources, task[c].proxy, k)
  BY <1>2, KeyOf DEF Inv, Own, Calls, WellCalled
<1>4. /\ entries' = [entries EXCEPT ![k] = e] /\ ctx' = [ctx EXCEPT ![k] = u]
  BY <1>1, <1>2
<1>5. WellKept(sources, k, entries[k], ctx[k])
  BY <1>3 DEF Inv, Own, Table
<1>6. WellKept(sources, k, Sessions!NewEntry(c), req[c])
  BY <1>3, GatewayAssumption DEF WellKept, Sessions!NewEntry
<1>7. WellKept(sources, k, e, u)
  BY <1>5, <1>6
<1>8. u \in RawUsernames \cup {None}
  BY <1>3 DEF Inv, Own, ContextTypes
<1>9. WellAnswered(sources, x)
  BY <1>3, <1>5 DEF WellAnswered, WellKept, Sessions!Live
<1>10. Own'
  <2> HIDE DEF e, u, x, k
  <2> QED
    BY <1>1, <1>2, <1>3, <1>4, <1>7, <1>8, <1>9, Types, CommitKeeps DEF Inv
<1>11. Sessions!Continue(c)
  BY <1>1 DEF Sessions!Continue
<1> QED
  BY <1>10, <1>11 DEF Sessions!Next

LEMMA UpdateKeeps ==
  ASSUME Inv, NEW c \in Callers, Update(c)
  PROVE  Own' /\ Sessions!Next
<1> DEFINE k == task[c].key
           e == Sessions!Rotated(c, entries[k])
           x == [key |-> k, proxy |-> task[c].proxy]
<1>1. /\ status = "serving" /\ UNCHANGED <<status, sources, ctx>>
      /\ Sessions!RotateUpdate(c) /\ req' = [req EXCEPT ![c] = None]
  BY DEF Update, Carry, server
<1>2. task[c].pc = "update"
  BY <1>1 DEF Sessions!RotateUpdate
<1>3. /\ k \in AffinityKeys /\ ChosenFor(sources, task[c].proxy, k)
      /\ task[c].rotation <= MaxRotation /\ task[c].rotation > 0
      /\ task[c].rotation \in Nat
  BY <1>2, KeyOf, Types DEF Inv, Own, Calls, WellCalled, Sessions!Task
<1>6. Sessions!Next
  BY <1>1 DEF Sessions!Continue, Sessions!Next
<1>4. CASE entries[k] = None
  BY <1>1, <1>4, <1>6, NothingKeeps DEF Sessions!RotateUpdate
<1>5. CASE entries[k] # None
  <2>1. /\ entries' = [entries EXCEPT ![k] = e]
        /\ task' = [task EXCEPT ![c] = Sessions!Idle]
        /\ reply' = [reply EXCEPT ![c] = x]
    BY <1>1, <1>5 DEF Sessions!RotateUpdate, Sessions!Return
  <2>2. entries[k] \in Sessions!SessionEntry
    BY <1>3, <1>5, Types
  <2>3. e.duration = entries[k].duration /\ e.rotation = task[c].rotation /\ e.proxy = task[c].proxy
    BY <2>2 DEF Sessions!Rotated, Sessions!SessionEntry
  <2>4. WellKept(sources, k, entries[k], ctx[k])
    BY <1>3 DEF Inv, Own, Table
  <2>8. e.rotation # 0
    BY <1>3, <2>3
  <2>5. WellKept(sources, k, e, ctx[k])
    <3> HIDE DEF e, k
    <3> QED
      BY <1>3, <1>5, <2>3, <2>4, <2>8 DEF WellKept
  <2>6. ctx[k] \in RawUsernames \cup {None} /\ ctx' = [ctx EXCEPT ![k] = ctx[k]]
    BY <1>1, <1>3 DEF Inv, Own, ContextTypes
  <2>7. WellAnswered(sources, x)
    BY <1>3 DEF WellAnswered
  <2> HIDE DEF e, x, k
  <2> QED
    BY <1>1, <1>3, <1>6, <2>1, <2>5, <2>6, <2>7, Types, CommitKeeps DEF Inv
<1> QED
  BY <1>4, <1>5

LEMMA CleanupKeeps ==
  ASSUME Inv, Cleanup
  PROVE  Own' /\ Sessions!Next
<1>1. /\ status = "serving" /\ UNCHANGED <<status, sources, req>> /\ Sessions!Cleanup
      /\ ctx' = [k \in AffinityKeys |-> IF entries'[k] = None THEN None ELSE ctx[k]]
  BY DEF Cleanup, server
<1>2. /\ UNCHANGED <<task, reply>>
      /\ \A k \in AffinityKeys : entries'[k] \in {entries[k], None}
  BY <1>1 DEF Sessions!Cleanup, Sessions!CleanupTick, Sessions!CleanupSweep
<1>3. SourceTypes' /\ Fresh' /\ Calls'
  BY <1>1, <1>2 DEF Inv, Own, SourceTypes, Fresh, Calls
<1>4. ContextTypes'
  BY <1>1 DEF Inv, Own, ContextTypes
<1>5. Table'
  <2>1. ASSUME NEW k \in AffinityKeys PROVE WellKept(sources, k, entries'[k], ctx'[k])
    <3>1. CASE entries'[k] = None
      BY <3>1 DEF WellKept
    <3>2. CASE entries'[k] # None
      BY <1>1, <1>2, <3>2 DEF Inv, Own, Table
    <3> QED
      BY <3>1, <3>2
  <2> QED
    BY <1>1, <2>1 DEF Table
<1> QED
  BY <1>1, <1>3, <1>4, <1>5 DEF Own, Sessions!Next

LEMMA TickKeeps ==
  ASSUME Inv, Tick
  PROVE  Own' /\ Sessions!Next
<1>1. UNCHANGED <<config, status, sources, req, ctx, entries, task, reply>> /\ Sessions!Tick
  BY DEF Tick, server, Sessions!Tick
<1>2. Own'
  BY <1>1 DEF Inv, Own, SourceTypes, Fresh, ContextTypes, Calls, Table
<1> QED
  BY <1>1, <1>2 DEF Sessions!Next

\* Every step of the gateway keeps the invariant and is a step of its session
\* manager, or none: one step per action of Next.
LEMMA Step ==
  ASSUME Inv, [Next]_vars
  PROVE  Own' /\ [Sessions!Next]_(Sessions!vars)
<1>1. ASSUME NEW c \in Callers, NEW raw \in RawUsernames, NEW guess \in Guesses,
             Admitted(raw, guess),
             \/ Hit(c, raw) \/ Miss(c, raw)
             \/ PassThrough(c, raw) \/ PassThroughCrashes(c, raw)
      PROVE  Own' /\ [Sessions!Next]_(Sessions!vars)
  <2>1. Valid(raw)
    BY <1>1 DEF Admitted
  <2>2. CASE PassThroughCrashes(c, raw)
    BY <2>2, CrashKeeps DEF PassThroughCrashes
  <2> QED
    BY <1>1, <2>1, <2>2, HitKeeps, MissKeeps, PassThroughKeeps
<1>2. ASSUME NEW c \in Callers, NEW form \in Encodings, NEW any \in RawUsernames,
             NEW raw \in Decode(form, any), Rotate(c, raw)
      PROVE  Own' /\ [Sessions!Next]_(Sessions!vars)
  <2>1. raw = any /\ Valid(raw)
    BY DEF Decode
  <2> QED
    BY <1>2, <2>1, RotateKeeps
<1>3. ASSUME NEW c \in Callers, Begin(c) PROVE Own' /\ [Sessions!Next]_(Sessions!vars)
  BY <1>1, <1>2, <1>3, RefusedKeeps DEF Begin
<1>4. ASSUME NEW c \in Callers, Continue(c) PROVE Own' /\ [Sessions!Next]_(Sessions!vars)
  <2>1. CASE SourceCrashes(c)
    BY <2>1, CrashKeeps DEF SourceCrashes
  <2> QED
    BY <1>4, <2>1, SourceAnswersKeeps, SourceFailsKeeps, InsertKeeps, UpdateKeeps DEF Continue
<1>5. CASE Ended \/ UNCHANGED vars
  <2>1. UNCHANGED vars
    BY <1>5 DEF Ended
  <2>2. UNCHANGED <<config, status, sources, req, ctx, now, entries, nextID, task, reply, sweep>>
    BY <2>1 DEF vars, server, table
  <2> QED
    BY <2>2 DEF Inv, Own, SourceTypes, Fresh, ContextTypes, Calls, Table, Sessions!vars
<1> QED
  BY <1>3, <1>4, <1>5, BuildServerKeeps, CleanupKeeps, TickKeeps DEF Next

LEMMA InvStep == Inv /\ [Next]_vars => Inv'
  BY Step, SessionTypes DEF Inv

LEMMA AlwaysInv == Spec => []Inv
  BY InvInit, InvStep, PTL DEF Spec
-----------------------------------------------------------------------------
\* Sources, contexts and the session table keep their types.
THEOREM TypeCorrect == Spec => []TypeOK
<1>1. Inv => TypeOK
  BY DEF Inv, Own, SourceTypes, ContextTypes, TypeOK
<1> QED
  BY <1>1, AlwaysInv, PTL

\* Every action of the gateway is an action of the session manager or leaves
\* its variables alone.
LEMMA SessionsUsed == Spec => Sessions!Spec
<1>1. Init => Sessions!Init
  BY DEF Init
<1>2. Inv /\ [Next]_vars => [Sessions!Next]_(Sessions!vars)
  BY Step
<1> QED
  BY <1>1, <1>2, AlwaysInv, PTL DEF Spec, Sessions!Spec

\* So what is proved of the session manager holds in the gateway: clients see
\* sticky sessions, in which every call takes effect at one instant; a live
\* session is not dropped; those that the API lists never share a session_id;
\* and each proxy was resolved under the seed its session records.
THEOREM SessionGuarantees ==
    Spec => /\ Proved!StickyForClients
            /\ Proved!LiveSessionKept
            /\ []Proved!UniqueIds
            /\ []Proved!ProxyMatchesSeed
<1>1. Spec => Proved!Spec
  BY SessionsUsed, SameSpec, PTL
<1> QED
  BY <1>1, SessionConstants, Proved!SessionsSticky, Proved!LiveSessionsStay,
     Proved!IdsUnique, Proved!SeedsMatch, PTL

\* A session serves from the set its client named: the key holds the name, and
\* whoever calls the source carries a context for that key.
THEOREM SetsServed == Spec => []NamedSetServed
<1>1. Inv => NamedSetServed
  <2> SUFFICES ASSUME Inv, NEW u \in RawUsernames, Valid(u), Sessions!Live(Seed(u))
               PROVE  entries[Seed(u)].proxy.node.set = u.set
    BY DEF NamedSetServed
  <2>1. Seed(u) \in AffinityKeys /\ entries[Seed(u)] # None
    BY KeyOf DEF Sessions!Live
  <2>2. ChosenFor(sources, entries[Seed(u)].proxy, Seed(u))
    BY <2>1 DEF Inv, Own, Table, WellKept
  <2> QED
    BY <2>2 DEF ChosenFor, Seed
<1> QED
  BY <1>1, AlwaysInv, PTL

\* The username of a listed session leads to it in every encoding that gets
\* through the path, and its proxy_set is the set the proxy comes from: the
\* context a session keeps is one for its key, whoever stored it.
THEOREM ListedFound == Spec => []ListedFetchable
<1>1. ASSUME Inv, NEW k \in AffinityKeys, Sessions!Live(k)
      PROVE  /\ ctx[k] \in RawUsernames /\ Valid(ctx[k]) /\ Seed(ctx[k]) = k
             /\ ChosenFor(sources, entries[k].proxy, k)
  BY <1>1 DEF Inv, Own, Table, WellKept, Sessions!Live
<1>2. ASSUME Inv, NEW s \in ListSessions, NEW form \in Encodings,
             Arrives(form, s.username)
      PROVE  GetSession(form, s.username) = {s}
  <2>1. PICK k \in AffinityKeys : Sessions!Live(k) /\ s = APISessionInfo(k)
    BY DEF ListSessions
  <2>2. s.username = ctx[k]
    BY <2>1 DEF APISessionInfo
  <2>3. Decode(form, ctx[k]) = {ctx[k]} /\ Seed(ctx[k]) = k
    BY <1>1, <1>2, <2>1, <2>2 DEF Decode
  <2> QED
    BY <2>1, <2>2, <2>3 DEF GetSession
<1>3. ASSUME Inv, NEW k \in AffinityKeys, Sessions!Live(k)
      PROVE  APISessionInfo(k).proxy_set = entries[k].proxy.node.set
  <2>1. APISessionInfo(k).proxy_set = ctx[k].set /\ Seed(ctx[k]).set = ctx[k].set
    BY DEF APISessionInfo, Seed
  <2> QED
    BY <1>1, <1>3, <2>1 DEF ChosenFor
<1>4. Inv => ListedFetchable
  BY <1>2, <1>3 DEF ListedFetchable
<1> QED
  BY <1>4, AlwaysInv, PTL

\* A session that was not rotated yet ends when the request that made it asked
\* for, if that fits into a time.Duration.
THEOREM DurationAsked == Spec => []AskedDuration
<1>1. Inv => AskedDuration
  <2> SUFFICES ASSUME Inv, NEW k \in AffinityKeys, entries[k] # None,
                      entries[k].rotation = 0,
                      ctx[k].minutes * Minute \in 0..(2^(Width - 1) - 1)
               PROVE  /\ ctx[k].minutes * Minute > 0
                      /\ entries[k].expiresAt = entries[k].startedAt + ctx[k].minutes * Minute
    BY DEF AskedDuration
  <2> DEFINE asked == ctx[k].minutes * Minute
  <2>1. /\ ctx[k] \in RawUsernames
        /\ entries[k].duration = SeedTTL(ctx[k]) /\ entries[k].duration > 0
        /\ entries[k].expiresAt = entries[k].startedAt + entries[k].duration
    BY DEF Inv, Own, Table, WellKept
  <2>2. asked \in Int /\ SeedTTL(ctx[k]) = Wrap(asked)
    BY <2>1, GatewayAssumption DEF SeedTTL
  <2>3. Wrap(asked) = asked
    <3> HIDE DEF asked
    <3> SUFFICES asked \in 0..(2^(Width - 1) - 1)
      BY <2>2, WrapProperties
    <3> QED
      BY DEF asked
  <2> QED
    BY <2>1, <2>2, <2>3
<1> QED
  BY <1>1, AlwaysInv, PTL

\* Proxies with one seed from a geonode source are the same one: the seed names
\* the key, the key the set, and both together the country.
THEOREM CountryDecided == Spec => []SeedDecidesCountry
<1>1. ASSUME Inv, NEW c \in Callers, NEW k \in AffinityKeys,
             reply[c] # None, entries[k] # None,
             reply[c].proxy.seed = entries[k].proxy.seed,
             sources[entries[k].proxy.node.set].type = "geonode"
      PROVE  reply[c].proxy = entries[k].proxy
  <2> DEFINE p == reply[c].proxy
             q == entries[k].proxy
             items == sources[k.set].items
  <2>1. p \in Sessions!Proxy /\ q \in Sessions!Proxy
    BY <1>1, Types DEF Sessions!SessionEntry
  <2>2. ChosenFor(sources, p, reply[c].key) /\ ChosenFor(sources, q, k)
    BY <1>1 DEF Inv, Own, Calls, WellAnswered, Table, WellKept
  <2>3. reply[c].key = k
    BY <1>1, <2>2 DEF ChosenFor
  <2>4. /\ p.node.set = k.set /\ q.node.set = k.set
        /\ p.node.choice \in PickCountry(items, q.seed)
        /\ q.node.choice \in PickCountry(items, q.seed)
    BY <1>1, <2>2, <2>3 DEF ChosenFor
  <2>5. q.seed # None
    BY <2>2, NilAssumption DEF ChosenFor
  <2>6. p.node.choice = q.node.choice
    <3> HIDE DEF p, q, items
    <3>1. CASE items = <<>>
      BY <2>4, <2>5, <3>1 DEF PickCountry
    <3>2. CASE items # <<>>
      BY <2>4, <2>5, <3>2 DEF PickCountry
    <3> QED
      BY <3>1, <3>2
  <2>7. p.node = q.node
    <3> HIDE DEF p, q, items
    <3> QED
      BY <2>1, <2>4, <2>6 DEF Sessions!Proxy
  <2>8. p.seed = q.seed
    BY <1>1
  <2> HIDE DEF p, q, items
  <2>9. p = q
    BY <2>1, <2>7, <2>8 DEF Sessions!Proxy
  <2> QED
    BY <2>9 DEF p, q
<1>2. Inv => SeedDecidesCountry
  BY <1>1 DEF SeedDecidesCountry
<1> QED
  BY <1>2, AlwaysInv, PTL
=============================================================================
