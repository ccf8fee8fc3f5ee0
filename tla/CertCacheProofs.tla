-------------------------- MODULE CertCacheProofs --------------------------
(***************************************************************************)
(* Proofs about CertCache: type correctness, that the map is there when it *)
(* is used, and that every connection to a host is shown one certificate,  *)
(* for any number of hosts and callers.                                    *)
(***************************************************************************)
EXTENDS CertCache, TLAPS

\* TypeOK is inductive.
LEMMA TypeStep == TypeOK /\ [Next]_vars => TypeOK'
<1> SUFFICES ASSUME TypeOK, [Next]_vars PROVE TypeOK'
    OBVIOUS
<1> USE DEF TypeOK, Goto, Return
<1>1. ASSUME NEW c \in Callers, NEW h \in Hosts, Get(c, h) PROVE TypeOK'
    BY <1>1 DEF Get
<1>2. ASSUME NEW c \in Callers, Make(c) PROVE TypeOK'
    BY <1>2 DEF Make
<1>3. ASSUME NEW c \in Callers, Lookup(c) PROVE TypeOK'
    <2>1. CASE Cached(host[c])
        <3>1. certs[host[c]] \in Nat
            BY <1>3, <2>1 DEF Lookup, Cached
        <3> QED  BY <1>3, <2>1, <3>1 DEF Lookup
    <2>2. CASE ~Cached(host[c])
        BY <1>3, <2>2 DEF Lookup
    <2> QED  BY <2>1, <2>2
<1>4. ASSUME NEW c \in Callers, Lock(c) PROVE TypeOK'
    BY <1>4 DEF Lock
<1>5. ASSUME NEW c \in Callers, Found(c) PROVE TypeOK'
    <2>1. certs[host[c]] \in Nat
        BY <1>5 DEF Found, Cached
    <2> QED  BY <1>5, <2>1 DEF Found
<1>6. ASSUME NEW c \in Callers, Store(c) PROVE TypeOK'
    BY <1>6 DEF Store
<1>7. ASSUME NEW c \in Callers, ForgeFails(c) PROVE TypeOK'
    BY <1>7 DEF ForgeFails
<1>8. CASE UNCHANGED vars
    BY <1>8 DEF vars
<1> QED  BY <1>1, <1>2, <1>3, <1>4, <1>5, <1>6, <1>7, <1>8 DEF Next, Step

\* Every state of the cache (mitm.go, CertCache) has its type.
THEOREM TypeCorrect == Spec => []TypeOK
<1>1. Init => TypeOK
    BY DEF Init, TypeOK
<1> QED  BY <1>1, TypeStep, PTL DEF Spec
-----------------------------------------------------------------------------
\* MapMade is inductive: a call gets past the racing check only if it read the
\* map, and past the lock only when the map is there; nobody unmakes it.
LEMMA MapStep == TypeOK /\ MapMade /\ [Next]_vars => MapMade'
<1> SUFFICES ASSUME TypeOK, MapMade, [Next]_vars PROVE MapMade'
    OBVIOUS
<1> USE DEF TypeOK, MapMade, Goto, Return
<1>1. ASSUME NEW c \in Callers, NEW h \in Hosts, Get(c, h) PROVE MapMade'
    BY <1>1 DEF Get, ReadsNil
<1>2. ASSUME NEW c \in Callers, Make(c) PROVE MapMade'
    <2>1. [h \in Hosts |-> None] # None
        BY NilAssumption
    <2> QED  BY <1>2, <2>1 DEF Make
<1>3. ASSUME NEW c \in Callers, Lookup(c) PROVE MapMade'
    BY <1>3 DEF Lookup
<1>4. ASSUME NEW c \in Callers, Lock(c) PROVE MapMade'
    BY <1>4 DEF Lock
<1>5. ASSUME NEW c \in Callers, Found(c) PROVE MapMade'
    BY <1>5 DEF Found
<1>6. ASSUME NEW c \in Callers, Store(c) PROVE MapMade'
    <2>1. certs' # None
        BY <1>6, NilAssumption DEF Store
    <2> QED  BY <1>6, <2>1 DEF Store
<1>7. ASSUME NEW c \in Callers, ForgeFails(c) PROVE MapMade'
    BY <1>7 DEF ForgeFails
<1>8. CASE UNCHANGED vars
    BY <1>8 DEF vars
<1> QED  BY <1>1, <1>2, <1>3, <1>4, <1>5, <1>6, <1>7, <1>8 DEF Next, Step

\* No call uses the map before it is made, although the check races (Get).
THEOREM MapAlwaysMade == Spec => []MapMade
<1>1. Init => MapMade
    BY DEF Init, MapMade
<1> QED  BY <1>1, TypeCorrect, MapStep, PTL DEF Spec
-----------------------------------------------------------------------------
\* A certificate that is cached stays, and only a host without one gets one.
LEMMA CacheGrows ==
    ASSUME TypeOK, [Next]_vars
    PROVE  \A h \in Hosts : Cached(h) => certs' # None /\ certs'[h] = certs[h]
<1> SUFFICES ASSUME NEW h \in Hosts, Cached(h)
             PROVE  certs' # None /\ certs'[h] = certs[h]
    OBVIOUS
<1> USE DEF Cached, TypeOK
<1>1. ASSUME NEW c \in Callers, Make(c) PROVE certs' = certs
    BY <1>1 DEF Make
<1>2. ASSUME NEW c \in Callers, Store(c) PROVE certs' # None /\ certs'[h] = certs[h]
    <2>1. host[c] # h
        BY <1>2 DEF Store
    <2>2. certs' \in [Hosts -> Nat \cup {None}]
        BY <1>2 DEF Store
    <2> QED  BY <1>2, <2>1, <2>2, NilAssumption DEF Store
<1>3. CASE \A c \in Callers : ~Make(c) /\ ~Store(c)
    BY <1>3 DEF Next, Step, Get, Lookup, Lock, Found, ForgeFails, vars
<1> QED  BY <1>1, <1>2, <1>3

\* Cached certificates stay as long as the process (CertCache.Get never
\* overwrites or deletes).
THEOREM CacheKept == Spec => CachedForGood
<1>1. TypeOK /\ [Next]_vars
        => [\A h \in Hosts : Cached(h) => certs' # None /\ certs'[h] = certs[h]]_vars
    BY CacheGrows
<1> QED  BY <1>1, TypeCorrect, PTL DEF Spec, CachedForGood

\* The strengthening of OneCertPerHost: serial numbers not handed out yet are
\* in nobody's certificate, and what was returned is in the map.
Serials ==
    /\ certs # None => \A h \in Hosts : certs[h] # None => certs[h] < serial
    /\ \A c \in Callers : got[c] # None => certs # None /\ certs[got[c].host] = got[c].cert

Distinct ==
    certs # None => \A g, h \in Hosts : g # h /\ certs[g] # None => certs[g] # certs[h]

Inv == Serials /\ Distinct

LEMMA InvStep == TypeOK /\ Inv /\ [Next]_vars => Inv'
<1> SUFFICES ASSUME TypeOK, Inv, [Next]_vars PROVE Inv'
    OBVIOUS
<1> USE DEF Inv, Serials, Distinct
<1>1. ASSUME NEW c \in Callers, NEW h \in Hosts, Get(c, h) PROVE Inv'
    BY <1>1 DEF Get
<1>2. ASSUME NEW c \in Callers, Make(c) PROVE Inv'
    <2>1. CASE certs = None
        <3>1. certs' = [h \in Hosts |-> None] /\ got' = got
            BY <1>2, <2>1 DEF Make
        <3>2. \A d \in Callers : got[d] = None
            BY <2>1
        <3> QED  BY <3>1, <3>2
    <2>2. CASE certs # None
        BY <1>2, <2>2 DEF Make
    <2> QED  BY <2>1, <2>2
<1>3. ASSUME NEW c \in Callers, certs' = certs, serial' = serial, Cached(host[c]),
             pc[c] # "idle", Return(c, certs[host[c]])
      PROVE  Inv'
    <2>1. got'[c] = [host |-> host[c], cert |-> certs[host[c]]]
        BY <1>3 DEF Return, TypeOK
    <2>2. \A d \in Callers : d # c => got'[d] = got[d]
        BY <1>3 DEF Return, TypeOK
    <2> QED  BY <1>3, <2>1, <2>2 DEF Cached
<1>4. ASSUME NEW c \in Callers, Lookup(c) PROVE Inv'
    BY <1>3, <1>4 DEF Lookup
<1>5. ASSUME NEW c \in Callers, Lock(c) PROVE Inv'
    BY <1>5 DEF Lock
<1>6. ASSUME NEW c \in Callers, Found(c) PROVE Inv'
    BY <1>3, <1>6 DEF Found
<1>7. ASSUME NEW c \in Callers, Store(c) PROVE Inv'
    <2>1. certs \in [Hosts -> Nat \cup {None}] /\ host[c] \in Hosts /\ serial \in Nat
        BY <1>7 DEF Store, TypeOK
    <2>2. certs' = [certs EXCEPT ![host[c]] = serial] /\ serial' = serial + 1
        BY <1>7 DEF Store
    <2>3. got'[c] = [host |-> host[c], cert |-> serial]
        BY <1>7 DEF Store, Return, TypeOK
    <2>4. \A d \in Callers : d # c => got'[d] = got[d]
        BY <1>7 DEF Store, Return, TypeOK
    <2>5. certs' # None
        BY <2>1, <2>2, NilAssumption
    <2>6. certs[host[c]] = None /\ certs # None
        BY <1>7 DEF Store, Cached
    <2>7. \A h \in Hosts : certs'[h] # None => certs'[h] < serial'
        BY <2>1, <2>2, <2>6
    <2>8. \A d \in Callers : got'[d] # None => certs'[got'[d].host] = got'[d].cert
        <3>1. certs'[got'[c].host] = got'[c].cert
            BY <2>1, <2>2, <2>3
        <3>2. ASSUME NEW d \in Callers, d # c, got[d] # None
              PROVE  certs'[got[d].host] = got[d].cert
            <4>1. got[d].host \in Hosts /\ got[d].cert \in Nat
                BY <3>2 DEF TypeOK
            <4>2. got[d].host # host[c]
                BY <2>6, <3>2, <4>1, NilAssumption
            <4> QED  BY <2>1, <2>2, <3>2, <4>1, <4>2
        <3> QED  BY <2>4, <3>1, <3>2
    <2>9. \A g, h \in Hosts : g # h /\ certs'[g] # None => certs'[g] # certs'[h]
        BY <2>1, <2>2, <2>6, NilAssumption
    <2> QED  BY <2>5, <2>7, <2>8, <2>9
<1>8. ASSUME NEW c \in Callers, ForgeFails(c) PROVE Inv'
    <2>1. certs' = certs /\ serial' = serial
        BY <1>8 DEF ForgeFails
    <2>2. \A d \in Callers : got'[d] \in {None, got[d]}
        BY <1>8 DEF ForgeFails, TypeOK
    <2> QED  BY <2>1, <2>2
<1>9. CASE UNCHANGED vars
    BY <1>9 DEF vars
<1> QED  BY <1>1, <1>2, <1>4, <1>5, <1>6, <1>7, <1>8, <1>9 DEF Next, Step

\* All connections to a host are shown one certificate, and two hosts never
\* the same, however calls of CertCache.Get overlap.
THEOREM OneCertificate == Spec => []OneCertPerHost
<1>1. Init => Inv
    BY DEF Init, Inv, Serials, Distinct
<1>2. Inv => OneCertPerHost
    BY DEF Inv, Serials, Distinct, OneCertPerHost
<1> QED  BY <1>1, <1>2, TypeCorrect, InvStep, PTL DEF Spec
=============================================================================
