----------------------------- MODULE CertCache -----------------------------
(***************************************************************************)
(* CertCache of proxy-kit/mitm.go, which the goroutines of all intercepted *)
(* connections share.  The map is made by the first call; whether it is    *)
(* there is first asked without the lock, which is a data race.  A         *)
(* certificate is its serial number.                                       *)
(***************************************************************************)
EXTENDS Naturals

CONSTANTS
    Hosts,
    Callers,        \* goroutines of intercepted connections
    None            \* nil, and nobody

\* nil is no certificate, no map and no result.
ASSUME NilAssumption ==
    /\ None \notin Callers /\ None \notin Nat
    /\ None \notin [Hosts -> Nat \cup {None}]
    /\ None \notin [host : Hosts, cert : Nat]

VARIABLES
    certs,          \* c.certs: None before it is made, then a certificate, or
                    \* None, for each host
    lock,           \* the writer in c.mu, or None; readers leave at once
    serial,         \* certificates forged so far
    pc,             \* "idle", or where the call is
    host,           \* its host
    got             \* what it returned, and for which host; None for nothing

vars == <<certs, lock, serial, pc, host, got>>

TypeOK ==
    /\ certs \in {None} \cup [Hosts -> Nat \cup {None}]
    /\ lock \in Callers \cup {None}
    /\ serial \in Nat
    /\ pc \in [Callers -> {"idle", "make", "lookup", "lock", "forge"}]
    /\ host \in [Callers -> Hosts \cup {None}]
    /\ \A c \in Callers : pc[c] # "idle" => host[c] \in Hosts
    /\ got \in [Callers -> [host : Hosts, cert : Nat] \cup {None}]

Init ==
    /\ certs = None
    /\ lock = None
    /\ serial = 0
    /\ pc = [c \in Callers |-> "idle"]
    /\ host = [c \in Callers |-> None]
    /\ got = [c \in Callers |-> None]
-----------------------------------------------------------------------------
Goto(c, where) == pc' = [pc EXCEPT ![c] = where]

Return(c, cert) ==
    /\ got' = [got EXCEPT ![c] = [host |-> host[c], cert |-> cert]]
    /\ Goto(c, "idle")

\* A mutant: the map is taken to be there.
ReadsNilMutant == {FALSE}

\* What the racing read of c.certs may tell: nil, which it was once, or the
\* map if it has been made.
ReadsNil == {TRUE} \cup {certs = None}

\* if c.certs == nil
Get(c, h) ==
    /\ pc[c] = "idle"
    /\ host' = [host EXCEPT ![c] = h]
    /\ \E nil \in ReadsNil : Goto(c, IF nil THEN "make" ELSE "lookup")
    /\ UNCHANGED <<certs, lock, serial, got>>

\* Locked: asked again, and made if it is still nil.
Make(c) ==
    /\ pc[c] = "make" /\ lock = None
    /\ certs' = IF certs = None THEN [h \in Hosts |-> None] ELSE certs
    /\ Goto(c, "lookup")
    /\ UNCHANGED <<lock, serial, host, got>>

Cached(h) == certs # None /\ certs[h] # None

\* A mutant: the ok of the lookup is ignored.
LookupMutant(c) ==
    /\ pc[c] = "lookup" /\ lock = None
    /\ Return(c, certs[host[c]])
    /\ UNCHANGED <<certs, lock, serial, host>>

\* Read-locked.
Lookup(c) ==
    /\ pc[c] = "lookup" /\ lock = None
    /\ IF Cached(host[c]) THEN Return(c, certs[host[c]]) ELSE Goto(c, "lock") /\ UNCHANGED got
    /\ UNCHANGED <<certs, lock, serial, host>>

Lock(c) ==
    /\ pc[c] = "lock" /\ lock = None
    /\ lock' = c
    /\ Goto(c, "forge")
    /\ UNCHANGED <<certs, serial, host, got>>

\* Another call has stored one between the two locks.
Found(c) ==
    /\ pc[c] = "forge"
    /\ Cached(host[c])
    /\ Return(c, certs[host[c]])
    /\ lock' = None
    /\ UNCHANGED <<certs, serial, host>>

\* A mutant: what another call has stored is not looked for.
StoreMutant(c) ==
    /\ pc[c] = "forge" /\ certs # None
    /\ serial' = serial + 1
    /\ certs' = [certs EXCEPT ![host[c]] = serial]
    /\ Return(c, serial)
    /\ lock' = None
    /\ UNCHANGED host

\* forgeCert, and the write, which needs a map.
Store(c) ==
    /\ pc[c] = "forge" /\ certs # None
    /\ ~Cached(host[c])
    /\ serial' = serial + 1
    /\ certs' = [certs EXCEPT ![host[c]] = serial]
    /\ Return(c, serial)
    /\ lock' = None
    /\ UNCHANGED host

\* A mutant: the unlock is not deferred.
ForgeFailsMutant(c) ==
    /\ pc[c] = "forge" /\ ~Cached(host[c])
    /\ got' = [got EXCEPT ![c] = None]
    /\ Goto(c, "idle")
    /\ UNCHANGED <<certs, lock, serial, host>>

\* A panic: no key, no signature, or no map to write into.  The deferred
\* unlock runs.
ForgeFails(c) ==
    /\ pc[c] = "forge" /\ ~Cached(host[c])
    /\ got' = [got EXCEPT ![c] = None]
    /\ Goto(c, "idle")
    /\ lock' = None
    /\ UNCHANGED <<certs, serial, host>>

Step(c) == Make(c) \/ Lookup(c) \/ Lock(c) \/ Found(c) \/ Store(c) \/ ForgeFails(c)

Next == \E c \in Callers : (\E h \in Hosts : Get(c, h)) \/ Step(c)

Spec == Init /\ [][Next]_vars

\* A goroutine whose turn it is goes on, and sync.RWMutex starves nobody.
FairSpec == Spec /\ \A c \in Callers : SF_vars(Step(c))
-----------------------------------------------------------------------------
\* No call gets to the map before it is made, although the check for it races
\* with the write: certificates are never written into a nil map.
MapMade == \A c \in Callers : pc[c] \in {"lookup", "lock", "forge"} => certs # None

\* All connections to a host are shown one certificate, however their calls
\* overlapped: clients may pin what they saw first.
OneCertPerHost ==
    /\ \A c \in Callers : got[c] # None => certs[got[c].host] = got[c].cert
    /\ certs # None => \A g, h \in Hosts :
          g # h /\ certs[g] # None => certs[g] # certs[h]

\* A certificate that was cached stays as long as the process.
CachedForGood ==
    [][\A h \in Hosts : Cached(h) => certs' # None /\ certs'[h] = certs[h]]_vars

\* Nobody waits for the lock for ever, also after a panic inside it.
GetsEnd == \A c \in Callers : pc[c] # "idle" ~> pc[c] = "idle"
=============================================================================
