--------------------------- MODULE StickySessions ---------------------------
(***************************************************************************)
(* What the session layer promises its clients: every call takes effect at *)
(* one instant.  While a session of a key lives, every Resolve with that   *)
(* key is answered with the session's proxy; a session is replaced or      *)
(* dropped only once it has expired; only a rotation changes its proxy,    *)
(* and a rotation keeps its identity.  There are no lookups, source calls  *)
(* or locks here, and no caller ever sees another caller half way.         *)
(***************************************************************************)
EXTENDS Naturals

CONSTANTS
    Keys,           \* top-level seeds
    Callers,        \* client calls in progress
    None            \* no session

VARIABLES
    now,            \* the clock
    session,        \* the session of each key: id, proxy, until; or None
    lastID,         \* identities below this one are taken
    answer          \* what each caller was last answered: key and proxy, or
                    \* None for "no proxy" and "answered without a session"

svars == <<now, session, lastID, answer>>

Init ==
    /\ now = 0
    /\ session = [k \in Keys |-> None]
    /\ lastID = 0
    /\ answer = [c \in Callers |-> None]

Alive(k) == session[k] # None /\ now < session[k].until

Answered(c, k, p) == answer' = [answer EXCEPT ![c] = [key |-> k, proxy |-> p]]

Tick == now' = now + 1 /\ UNCHANGED <<session, lastID, answer>>

\* A call with a key whose session lives.
Stick(c, k) ==
    /\ Alive(k)
    /\ Answered(c, k, session[k].proxy)
    /\ UNCHANGED <<now, session, lastID>>

\* An identity is taken for a session that may be established later.
TakeID == lastID' = lastID + 1 /\ UNCHANGED <<now, session, answer>>

\* A step that gives key k a session, and no other key.
Assigns(k) ==
    /\ session'[k] # None
    /\ session' = [session EXCEPT ![k] = session'[k]]

\* A call with a key that has no living session establishes one, under an
\* identity no session has now.
Establish(c, k) ==
    /\ ~Alive(k)
    /\ Assigns(k)
    /\ session'[k].id < lastID
    /\ \A j \in Keys : session[j] # None => session[j].id # session'[k].id
    /\ Answered(c, k, session'[k].proxy)
    /\ UNCHANGED <<now, lastID>>

\* A rotation assigns another proxy and expiry to the session of k.
Rotate(c, k) ==
    /\ session[k] # None
    /\ Assigns(k)
    /\ session'[k].id = session[k].id
    /\ Answered(c, k, session'[k].proxy)
    /\ UNCHANGED <<now, lastID>>

\* A call that is refused, or answered without a session.
Untracked(c) ==
    /\ answer' = [answer EXCEPT ![c] = None]
    /\ UNCHANGED <<now, session, lastID>>

\* Expired sessions are forgotten.
Forget(K) ==
    /\ \A k \in K : ~Alive(k)
    /\ session' = [k \in Keys |-> IF k \in K THEN None ELSE session[k]]
    /\ UNCHANGED <<now, lastID, answer>>

Next ==
    \/ Tick
    \/ TakeID
    \/ \E c \in Callers, k \in Keys : Stick(c, k) \/ Establish(c, k) \/ Rotate(c, k)
    \/ \E c \in Callers : Untracked(c)
    \/ \E K \in SUBSET Keys : Forget(K)

Spec == Init /\ [][Next]_svars
=============================================================================
