----------------------------- MODULE LeastUsed -----------------------------
(***************************************************************************)
(* What a least-used pool promises goroutines that use it at once: a call  *)
(* charges an entry that was least-used among those the call may use at    *)
(* some moment of the call.  It need not be least-used any more when it is *)
(* charged: nothing keeps other calls from charging it in between.  Alone, *)
(* a caller gets exact least-used selection.                               *)
(***************************************************************************)
EXTENDS Naturals

CONSTANTS
    Entries,        \* the entries of the pool
    Callers         \* those who use it

VARIABLES
    useCount,       \* uses charged to each entry so far
    eligible,       \* the entries the call of each caller may use
    admitted        \* those seen least-used in the course of that call

vars == <<useCount, eligible, admitted>>

Init ==
    /\ useCount = [e \in Entries |-> 0]
    /\ eligible = [c \in Callers |-> Entries]
    /\ admitted = [c \in Callers |-> {}]

\* Caller c begins a call that may use the entries of E.
Begin(c, E) ==
    /\ admitted[c] = {}
    /\ eligible' = [eligible EXCEPT ![c] = E]
    /\ UNCHANGED <<useCount, admitted>>

LeastUsedNow(c, e) ==
    /\ e \in eligible[c]
    /\ \A f \in eligible[c] : useCount[e] <= useCount[f]

Admit(c, e) ==
    /\ LeastUsedNow(c, e)
    /\ admitted' = [admitted EXCEPT ![c] = @ \cup {e}]
    /\ UNCHANGED <<useCount, eligible>>

\* The call of c ends with an entry admitted in its course.
Charge(c, e) ==
    /\ e \in admitted[c]
    /\ useCount' = [useCount EXCEPT ![e] = @ + 1]
    /\ eligible' = [eligible EXCEPT ![c] = Entries]
    /\ admitted' = [admitted EXCEPT ![c] = {}]

Next ==
    \E c \in Callers :
        \/ \E E \in SUBSET Entries : Begin(c, E)
        \/ \E e \in Entries : Admit(c, e) \/ Charge(c, e)

Spec == Init /\ [][Next]_vars
=============================================================================
