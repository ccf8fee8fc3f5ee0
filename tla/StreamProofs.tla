---------------------------- MODULE StreamProofs ----------------------------
(***************************************************************************)
(* What the relay and the plain HTTP handler do with data (Downstream),    *)
(* for any number of connections, slots, requests and chunks: streams      *)
(* arrive in order and whole but for what was swallowed before they began, *)
(* what is recorded is no less than what was carried (of uploads: of those *)
(* passed on with a declared length), and every variable keeps its type.   *)
(* The invariant of DownstreamProofs says where a goroutine can be; the    *)
(* ones here say of each direction of each connection how its chunks are   *)
(* spread over sender, wire, buffer and receiver, in the situation the     *)
(* connection is in, and of each request body what has gone and been told. *)
(***************************************************************************)
EXTENDS DownstreamProofs, SequenceTheorems, FiniteSetTheorems

\* All of a connection that matters to the data of one of its directions.
Situation(c, d) ==
    [dir |-> d, proto |-> proto[c], tcp |-> tcp[c], at |-> pc[c],
     copier |-> copier[<<c, d>>], tracked |-> tracker[c], cut |-> cut[c],
     sender |-> Sender(c, d), receiver |-> Receiver(c, d)]

\* Nothing has to get lost.
Whole(e) == ~e.cut /\ e.receiver # "gone"

\* A beginning may have been swallowed.
Dropping(e) == IF e.dir = "up" THEN e.proto = "connect" ELSE e.tcp

\* Where net/http still reads what a client of CONNECT sends.
Outside == {"auth", "hijack", "flushed"}

\* Where no more eager chunks are sent to a receiver, and where a direction
\* can have carried something without a copying goroutine.
Begun == {"relay", "stream"} \cup Ended
Carried == {"stream"} \cup Ended

\* The chunks of f after the first lost ones have arrived in order; and, if
\* whole, the rest is behind them, in the buffer and on the wire.
InOrder(f, lost, whole) ==
    /\ \A i \in 1..Len(f.seen) : f.seen[i] = lost + i
    /\ whole =>
          /\ \A i \in 1..Len(f.buf) : f.buf[i] = lost + Len(f.seen) + i
          /\ \A i \in 1..Len(f.wire) : f.wire[i] = lost + Len(f.seen) + Len(f.buf) + i
          /\ lost + Len(f.seen) + Len(f.buf) + Len(f.wire) = f.sent

Ordered(f, e) ==
    \E lost \in 0..(IF Dropping(e) THEN f.eager ELSE 0) : InOrder(f, lost, Whole(e))

\* How far the counters of a direction can be apart.
Counters(f) == Len(f.buf) <= 1 /\ f.eager <= f.sent /\ f.counted + Len(f.wire) <= f.sent

\* Before a tunnel stands nothing is carried, and what was sent was sent
\* eagerly; a plain request has no tunnel.
Early(f, e) ==
    /\ e.at = None => f.sent = 0
    /\ e.copier = None /\ e.at \notin Carried =>
          Len(f.seen) = 0 /\ Len(f.buf) = 0 /\ f.counted = 0
    /\ e.dir = "up" /\ e.at \in Outside => f.eager = f.sent
    /\ e.dir = "down" /\ e.at \notin Begun => f.eager = f.sent
    /\ e.proto = "plain" => /\ Len(f.wire) = 0 /\ Len(f.buf) = 0
                            /\ e.dir = "up" => f.sent = 0

\* A goroutine that has finished copying has left nothing, unless it was made to.
Finished(f, e) ==
    e.copier = "sent" =>
        /\ Len(f.buf) = 0
        /\ Whole(e) => e.sender # "open" /\ (e.sender = "fin" => Len(f.wire) = 0)

\* What is recorded is what arrived and the chunk in the buffer, or the one a
\* cut has lost.
Recorded(f, e) ==
    /\ ~e.tracked => f.counted = 0
    /\ e.tracked /\ e.receiver # "gone" /\ e.at # "stream" =>
          \/ f.counted = Len(f.seen) + Len(f.buf)
          \/ f.counted = Len(f.seen) + 1 /\ e.cut /\ e.copier = "sent"

FlowOK(f, e) ==
    Ordered(f, e) /\ Counters(f) /\ Early(f, e) /\ Finished(f, e) /\ Recorded(f, e)

Flowing == \A c \in Conns, d \in Directions : FlowOK(flow[<<c, d>>], Situation(c, d))

\* Only a tunnel has copying goroutines, is cut, or has an upstream connection.
Tunnels ==
    \A c \in Conns :
        /\ pc[c] \notin {"relay", "done"} =>
              ~tcp[c] /\ ~cut[c] /\ \A d \in Directions : copier[<<c, d>>] = None
        /\ pc[c] = "relay" => \A d \in Directions : copier[<<c, d>>] # None

\* The situation g may follow e without a chunk being moved: connections are
\* cut and peers leave for good, goroutines go forward, clients are answered.
Later(e, g) ==
    /\ g.dir = e.dir /\ g.proto = e.proto
    /\ e.tcp => g.tcp
    /\ e.cut => g.cut
    /\ g.copier = e.copier \/ (e.copier = None /\ g.copier = "copy")
    /\ e.sender # "open" => g.sender = e.sender
    /\ e.receiver = "gone" => g.receiver = "gone"
    /\ g.at \in Outside => e.at \in Outside
    /\ e.at # None => g.at # None
    /\ e.at \in Carried => g.at \in Carried
    /\ e.at \in Begun => g.at \in Begun
    /\ e.at = "stream" => g.at = "stream"

\* Of a record of a direction, what the provers keep needing.
LEMMA FlowParts ==
  ASSUME NEW f \in Flows
  PROVE  /\ f.sent \in Nat /\ f.eager \in Nat /\ f.counted \in Nat
         /\ f.wire \in Seq(Chunks) /\ f.buf \in Seq(Chunks) /\ f.seen \in Seq(Chunks)
         /\ Len(f.wire) \in Nat /\ Len(f.buf) \in Nat /\ Len(f.seen) \in Nat
  BY DownstreamAssumption DEF Flows

\* The data stay in order when only the situation changes.
LEMMA SituationKeeps ==
  ASSUME NEW f \in Flows, NEW e, NEW g, FlowOK(f, e), Later(e, g),
         \/ g.tracked = e.tracked
         \/ Len(f.seen) = 0 /\ Len(f.buf) = 0 /\ f.counted = 0
  PROVE  FlowOK(f, g)
<1>0. f.eager \in Nat /\ f.counted \in Nat
  BY FlowParts
<1>1. Ordered(f, g)
  <2>1. PICK lost \in 0..(IF Dropping(e) THEN f.eager ELSE 0) : InOrder(f, lost, Whole(e))
    BY DEF FlowOK, Ordered
  <2>2. lost \in 0..(IF Dropping(g) THEN f.eager ELSE 0)
    BY <1>0 DEF Later, Dropping
  <2>3. Whole(g) => Whole(e)
    BY DEF Later, Whole
  <2>4. InOrder(f, lost, Whole(g))
    BY <2>1, <2>3 DEF InOrder
  <2> QED
    BY <2>2, <2>4 DEF Ordered
<1>2. Early(f, g)
  BY DEF FlowOK, Early, Later
<1>3. Finished(f, g)
  BY DEF FlowOK, Finished, Later, Whole, None
<1>4. Recorded(f, g)
  <2>1. CASE g.tracked = e.tracked
    BY <2>1 DEF FlowOK, Recorded, Later, None
  <2>2. CASE Len(f.seen) = 0 /\ Len(f.buf) = 0 /\ f.counted = 0
    BY <2>2 DEF Recorded
  <2> QED
    BY <2>1, <2>2
<1> QED
  BY <1>1, <1>2, <1>3, <1>4 DEF FlowOK

\* Where nothing was sent yet there is nothing to be said.
LEMMA NothingSent ==
  ASSUME NEW f \in Flows, NEW e, f.sent = 0, Len(f.seen) = 0, Len(f.buf) = 0,
         Counters(f), e.copier # "sent"
  PROVE  FlowOK(f, e)
<1>1. f.eager = 0 /\ f.counted = 0 /\ Len(f.wire) = 0
  BY FlowParts DEF Counters
<1>2. InOrder(f, 0, Whole(e))
  BY <1>1 DEF InOrder
<1>3. Ordered(f, e)
  BY <1>1, <1>2 DEF Ordered
<1>4. Early(f, e) /\ Finished(f, e) /\ Recorded(f, e)
  BY <1>1 DEF Early, Finished, Recorded
<1> QED
  BY <1>3, <1>4 DEF FlowOK

\* What came before the tunnel stood is thrown away where that may happen:
\* all of it was sent eagerly.
LEMMA SwallowKeeps ==
  ASSUME NEW f \in Flows, NEW e, NEW g, FlowOK(f, e), Later(e, g),
         g.tracked = e.tracked, g.copier # "sent", Dropping(g),
         e.copier = None, e.at \notin Begun, e.dir = "up" => e.at \in Outside,
         e.dir \in Directions,
         NEW n \in 0..Len(f.wire), NEW h,
         h.sent = f.sent, h.eager = f.eager, h.buf = f.buf, h.seen = f.seen,
         h.counted = f.counted, h.wire = SubSeq(f.wire, n + 1, Len(f.wire))
  PROVE  FlowOK(h, g)
<1>1. FlowOK(f, g)
  BY SituationKeeps
<1>2. /\ Len(f.seen) = 0 /\ Len(f.buf) = 0 /\ f.counted = 0 /\ f.eager = f.sent
  BY DEF FlowOK, Early, Directions, Begun, Carried
<1>0. /\ f.sent \in Nat /\ f.eager \in Nat /\ Len(f.wire) \in Nat
      /\ f.wire \in Seq(Chunks) /\ n \in Nat /\ n <= Len(f.wire)
  BY FlowParts
<1>3. /\ Len(h.wire) = Len(f.wire) - n
      /\ \A i \in 1..Len(h.wire) : h.wire[i] = f.wire[n + i]
  <2>1. /\ Len(h.wire) = IF n + 1 <= Len(f.wire) THEN Len(f.wire) - (n + 1) + 1 ELSE 0
        /\ \A i \in 1..(Len(f.wire) - (n + 1) + 1) : h.wire[i] = f.wire[n + 1 + i - 1]
    BY FlowParts, SubSeqProperties
  <2>2. Len(h.wire) = Len(f.wire) - n
    <3>1. CASE n + 1 <= Len(f.wire)
      BY <1>0, <2>1, <3>1
    <3>2. CASE ~(n + 1 <= Len(f.wire))
      BY <1>0, <2>1, <3>2
    <3> QED
      BY <3>1, <3>2
  <2>3. ASSUME NEW i \in 1..Len(h.wire) PROVE h.wire[i] = f.wire[n + i]
    <3>1. PICK lw \in Nat : Len(f.wire) = lw
      BY <1>0
    <3>2. i \in 1..(lw - n)
      BY <2>2, <2>3, <3>1
    <3>3. i \in 1..(lw - (n + 1) + 1) /\ n + 1 + i - 1 = n + i
      BY <1>0, <3>2
    <3> QED
      BY <2>1, <3>1, <3>3
  <2> QED
    BY <2>2, <2>3
<1>4. Ordered(h, g)
  <2>1. CASE Whole(g)
    <3>1. PICK lost \in 0..f.eager : InOrder(f, lost, TRUE)
      BY <1>1, <2>1 DEF FlowOK, Ordered
    <3>2. lost + Len(f.wire) = f.sent
      BY <1>2, <3>1, FlowParts DEF InOrder
    <3>3. lost + n \in 0..h.eager
      BY <1>2, <3>2, FlowParts
    <3>4. InOrder(h, lost + n, TRUE)
      <4>1. \A i \in 1..Len(f.wire) : f.wire[i] = lost + i
        BY <1>2, <3>1, FlowParts DEF InOrder
      <4>2. ASSUME NEW i \in 1..Len(h.wire) PROVE h.wire[i] = lost + n + i
        <5>0. PICK lw \in Nat : Len(f.wire) = lw
          BY <1>0
        <5>1. n + i \in 1..Len(f.wire) /\ h.wire[i] = f.wire[n + i]
          <6>1. i \in 1..(lw - n)
            BY <1>3, <4>2, <5>0
          <6>2. n + i \in 1..lw
            BY <1>0, <6>1
          <6> QED
            BY <1>3, <4>2, <5>0, <6>2
        <5>2. f.wire[n + i] = lost + (n + i)
          BY <4>1, <5>1
        <5> QED
          BY <1>0, <5>1, <5>2
      <4>3. Len(h.seen) = 0 /\ Len(h.buf) = 0
        BY <1>2
      <4>4. \A i \in 1..Len(h.wire) : h.wire[i] = lost + n + Len(h.seen) + Len(h.buf) + i
        <5>1. lost + n + 0 + 0 = lost + n
          BY <1>0, <3>1
        <5> QED
          BY <4>2, <4>3, <5>1, Zenon
      <4>5. lost + n + Len(h.seen) + Len(h.buf) + Len(h.wire) = h.sent
        <5>1. PICK lw \in Nat : Len(f.wire) = lw
          BY <1>0
        <5>2. Len(h.wire) = lw - n /\ lost + lw = h.sent
          BY <1>3, <3>2, <5>1
        <5>3. lost \in Nat
          BY <1>0, <3>1
        <5>4. lost + n + 0 + 0 + (lw - n) = lost + lw
          BY <1>0, <5>3
        <5> QED
          BY <4>3, <5>2, <5>4, Zenon
      <4>6. /\ \A i \in 1..Len(h.seen) : h.seen[i] = lost + n + i
            /\ \A i \in 1..Len(h.buf) : h.buf[i] = lost + n + Len(h.seen) + i
        BY <4>3
      <4> QED
        BY <4>4, <4>5, <4>6 DEF InOrder
    <3> QED
      BY <2>1, <3>3, <3>4 DEF Ordered
  <2>2. CASE ~Whole(g)
    <3>1. InOrder(h, 0, Whole(g)) /\ 0 \in 0..h.eager
      BY <1>2, <2>2, FlowParts DEF InOrder
    <3> QED
      BY <3>1 DEF Ordered
  <2> QED
    BY <2>1, <2>2
<1>5. Counters(h) /\ Early(h, g)
  BY <1>1, <1>2, <1>3, FlowParts DEF FlowOK, Counters, Early
<1>6. Finished(h, g) /\ Recorded(h, g)
  BY <1>1, <1>2 DEF FlowOK, Finished, Recorded
<1> QED
  BY <1>4, <1>5, <1>6 DEF FlowOK

\* A part of the body of a plain response is passed on, or lost on a client
\* that is gone.
LEMMA StreamKeeps ==
  ASSUME NEW f \in Flows, NEW e, FlowOK(f, e), NEW h, NEW n \in Chunks, n = f.sent + 1,
         e.at = "stream", e.proto = "plain", e.dir = "down", ~e.cut, e.copier = None,
         h.sent = n, h.eager = f.eager, h.buf = f.buf, h.wire = f.wire,
         h.counted = f.counted,
         h.seen = IF e.receiver = "gone" THEN f.seen ELSE Append(f.seen, n)
  PROVE  FlowOK(h, e)
<1>0. /\ f.sent \in Nat /\ f.eager \in Nat /\ f.counted \in Nat
      /\ f.seen \in Seq(Chunks) /\ Len(f.seen) \in Nat
      /\ Len(f.wire) = 0 /\ Len(f.buf) = 0
  BY FlowParts DEF FlowOK, Early
<1>1. PICK lost \in 0..(IF Dropping(e) THEN f.eager ELSE 0) : InOrder(f, lost, Whole(e))
  BY DEF FlowOK, Ordered
<1>2. lost \in Nat
  BY <1>0, <1>1
<1>3. InOrder(h, lost, Whole(e))
  <2>1. CASE e.receiver = "gone"
    BY <1>1, <2>1 DEF InOrder, Whole
  <2>2. CASE e.receiver # "gone"
    <3>1. /\ Len(h.seen) = Len(f.seen) + 1
          /\ \A i \in 1..Len(f.seen) : h.seen[i] = f.seen[i]
          /\ h.seen[Len(f.seen) + 1] = n
      BY <1>0, <2>2, AppendProperties
    <3>2. lost + Len(f.seen) = f.sent
      BY <1>0, <1>1, <1>2, <2>2 DEF InOrder, Whole
    <3>3. ASSUME NEW i \in 1..Len(h.seen) PROVE h.seen[i] = lost + i
      <4>1. CASE i = Len(f.seen) + 1
        BY <1>0, <1>2, <3>1, <3>2, <4>1
      <4>2. CASE i # Len(f.seen) + 1
        <5>1. i \in 1..Len(f.seen)
          BY <1>0, <3>1, <4>2
        <5> QED
          BY <1>1, <3>1, <5>1 DEF InOrder
      <4> QED
        BY <4>1, <4>2
    <3>4. Len(h.wire) = 0 /\ Len(h.buf) = 0
      BY <1>0
    <3>5. lost + Len(h.seen) + Len(h.buf) + Len(h.wire) = h.sent
      BY <1>0, <1>2, <3>1, <3>2, <3>4
    <3> QED
      BY <3>3, <3>4, <3>5 DEF InOrder
  <2> QED
    BY <2>1, <2>2
<1>4. Ordered(h, e)
  BY <1>1, <1>3 DEF Ordered
<1>5. Counters(h) /\ Early(h, e)
  BY <1>0 DEF FlowOK, Counters, Early, Begun, Carried, Outside, None
<1>6. Finished(h, e) /\ Recorded(h, e)
  BY DEF FlowOK, Finished, Recorded, None
<1> QED
  BY <1>4, <1>5, <1>6 DEF FlowOK

\* A plain response has ended: all that was sent is recorded.
LEMMA StreamEndsKeeps ==
  ASSUME NEW f \in Flows, NEW e, FlowOK(f, e), NEW h, NEW g,
         e.at = "stream", e.proto = "plain", ~e.cut, ~e.tcp, e.copier = None,
         g.at = "kept", g.dir = e.dir, g.proto = e.proto, g.tcp = e.tcp,
         g.copier = e.copier, g.tracked = e.tracked,
         g.cut = e.cut, g.sender = e.sender, g.receiver = e.receiver,
         e.dir \in Directions,
         h.sent = f.sent, h.eager = f.eager, h.buf = f.buf, h.wire = f.wire, h.seen = f.seen,
         h.counted = IF e.tracked /\ e.dir = "down" THEN f.sent ELSE f.counted
  PROVE  FlowOK(h, g)
<1>0. /\ f.sent \in Nat /\ f.eager \in Nat /\ f.counted \in Nat
      /\ Len(f.seen) \in Nat
      /\ Len(f.wire) = 0 /\ Len(f.buf) = 0 /\ f.counted <= f.sent
  BY FlowParts DEF FlowOK, Early, Counters
<1>1. InOrder(f, 0, Whole(e)) /\ ~Dropping(g)
  <2>1. ~Dropping(e) /\ ~Dropping(g)
    BY DEF Dropping
  <2> QED
    BY <2>1 DEF FlowOK, Ordered
<1>2. Ordered(h, g)
  <2>1. InOrder(h, 0, Whole(g))
    BY <1>1 DEF InOrder, Whole
  <2> QED
    BY <1>1, <2>1 DEF Ordered
<1>3. Counters(h) /\ Early(h, g)
  BY <1>0 DEF FlowOK, Counters, Early, Begun, Carried, Outside, Ended, None
<1>4. Finished(h, g)
  BY DEF Finished, None
<1>5. Recorded(h, g)
  <2>1. CASE ~e.tracked
    BY <2>1 DEF FlowOK, Recorded
  <2>2. CASE e.receiver = "gone" /\ e.tracked
    BY <2>2 DEF Recorded
  <2>3. CASE e.receiver # "gone" /\ e.tracked
    <3>1. Len(f.seen) = f.sent
      BY <1>0, <1>1, <2>3 DEF InOrder, Whole
    <3>2. h.counted = f.sent
      BY <1>0, <2>3 DEF FlowOK, Early, Directions
    <3>3. h.counted = Len(h.seen) + Len(h.buf)
      BY <1>0, <3>1, <3>2
    <3> QED
      BY <2>3, <3>3 DEF Recorded
  <2> QED
    BY <2>1, <2>2, <2>3
<1> QED
  BY <1>2, <1>3, <1>4, <1>5 DEF FlowOK

\* t is s with n behind it.
Arrives(s, n, t) ==
    /\ Len(t) = Len(s) + 1
    /\ \A i \in 1..Len(s) : t[i] = s[i]
    /\ t[Len(s) + 1] = n

LEMMA OneMore ==
  ASSUME NEW s \in Seq(Chunks), NEW b \in Seq(Chunks), Len(b) = 1
  PROVE  s \o b \in Seq(Chunks) /\ Arrives(s, b[1], s \o b)
<1>1. /\ s \o b \in Seq(Chunks) /\ Len(s \o b) = Len(s) + Len(b) /\ Len(s) \in Nat
      /\ \A i \in 1..(Len(s) + Len(b)) :
            (s \o b)[i] = IF i <= Len(s) THEN s[i] ELSE b[i - Len(s)]
  BY ConcatProperties, LenProperties
<1> DEFINE t == s \o b
<1> HIDE DEF t
<1>2. Len(s) + 1 \in 1..(Len(s) + 1) /\ ~(Len(s) + 1 <= Len(s)) /\ Len(s) + 1 - Len(s) = 1
  BY <1>1
<1>3. t[Len(s) + 1] = b[1]
  BY <1>1, <1>2 DEF t
<1>4. ASSUME NEW i \in 1..Len(s) PROVE t[i] = s[i]
  BY <1>1 DEF t
<1> QED
  BY <1>1, <1>3, <1>4 DEF t, Arrives

\* A copying goroutine reads a chunk and records it.
LEMMA ReceiveKeeps ==
  ASSUME NEW f \in Flows, NEW e, FlowOK(f, e), NEW h,
         e.copier = "copy", Len(f.buf) = 0, Len(f.wire) > 0, e.at = "relay",
         h.sent = f.sent, h.eager = f.eager, h.seen = f.seen,
         Len(h.buf) = 1, h.buf[1] = f.wire[1], Len(h.wire) = Len(f.wire) - 1,
         \A i \in 1..(Len(f.wire) - 1) : h.wire[i] = f.wire[i + 1],
         h.counted = f.counted + (IF e.tracked THEN 1 ELSE 0)
  PROVE  FlowOK(h, e)
<1>0. /\ f.sent \in Nat /\ f.eager \in Nat /\ f.counted \in Nat
      /\ Len(f.wire) \in Nat /\ Len(f.seen) \in Nat
  BY FlowParts
<1>n. PICK ls \in Nat, lb \in Nat, lw \in Nat :
         Len(f.seen) = ls /\ Len(f.buf) = lb /\ Len(f.wire) = lw
  BY FlowParts
<1>1. /\ Len(h.wire) = Len(f.wire) - 1
      /\ \A i \in 1..Len(h.wire) : h.wire[i] = f.wire[i + 1]
  OBVIOUS
<1>2. Len(h.buf) = 1 /\ h.buf[1] = f.wire[1]
  OBVIOUS
<1>3. PICK lost \in 0..(IF Dropping(e) THEN f.eager ELSE 0) : InOrder(f, lost, Whole(e))
  BY DEF FlowOK, Ordered
<1>4. lost \in Nat
  BY <1>0, <1>n, <1>3
<1>5. InOrder(h, lost, Whole(e))
  <2>1. CASE Whole(e)
    <3>1. /\ \A i \in 1..Len(f.wire) : f.wire[i] = lost + Len(f.seen) + i
          /\ lost + Len(f.seen) + Len(f.wire) = f.sent
      <4>1. /\ \A i \in 1..Len(f.wire) : f.wire[i] = lost + Len(f.seen) + Len(f.buf) + i
            /\ lost + Len(f.seen) + Len(f.buf) + Len(f.wire) = f.sent
        BY <1>3, <2>1 DEF InOrder
      <4>2. lost + ls + 0 + lw = lost + ls + lw /\ lost + ls + 0 = lost + ls
        BY <1>4
      <4>3. lost + Len(f.seen) + Len(f.buf) = lost + Len(f.seen)
        BY <1>n, <4>2
      <4> QED
        BY <4>1, <4>3
    <3>2. \A i \in 1..Len(h.buf) : h.buf[i] = lost + Len(h.seen) + i
      <4>1. f.wire[1] = lost + Len(f.seen) + 1
        BY <1>0, <1>n, <3>1
      <4> QED
        BY <1>2, <4>1
    <3>3. ASSUME NEW i \in 1..Len(h.wire)
          PROVE  h.wire[i] = lost + Len(h.seen) + Len(h.buf) + i
      <4>1. i + 1 \in 1..Len(f.wire)
        BY <1>0, <1>n, <1>1
      <4>2. h.wire[i] = lost + Len(f.seen) + (i + 1)
        BY <1>1, <3>1, <4>1
      <4>3. lost + Len(f.seen) + (i + 1) = lost + Len(f.seen) + 1 + i
        BY <1>0, <1>n, <1>1, <1>4
      <4> QED
        BY <1>2, <4>2, <4>3
    <3>4. lost + Len(h.seen) + Len(h.buf) + Len(h.wire) = h.sent
      <4>1. lost + Len(f.seen) + 1 + (Len(f.wire) - 1) = f.sent
        BY <1>0, <1>n, <1>4, <3>1
      <4> QED
        BY <1>1, <1>2, <4>1
    <3> QED
      BY <1>3, <3>2, <3>3, <3>4 DEF InOrder
  <2>2. CASE ~Whole(e)
    BY <1>3, <2>2 DEF InOrder
  <2> QED
    BY <2>1, <2>2
<1>6. Ordered(h, e)
  BY <1>3, <1>5 DEF Ordered
<1>7. Counters(h) /\ Early(h, e)
  <2>1. Counters(h)
    BY <1>0, <1>n, <1>1, <1>2 DEF FlowOK, Counters
  <2>2. e.proto # "plain"
    BY <1>0 DEF FlowOK, Early
  <2> QED
    BY <2>1, <2>2 DEF FlowOK, Early, None
<1>8. Finished(h, e)
  BY DEF Finished
<1>9. Recorded(h, e)
  BY <1>0, <1>n, <1>2 DEF FlowOK, Recorded
<1> QED
  BY <1>6, <1>7, <1>8, <1>9 DEF FlowOK

\* It writes what it has read.
LEMMA WriteKeeps ==
  ASSUME NEW f \in Flows, NEW e, FlowOK(f, e), NEW h,
         e.copier = "copy", Len(f.buf) > 0, e.at = "relay", ~e.cut,
         h.sent = f.sent, h.eager = f.eager, h.counted = f.counted,
         Len(h.buf) = 0, h.wire = f.wire,
         e.receiver = "gone" => h.seen = f.seen,
         e.receiver # "gone" => Arrives(f.seen, f.buf[1], h.seen)
  PROVE  FlowOK(h, e)
<1>0. /\ f.sent \in Nat /\ f.eager \in Nat /\ f.counted \in Nat
      /\ Len(f.wire) \in Nat /\ Len(f.seen) \in Nat /\ Len(f.buf) = 1
  <2>1. PICK lb \in Nat : Len(f.buf) = lb
    BY FlowParts
  <2>2. lb = 1
    BY <2>1 DEF FlowOK, Counters
  <2> QED
    BY <2>1, <2>2, FlowParts
<1>n. PICK ls \in Nat, lb \in Nat, lw \in Nat :
         Len(f.seen) = ls /\ Len(f.buf) = lb /\ Len(f.wire) = lw
  BY FlowParts
<1>1. e.receiver # "gone" =>
         /\ Len(h.seen) = Len(f.seen) + 1
         /\ \A i \in 1..Len(f.seen) : h.seen[i] = f.seen[i]
         /\ h.seen[Len(f.seen) + 1] = f.buf[1]
  BY DEF Arrives
<1>2. PICK lost \in 0..(IF Dropping(e) THEN f.eager ELSE 0) : InOrder(f, lost, Whole(e))
  BY DEF FlowOK, Ordered
<1>3. lost \in Nat
  BY <1>0, <1>n, <1>2
<1>4. InOrder(h, lost, Whole(e))
  <2>1. CASE e.receiver # "gone"
    <3>1. /\ f.buf[1] = lost + Len(f.seen) + 1
          /\ \A i \in 1..Len(f.wire) : f.wire[i] = lost + Len(f.seen) + 1 + i
          /\ lost + Len(f.seen) + 1 + Len(f.wire) = f.sent
      <4>1. /\ \A i \in 1..Len(f.buf) : f.buf[i] = lost + Len(f.seen) + i
            /\ \A i \in 1..Len(f.wire) : f.wire[i] = lost + Len(f.seen) + Len(f.buf) + i
            /\ lost + Len(f.seen) + Len(f.buf) + Len(f.wire) = f.sent
        BY <1>2, <2>1 DEF InOrder, Whole
      <4> QED
        BY <1>0, <1>n, <4>1
    <3>5. Len(h.seen) = Len(f.seen) + 1
      BY <1>1, <2>1
    <3>2. ASSUME NEW i \in 1..Len(h.seen) PROVE h.seen[i] = lost + i
      <4>1. CASE i = Len(f.seen) + 1
        BY <1>0, <1>n, <1>1, <1>3, <2>1, <3>1, <4>1
      <4>2. CASE i # Len(f.seen) + 1
        <5>1. i \in 1..Len(f.seen)
          BY <1>0, <1>n, <3>5, <4>2
        <5> QED
          BY <1>1, <1>2, <2>1, <5>1 DEF InOrder
      <4> QED
        BY <4>1, <4>2
    <3>3. ASSUME NEW i \in 1..Len(h.wire)
          PROVE  h.wire[i] = lost + Len(h.seen) + Len(h.buf) + i
      <4>1. h.wire[i] = lost + Len(f.seen) + 1 + i /\ i \in Nat
        BY <3>1
      <4>2. lost + Len(f.seen) + 1 + i = lost + (Len(f.seen) + 1) + 0 + i
        BY <1>0, <1>n, <1>3, <4>1
      <4> QED
        BY <1>0, <1>n, <3>5, <4>1, <4>2
    <3>4. lost + Len(h.seen) + Len(h.buf) + Len(h.wire) = h.sent
      <4>1. lost + (Len(f.seen) + 1) + 0 + Len(f.wire) = f.sent
        BY <1>0, <1>n, <1>3, <3>1
      <4> QED
        BY <1>0, <1>n, <3>5, <4>1
    <3>6. \A i \in 1..Len(h.buf) : h.buf[i] = lost + Len(h.seen) + i
      BY <1>0, <1>n
    <3> QED
      BY <3>2, <3>3, <3>4, <3>6 DEF InOrder
  <2>2. CASE e.receiver = "gone"
    BY <1>2, <2>2 DEF InOrder, Whole
  <2> QED
    BY <2>1, <2>2
<1>5. Ordered(h, e)
  BY <1>2, <1>4 DEF Ordered
<1>6. Counters(h) /\ Early(h, e)
  BY <1>0 DEF FlowOK, Counters, Early, None
<1>7. Finished(h, e)
  BY DEF Finished
<1>8. Recorded(h, e)
  <2>1. CASE e.receiver # "gone" /\ e.tracked
    <3>1. f.counted = Len(f.seen) + 1
      BY <1>0, <1>n, <2>1 DEF FlowOK, Recorded
    <3>2. h.counted = Len(h.seen) + Len(h.buf)
      <4>1. Len(h.seen) = Len(f.seen) + 1
        BY <1>1, <2>1
      <4> QED
        BY <1>0, <1>n, <3>1, <4>1
    <3> QED
      BY <1>n, <2>1, <3>2 DEF Recorded
  <2>2. CASE ~(e.receiver # "gone" /\ e.tracked)
    BY <2>2 DEF FlowOK, Recorded
  <2> QED
    BY <2>1, <2>2
<1> QED
  BY <1>5, <1>6, <1>7, <1>8 DEF FlowOK

\* It returns, with nothing in its buffer and nothing left to read, or cut off
\* with a chunk it has read.
LEMMA ReturnKeeps ==
  ASSUME NEW f \in Flows, NEW e, FlowOK(f, e), NEW h, NEW g,
         e.copier = "copy", e.at = "relay",
         \/ /\ Len(f.buf) = 0
            /\ e.cut \/ e.sender = "gone" \/ (e.sender = "fin" /\ Len(f.wire) = 0)
         \/ Len(f.buf) > 0 /\ (e.cut \/ e.receiver = "gone"),
         h.sent = f.sent, h.eager = f.eager, h.counted = f.counted,
         Len(h.buf) = 0, h.wire = f.wire, h.seen = f.seen,
         g.copier = "sent", g.at = e.at, g.dir = e.dir, g.proto = e.proto,
         g.tcp = e.tcp, g.tracked = e.tracked,
         g.cut = e.cut, g.sender = e.sender, g.receiver = e.receiver
  PROVE  FlowOK(h, g)
<1>0. /\ f.counted \in Nat /\ Len(f.wire) \in Nat /\ Len(f.seen) \in Nat
      /\ Len(f.buf) \in {0, 1}
  <2>1. PICK lb \in Nat : Len(f.buf) = lb
    BY FlowParts
  <2>2. lb \in {0, 1}
    BY <2>1 DEF FlowOK, Counters
  <2> QED
    BY <2>1, <2>2, FlowParts
<1>n. PICK ls \in Nat, lb \in Nat, lw \in Nat :
         Len(f.seen) = ls /\ Len(f.buf) = lb /\ Len(f.wire) = lw
  BY FlowParts
<1>1. Ordered(h, g)
  <2>1. PICK lost \in 0..(IF Dropping(e) THEN f.eager ELSE 0) : InOrder(f, lost, Whole(e))
    BY DEF FlowOK, Ordered
  <2>2. lost \in 0..(IF Dropping(g) THEN h.eager ELSE 0)
    BY <2>1 DEF Dropping
  <2>3. InOrder(h, lost, Whole(g))
    <3>1. CASE Len(f.buf) = 0
      BY <1>n, <2>1, <3>1 DEF InOrder, Whole
    <3>2. CASE Len(f.buf) > 0
      BY <1>n, <2>1, <3>2 DEF InOrder, Whole
    <3> QED
      BY <3>1, <3>2
  <2> QED
    BY <2>2, <2>3 DEF Ordered
<1>2. Counters(h) /\ Early(h, g)
  BY <1>0 DEF FlowOK, Counters, Early, None
<1>3. Finished(h, g)
  BY <1>0 DEF Finished, Whole
<1>4. Recorded(h, g)
  <2>1. CASE ~(g.tracked /\ g.receiver # "gone")
    BY <2>1 DEF FlowOK, Recorded
  <2>2. CASE g.tracked /\ g.receiver # "gone"
    <3>1. f.counted = Len(f.seen) + Len(f.buf)
      BY <2>2 DEF FlowOK, Recorded
    <3>2. CASE Len(f.buf) = 0
      BY <1>0, <1>n, <2>2, <3>1, <3>2 DEF Recorded
    <3>3. CASE Len(f.buf) > 0
      BY <1>0, <1>n, <2>2, <3>1, <3>3 DEF Recorded
    <3> QED
      BY <3>2, <3>3
  <2> QED
    BY <2>1, <2>2
<1> QED
  BY <1>1, <1>2, <1>3, <1>4 DEF FlowOK

\* A chunk is sent, eagerly or not.
LEMMA SendKeeps ==
  ASSUME NEW f \in Flows, NEW e, FlowOK(f, e), NEW h, NEW n \in Chunks, n = f.sent + 1,
         e.sender = "open", e.at # None, e.proto # "plain", e.dir \in Directions,
         NEW told \in BOOLEAN,
         e.dir = "up" /\ e.at \in Outside => ~told,
         e.dir = "down" /\ e.at \notin Begun => ~told,
         h.sent = n, h.eager = IF told THEN f.eager ELSE n, h.counted = f.counted,
         h.buf = f.buf, Arrives(f.wire, n, h.wire), h.seen = f.seen
  PROVE  FlowOK(h, e)
<1>0. /\ f.sent \in Nat /\ f.eager \in Nat /\ f.counted \in Nat /\ f.eager <= f.sent
      /\ Len(f.wire) \in Nat /\ Len(f.seen) \in Nat /\ Len(f.buf) \in Nat
  BY FlowParts DEF FlowOK, Counters
<1>n. PICK ls \in Nat, lb \in Nat, lw \in Nat :
         Len(f.seen) = ls /\ Len(f.buf) = lb /\ Len(f.wire) = lw
  BY FlowParts
<1>1. /\ Len(h.wire) = Len(f.wire) + 1
      /\ \A i \in 1..Len(f.wire) : h.wire[i] = f.wire[i]
      /\ h.wire[Len(f.wire) + 1] = n
  BY DEF Arrives
<1>2. h.eager \in Nat /\ f.eager <= h.eager /\ h.eager <= h.sent
  BY <1>0, <1>n
<1>3. Ordered(h, e)
  <2>1. PICK lost \in 0..(IF Dropping(e) THEN f.eager ELSE 0) : InOrder(f, lost, Whole(e))
    BY DEF FlowOK, Ordered
  <2>2. lost \in Nat /\ lost \in 0..(IF Dropping(e) THEN h.eager ELSE 0)
    BY <1>0, <1>n, <1>2, <2>1
  <2>3. InOrder(h, lost, Whole(e))
    <3>1. CASE Whole(e)
      <4>1. lost + Len(f.seen) + Len(f.buf) + Len(f.wire) = f.sent
        BY <1>n, <2>1, <3>1 DEF InOrder
      <4>2. ASSUME NEW i \in 1..Len(h.wire)
            PROVE  h.wire[i] = lost + Len(h.seen) + Len(h.buf) + i
        <5>1. CASE i = Len(f.wire) + 1
          <6>1. lost + Len(f.seen) + Len(f.buf) + (Len(f.wire) + 1) = n
            BY <1>0, <1>n, <2>2, <4>1
          <6> QED
            BY <1>1, <5>1, <6>1
        <5>2. CASE i # Len(f.wire) + 1
          <6>1. i \in 1..Len(f.wire)
            BY <1>0, <1>n, <1>1, <5>2
          <6> QED
            BY <1>1, <2>1, <3>1, <6>1 DEF InOrder
        <5> QED
          BY <5>1, <5>2
      <4>3. lost + Len(h.seen) + Len(h.buf) + Len(h.wire) = h.sent
        <5>1. lost + Len(f.seen) + Len(f.buf) + (Len(f.wire) + 1) = n
          BY <1>0, <1>n, <2>2, <4>1
        <5> QED
          BY <1>1, <5>1
      <4> QED
        BY <1>n, <2>1, <3>1, <4>2, <4>3 DEF InOrder
    <3>2. CASE ~Whole(e)
      BY <1>n, <2>1, <3>2 DEF InOrder
    <3> QED
      BY <3>1, <3>2
  <2> QED
    BY <2>2, <2>3 DEF Ordered
<1>4. Counters(h)
  BY <1>0, <1>n, <1>1, <1>2 DEF FlowOK, Counters
<1>5. Early(h, e)
  BY DEF FlowOK, Early
<1>6. Finished(h, e) /\ Recorded(h, e)
  BY DEF FlowOK, Finished, Recorded
<1> QED
  BY <1>3, <1>4, <1>5, <1>6 DEF FlowOK
-----------------------------------------------------------------------------
\* The types of what DownstreamProofs did not need.
StreamTypes ==
    /\ server \in {"up", "draining", "exited"}
    /\ mitm \in Interception
    /\ client \in [Conns -> {"open", "fin", "gone"}]
    /\ target \in [Conns -> {"open", "fin", "gone"}]
    /\ upstream \in [Conns -> {None, "open", "closed"}]
    /\ tcp \in [Conns -> BOOLEAN]
    /\ eof \in [Conns \X Directions -> BOOLEAN]
    /\ cut \in [Conns -> BOOLEAN]
    /\ flow \in [Conns \X Directions -> Flows]

Base == Inv /\ Talking /\ StreamTypes /\ Tunnels

\* Peers leave for good.
Onward ==
    \A c \in Conns :
        /\ client[c] # "open" => client'[c] = client[c]
        /\ target[c] # "open" => target'[c] = target[c]

LEMMA SituationIs ==
  ASSUME NEW c, NEW d
  PROVE  /\ Situation(c, d).dir = d /\ Situation(c, d).proto = proto[c]
         /\ Situation(c, d).tcp = tcp[c] /\ Situation(c, d).at = pc[c]
         /\ Situation(c, d).copier = copier[<<c, d>>]
         /\ Situation(c, d).tracked = tracker[c] /\ Situation(c, d).cut = cut[c]
         /\ Situation(c, d).sender = Sender(c, d)
         /\ Situation(c, d).receiver = Receiver(c, d)
  BY DEF Situation

LEMMA SituationNext ==
  ASSUME NEW CONSTANT c, NEW CONSTANT d
  PROVE  /\ Situation(c, d)'.dir = d /\ Situation(c, d)'.proto = proto'[c]
         /\ Situation(c, d)'.tcp = tcp'[c] /\ Situation(c, d)'.at = pc'[c]
         /\ Situation(c, d)'.copier = copier'[<<c, d>>]
         /\ Situation(c, d)'.tracked = tracker'[c] /\ Situation(c, d)'.cut = cut'[c]
         /\ Situation(c, d)'.sender = IF d = "up" THEN client'[c] ELSE target'[c]
         /\ Situation(c, d)'.receiver = IF d = "up" THEN target'[c] ELSE client'[c]
  BY DEF Situation, Sender, Receiver

\* What a step has to leave alone for one situation to follow from another.
LEMMA LaterIs ==
  ASSUME Onward, NEW b \in Conns, NEW d \in Directions,
         proto'[b] = proto[b], tcp[b] => tcp'[b], cut[b] => cut'[b],
         \/ copier'[<<b, d>>] = copier[<<b, d>>]
         \/ copier[<<b, d>>] = None /\ copier'[<<b, d>>] = "copy",
         pc[b] # None => pc'[b] # None,
         pc[b] \in Carried => pc'[b] \in Carried,
         pc[b] \in Begun => pc'[b] \in Begun,
         pc[b] = "stream" => pc'[b] = "stream",
         pc'[b] \in Outside => pc[b] \in Outside
  PROVE  Later(Situation(b, d), Situation(b, d)')
<1> DEFINE e == Situation(b, d)
           g == Situation(b, d)'
<1>1. /\ e.dir = d /\ e.proto = proto[b] /\ e.tcp = tcp[b] /\ e.at = pc[b]
      /\ e.copier = copier[<<b, d>>] /\ e.cut = cut[b]
  BY SituationIs
<1>2. /\ g.dir = d /\ g.proto = proto'[b] /\ g.tcp = tcp'[b] /\ g.at = pc'[b]
      /\ g.copier = copier'[<<b, d>>] /\ g.cut = cut'[b]
  BY SituationNext
<1>3. /\ e.sender = IF d = "up" THEN client[b] ELSE target[b]
      /\ e.receiver = IF d = "up" THEN target[b] ELSE client[b]
  BY SituationIs DEF Sender, Receiver
<1>4. /\ g.sender = IF d = "up" THEN client'[b] ELSE target'[b]
      /\ g.receiver = IF d = "up" THEN target'[b] ELSE client'[b]
  BY SituationNext
<1> HIDE DEF e, g
<1>5. e.sender # "open" => g.sender = e.sender
  BY <1>3, <1>4 DEF Onward
<1>6. e.receiver = "gone" => g.receiver = "gone"
  BY <1>3, <1>4 DEF Onward
<1>8. Later(e, g)
  BY <1>1, <1>2, <1>5, <1>6 DEF Later
<1> QED
  BY <1>8 DEF e, g

\* No chunk moves, and every connection may follow from what it was.
LEMMA SituationsKeep ==
  ASSUME StreamTypes, Flowing, flow' = flow,
         \A c \in Conns, d \in Directions :
            /\ Later(Situation(c, d), Situation(c, d)')
            /\ \/ tracker'[c] = tracker[c]
               \/ Len(flow[<<c, d>>].seen) = 0 /\ Len(flow[<<c, d>>].buf) = 0
                     /\ flow[<<c, d>>].counted = 0
  PROVE  Flowing'
<1> SUFFICES ASSUME NEW c \in Conns, NEW d \in Directions
             PROVE  FlowOK(flow'[<<c, d>>], Situation(c, d)')
  BY DEF Flowing
<1> DEFINE e == Situation(c, d)
           g == Situation(c, d)'
           f == flow[<<c, d>>]
<1>1. FlowOK(f, e) /\ Later(e, g)
  BY DEF Flowing
<1>2. f \in Flows
  BY DEF StreamTypes
<1>3. g.tracked = e.tracked \/ (Len(f.seen) = 0 /\ Len(f.buf) = 0 /\ f.counted = 0)
  BY SituationIs, SituationNext
<1>4. flow'[<<c, d>>] = f
  OBVIOUS
<1> HIDE DEF e, g, f
<1>5. FlowOK(f, g)
  BY <1>1, <1>2, <1>3, SituationKeeps
<1> QED
  BY <1>4, <1>5 DEF g

\* A goroutine moves, and nothing about the data does.
LEMMA MoveFlows ==
  ASSUME Base, Flowing, Onward, NEW c \in Conns, NEW where,
         pc' = [pc EXCEPT ![c] = where],
         UNCHANGED <<proto, tcp, cut, copier, flow, tracker>>,
         where # None,
         pc[c] \in Carried => where \in Carried,
         pc[c] \in Begun => where \in Begun,
         pc[c] = "stream" => where = "stream",
         where \in Outside => pc[c] \in Outside
  PROVE  Flowing'
<1>1. ASSUME NEW b \in Conns, NEW d \in Directions
      PROVE  Later(Situation(b, d), Situation(b, d)')
  <2>1. /\ pc[b] # None => pc'[b] # None
        /\ pc[b] \in Carried => pc'[b] \in Carried
        /\ pc[b] \in Begun => pc'[b] \in Begun
        /\ pc[b] = "stream" => pc'[b] = "stream"
        /\ pc'[b] \in Outside => pc[b] \in Outside
    BY DEF Base, Inv, TrackingTypes
  <2> QED
    BY <2>1, LaterIs
<1> QED
  BY <1>1, SituationsKeep DEF Base

\* Nothing of the kind happens.
LEMMA SameFlows ==
  ASSUME Base, Flowing, Onward, UNCHANGED <<pc, proto, tcp, cut, copier, flow, tracker>>
  PROVE  Flowing'
<1>1. ASSUME NEW b \in Conns, NEW d \in Directions
      PROVE  Later(Situation(b, d), Situation(b, d)')
  BY LaterIs
<1> QED
  BY <1>1, SituationsKeep DEF Base

\* A result comes with a tracker or without, before anything was carried.
LEMMA TrackFlows ==
  ASSUME Base, Flowing, NEW c \in Conns, NEW t \in BOOLEAN,
         ResolveProxy(c, t) \/ ChildProxy(c, t)
  PROVE  Flowing'
<1>1. /\ pc[c] \in {"resolve", "child"}
      /\ \E where \in {"dial", "forward"} : pc' = [pc EXCEPT ![c] = where]
      /\ tracker' = [tracker EXCEPT ![c] = t]
      /\ UNCHANGED <<proto, tcp, cut, copier, flow, client, target>>
  BY DEF ResolveProxy, ChildProxy, At, Goto, Track, link, ends, peer
<1>2. ASSUME NEW b \in Conns, NEW d \in Directions
      PROVE  Later(Situation(b, d), Situation(b, d)')
  <2>1. /\ pc[b] # None => pc'[b] # None
        /\ pc[b] \in Carried => pc'[b] \in Carried
        /\ pc[b] \in Begun => pc'[b] \in Begun
        /\ pc[b] = "stream" => pc'[b] = "stream"
        /\ pc'[b] \in Outside => pc[b] \in Outside
    BY <1>1 DEF Base, Inv, TrackingTypes, Carried, Begun, Outside, Ended, None
  <2>2. Onward
    BY <1>1 DEF Onward
  <2> QED
    BY <1>1, <2>1, <2>2, LaterIs
<1>3. ASSUME NEW b \in Conns, NEW d \in Directions, tracker'[b] # tracker[b]
      PROVE  Len(flow[<<b, d>>].seen) = 0 /\ Len(flow[<<b, d>>].buf) = 0
                /\ flow[<<b, d>>].counted = 0
  <2>1. b = c
    BY <1>1, <1>3 DEF Base, Inv, TrackingTypes
  <2>2. copier[<<b, d>>] = None /\ pc[b] \notin Carried
    BY <1>1, <2>1 DEF Base, Tunnels, Carried, Ended
  <2>3. FlowOK(flow[<<b, d>>], Situation(b, d))
    BY DEF Flowing
  <2> QED
    BY <2>2, <2>3, SituationIs DEF FlowOK, Early
<1>4. flow' = flow
  BY <1>1
<1> QED
  BY <1>2, <1>3, <1>4, SituationsKeep DEF Base

\* One direction of one connection changes to h, the others are as they were
\* or in a later situation.
LEMMA OneFlow ==
  ASSUME Base, Flowing, NEW c \in Conns, NEW d \in Directions, NEW h \in Flows,
         flow' = [flow EXCEPT ![<<c, d>>] = h], tracker' = tracker,
         FlowOK(h, Situation(c, d)'),
         \A b \in Conns, k \in Directions :
            b # c \/ k # d => Later(Situation(b, k), Situation(b, k)')
  PROVE  Flowing' /\ flow' \in [Conns \X Directions -> Flows]
<1>0. flow \in [Conns \X Directions -> Flows]
  BY DEF Base, StreamTypes
<1>1. ASSUME NEW b \in Conns, NEW k \in Directions
      PROVE  FlowOK(flow'[<<b, k>>], Situation(b, k)')
  <2>1. CASE b = c /\ k = d
    <3>1. flow'[<<b, k>>] = h
      BY <1>0, <2>1
    <3> QED
      BY <2>1, <3>1
  <2>2. CASE ~(b = c /\ k = d)
    <3> DEFINE e == Situation(b, k)
               g == Situation(b, k)'
               f == flow[<<b, k>>]
    <3>1. flow'[<<b, k>>] = f
      BY <1>0, <2>2
    <3>2. FlowOK(f, e) /\ Later(e, g) /\ f \in Flows
      BY <1>0, <2>2 DEF Flowing
    <3>3. g.tracked = e.tracked
      <4>1. e.tracked = tracker[b]
        BY SituationIs
      <4>2. g.tracked = tracker'[b]
        BY SituationNext
      <4> QED
        BY <4>1, <4>2
    <3> HIDE DEF e, g, f
    <3>4. FlowOK(f, g)
      BY <3>2, <3>3, SituationKeeps
    <3> QED
      BY <3>1, <3>4 DEF g
  <2> QED
    BY <2>1, <2>2
<1>2. Flowing'
  BY <1>1 DEF Flowing
<1>3. flow' \in [Conns \X Directions -> Flows]
  BY <1>0
<1> QED
  BY <1>2, <1>3

\* A chunk moves, and nothing else happens.
LEMMA DataFlow ==
  ASSUME Base, Flowing, NEW c \in Conns, NEW d \in Directions, NEW h \in Flows,
         flow' = [flow EXCEPT ![<<c, d>>] = h],
         UNCHANGED <<proto, tcp, pc, copier, tracker, cut, client, target>>,
         FlowOK(h, Situation(c, d))
  PROVE  Flowing' /\ flow' \in [Conns \X Directions -> Flows]
<1>1. ASSUME NEW b \in Conns, NEW k \in Directions
      PROVE  Situation(b, k)' = Situation(b, k)
  BY DEF Situation, Sender, Receiver
<1>2. ASSUME NEW e PROVE Later(e, e)
  BY DEF Later
<1>3. tracker' = tracker
  OBVIOUS
<1>4. FlowOK(h, Situation(c, d)')
  BY <1>1
<1>5. \A b \in Conns, k \in Directions : Later(Situation(b, k), Situation(b, k)')
  BY <1>1, <1>2
<1> QED
  BY <1>3, <1>4, <1>5, OneFlow

LEMMA SendFlows ==
  ASSUME Base, Flowing, NEW c \in Conns, NEW d \in Directions, Send(c, d)
  PROVE  Flowing' /\ flow' \in [Conns \X Directions -> Flows]
<1> DEFINE f == flow[<<c, d>>]
           n == flow[<<c, d>>].sent + 1
           w == Append(flow[<<c, d>>].wire, n)
           told == InHand(c, d)
           g == IF told THEN flow[<<c, d>>].eager ELSE n
           h == [flow[<<c, d>>] EXCEPT !.sent = n, !.eager = g, !.wire = w]
           e == Situation(c, d)
<1>1. flow' = [flow EXCEPT ![<<c, d>>] = h]
  BY Zenon DEF Send
<1>2. /\ UNCHANGED <<proto, tcp, pc, copier, tracker, cut, client, target>>
      /\ Sender(c, d) = "open" /\ n <= MaxChunks
      /\ IF d = "up" THEN pc[c] # None /\ proto[c] # "plain"
                     ELSE pc[c] \in {"dial", "relay"} /\ proto[c] # "plain"
  BY DEF Send, ends, peer, tracking
<1>3. f \in Flows /\ FlowOK(f, e)
  BY DEF Base, StreamTypes, Flowing
<1>4. n \in Chunks /\ n = f.sent + 1
  BY <1>2, <1>3, FlowParts, DownstreamAssumption DEF Chunks
<1>5. /\ h.sent = n /\ h.eager = g /\ h.wire = w
      /\ h.buf = f.buf /\ h.seen = f.seen /\ h.counted = f.counted
  BY <1>3 DEF Flows
<1>6. w \in Seq(Chunks) /\ Arrives(f.wire, n, w)
  BY <1>3, <1>4, FlowParts, AppendProperties DEF Arrives
<1>7. /\ e.sender = "open" /\ e.at # None /\ e.proto # "plain" /\ e.dir \in Directions
      /\ e.dir = "up" /\ e.at \in Outside => ~told
      /\ e.dir = "down" /\ e.at \notin Begun => ~told
  BY <1>2, SituationIs DEF InHand, Begun, Outside, None, Directions
<1>8. told \in BOOLEAN
  BY DEF InHand
<1>9. FlowOK(h, e)
  <2> HIDE DEF f, n, w, told, e
  <2>1. Arrives(f.wire, n, h.wire)
    BY <1>5, <1>6
  <2>2. g = IF told THEN f.eager ELSE n
    BY DEF f
  <2> HIDE DEF g, h
  <2> QED
    BY <1>3, <1>4, <1>5, <1>7, <1>8, <2>1, <2>2, SendKeeps
<1>10. h \in Flows
  <2>1. n \in 0..MaxChunks /\ g \in 0..MaxChunks
    BY <1>3, <1>4 DEF Flows, Chunks
  <2> HIDE DEF n, g, w
  <2> QED
    BY <1>3, <1>6, <2>1 DEF Flows
<1> HIDE DEF h, e
<1> QED
  BY <1>1, <1>2, <1>9, <1>10, DataFlow DEF e

\* A goroutine that copies does so while relay waits.
LEMMA CopierIs ==
  ASSUME Base, Flowing, NEW c \in Conns, NEW d \in Directions, Copying(c, d)
  PROVE  /\ flow[<<c, d>>] \in Flows /\ FlowOK(flow[<<c, d>>], Situation(c, d))
         /\ Situation(c, d).copier = "copy" /\ Situation(c, d).at = "relay"
  BY SituationIs DEF Base, StreamTypes, Flowing, Inv, Phases, Copying

LEMMA ReceiveFlows ==
  ASSUME Base, Flowing, NEW c \in Conns, NEW d \in Directions, Receive(c, d),
         cut' = cut \/ cut' = [cut EXCEPT ![c] = TRUE]
  PROVE  Flowing' /\ flow' \in [Conns \X Directions -> Flows]
<1> DEFINE f == flow[<<c, d>>]
           b == <<Head(flow[<<c, d>>].wire)>>
           w == Tail(flow[<<c, d>>].wire)
           n == flow[<<c, d>>].counted + Record(c, d)
           h == [flow[<<c, d>>] EXCEPT !.buf = b, !.wire = w, !.counted = n]
           e == Situation(c, d)
<1>1. flow' = [flow EXCEPT ![<<c, d>>] = h]
  BY Zenon DEF Receive
<1>2. /\ UNCHANGED <<proto, tcp, pc, copier, tracker, client, target>>
      /\ Copying(c, d) /\ f.buf = <<>> /\ f.wire # <<>>
  BY DEF Receive, peer, tracking
<1>3. f \in Flows /\ FlowOK(f, e) /\ e.copier = "copy" /\ e.at = "relay"
  BY <1>2, CopierIs
<1>4. /\ h.buf = b /\ h.wire = w /\ h.counted = n
      /\ h.sent = f.sent /\ h.eager = f.eager /\ h.seen = f.seen
  BY <1>3 DEF Flows
<1>5. f.wire \in Seq(Chunks) /\ f.wire # <<>>
  BY <1>2, <1>3, FlowParts
<1>6. /\ Len(w) = Len(f.wire) - 1 /\ w \in Seq(Chunks)
      /\ \A i \in 1..(Len(f.wire) - 1) : w[i] = f.wire[i + 1]
      /\ Head(f.wire) \in Chunks
  <2>1. /\ Len(Tail(f.wire)) = Len(f.wire) - 1 /\ Tail(f.wire) \in Seq(Chunks)
        /\ \A i \in 1..Len(Tail(f.wire)) : Tail(f.wire)[i] = f.wire[i + 1]
        /\ Head(f.wire) \in Chunks
    BY <1>5, HeadTailProperties
  <2> QED
    BY <2>1
<1>7. Len(b) = 1 /\ b[1] = f.wire[1] /\ b \in Seq(Chunks)
  BY <1>5, <1>6
<1>8. Len(f.buf) = 0 /\ Len(f.wire) > 0
  BY <1>2, <1>5, EmptySeq
<1>9. n = f.counted + (IF e.tracked THEN 1 ELSE 0)
  BY SituationIs DEF Record
<1>10. FlowOK(h, e)
  <2> HIDE DEF f, b, w, n, e
  <2>1. /\ Len(h.buf) = 1 /\ h.buf[1] = f.wire[1] /\ Len(h.wire) = Len(f.wire) - 1
        /\ \A i \in 1..(Len(f.wire) - 1) : h.wire[i] = f.wire[i + 1]
        /\ h.counted = f.counted + (IF e.tracked THEN 1 ELSE 0)
    BY <1>4, <1>6, <1>7, <1>9
  <2> HIDE DEF h
  <2> QED
    BY <1>3, <1>4, <1>8, <2>1, ReceiveKeeps
<1>11. h \in Flows
  <2>1. h.counted + Len(h.wire) <= h.sent /\ h.sent \in 0..MaxChunks
    BY <1>3, <1>4, <1>10 DEF FlowOK, Counters, Flows
  <2>2. n \in Nat /\ Len(h.wire) \in Nat
    BY <1>3, <1>4, <1>6, <1>9, FlowParts, LenProperties
  <2>3. n \in 0..MaxChunks
    BY <1>4, <2>1, <2>2, DownstreamAssumption
  <2> HIDE DEF b, w, n
  <2> QED
    BY <1>3, <1>6, <1>7, <2>3 DEF Flows
<1>12. ASSUME NEW a \in Conns, NEW k \in Directions
       PROVE  Later(Situation(a, k), Situation(a, k)')
  <2>1. Onward
    BY <1>2 DEF Onward
  <2>2. cut[a] => cut'[a]
    BY DEF Base, StreamTypes
  <2> QED
    BY <1>2, <2>1, <2>2, LaterIs
<1>13. FlowOK(h, Situation(c, d)')
  <2>1. Situation(c, d)'.tracked = e.tracked
    <3>1. e.tracked = tracker[c]
      BY SituationIs
    <3>2. Situation(c, d)'.tracked = tracker'[c]
      BY SituationNext
    <3> QED
      BY <1>2, <3>1, <3>2
  <2> HIDE DEF h
  <2> QED
    BY <1>10, <1>11, <1>12, <2>1, SituationKeeps
<1>14. tracker' = tracker
  BY <1>2
<1> HIDE DEF h
<1> QED
  BY <1>1, <1>11, <1>12, <1>13, <1>14, OneFlow

LEMMA WriteFlows ==
  ASSUME Base, Flowing, NEW c \in Conns, NEW d \in Directions, WriteChunk(c, d)
  PROVE  Flowing' /\ flow' \in [Conns \X Directions -> Flows]
<1> DEFINE f == flow[<<c, d>>]
           s == IF Receiver(c, d) = "gone" THEN flow[<<c, d>>].seen
                ELSE flow[<<c, d>>].seen \o flow[<<c, d>>].buf
           h == [flow[<<c, d>>] EXCEPT !.buf = <<>>, !.seen = s]
           e == Situation(c, d)
<1>1. flow' = [flow EXCEPT ![<<c, d>>] = h]
  BY Zenon DEF WriteChunk
<1>2. /\ UNCHANGED <<proto, tcp, pc, copier, tracker, cut, client, target>>
      /\ Copying(c, d) /\ ~cut[c] /\ f.buf # <<>>
  BY DEF WriteChunk, ends, peer, tracking
<1>3. f \in Flows /\ FlowOK(f, e) /\ e.copier = "copy" /\ e.at = "relay"
  BY <1>2, CopierIs
<1>4. /\ h.buf = <<>> /\ h.seen = s /\ h.counted = f.counted
      /\ h.sent = f.sent /\ h.eager = f.eager /\ h.wire = f.wire
  BY <1>3 DEF Flows
<1>5. /\ f.buf \in Seq(Chunks) /\ f.seen \in Seq(Chunks)
  BY <1>3, FlowParts
<1>6. Len(f.buf) > 0 /\ Len(f.buf) = 1 /\ <<>> \in Seq(Chunks) /\ Len(h.buf) = 0
  <2>1. PICK lb \in Nat : Len(f.buf) = lb
    BY <1>5, LenProperties
  <2>2. lb # 0
    BY <1>2, <1>5, <2>1, EmptySeq
  <2>3. lb <= 1
    BY <1>3, <2>1 DEF FlowOK, Counters
  <2>4. <<>> \in Seq(Chunks) /\ Len(<<>>) = 0
    BY EmptySeq
  <2> QED
    BY <1>4, <2>1, <2>2, <2>3, <2>4
<1>7. e.receiver = Receiver(c, d) /\ ~e.cut
  BY <1>2, SituationIs
<1>8. f.seen \o f.buf \in Seq(Chunks) /\ Arrives(f.seen, f.buf[1], f.seen \o f.buf)
  BY <1>5, <1>6, OneMore
<1>9. /\ e.receiver = "gone" => h.seen = f.seen
      /\ e.receiver # "gone" => Arrives(f.seen, f.buf[1], h.seen)
  BY <1>4, <1>7, <1>8
<1>10. FlowOK(h, e)
  <2> HIDE DEF f, e, h, s
  <2> QED
    BY <1>3, <1>4, <1>6, <1>7, <1>9, WriteKeeps
<1>11. h \in Flows
  <2>1. s \in Seq(Chunks)
    BY <1>5, <1>8
  <2> HIDE DEF s
  <2> QED
    BY <1>3, <1>6, <2>1 DEF Flows
<1> HIDE DEF h
<1> QED
  BY <1>1, <1>2, <1>10, <1>11, DataFlow

LEMMA ReturnFlows ==
  ASSUME Base, Flowing, NEW c \in Conns, NEW d \in Directions,
         ReadEnds(c, d) \/ WriteFails(c, d)
  PROVE  Flowing' /\ flow' \in [Conns \X Directions -> Flows]
<1> DEFINE f == flow[<<c, d>>]
           h == [flow[<<c, d>>] EXCEPT !.buf = <<>>]
           e == Situation(c, d)
           g == Situation(c, d)'
<1>0. CopyReturns(c, d)
  BY DEF ReadEnds, WriteFails
<1>1. flow' = [flow EXCEPT ![<<c, d>>] = h]
  BY <1>0, Zenon DEF CopyReturns
<1>2. /\ UNCHANGED <<proto, tcp, pc, cut, tracker, client, target>>
      /\ copier' = [copier EXCEPT ![<<c, d>>] = "sent"] /\ Copying(c, d)
  BY <1>0 DEF CopyReturns, peer, tracking
<1>3. f \in Flows /\ FlowOK(f, e) /\ e.copier = "copy" /\ e.at = "relay"
  BY <1>2, CopierIs
<1>4. /\ h.buf = <<>> /\ h.seen = f.seen /\ h.counted = f.counted
      /\ h.sent = f.sent /\ h.eager = f.eager /\ h.wire = f.wire
  BY <1>3 DEF Flows
<1>5. f.buf \in Seq(Chunks) /\ f.wire \in Seq(Chunks)
  BY <1>3, FlowParts
<1>6. Len(h.buf) = 0 /\ <<>> \in Seq(Chunks)
  BY <1>4, EmptySeq
<1>7. \/ /\ Len(f.buf) = 0
         /\ e.cut \/ e.sender = "gone" \/ (e.sender = "fin" /\ Len(f.wire) = 0)
      \/ Len(f.buf) > 0 /\ (e.cut \/ e.receiver = "gone")
  <2>0. e.cut = cut[c] /\ e.sender = Sender(c, d) /\ e.receiver = Receiver(c, d)
    BY DEF Situation
  <2> HIDE DEF e
  <2>1. CASE ReadEnds(c, d)
    <3>1. f.buf = <<>> => Len(f.buf) = 0
      BY EmptySeq
    <3>2. f.wire = <<>> => Len(f.wire) = 0
      BY EmptySeq
    <3> QED
      BY <2>0, <2>1, <3>1, <3>2 DEF ReadEnds, AtEOF
  <2>2. CASE WriteFails(c, d)
    <3>1. f.buf # <<>> => Len(f.buf) > 0
      BY <1>5, EmptySeq
    <3> QED
      BY <2>0, <2>2, <3>1 DEF WriteFails
  <2> QED
    BY <2>1, <2>2
<1>8. /\ g.copier = "sent" /\ g.at = e.at /\ g.dir = e.dir /\ g.proto = e.proto
      /\ g.tcp = e.tcp /\ g.tracked = e.tracked
      /\ g.cut = e.cut /\ g.sender = e.sender /\ g.receiver = e.receiver
  <2>1. copier'[<<c, d>>] = "sent"
    BY <1>2 DEF Base, Inv, TrackingTypes
  <2> QED
    BY <1>2, <2>1 DEF Situation, Sender, Receiver
<1>9. FlowOK(h, g)
  <2> HIDE DEF f, h, e, g
  <2> QED
    BY <1>3, <1>4, <1>6, <1>7, <1>8, ReturnKeeps
<1>10. h \in Flows
  BY <1>3, <1>6 DEF Flows
<1>11. ASSUME NEW a \in Conns, NEW k \in Directions, a # c \/ k # d
       PROVE  Later(Situation(a, k), Situation(a, k)')
  <2>1. copier'[<<a, k>>] = copier[<<a, k>>]
    BY <1>2, <1>11 DEF Base, Inv, TrackingTypes
  <2>2. Onward
    BY <1>2 DEF Onward
  <2> QED
    BY <1>2, <2>1, <2>2, LaterIs
<1>12. tracker' = tracker
  BY <1>2
<1> HIDE DEF h
<1> QED
  BY <1>1, <1>9, <1>10, <1>11, <1>12, OneFlow

LEMMA StreamFlows ==
  ASSUME Base, Flowing, NEW c \in Conns, StreamChunk(c)
  PROVE  Flowing' /\ flow' \in [Conns \X Directions -> Flows]
<1> DEFINE f == flow[<<c, "down">>]
           n == flow[<<c, "down">>].sent + 1
           s == IF client[c] = "gone" THEN flow[<<c, "down">>].seen
                ELSE Append(flow[<<c, "down">>].seen, n)
           h == [flow[<<c, "down">>] EXCEPT !.sent = n, !.seen = s]
           e == Situation(c, "down")
<1>0. "down" \in Directions
  BY DEF Directions
<1>1. flow' = [flow EXCEPT ![<<c, "down">>] = h]
  BY Zenon DEF StreamChunk
<1>2. /\ UNCHANGED <<proto, tcp, pc, copier, tracker, cut, client, target>>
      /\ pc[c] = "stream" /\ n <= MaxChunks
  BY DEF StreamChunk, At, ends, peer, tracking
<1>3. f \in Flows /\ FlowOK(f, e)
  BY <1>0 DEF Base, StreamTypes, Flowing
<1>4. n \in Chunks /\ n = f.sent + 1
  BY <1>2, <1>3, FlowParts, DownstreamAssumption DEF Chunks
<1>5. /\ h.sent = n /\ h.seen = s /\ h.eager = f.eager
      /\ h.buf = f.buf /\ h.wire = f.wire /\ h.counted = f.counted
  BY <1>3 DEF Flows
<1>6. /\ e.at = "stream" /\ e.proto = "plain" /\ e.dir = "down" /\ ~e.cut
      /\ e.copier = None /\ e.receiver = client[c]
  <2>1. proto[c] = "plain"
    BY <1>2 DEF Base, Talking, TalkOf, None
  <2>2. ~cut[c] /\ copier[<<c, "down">>] = None
    BY <1>0, <1>2 DEF Base, Tunnels
  <2> QED
    BY <1>2, <2>1, <2>2 DEF Situation, Receiver
<1>7. h.seen = IF e.receiver = "gone" THEN f.seen ELSE Append(f.seen, n)
  BY <1>5, <1>6
<1>8. FlowOK(h, e)
  <2> HIDE DEF f, n, s, h, e
  <2> QED
    BY <1>3, <1>4, <1>5, <1>6, <1>7, StreamKeeps
<1>9. h \in Flows
  <2>1. n \in 0..MaxChunks
    BY <1>4 DEF Chunks
  <2>2. Append(f.seen, n) \in Seq(Chunks) /\ f.seen \in Seq(Chunks)
    BY <1>3, <1>4, FlowParts, AppendProperties
  <2>3. s \in Seq(Chunks)
    BY <2>2
  <2> HIDE DEF n, s
  <2> QED
    BY <1>3, <2>1, <2>3 DEF Flows
<1> HIDE DEF h
<1> QED
  BY <1>0, <1>1, <1>2, <1>8, <1>9, DataFlow

LEMMA StreamEndFlows ==
  ASSUME Base, Flowing, NEW c \in Conns, StreamEnds(c)
  PROVE  Flowing' /\ flow' \in [Conns \X Directions -> Flows]
<1> DEFINE n == IF tracker[c] THEN flow[<<c, "down">>].sent ELSE flow[<<c, "down">>].counted
           h == [flow[<<c, "down">>] EXCEPT !.counted = n]
<1>0. flow \in [Conns \X Directions -> Flows]
  BY DEF Base, StreamTypes
<1>1. flow' = [flow EXCEPT ![<<c, "down">>] = h]
  BY Zenon DEF StreamEnds
<1>2. /\ UNCHANGED <<proto, tcp, copier, tracker, cut, client, target>>
      /\ pc[c] = "stream" /\ pc' = [pc EXCEPT ![c] = "kept"]
  BY DEF StreamEnds, At, Goto, ends, peer
<1>3. /\ proto[c] = "plain" /\ ~cut[c] /\ ~tcp[c]
      /\ \A d \in Directions : copier[<<c, d>>] = None
  BY <1>2 DEF Base, Tunnels, Talking, TalkOf, None
<1>4. flow[<<c, "down">>] \in Flows /\ <<c, "down">> \in Conns \X Directions
  BY <1>0 DEF Directions
<1>5. h \in Flows
  <2>1. n \in 0..MaxChunks
    BY <1>4 DEF Flows
  <2> HIDE DEF n
  <2> QED
    BY <1>4, <2>1 DEF Flows
<1>6. flow' \in [Conns \X Directions -> Flows]
  <2> HIDE DEF h
  <2> QED
    BY <1>0, <1>1, <1>5
<1>7. ASSUME NEW d \in Directions PROVE FlowOK(flow'[<<c, d>>], Situation(c, d)')
  <2> DEFINE f == flow[<<c, d>>]
             v == flow'[<<c, d>>]
             e == Situation(c, d)
             g == Situation(c, d)'
  <2>1. f \in Flows /\ FlowOK(f, e)
    BY <1>0 DEF Flowing
  <2>2. /\ e.at = "stream" /\ e.proto = "plain" /\ ~e.cut /\ ~e.tcp /\ e.copier = None
        /\ e.dir = d /\ e.tracked = tracker[c]
    BY <1>2, <1>3 DEF Situation
  <2>3. /\ g.at = "kept" /\ g.dir = e.dir /\ g.proto = e.proto /\ g.tcp = e.tcp
        /\ g.copier = e.copier /\ g.tracked = e.tracked
        /\ g.cut = e.cut /\ g.sender = e.sender /\ g.receiver = e.receiver
    <3>1. pc'[c] = "kept"
      BY <1>2 DEF Base, Inv, TrackingTypes
    <3> QED
      BY <1>2, <3>1 DEF Situation, Sender, Receiver
  <2>4. /\ v.sent = f.sent /\ v.eager = f.eager /\ v.buf = f.buf /\ v.wire = f.wire
        /\ v.seen = f.seen
        /\ v.counted = IF e.tracked /\ e.dir = "down" THEN f.sent ELSE f.counted
    <3>1. CASE d = "down"
      <4>1. v = h
        BY <1>0, <1>1, <1>4, <3>1
      <4> QED
        BY <1>4, <2>2, <3>1, <4>1 DEF Flows
    <3>2. CASE d # "down"
      <4>1. v = f
        BY <1>0, <1>1, <1>4, <3>2
      <4> HIDE DEF v, f
      <4> QED
        BY <2>2, <3>2, <4>1
    <3> QED
      BY <3>1, <3>2
  <2> HIDE DEF f, v, e, g
  <2>5. FlowOK(v, g)
    BY <2>1, <2>2, <2>3, <2>4, StreamEndsKeeps
  <2> QED
    BY <2>5 DEF v, g
<1>8. ASSUME NEW b \in Conns, NEW d \in Directions, b # c
      PROVE  FlowOK(flow'[<<b, d>>], Situation(b, d)')
  <2>1. flow'[<<b, d>>] = flow[<<b, d>>]
    BY <1>0, <1>1, <1>4, <1>8
  <2>2. pc'[b] = pc[b]
    BY <1>2, <1>8 DEF Base, Inv, TrackingTypes
  <2>3. Situation(b, d)' = Situation(b, d)
    BY <1>2, <2>2 DEF Situation, Sender, Receiver
  <2> QED
    BY <2>1, <2>3 DEF Flowing
<1>9. Flowing'
  BY <1>7, <1>8 DEF Flowing
<1> QED
  BY <1>6, <1>9

\* The situation of the goroutine that hijacks a connection, or dials: nothing
\* was carried, all that was sent was sent eagerly, and it may be dropped.
LEMMA SwallowFlows ==
  ASSUME Base, Flowing, Onward, NEW c \in Conns, NEW d \in Directions, Swallow(<<c, d>>),
         \/ d = "up" /\ pc[c] = "flushed" /\ proto[c] = "connect"
         \/ d = "down" /\ pc[c] = "dial" /\ tcp'[c],
         UNCHANGED <<proto, tracker>>,
         copier'[<<c, d>>] # "sent",
         \A b \in Conns, k \in Directions : Later(Situation(b, k), Situation(b, k)')
  PROVE  Flowing' /\ flow' \in [Conns \X Directions -> Flows]
<1> DEFINE f == flow[<<c, d>>]
           e == Situation(c, d)
           g == Situation(c, d)'
<1>1. PICK n \in 0..Len(f.wire) :
         flow' = [flow EXCEPT ![<<c, d>>] =
                    [flow[<<c, d>>] EXCEPT !.wire = SubSeq(f.wire, n + 1, Len(f.wire))]]
  BY Zenon DEF Swallow
<1> DEFINE w == SubSeq(f.wire, n + 1, Len(f.wire))
           h == [flow[<<c, d>>] EXCEPT !.wire = w]
<1>2. f \in Flows /\ FlowOK(f, e)
  BY DEF Base, StreamTypes, Flowing
<1>3. /\ h.wire = w /\ h.sent = f.sent /\ h.eager = f.eager /\ h.buf = f.buf
      /\ h.seen = f.seen /\ h.counted = f.counted
  BY <1>2 DEF Flows
<1>4. w \in Seq(Chunks)
  <2>1. f.wire \in Seq(Chunks) /\ Len(f.wire) \in Nat
    BY <1>2, FlowParts
  <2>2. \A i \in (n + 1)..Len(f.wire) : f.wire[i] \in Chunks
    BY <2>1, ElementOfSeq
  <2> QED
    BY <2>1, <2>2, SubSeqProperties
<1>5. h \in Flows
  <2> HIDE DEF w
  <2> QED
    BY <1>2, <1>4 DEF Flows
<1>6. /\ e.copier = None /\ e.at \notin Begun /\ (e.dir = "up" => e.at \in Outside)
      /\ e.dir \in Directions /\ e.tracked = tracker[c]
  <2>1. copier[<<c, d>>] = None /\ pc[c] \notin Begun
    BY DEF Base, Tunnels, Begun, Ended
  <2> QED
    BY <2>1 DEF Situation, Outside
<1>7. /\ g.tracked = tracker[c] /\ g.copier # "sent" /\ Dropping(g)
  BY DEF Situation, Dropping
<1>8. Later(e, g)
  OBVIOUS
<1>9. FlowOK(h, g)
  <2> HIDE DEF f, e, g, h
  <2> QED
    BY <1>2, <1>3, <1>6, <1>7, <1>8, SwallowKeeps DEF w
<1>10. flow' = [flow EXCEPT ![<<c, d>>] = h]
  BY <1>1
<1> HIDE DEF h
<1> QED
  BY <1>5, <1>9, <1>10, OneFlow

\* The connection is taken over, and what came before that is dropped.
LEMMA HijackFlows ==
  ASSUME Base, Flowing, NEW c \in Conns, Hijack(c)
  PROVE  Flowing' /\ flow' \in [Conns \X Directions -> Flows]
<1>1. /\ pc[c] = "flushed" /\ pc' = [pc EXCEPT ![c] = "resolve"]
      /\ UNCHANGED <<proto, tcp, copier, tracker, cut, client, target>>
      /\ Swallow(<<c, "up">>)
  BY DEF Hijack, At, Goto, ends, peer, tracking
<1>2. Onward
  BY <1>1 DEF Onward
<1>3. proto[c] = "connect"
  BY <1>1 DEF Base, Talking, TalkOf, None
<1>4. ASSUME NEW b \in Conns, NEW k \in Directions
      PROVE  Later(Situation(b, k), Situation(b, k)')
  <2>1. /\ pc[b] # None => pc'[b] # None
        /\ pc[b] \in Carried => pc'[b] \in Carried
        /\ pc[b] \in Begun => pc'[b] \in Begun
        /\ pc[b] = "stream" => pc'[b] = "stream"
        /\ pc'[b] \in Outside => pc[b] \in Outside
    BY <1>1 DEF Base, Inv, TrackingTypes, Carried, Begun, Outside, Ended, None
  <2> QED
    BY <1>1, <1>2, <2>1, LaterIs
<1>5. "up" \in Directions
  BY DEF Directions
<1>6. copier'[<<c, "up">>] # "sent"
  BY <1>1, <1>5 DEF Base, Tunnels, None
<1> QED
  BY <1>1, <1>2, <1>3, <1>4, <1>5, <1>6, SwallowFlows

\* The tunnel stands, with or without what the target said before it did.
LEMMA TunnelFlows ==
  ASSUME Base, Flowing, NEW c \in Conns, AutoUpstream(c)
  PROVE  Flowing' /\ flow' \in [Conns \X Directions -> Flows]
<1>0. PICK isTCP \in BOOLEAN : /\ DialTunnel(c, isTCP)
                               /\ \/ isTCP /\ Swallow(<<c, "down">>)
                                  \/ UNCHANGED flow
  BY DEF AutoUpstream, HTTPUpstream, SOCKS5Upstream
<1>1. /\ pc[c] = "dial" /\ pc' = [pc EXCEPT ![c] = "relay"]
      /\ tcp' = [tcp EXCEPT ![c] = isTCP]
      /\ copier' = [r \in Conns \X Directions |-> IF r[1] = c THEN "copy" ELSE copier[r]]
      /\ UNCHANGED <<proto, tracker, cut, client, target>>
  BY <1>0 DEF DialTunnel, At, Goto, peer, tracking
<1>2. Onward
  BY <1>1 DEF Onward
<1>3. /\ ~tcp[c]
      /\ \A k \in Directions : copier[<<c, k>>] = None /\ copier'[<<c, k>>] = "copy"
  BY <1>1 DEF Base, Tunnels
<1>4. ASSUME NEW b \in Conns, NEW k \in Directions
      PROVE  Later(Situation(b, k), Situation(b, k)')
  <2>1. /\ pc[b] # None => pc'[b] # None
        /\ pc[b] \in Carried => pc'[b] \in Carried
        /\ pc[b] \in Begun => pc'[b] \in Begun
        /\ pc[b] = "stream" => pc'[b] = "stream"
        /\ pc'[b] \in Outside => pc[b] \in Outside
    BY <1>1 DEF Base, Inv, TrackingTypes, Carried, Begun, Outside, Ended, None
  <2>2. tcp[b] => tcp'[b]
    BY <1>1, <1>3 DEF Base, StreamTypes
  <2>3. \/ copier'[<<b, k>>] = copier[<<b, k>>]
        \/ copier[<<b, k>>] = None /\ copier'[<<b, k>>] = "copy"
    BY <1>1, <1>3
  <2> QED
    BY <1>1, <1>2, <2>1, <2>2, <2>3, LaterIs
<1>5. CASE UNCHANGED flow
  <2>1. flow \in [Conns \X Directions -> Flows] /\ StreamTypes
    BY DEF Base, StreamTypes
  <2>2. tracker' = tracker
    BY <1>1
  <2> QED
    BY <1>4, <1>5, <2>1, <2>2, SituationsKeep
<1>6. CASE isTCP /\ Swallow(<<c, "down">>)
  <2>1. "down" \in Directions /\ copier'[<<c, "down">>] # "sent"
    BY <1>3 DEF Directions
  <2>2. tcp'[c]
    BY <1>1, <1>6 DEF Base, StreamTypes
  <2> QED
    BY <1>1, <1>2, <1>4, <1>6, <2>1, <2>2, SwallowFlows
<1> QED
  BY <1>0, <1>5, <1>6

\* A connection is accepted: nothing was sent on it before.
LEMMA AcceptFlows ==
  ASSUME Base, Flowing, NEW c \in Conns, NEW p \in Protocols, Accept(c, p)
  PROVE  Flowing'
<1>1. /\ pc[c] = None
      /\ \E where \in {"greeting", "auth"} : pc' = [pc EXCEPT ![c] = where]
      /\ proto' = [proto EXCEPT ![c] = p]
      /\ UNCHANGED <<tcp, copier, tracker, cut, client, target, flow>>
  BY DEF Accept, At, Goto, link, ends, tracking
<1>2. ASSUME NEW b \in Conns, NEW d \in Directions
      PROVE  FlowOK(flow[<<b, d>>], Situation(b, d)')
  <2>1. CASE b # c
    <3>1. pc'[b] = pc[b] /\ proto'[b] = proto[b]
      BY <1>1, <2>1 DEF Base, Inv, TrackingTypes
    <3>2. Situation(b, d)' = Situation(b, d)
      BY <1>1, <3>1 DEF Situation, Sender, Receiver
    <3> QED
      BY <3>2 DEF Flowing
  <2>2. CASE b = c
    <3> DEFINE f == flow[<<b, d>>]
               e == Situation(b, d)
               g == Situation(b, d)'
    <3>1. f \in Flows /\ FlowOK(f, e)
      BY DEF Base, StreamTypes, Flowing
    <3>2. copier[<<b, d>>] = None
      BY <1>1, <2>2 DEF Base, Tunnels, None
    <3>3. e.at = None /\ e.copier = None
      BY <1>1, <2>2, <3>2 DEF Situation
    <3>4. g.copier # "sent"
      BY <1>1, <3>2 DEF Situation, None
    <3> HIDE DEF f, e, g
    <3>5. f.sent = 0 /\ Len(f.seen) = 0 /\ Len(f.buf) = 0 /\ Counters(f)
      BY <3>1, <3>3 DEF FlowOK, Early, Carried, Ended, None
    <3>6. FlowOK(f, g)
      BY <3>1, <3>4, <3>5, NothingSent
    <3> QED
      BY <3>6 DEF f, g
  <2> QED
    BY <2>1, <2>2
<1>3. flow' = flow
  BY <1>1
<1> QED
  BY <1>2, <1>3 DEF Flowing

\* The client or the target ends its side.
LEMMA PeerFlows ==
  ASSUME Base, Flowing, NEW c \in Conns, NEW how \in {"fin", "gone"},
         ClientEnds(c, how) \/ TargetEnds(c, how)
  PROVE  Flowing'
<1>1. Onward
  <2>1. CASE ClientEnds(c, how)
    <3>1. /\ client[c] = "open" /\ client' = [client EXCEPT ![c] = how]
          /\ UNCHANGED target
      BY <2>1 DEF ClientEnds, link, ends
    <3> QED
      BY <3>1 DEF Onward, Base, StreamTypes
  <2>2. CASE TargetEnds(c, how)
    <3>1. /\ target[c] = "open" /\ target' = [target EXCEPT ![c] = how]
          /\ UNCHANGED client
      BY <2>2 DEF TargetEnds, peer
    <3> QED
      BY <3>1 DEF Onward, Base, StreamTypes
  <2> QED
    BY <2>1, <2>2
<1>2. UNCHANGED <<pc, proto, tcp, cut, copier, flow, tracker>>
  BY DEF ClientEnds, TargetEnds, link, ends, tracking
<1> QED
  BY <1>1, <1>2, SameFlows

\* A goroutine goes on and leaves the data alone.
LEMMA GoesOn ==
  ASSUME Base, Flowing, NEW c \in Conns, NEW where,
         pc' = [pc EXCEPT ![c] = where],
         UNCHANGED <<proto, tcp, cut, copier, flow, tracker, client, target>>,
         where # None,
         pc[c] \notin Begun \/ (pc[c] = "relay" /\ where = "done"),
         where \in Outside => pc[c] \in Outside
  PROVE  Flowing' /\ flow' \in [Conns \X Directions -> Flows]
<1>1. Onward
  BY DEF Onward
<1>2. /\ pc[c] \in Carried => where \in Carried
      /\ pc[c] \in Begun => where \in Begun
      /\ pc[c] = "stream" => where = "stream"
  BY DEF Begun, Carried, Ended
<1>3. flow' \in [Conns \X Directions -> Flows]
  BY DEF Base, StreamTypes
<1> QED
  BY <1>1, <1>2, <1>3, MoveFlows

\* Every step keeps the data in order.
LEMMA FlowingStep ==
  ASSUME Base, Flowing, [Next]_vars
  PROVE  Flowing' /\ flow' \in [Conns \X Directions -> Flows]
<1> USE DEF At, Goto, link, ends, tracking, peer
<1> DEFINE Goal == Flowing' /\ flow' \in [Conns \X Directions -> Flows]
<1>0. flow \in [Conns \X Directions -> Flows]
  BY DEF Base, StreamTypes
<1> HIDE DEF Goal
<1> SUFFICES Goal
  BY DEF Goal
<1>1. ASSUME NEW c \in Conns, NEW p \in Protocols, Accept(c, p) PROVE Goal
  <2>1. flow' = flow
    BY <1>1 DEF Accept
  <2> QED
    BY <1>0, <1>1, <2>1, AcceptFlows DEF Goal
<1>2. ASSUME NEW c \in Conns, Handle(c) PROVE Goal
  <2> USE DEF Begun, Outside, Ended, None
  <2>1. CASE AuthFails(c)
    BY <2>1, GoesOn DEF AuthFails, Goal
  <2>2. CASE Dispatch(c)
    <3> DEFINE where == IF proto[c] = "connect" THEN "hijack" ELSE "resolve"
    <3>1. /\ pc' = [pc EXCEPT ![c] = where] /\ where # None /\ pc[c] \notin Begun
          /\ UNCHANGED <<proto, tcp, cut, copier, flow, tracker, client, target>>
          /\ pc[c] \in Outside
      BY <2>2 DEF Dispatch
    <3> HIDE DEF where
    <3> QED
      BY <3>1, GoesOn DEF Goal
  <2>3. CASE Hijack(c)
    BY <2>3, HijackFlows DEF Goal
  <2>4. CASE HijackFails(c)
    BY <2>4, GoesOn DEF HijackFails, Goal
  <2>15. CASE NotHijackable(c)
    BY <2>15, GoesOn DEF NotHijackable, Goal
  <2>16. CASE Announce(c)
    BY <2>16, GoesOn DEF Announce, Goal
  <2>5. CASE Greet(c)
    BY <2>5, GoesOn DEF Greet, Goal
  <2>6. CASE GreetFails(c)
    BY <2>6, GoesOn DEF GreetFails, MethodSent, Goal
  <2>7. CASE ReadRequest(c)
    BY <2>7, GoesOn DEF ReadRequest, Goal
  <2>8. CASE Unsupported(c)
    BY <2>8, GoesOn DEF Unsupported, Goal
  <2>9. CASE RequestFails(c)
    BY <2>9, GoesOn DEF RequestFails, Goal
  <2>10. CASE Intercept(c)
    BY <2>10, GoesOn DEF Intercept, Goal
  <2>11. CASE InterceptEnds(c)
    BY <2>11, GoesOn DEF InterceptEnds, Goal
  <2>12. CASE Handshake(c)
    BY <2>12, GoesOn DEF Handshake, Goal
  <2>13. CASE ServeRequest(c)
    BY <2>13, GoesOn DEF ServeRequest, Goal
  <2>14. CASE RelayReturns(c)
    BY <2>14, GoesOn DEF RelayReturns, Goal
  <2> QED
    BY <1>2, <2>1, <2>2, <2>3, <2>4, <2>5, <2>6, <2>7, <2>8, <2>9, <2>10,
       <2>11, <2>12, <2>13, <2>14, <2>15, <2>16 DEF Handle
<1>3. ASSUME NEW c \in Conns, Answered(c) PROVE Goal
  <2>1. CASE ResolveFails(c) \/ DialFails(c)
    <3> DEFINE where == IF proto[c] = "plain" THEN "kept" ELSE "done"
    <3>1. /\ pc' = [pc EXCEPT ![c] = where] /\ where # None /\ pc[c] \notin Begun
          /\ UNCHANGED <<proto, tcp, cut, copier, flow, tracker, client, target>>
          /\ where \notin Outside
      BY <2>1 DEF ResolveFails, DialFails, Begun, Outside, Ended, None
    <3> HIDE DEF where
    <3> QED
      BY <3>1, GoesOn DEF Goal
  <2>2. CASE ResolveHandled(c)
    <3> DEFINE where == IF proto[c] = "socks5" THEN "done" ELSE "kept"
    <3>1. /\ pc' = [pc EXCEPT ![c] = where] /\ where # None /\ pc[c] \notin Begun
          /\ UNCHANGED <<proto, tcp, cut, copier, flow, tracker, client, target>>
          /\ where \notin Outside
      BY <2>2 DEF ResolveHandled, Begun, Outside, Ended, None
    <3> HIDE DEF where
    <3> QED
      BY <3>1, GoesOn DEF Goal
  <2>3. ASSUME NEW t \in BOOLEAN, ResolveProxy(c, t) \/ ChildProxy(c, t) PROVE Goal
    <3>1. flow' = flow
      BY <2>3 DEF ResolveProxy, ChildProxy
    <3> QED
      BY <1>0, <2>3, <3>1, TrackFlows DEF Goal
  <2>4. CASE AutoUpstream(c)
    BY <2>4, TunnelFlows DEF Goal
  <2>5. CASE ForwardPlainHTTP(c)
    BY <2>5, GoesOn DEF ForwardPlainHTTP, Begun, Outside, Ended, None, Goal
  <2>6. CASE StreamChunk(c)
    BY <2>6, StreamFlows DEF Goal
  <2>10. CASE UploadChunk(c)
    <3>1. UNCHANGED <<pc, proto, tcp, cut, copier, flow, tracker, client, target>>
      BY <2>10 DEF UploadChunk
    <3>2. Onward
      BY <3>1 DEF Onward
    <3> QED
      BY <1>0, <3>1, <3>2, SameFlows DEF Goal
  <2>7. CASE StreamEnds(c)
    BY <2>7, StreamEndFlows DEF Goal
  <2>8. CASE ChildAnswered(c)
    BY <2>8, GoesOn DEF ChildAnswered, Begun, Outside, Ended, None, Goal
  <2>9. CASE RoundTrip(c)
    BY <2>9, GoesOn DEF RoundTrip, Begun, Outside, Ended, None, Goal
  <2> QED
    BY <1>3, <2>1, <2>2, <2>3, <2>4, <2>5, <2>6, <2>7, <2>8, <2>9, <2>10 DEF Answered
<1>4. ASSUME NEW c \in Conns, Peers(c) PROVE Goal
  <2>1. ASSUME NEW m \in {"hello", "connect", "bind", "tls", "http"}, ClientSays(c, m)
        PROVE  Goal
    <3>1. UNCHANGED <<pc, proto, tcp, cut, copier, flow, tracker, client, target>>
      BY <2>1 DEF ClientSays
    <3>2. Onward
      BY <3>1 DEF Onward
    <3> QED
      BY <1>0, <3>1, <3>2, SameFlows DEF Goal
  <2>2. ASSUME NEW how \in {"fin", "gone"}, ClientEnds(c, how) \/ TargetEnds(c, how)
        PROVE  Goal
    <3>1. flow' = flow
      BY <2>2 DEF ClientEnds, TargetEnds
    <3> QED
      BY <1>0, <2>2, <3>1, PeerFlows DEF Goal
  <2>3. ASSUME NEW d \in Directions, Send(c, d) PROVE Goal
    BY <2>3, SendFlows DEF Goal
  <2> QED
    BY <1>4, <2>1, <2>2, <2>3 DEF Peers
<1>5. ASSUME NEW c \in Conns, NEW d \in Directions, Copy(c, d) PROVE Goal
  <2>1. CASE ReadChunk(c, d) \/ Cancel(c, d)
    BY <2>1, ReceiveFlows DEF ReadChunk, Cancel, Goal
  <2>2. CASE WriteChunk(c, d)
    BY <2>2, WriteFlows DEF Goal
  <2>3. CASE ReadEnds(c, d) \/ WriteFails(c, d)
    BY <2>3, ReturnFlows DEF Goal
  <2> QED
    BY <1>5, <2>1, <2>2, <2>3 DEF Copy
<1>6. CASE Signal \/ Exit \/ Stopped \/ UNCHANGED vars
  <2>1. UNCHANGED <<pc, proto, tcp, cut, copier, flow, tracker, client, target>>
    BY <1>6 DEF Signal, Exit, Stopped, vars
  <2>2. Onward
    BY <2>1 DEF Onward
  <2> QED
    BY <1>0, <2>1, <2>2, SameFlows DEF Goal
<1>7. CASE Next
  BY <1>1, <1>2, <1>3, <1>4, <1>5, <1>6, <1>7, Zenon DEF Next
<1> QED
  BY <1>6, <1>7

\* StreamTypes without the data, which FlowingStep has settled.
PeerTypes ==
    /\ server \in {"up", "draining", "exited"}
    /\ mitm \in Interception
    /\ client \in [Conns -> {"open", "fin", "gone"}]
    /\ target \in [Conns -> {"open", "fin", "gone"}]
    /\ upstream \in [Conns -> {None, "open", "closed"}]
    /\ tcp \in [Conns -> BOOLEAN]
    /\ eof \in [Conns \X Directions -> BOOLEAN]
    /\ cut \in [Conns -> BOOLEAN]

LEMMA PeerTypesStep == ASSUME Base, [Next]_vars PROVE PeerTypes'
<1> USE DEF At, Goto, link, ends, tracking, peer
<1>0. PeerTypes
  BY DEF Base, StreamTypes, PeerTypes
<1>s. ASSUME UNCHANGED <<server, mitm, client, target, upstream, tcp, eof, cut>>
      PROVE  PeerTypes'
  BY <1>0, <1>s DEF PeerTypes
<1>1. ASSUME NEW c \in Conns, NEW p \in Protocols, Accept(c, p) PROVE PeerTypes'
  BY <1>1, <1>s DEF Accept
<1>2. ASSUME NEW c \in Conns, Handle(c) PROVE PeerTypes'
  <2>1. CASE RelayReturns(c)
    <3>1. /\ UNCHANGED <<server, mitm, client, target, tcp, eof, cut>>
          /\ upstream' = [upstream EXCEPT ![c] = "closed"]
      BY <2>1 DEF RelayReturns
    <3> QED
      BY <1>0, <3>1 DEF PeerTypes
  <2>2. CASE ~RelayReturns(c)
    <3>1. UNCHANGED <<server, mitm, client, target, upstream, tcp, eof, cut>>
      BY <1>2, <2>2 DEF Handle, AuthFails, Dispatch, NotHijackable, Announce, Hijack,
         HijackFails, Greet,
         GreetFails, ReadRequest, Unsupported, RequestFails, Intercept, InterceptEnds,
         Handshake, ServeRequest
    <3> QED
      BY <1>s, <3>1
  <2> QED
    BY <2>1, <2>2
<1>3. ASSUME NEW c \in Conns, Answered(c) PROVE PeerTypes'
  <2>1. ASSUME NEW t \in BOOLEAN, DialTunnel(c, t) PROVE PeerTypes'
    <3>1. /\ UNCHANGED <<server, mitm, client, target, eof, cut>>
          /\ upstream' = [upstream EXCEPT ![c] = "open"]
          /\ tcp' = [tcp EXCEPT ![c] = t]
      BY <2>1 DEF DialTunnel
    <3> QED
      BY <1>0, <3>1 DEF PeerTypes
  <2>2. CASE AutoUpstream(c)
    BY <2>1, <2>2 DEF AutoUpstream, HTTPUpstream, SOCKS5Upstream
  <2>3. CASE ~AutoUpstream(c)
    <3>1. UNCHANGED <<server, mitm, client, target, upstream, tcp, eof, cut>>
      BY <1>3, <2>3 DEF Answered, ResolveFails, ResolveHandled, DialFails, ResolveProxy,
         ChildProxy, ForwardPlainHTTP, UploadChunk, StreamChunk, StreamEnds, ChildAnswered, RoundTrip
    <3> QED
      BY <1>s, <3>1
  <2> QED
    BY <2>2, <2>3
<1>4. ASSUME NEW c \in Conns, Peers(c) PROVE PeerTypes'
  <2>1. ASSUME NEW how \in {"fin", "gone"}, ClientEnds(c, how) PROVE PeerTypes'
    <3>1. /\ UNCHANGED <<server, mitm, target, upstream, tcp, eof, cut>>
          /\ client' = [client EXCEPT ![c] = how]
      BY <2>1 DEF ClientEnds
    <3> QED
      BY <1>0, <3>1 DEF PeerTypes
  <2>2. ASSUME NEW how \in {"fin", "gone"}, TargetEnds(c, how) PROVE PeerTypes'
    <3>1. /\ UNCHANGED <<server, mitm, client, upstream, tcp, eof, cut>>
          /\ target' = [target EXCEPT ![c] = how]
      BY <2>2 DEF TargetEnds
    <3> QED
      BY <1>0, <3>1 DEF PeerTypes
  <2>3. ASSUME NEW m \in {"hello", "connect", "bind", "tls", "http"}, ClientSays(c, m)
        PROVE  PeerTypes'
    BY <2>3, <1>s DEF ClientSays
  <2>4. ASSUME NEW d \in Directions, Send(c, d) PROVE PeerTypes'
    BY <2>4, <1>s DEF Send
  <2> QED
    BY <1>4, <2>1, <2>2, <2>3, <2>4 DEF Peers
<1>5. ASSUME NEW c \in Conns, NEW d \in Directions, Copy(c, d) PROVE PeerTypes'
  <2>1. CASE WriteChunk(c, d)
    BY <2>1, <1>s DEF WriteChunk
  <2>2. CASE ReadChunk(c, d)
    BY <2>2, <1>s DEF ReadChunk, Receive
  <2>3. CASE Cancel(c, d)
    <3>1. /\ UNCHANGED <<server, mitm, client, target, upstream, tcp, eof>>
          /\ cut' = [cut EXCEPT ![c] = TRUE]
      BY <2>3 DEF Cancel, Receive
    <3> QED
      BY <1>0, <3>1 DEF PeerTypes
  <2>4. CASE CopyReturns(c, d)
    <3>1. /\ UNCHANGED <<server, mitm, client, target, upstream, tcp, cut>>
          /\ eof' = [eof EXCEPT ![<<c, d>>] = HalfClose(c, d)]
      BY <2>4 DEF CopyReturns
    <3>2. HalfClose(c, d) \in BOOLEAN
      BY <1>0 DEF HalfClose, PeerTypes
    <3> QED
      BY <1>0, <3>1, <3>2 DEF PeerTypes
  <2> QED
    BY <1>5, <2>1, <2>2, <2>3, <2>4 DEF Copy, ReadEnds, WriteFails
<1>6. CASE Signal \/ Exit \/ Stopped \/ UNCHANGED vars
  <2>1. /\ UNCHANGED <<mitm, client, target, upstream, tcp, eof, cut>>
        /\ server' \in {server, "draining", "exited"}
    BY <1>6 DEF Signal, Exit, Stopped, vars
  <2> QED
    BY <1>0, <2>1 DEF PeerTypes
<1>7. CASE Next
  BY <1>1, <1>2, <1>3, <1>4, <1>5, <1>6, <1>7, Zenon DEF Next
<1> QED
  BY <1>6, <1>7

\* A goroutine moves, other than into the relay.
LEMMA TunnelsMove ==
  ASSUME Base, NEW c \in Conns, NEW where, pc' = [pc EXCEPT ![c] = where],
         where = "done" \/ (where # "relay" /\ pc[c] \notin {"relay", "done"}),
         UNCHANGED <<tcp, cut, copier>>
  PROVE  Tunnels'
  BY DEF Base, Inv, TrackingTypes, Tunnels

LEMMA TunnelsStep == ASSUME Base, [Next]_vars PROVE Tunnels'
<1> USE DEF At, Goto, link, ends, tracking, peer
<1>0. pc \in [Conns -> Places] /\ Tunnels
  BY DEF Base, Inv, TrackingTypes
<1>s. ASSUME UNCHANGED <<pc, tcp, cut, copier>> PROVE Tunnels'
  BY <1>0, <1>s DEF Tunnels
<1>1. ASSUME NEW c \in Conns, NEW p \in Protocols, Accept(c, p) PROVE Tunnels'
  <2>1. /\ pc[c] = None /\ UNCHANGED <<tcp, cut, copier>>
        /\ \E where \in {"greeting", "auth"} : pc' = [pc EXCEPT ![c] = where]
    BY <1>1 DEF Accept
  <2> QED
    BY <2>1, TunnelsMove DEF None
<1>2. ASSUME NEW c \in Conns, Handle(c) PROVE Tunnels'
  <2>1. PICK where : /\ pc' = [pc EXCEPT ![c] = where] /\ UNCHANGED <<tcp, cut, copier>>
                     /\ where = "done" \/ (where # "relay" /\ pc[c] \notin {"relay", "done"})
    <3>1. CASE Dispatch(c)
      <4>1. \E where \in {"hijack", "resolve"} : pc' = [pc EXCEPT ![c] = where]
        BY <3>1 DEF Dispatch
      <4>2. pc[c] = "auth" /\ UNCHANGED <<tcp, cut, copier>>
        BY <3>1 DEF Dispatch
      <4> QED
        BY <4>1, <4>2
    <3>2. CASE RelayReturns(c)
      BY <3>2 DEF RelayReturns
    <3>3. CASE AuthFails(c) \/ NotHijackable(c) \/ Announce(c) \/ Hijack(c) \/ HijackFails(c)
      BY <3>3 DEF AuthFails, NotHijackable, Announce, Hijack, HijackFails
    <3>4. CASE Greet(c) \/ GreetFails(c) \/ ReadRequest(c) \/ Unsupported(c) \/ RequestFails(c)
      BY <3>4 DEF Greet, GreetFails, ReadRequest, Unsupported, RequestFails
    <3>5. CASE Intercept(c) \/ InterceptEnds(c) \/ Handshake(c) \/ ServeRequest(c)
      BY <3>5 DEF Intercept, InterceptEnds, Handshake, ServeRequest
    <3> QED
      BY <1>2, <3>1, <3>2, <3>3, <3>4, <3>5 DEF Handle
  <2> QED
    BY <2>1, TunnelsMove
<1>3. ASSUME NEW c \in Conns, Answered(c) PROVE Tunnels'
  <2>1. ASSUME NEW t \in BOOLEAN, DialTunnel(c, t) PROVE Tunnels'
    <3>1. /\ pc' = [pc EXCEPT ![c] = "relay"] /\ tcp' = [tcp EXCEPT ![c] = t]
          /\ copier' = [r \in Conns \X Directions |->
                           IF r[1] = c THEN "copy" ELSE copier[r]]
          /\ cut' = cut
      BY <2>1 DEF DialTunnel
    <3>2. ASSUME NEW b \in Conns, NEW k \in Directions
          PROVE  copier'[<<b, k>>] = IF b = c THEN "copy" ELSE copier[<<b, k>>]
      BY <3>1
    <3>3. tcp \in [Conns -> BOOLEAN]
      BY DEF Base, StreamTypes
    <3> QED
      BY <1>0, <3>1, <3>2, <3>3 DEF Tunnels, None
  <2>2. CASE AutoUpstream(c)
    BY <2>1, <2>2 DEF AutoUpstream, HTTPUpstream, SOCKS5Upstream
  <2>3. CASE UploadChunk(c) \/ StreamChunk(c)
    BY <2>3, <1>s DEF UploadChunk, StreamChunk
  <2>4. CASE ~AutoUpstream(c) /\ ~UploadChunk(c) /\ ~StreamChunk(c)
    <3>1. PICK where : /\ pc' = [pc EXCEPT ![c] = where] /\ UNCHANGED <<tcp, cut, copier>>
                       /\ where = "done" \/ (where # "relay" /\ pc[c] \notin {"relay", "done"})
      <4>1. CASE ResolveFails(c) \/ ResolveHandled(c) \/ DialFails(c)
        BY <4>1 DEF ResolveFails, ResolveHandled, DialFails
      <4>2. CASE \E t \in BOOLEAN : ResolveProxy(c, t) \/ ChildProxy(c, t)
        BY <4>2 DEF ResolveProxy, ChildProxy
      <4>3. CASE ForwardPlainHTTP(c) \/ StreamEnds(c) \/ ChildAnswered(c) \/ RoundTrip(c)
        BY <4>3 DEF ForwardPlainHTTP, StreamEnds, ChildAnswered, RoundTrip
      <4> QED
        BY <1>3, <2>4, <4>1, <4>2, <4>3 DEF Answered
    <3> QED
      BY <3>1, TunnelsMove
  <2> QED
    BY <2>2, <2>3, <2>4
<1>4. ASSUME NEW c \in Conns, Peers(c) PROVE Tunnels'
  BY <1>4, <1>s DEF Peers, ClientSays, ClientEnds, TargetEnds, Send
<1>5. ASSUME NEW c \in Conns, NEW d \in Directions, Copy(c, d) PROVE Tunnels'
  <2>1. /\ UNCHANGED <<pc, tcp>>
        /\ cut' = cut \/ cut' = [cut EXCEPT ![c] = TRUE]
        /\ copier' = copier \/ copier' = [copier EXCEPT ![<<c, d>>] = "sent"]
        /\ Copying(c, d)
    BY <1>5 DEF Copy, ReadEnds, WriteFails, CopyReturns, ReadChunk, Cancel, Receive, WriteChunk
  <2>2. pc[c] = "relay"
    BY <2>1 DEF Copying, Base, Inv, Phases
  <2>3. cut \in [Conns -> BOOLEAN]
    BY DEF Base, StreamTypes
  <2>4. ASSUME NEW b \in Conns, b # c
        PROVE  cut'[b] = cut[b] /\ \A k \in Directions : copier'[<<b, k>>] = copier[<<b, k>>]
    BY <2>1, <2>3, <2>4 DEF Base, Inv, TrackingTypes
  <2>5. \A k \in Directions : copier'[<<c, k>>] \in {copier[<<c, k>>], "sent"}
    BY <2>1 DEF Base, Inv, TrackingTypes
  <2> QED
    BY <1>0, <2>1, <2>2, <2>4, <2>5 DEF Tunnels, None
<1>6. CASE Signal \/ Exit \/ Stopped \/ UNCHANGED vars
  BY <1>6, <1>s DEF Signal, Exit, Stopped, vars
<1>7. CASE Next
  BY <1>1, <1>2, <1>3, <1>4, <1>5, <1>6, <1>7, Zenon DEF Next
<1> QED
  BY <1>6, <1>7

LEMMA StreamInit == Init => StreamTypes /\ Tunnels /\ Flowing
<1> SUFFICES ASSUME Init PROVE StreamTypes /\ Tunnels /\ Flowing
  OBVIOUS
<1> DEFINE f == [sent |-> 0, eager |-> 0, wire |-> <<>>, buf |-> <<>>,
                 seen |-> <<>>, counted |-> 0]
<1>1. f \in Flows
  <2>1. <<>> \in Seq(Chunks) /\ 0 \in 0..MaxChunks
    BY DownstreamAssumption, EmptySeq
  <2> QED
    BY <2>1 DEF Flows
<1>2. flow = [r \in Conns \X Directions |-> f]
  BY DEF Init
<1>3. StreamTypes
  <2>1. flow \in [Conns \X Directions -> Flows]
    BY <1>1, <1>2
  <2> QED
    BY <2>1 DEF Init, StreamTypes
<1>4. Tunnels
  <2>1. \A c \in Conns, d \in Directions : copier[<<c, d>>] = None
    BY DEF Init
  <2> QED
    BY <2>1 DEF Init, Tunnels, None
<1>5. ASSUME NEW c \in Conns, NEW d \in Directions
      PROVE  FlowOK(flow[<<c, d>>], Situation(c, d))
  <2>1. flow[<<c, d>>] = f
    BY <1>2
  <2>2. Situation(c, d).copier # "sent"
    BY DEF Init, Situation, None
  <2>3. f.sent = 0 /\ Len(f.seen) = 0 /\ Len(f.buf) = 0 /\ Counters(f)
    BY EmptySeq DEF Counters
  <2> HIDE DEF f
  <2> QED
    BY <1>1, <2>1, <2>2, <2>3, NothingSent
<1> QED
  BY <1>3, <1>4, <1>5 DEF Flowing

LEMMA StreamStep == Base /\ Flowing /\ [Next]_vars => Base' /\ Flowing'
<1> SUFFICES ASSUME Base, Flowing, [Next]_vars PROVE Base' /\ Flowing'
  OBVIOUS
<1>1. Inv' /\ Talking'
  BY InvStep, TalkingStep DEF Base
<1>2. Flowing' /\ flow' \in [Conns \X Directions -> Flows]
  BY FlowingStep
<1>3. PeerTypes' /\ Tunnels'
  BY PeerTypesStep, TunnelsStep
<1>4. StreamTypes'
  BY <1>2, <1>3 DEF PeerTypes, StreamTypes
<1> QED
  BY <1>1, <1>2, <1>3, <1>4 DEF Base

\* Chunks in order, one behind the other, are a stretch of the numbers.
LEMMA Stretch ==
  ASSUME NEW f \in Flows, NEW lost \in Nat, InOrder(f, lost, TRUE)
  PROVE  f.seen \o f.buf \o f.wire = [i \in 1..(f.sent - lost) |-> lost + i]
<1> DEFINE s == f.seen
           b == f.buf
           w == f.wire
           n == f.sent
<1>a. s \in Seq(Chunks) /\ b \in Seq(Chunks) /\ w \in Seq(Chunks) /\ n \in Nat
  BY FlowParts
<1>b. /\ \A i \in 1..Len(s) : s[i] = lost + i
      /\ \A i \in 1..Len(b) : b[i] = lost + Len(s) + i
      /\ \A i \in 1..Len(w) : w[i] = lost + Len(s) + Len(b) + i
      /\ lost + Len(s) + Len(b) + Len(w) = n
  BY DEF InOrder
<1> HIDE DEF s, b, w, n
<1> DEFINE t == s \o b
           u == t \o w
<1>0. Len(s) \in Nat /\ Len(b) \in Nat /\ Len(w) \in Nat
  BY <1>a, LenProperties
<1>1. /\ t \in Seq(Chunks) /\ Len(t) = Len(s) + Len(b)
      /\ \A i \in 1..(Len(s) + Len(b)) :
            t[i] = IF i <= Len(s) THEN s[i] ELSE b[i - Len(s)]
  BY <1>a, ConcatProperties
<1> HIDE DEF t
<1>2. /\ u \in Seq(Chunks) /\ Len(u) = Len(t) + Len(w)
      /\ \A i \in 1..(Len(t) + Len(w)) :
            u[i] = IF i <= Len(t) THEN t[i] ELSE w[i - Len(t)]
  <2>1. t \in Seq(Chunks)
    BY <1>1
  <2> QED
    BY <1>a, <2>1, ConcatProperties
<1> HIDE DEF u
<1>3. ASSUME NEW i \in 1..Len(t) PROVE t[i] = lost + i
  <2>1. CASE i <= Len(s)
    <3>1. i \in 1..Len(s)
      BY <1>0, <2>1
    <3> QED
      BY <1>1, <1>b, <2>1, <3>1
  <2>2. CASE ~(i <= Len(s))
    <3>1. i - Len(s) \in 1..Len(b) /\ t[i] = b[i - Len(s)]
      BY <1>0, <1>1, <2>2
    <3>2. b[i - Len(s)] = lost + Len(s) + (i - Len(s))
      BY <1>b, <3>1
    <3> QED
      BY <1>0, <1>1, <3>1, <3>2
  <2> QED
    BY <2>1, <2>2
<1>4. ASSUME NEW i \in 1..Len(u) PROVE u[i] = lost + i
  <2>0. Len(t) \in Nat /\ i \in Nat
    BY <1>0, <1>1, <1>2
  <2>1. CASE i <= Len(t)
    <3>1. i \in 1..Len(t)
      BY <2>0, <2>1
    <3> QED
      BY <1>2, <1>3, <2>1, <3>1
  <2>2. CASE ~(i <= Len(t))
    <3>1. i - Len(t) \in 1..Len(w) /\ u[i] = w[i - Len(t)]
      BY <1>0, <1>2, <2>0, <2>2
    <3>2. w[i - Len(t)] = lost + Len(s) + Len(b) + (i - Len(t))
      BY <1>b, <3>1
    <3> QED
      BY <1>0, <1>1, <2>0, <3>1, <3>2
  <2> QED
    BY <2>1, <2>2
<1>5. Len(u) = n - lost
  BY <1>0, <1>1, <1>2, <1>a, <1>b
<1>6. u \in [1..Len(u) -> Chunks]
  BY <1>2, LenProperties
<1>7. u = [i \in 1..(n - lost) |-> lost + i]
  BY <1>4, <1>5, <1>6
<1> QED
  BY <1>7 DEF s, b, w, n, t, u

\* The invariant says what the properties of a direction say.
LEMMA FlowingIntact == Base /\ Flowing => StreamsIntact
<1> SUFFICES ASSUME Base, Flowing PROVE StreamsIntact
  OBVIOUS
<1> SUFFICES ASSUME NEW c \in Conns, NEW d \in Directions
             PROVE  LET f == flow[<<c, d>>]
                        whole == ~cut[c] /\ Receiver(c, d) # "gone"
                    IN  /\ \E lost \in 0..(IF Swallows(c, d) THEN f.eager ELSE 0) :
                              /\ \A i \in 1..Len(f.seen) : f.seen[i] = lost + i
                              /\ whole => f.seen \o f.buf \o f.wire =
                                             [i \in 1..(f.sent - lost) |-> lost + i]
                        /\ whole /\ copier[<<c, d>>] = "sent" /\ Sender(c, d) = "fin" =>
                              f.buf \o f.wire = <<>>
  BY DEF StreamsIntact
<1> DEFINE f == flow[<<c, d>>]
           e == Situation(c, d)
           whole == ~cut[c] /\ Receiver(c, d) # "gone"
<1>1. f \in Flows /\ FlowOK(f, e)
  BY DEF Base, StreamTypes, Flowing
<1>2. Whole(e) = whole /\ Dropping(e) = Swallows(c, d)
  BY DEF Whole, Dropping, Swallows, Situation, Base, StreamTypes
<1>3. PICK lost \in 0..(IF Dropping(e) THEN f.eager ELSE 0) : InOrder(f, lost, Whole(e))
  BY <1>1 DEF FlowOK, Ordered
<1>4. /\ f.sent \in Nat /\ f.eager \in Nat /\ lost \in Nat
      /\ f.wire \in Seq(Chunks) /\ f.buf \in Seq(Chunks) /\ f.seen \in Seq(Chunks)
  BY <1>1, <1>3, FlowParts
<1>5. \A i \in 1..Len(f.seen) : f.seen[i] = lost + i
  BY <1>3 DEF InOrder
<1>6. ASSUME whole
      PROVE  f.seen \o f.buf \o f.wire = [i \in 1..(f.sent - lost) |-> lost + i]
  <2>1. InOrder(f, lost, TRUE)
    BY <1>2, <1>3, <1>6 DEF InOrder
  <2> HIDE DEF f
  <2> QED
    BY <1>1, <1>4, <2>1, Stretch
<1>7. ASSUME whole, copier[<<c, d>>] = "sent", Sender(c, d) = "fin"
      PROVE  f.buf \o f.wire = <<>>
  <2>1. e.copier = "sent" /\ e.sender = "fin"
    BY <1>7 DEF Situation
  <2>2. Len(f.buf) = 0 /\ Len(f.wire) = 0
    BY <1>1, <1>2, <1>7, <2>1 DEF FlowOK, Finished
  <2>3. f.buf = <<>> /\ f.wire = <<>>
    BY <1>4, <2>2, EmptySeq
  <2>4. <<>> \o <<>> = <<>>
    BY EmptySeq, ConcatEmptySeq
  <2> QED
    BY <2>3, <2>4
<1>8. lost \in 0..(IF Swallows(c, d) THEN f.eager ELSE 0)
  BY <1>2, <1>3
<1> HIDE DEF f, whole
<1>9. \E l \in 0..(IF Swallows(c, d) THEN f.eager ELSE 0) :
         /\ \A i \in 1..Len(f.seen) : f.seen[i] = l + i
         /\ whole => f.seen \o f.buf \o f.wire = [i \in 1..(f.sent - l) |-> l + i]
  BY <1>5, <1>6, <1>8
<1> QED
  BY <1>7, <1>9 DEF f, whole

LEMMA FlowingCounted ==
  ASSUME Base, Flowing, NEW c \in Conns, NEW d \in Directions
  PROVE  LET f == flow[<<c, d>>]
             ahead == f.counted - Len(f.seen)
         IN  /\ ~tracker[c] => f.counted = 0
             /\ tracker[c] /\ Receiver(c, d) # "gone" /\ pc[c] # "stream" =>
                   ahead = Len(f.buf)
                      \/ (ahead = 1 /\ cut[c] /\ copier[<<c, d>>] = "sent")
<1> DEFINE f == flow[<<c, d>>]
           e == Situation(c, d)
<1>1. f \in Flows /\ FlowOK(f, e)
  BY DEF Base, StreamTypes, Flowing
<1>2. /\ e.tracked = tracker[c] /\ e.receiver = Receiver(c, d) /\ e.at = pc[c]
      /\ e.cut = cut[c] /\ e.copier = copier[<<c, d>>]
  BY DEF Situation
<1>3. PICK ls \in Nat, lb \in Nat, n \in Nat :
         Len(f.seen) = ls /\ Len(f.buf) = lb /\ f.counted = n
  BY <1>1, FlowParts
<1> HIDE DEF f, e
<1>4. ~tracker[c] => f.counted = 0
  BY <1>1, <1>2 DEF FlowOK, Recorded
<1>5. ASSUME tracker[c], Receiver(c, d) # "gone", pc[c] # "stream"
      PROVE  \/ n - ls = lb
             \/ n - ls = 1 /\ cut[c] /\ copier[<<c, d>>] = "sent"
  <2>1. \/ n = ls + lb
        \/ n = ls + 1 /\ cut[c] /\ copier[<<c, d>>] = "sent"
    BY <1>1, <1>2, <1>3, <1>5 DEF FlowOK, Recorded
  <2> QED
    BY <2>1
<1> QED
  BY <1>3, <1>4, <1>5 DEF f

\* Whatever the interleaving of sender, copying goroutines, limits and ends,
\* a stream arrives in order, none of it twice and none left out but an eager
\* beginning, and all of it when the sender has finished.
THEOREM StreamsKept == Spec => []StreamsIntact
<1>1. Init => Base /\ Flowing
  BY InvInit, TalkingInit, StreamInit DEF Base
<1>2. Base /\ Flowing /\ [Next]_vars => Base' /\ Flowing'
  BY StreamStep
<1>3. Base /\ Flowing => StreamsIntact
  BY FlowingIntact
<1> QED
  BY <1>1, <1>2, <1>3, PTL DEF Spec

-----------------------------------------------------------------------------
\* Of the body q of a request of protocol p, with or without a tracker (t), whose
\* goroutine is at where and has answered rs: no more is carried than was
\* declared; something is recorded only at the end of a tracked plain request,
\* and then, if it was declared and passed on, no less than was carried.
BodyOK(q, t, where, p, rs) ==
    /\ q.length # -1 => q.carried <= q.length
    /\ where = None => q.carried = 0 /\ ~t
    /\ p = "plain" /\ t => where \in {"dial", "stream", "kept"}
    /\ q.counted # 0 => p = "plain" /\ t /\ where = "kept"
    /\ p = "plain" /\ t /\ where = "kept" /\ rs = <<"response">> /\ q.length # -1 =>
          q.carried <= q.counted

Uploads ==
    /\ request \in [Conns -> Requests]
    /\ \A c \in Conns : BodyOK(request[c], tracker[c], pc[c], proto[c], replies[c])

LEMMA UploadsInit == Init => Uploads
<1> SUFFICES ASSUME Init PROVE Uploads
  OBVIOUS
<1> DEFINE q == [length |-> 0, carried |-> 0, counted |-> 0]
<1>1. q \in Requests
  BY DownstreamAssumption DEF Requests
<1>2. request = [c \in Conns |-> q]
  BY DEF Init
<1>3. ASSUME NEW c \in Conns
      PROVE  BodyOK(request[c], tracker[c], pc[c], proto[c], replies[c])
  <2>1. request[c] = q /\ ~tracker[c] /\ pc[c] = None /\ proto[c] = None
    BY <1>2 DEF Init
  <2> QED
    BY <2>1 DEF BodyOK
<1> QED
  BY <1>1, <1>2, <1>3 DEF Uploads

\* A step changes what is known of one connection.
LEMMA OneUpload ==
  ASSUME Base, Uploads, NEW c \in Conns,
         NEW q \in Requests, NEW t, NEW where, NEW p, NEW rs,
         request' = [request EXCEPT ![c] = q], tracker' = [tracker EXCEPT ![c] = t],
         pc' = [pc EXCEPT ![c] = where], proto' = [proto EXCEPT ![c] = p],
         replies' = [replies EXCEPT ![c] = rs], BodyOK(q, t, where, p, rs)
  PROVE  Uploads'
<1>0. /\ request \in [Conns -> Requests] /\ DOMAIN tracker = Conns /\ DOMAIN pc = Conns
      /\ DOMAIN proto = Conns /\ DOMAIN replies = Conns
  BY DEF Base, Inv, TrackingTypes, Talking, Uploads
<1>1. ASSUME NEW b \in Conns
      PROVE  BodyOK(request'[b], tracker'[b], pc'[b], proto'[b], replies'[b])
  <2>1. CASE b = c
    <3>1. /\ request'[b] = q /\ tracker'[b] = t /\ pc'[b] = where /\ proto'[b] = p
          /\ replies'[b] = rs
      BY <1>0, <2>1
    <3> QED
      BY <3>1
  <2>2. CASE b # c
    <3>1. /\ request'[b] = request[b] /\ tracker'[b] = tracker[b] /\ pc'[b] = pc[b]
          /\ proto'[b] = proto[b] /\ replies'[b] = replies[b]
      BY <1>0, <2>2
    <3> QED
      BY <3>1 DEF Uploads
  <2> QED
    BY <2>1, <2>2
<1> QED
  BY <1>0, <1>1 DEF Uploads

\* The goroutine of a connection that is not a tracked plain request moves, or
\* that of one that is goes on to the response or refuses the request.
LEMMA MoveUploads ==
  ASSUME Base, Uploads, NEW c \in Conns, NEW where, NEW rs,
         pc' = [pc EXCEPT ![c] = where], replies' = [replies EXCEPT ![c] = rs],
         UNCHANGED <<request, tracker, proto>>,
         pc[c] \notin {None, "kept"}, where # None,
         \/ proto[c] # "plain" \/ ~tracker[c] \/ where = "stream"
         \/ where = "kept" /\ rs # <<"response">>
  PROVE  Uploads'
<1>1. /\ request' = [request EXCEPT ![c] = request[c]] /\ request[c] \in Requests
      /\ tracker' = [tracker EXCEPT ![c] = tracker[c]]
      /\ proto' = [proto EXCEPT ![c] = proto[c]]
  BY DEF Base, Inv, TrackingTypes, Uploads
<1>2. BodyOK(request[c], tracker[c], pc[c], proto[c], replies[c])
  BY DEF Uploads
<1>3. BodyOK(request[c], tracker[c], where, proto[c], rs)
  BY <1>2 DEF BodyOK, None
<1> QED
  BY <1>1, <1>3, OneUpload

LEMMA UploadsStep == ASSUME Base, Uploads, [Next]_vars PROVE Uploads'
<1> USE DEF At, Goto, Answer, link, ends, tracking, peer
<1>0. /\ request \in [Conns -> Requests] /\ replies \in [Conns -> Seq(Answers)]
      /\ tracker \in [Conns -> BOOLEAN] /\ pc \in [Conns -> Places]
      /\ proto \in [Conns -> Protocols \cup {None}]
      /\ \A c \in Conns : BodyOK(request[c], tracker[c], pc[c], proto[c], replies[c])
  BY DEF Base, Inv, TrackingTypes, Talking, Uploads
<1>s. ASSUME UNCHANGED <<request, tracker, pc, proto, replies>> PROVE Uploads'
  BY <1>s DEF Uploads
\* Before it is resolved a plain request has no tracker.
<1>u. ASSUME NEW c \in Conns, pc[c] \notin {"dial", "stream", "kept"}
      PROVE  proto[c] # "plain" \/ ~tracker[c]
  BY <1>0, <1>u DEF BodyOK
\* A goroutine moves that has no tracked plain request in its hands.
<1>m. ASSUME NEW c \in Conns, NEW where, NEW rs, pc' = [pc EXCEPT ![c] = where],
             replies' = [replies EXCEPT ![c] = rs], UNCHANGED <<request, tracker, proto>>,
             where # None, pc[c] \notin {None, "dial", "stream", "kept"}
      PROVE  Uploads'
  <2>1. proto[c] # "plain" \/ ~tracker[c]
    BY <1>m, <1>u
  <2> QED
    BY <1>m, <2>1, MoveUploads
<1>n. ASSUME NEW c \in Conns, NEW where, pc' = [pc EXCEPT ![c] = where],
             UNCHANGED <<request, tracker, proto, replies>>,
             where # None, pc[c] \notin {None, "dial", "stream", "kept"}
      PROVE  Uploads'
  <2>1. replies' = [replies EXCEPT ![c] = replies[c]]
    BY <1>0, <1>n
  <2> QED
    BY <1>m, <1>n, <2>1
<1>1. ASSUME NEW c \in Conns, NEW p \in Protocols, Accept(c, p) PROVE Uploads'
  <2>1. PICK n \in -1..MaxChunks : request' = [request EXCEPT ![c].length = n]
    <3>1. 0 \in -1..MaxChunks
      BY DownstreamAssumption
    <3>2. \E n \in IF p = "plain" THEN -1..MaxChunks ELSE {0} :
             request' = [request EXCEPT ![c].length = n]
      BY <1>1, Zenon DEF Accept
    <3>3. CASE p = "plain"
      BY <3>2, <3>3, Zenon
    <3>4. CASE p # "plain"
      BY <3>1, <3>2, <3>4, Zenon
    <3> QED
      BY <3>3, <3>4
  <2> DEFINE q == [request[c] EXCEPT !.length = n]
             where == IF p = "socks5" THEN "greeting" ELSE "auth"
  <2>2. /\ request' = [request EXCEPT ![c] = q] /\ pc' = [pc EXCEPT ![c] = where]
        /\ proto' = [proto EXCEPT ![c] = p] /\ UNCHANGED <<tracker, replies>>
        /\ pc[c] = None
    BY <1>1, <2>1, Zenon DEF Accept
  <2>3. tracker' = [tracker EXCEPT ![c] = tracker[c]] /\ replies' = [replies EXCEPT ![c] = replies[c]]
    BY <1>0, <2>2
  <2>4. q \in Requests /\ q.length = n /\ q.carried = request[c].carried
           /\ q.counted = request[c].counted
    BY <1>0 DEF Requests
  <2>5. request[c].carried = 0 /\ request[c].counted = 0 /\ ~tracker[c]
    BY <1>0, <2>2 DEF BodyOK, None
  <2>6. where # None /\ where # "kept"
    BY DEF None
  <2> HIDE DEF q, where
  <2>7. BodyOK(q, tracker[c], where, p, replies[c])
    BY <2>4, <2>5, <2>6 DEF BodyOK
  <2> QED
    BY <2>2, <2>3, <2>4, <2>7, OneUpload
<1>2. ASSUME NEW c \in Conns, Handle(c) PROVE Uploads'
  <2>1. CASE Announce(c)
    BY <2>1, <1>m DEF Announce, None
  <2>2. CASE AuthFails(c)
    BY <2>2, <1>m DEF AuthFails, None
  <2>3. CASE Dispatch(c)
    <3>1. PICK where \in {"hijack", "resolve"} : pc' = [pc EXCEPT ![c] = where]
      BY <2>3 DEF Dispatch
    <3> QED
      BY <2>3, <3>1, <1>n DEF Dispatch, None
  <2>4. CASE NotHijackable(c)
    BY <2>4, <1>m DEF NotHijackable, None
  <2>5. CASE Hijack(c)
    BY <2>5, <1>n DEF Hijack, None
  <2>6. CASE HijackFails(c)
    BY <2>6, <1>n DEF HijackFails, None
  <2>7. CASE Greet(c)
    BY <2>7, <1>m DEF Greet, None
  <2>8. CASE GreetFails(c)
    BY <2>8, <1>m, <1>n DEF GreetFails, MethodSent, None
  <2>9. CASE ReadRequest(c)
    BY <2>9, <1>n DEF ReadRequest, None
  <2>10. CASE Unsupported(c)
    BY <2>10, <1>m DEF Unsupported, None
  <2>11. CASE RequestFails(c)
    BY <2>11, <1>m DEF RequestFails, None
  <2>12. CASE Intercept(c)
    BY <2>12, <1>n DEF Intercept, None
  <2>13. CASE InterceptEnds(c)
    BY <2>13, <1>n DEF InterceptEnds, None
  <2>14. CASE Handshake(c)
    BY <2>14, <1>m DEF Handshake, None
  <2>15. CASE ServeRequest(c)
    BY <2>15, <1>n DEF ServeRequest, None
  <2>16. CASE RelayReturns(c)
    BY <2>16, <1>n DEF RelayReturns, None
  <2> QED
    BY <1>2, <2>1, <2>2, <2>3, <2>4, <2>5, <2>6, <2>7, <2>8, <2>9, <2>10,
       <2>11, <2>12, <2>13, <2>14, <2>15, <2>16 DEF Handle
<1>3. ASSUME NEW c \in Conns, Answered(c) PROVE Uploads'
  <2>1. CASE ResolveFails(c)
    <3>1. PICK where \in {"kept", "done"} : pc' = [pc EXCEPT ![c] = where]
      BY <2>1 DEF ResolveFails
    <3> QED
      BY <2>1, <3>1, <1>m, <1>n DEF ResolveFails, None
  <2>2. CASE ResolveHandled(c)
    <3>1. PICK where \in {"kept", "done"} : pc' = [pc EXCEPT ![c] = where]
      BY <2>2 DEF ResolveHandled
    <3> QED
      BY <2>2, <3>1, <1>m, <1>n DEF ResolveHandled, None
  <2>3. CASE DialFails(c) /\ proto[c] # "plain"
    <3>1. PICK rs : replies' = [replies EXCEPT ![c] = rs]
      BY <1>0, <2>3 DEF DialFails
    <3>2. /\ pc' = [pc EXCEPT ![c] = "done"] /\ pc[c] = "dial"
          /\ UNCHANGED <<request, tracker, proto>>
      BY <2>3 DEF DialFails
    <3> QED
      BY <2>3, <3>1, <3>2, MoveUploads DEF None
  <2>4. CASE DialFails(c) /\ proto[c] = "plain"
    <3> DEFINE rs == Append(replies[c], "error")
    <3>1. /\ pc' = [pc EXCEPT ![c] = "kept"] /\ pc[c] = "dial"
          /\ UNCHANGED <<request, tracker, proto>>
          /\ replies' = [replies EXCEPT ![c] = rs]
      BY <2>4 DEF DialFails
    <3>2. replies[c] \in Seq(Answers) /\ Len(replies[c]) = 0
      BY <1>0, <2>4, <3>1 DEF Base, Talking, TalkOf, None
    <3>3. rs[1] = "error"
      BY <3>2, AppendProperties DEF Answers
    <3>4. rs # <<"response">>
      <4>1. <<"response">>[1] = "response"
        OBVIOUS
      <4> HIDE DEF rs
      <4> QED
        BY <3>3, <4>1
    <3> HIDE DEF rs
    <3> QED
      BY <3>1, <3>4, MoveUploads DEF None
  <2>5. ASSUME NEW t \in BOOLEAN, ResolveProxy(c, t) \/ ChildProxy(c, t) PROVE Uploads'
    <3>1. PICK where \in {"dial", "forward"} :
          /\ pc' = [pc EXCEPT ![c] = where]
          /\ \/ where = "dial" /\ pc[c] = "resolve"
             \/ where = "forward" /\ pc[c] = "child"
      <4>1. CASE ResolveProxy(c, t)
        BY <4>1 DEF ResolveProxy
      <4>2. CASE ChildProxy(c, t)
        BY <4>2 DEF ChildProxy
      <4> QED
        BY <2>5, <4>1, <4>2
    <3>2. /\ tracker' = [tracker EXCEPT ![c] = t] /\ UNCHANGED <<request, proto, replies>>
      BY <2>5 DEF ResolveProxy, ChildProxy, Track
    <3>3. /\ request' = [request EXCEPT ![c] = request[c]] /\ request[c] \in Requests
          /\ proto' = [proto EXCEPT ![c] = proto[c]]
          /\ replies' = [replies EXCEPT ![c] = replies[c]]
      BY <1>0, <3>2
    <3>4. where = "forward" => proto[c] # "plain"
      BY <3>1 DEF Base, Inv, Phases, Intercepted
    <3>5. BodyOK(request[c], t, where, proto[c], replies[c])
      BY <1>0, <3>1, <3>4 DEF BodyOK, None
    <3>6. pc' = [pc EXCEPT ![c] = where] /\ tracker' = [tracker EXCEPT ![c] = t]
      BY <3>1, <3>2
    <3> QED
      BY <3>3, <3>5, <3>6, OneUpload
  <2>6. CASE AutoUpstream(c)
    <3>1. PICK rs : replies' = [replies EXCEPT ![c] = rs]
      BY <1>0, <2>6 DEF AutoUpstream, HTTPUpstream, SOCKS5Upstream, DialTunnel
    <3>2. /\ pc' = [pc EXCEPT ![c] = "relay"] /\ pc[c] = "dial" /\ proto[c] # "plain"
          /\ UNCHANGED <<request, tracker, proto>>
      BY <2>6 DEF AutoUpstream, HTTPUpstream, SOCKS5Upstream, DialTunnel
    <3> QED
      BY <3>1, <3>2, MoveUploads DEF None
  <2>7. CASE ForwardPlainHTTP(c)
    <3>1. /\ pc' = [pc EXCEPT ![c] = "stream"] /\ pc[c] = "dial"
          /\ UNCHANGED <<request, tracker, proto>>
          /\ replies' = [replies EXCEPT ![c] = Append(replies[c], "response")]
      BY <2>7 DEF ForwardPlainHTTP
    <3> QED
      BY <3>1, MoveUploads DEF None
  <2>8. CASE UploadChunk(c)
    <3> DEFINE n == request[c].carried + 1
               q == [request[c] EXCEPT !.carried = n]
    <3>1. /\ request' = [request EXCEPT ![c] = q] /\ UNCHANGED <<pc, tracker, proto, replies>>
          /\ pc[c] \in {"dial", "stream"}
          /\ request[c].carried < IF request[c].length = -1 THEN MaxChunks
                                  ELSE request[c].length
      BY <2>8, Zenon DEF UploadChunk
    <3>2. /\ request[c] \in Requests /\ request[c].length \in -1..MaxChunks
          /\ request[c].carried \in 0..MaxChunks
      BY <1>0 DEF Requests
    <3>3. n \in 0..MaxChunks /\ (request[c].length # -1 => n <= request[c].length)
      BY <3>1, <3>2, DownstreamAssumption
    <3> HIDE DEF n
    <3>4. q \in Requests /\ q.length = request[c].length /\ q.carried = n
             /\ q.counted = request[c].counted
      BY <3>2, <3>3 DEF Requests
    <3>5. /\ tracker' = [tracker EXCEPT ![c] = tracker[c]] /\ pc' = [pc EXCEPT ![c] = pc[c]]
          /\ proto' = [proto EXCEPT ![c] = proto[c]]
          /\ replies' = [replies EXCEPT ![c] = replies[c]]
      BY <1>0, <3>1
    <3> HIDE DEF q
    <3>6. BodyOK(q, tracker[c], pc[c], proto[c], replies[c])
      BY <1>0, <3>1, <3>3, <3>4 DEF BodyOK, None
    <3>7. request' = [request EXCEPT ![c] = q] /\ q \in Requests
      BY <3>1, <3>4
    <3> QED
      BY <3>5, <3>6, <3>7, OneUpload
  <2>9. CASE StreamChunk(c)
    BY <2>9, <1>s DEF StreamChunk
  <2>10. CASE StreamEnds(c)
    <3> DEFINE n == IF tracker[c] THEN Declared(c) ELSE request[c].counted
               q == [request[c] EXCEPT !.counted = n]
    <3>1. /\ request' = [request EXCEPT ![c] = q] /\ pc' = [pc EXCEPT ![c] = "kept"]
          /\ UNCHANGED <<tracker, proto, replies>> /\ pc[c] = "stream"
      BY <2>10, Zenon DEF StreamEnds
    <3>2. /\ request[c] \in Requests /\ request[c].length \in -1..MaxChunks
          /\ request[c].carried \in 0..MaxChunks /\ request[c].counted \in 0..MaxChunks
      BY <1>0 DEF Requests
    <3>3. Declared(c) \in 0..MaxChunks
             /\ (request[c].length # -1 => Declared(c) = request[c].length)
      BY <3>2, DownstreamAssumption DEF Declared
    <3>4. n \in 0..MaxChunks
      BY <3>2, <3>3
    <3>5. proto[c] = "plain" /\ request[c].counted = 0
      BY <1>0, <3>1 DEF BodyOK, Base, Talking, TalkOf, None
    <3>6. (tracker[c] => n = Declared(c)) /\ (~tracker[c] => n = 0)
      BY <3>5
    <3> HIDE DEF n
    <3>7. q \in Requests /\ q.length = request[c].length /\ q.carried = request[c].carried
             /\ q.counted = n
      BY <3>2, <3>4 DEF Requests
    <3>8. /\ tracker' = [tracker EXCEPT ![c] = tracker[c]]
          /\ proto' = [proto EXCEPT ![c] = proto[c]]
          /\ replies' = [replies EXCEPT ![c] = replies[c]]
      BY <1>0, <3>1
    <3> HIDE DEF q
    <3>9. BodyOK(q, tracker[c], "kept", proto[c], replies[c])
      BY <1>0, <3>3, <3>5, <3>6, <3>7 DEF BodyOK, None
    <3>10. /\ request' = [request EXCEPT ![c] = q] /\ q \in Requests
           /\ pc' = [pc EXCEPT ![c] = "kept"]
      BY <3>1, <3>7
    <3> QED
      BY <3>8, <3>9, <3>10, OneUpload
  <2>11. CASE ChildAnswered(c)
    BY <2>11, <1>m DEF ChildAnswered, None
  <2>12. CASE RoundTrip(c)
    BY <2>12, <1>m DEF RoundTrip, None
  <2> QED
    BY <1>3, <2>1, <2>2, <2>3, <2>4, <2>5, <2>6, <2>7, <2>8, <2>9, <2>10, <2>11,
       <2>12 DEF Answered
<1>4. ASSUME NEW c \in Conns, Peers(c) PROVE Uploads'
  BY <1>4, <1>s DEF Peers, ClientSays, ClientEnds, TargetEnds, Send
<1>5. ASSUME NEW c \in Conns, NEW d \in Directions, Copy(c, d) PROVE Uploads'
  BY <1>5, <1>s DEF Copy, ReadEnds, WriteFails, CopyReturns, ReadChunk, Cancel, Receive, WriteChunk
<1>6. CASE Signal \/ Exit \/ Stopped \/ UNCHANGED vars
  BY <1>6, <1>s DEF Signal, Exit, Stopped, vars
<1>7. CASE Next
  BY <1>1, <1>2, <1>3, <1>4, <1>5, <1>6, <1>7, Zenon DEF Next
<1> QED
  BY <1>6, <1>7

LEMMA UploadsCounted == Base /\ Flowing /\ Uploads => CountedAsCarried
<1> SUFFICES ASSUME Base, Flowing, Uploads PROVE CountedAsCarried
  OBVIOUS
<1>1. ASSUME NEW c \in Conns
      PROVE  /\ ~tracker[c] => request[c].counted = 0
             /\ tracker[c] /\ Passed(c) /\ request[c].length # -1 =>
                   request[c].carried <= request[c].counted
  <2>1. BodyOK(request[c], tracker[c], pc[c], proto[c], replies[c])
    BY DEF Uploads
  <2> QED
    BY <2>1 DEF BodyOK, Passed
<1> QED
  BY <1>1, FlowingCounted, Zenon DEF CountedAsCarried

\* What the limiter is told of a tunnel or a plain response is what was carried,
\* but for the one chunk that a cut connection had read and not written; and
\* no less of a declared upload whose response was passed on.
THEOREM TrafficCounted == Spec => []CountedAsCarried
<1>1. Init => Base /\ Flowing /\ Uploads
  BY InvInit, TalkingInit, StreamInit, UploadsInit DEF Base
<1>2. Base /\ Flowing /\ Uploads /\ [Next]_vars => Base' /\ Flowing' /\ Uploads'
  BY StreamStep, UploadsStep
<1>3. Base /\ Flowing /\ Uploads => CountedAsCarried
  BY UploadsCounted
<1> QED
  BY <1>1, <1>2, <1>3, PTL DEF Spec
-----------------------------------------------------------------------------
\* No more trackers are open than the limiter has slots, on one connection:
\* an intercepted one keeps those of all its requests.
OpenBounded == open \in [Conns -> 0..Slots]

\* A connection that holds every slot leaves none to be handed out.
LEMMA SlotsLeft ==
  ASSUME OpenBounded, NEW c \in Conns, Cardinality(Trackers) < Slots
  PROVE  open[c] + 1 \in 0..Slots
<1>0. Slots \in Nat /\ IsFiniteSet(Conns) /\ open[c] \in 0..Slots
  BY DownstreamAssumption DEF OpenBounded
<1>1. ASSUME open[c] = Slots PROVE FALSE
  <2> DEFINE mine == {c} \X (1..Slots)
  <2>1. IsFiniteSet(1..Slots) /\ Cardinality(1..Slots) = Slots
    BY <1>0, FS_Interval
  <2>2. IsFiniteSet({c}) /\ Cardinality({c}) = 1
    BY FS_Singleton
  <2>3. IsFiniteSet(mine) /\ Cardinality(mine) = 1 * Slots
    BY <2>1, <2>2, FS_Product
  <2>4. IsFiniteSet(Conns \X (1..Slots))
    BY <1>0, <2>1, FS_Product
  <2>5. Trackers \subseteq Conns \X (1..Slots)
    BY DEF Trackers
  <2>6. IsFiniteSet(Trackers)
    BY <2>4, <2>5, FS_Subset
  <2>7. mine \subseteq Trackers
    BY <1>0, <1>1 DEF Trackers
  <2>8. Cardinality(mine) <= Cardinality(Trackers) /\ Cardinality(Trackers) \in Nat
    BY <2>6, <2>7, FS_Subset, FS_CardinalityType
  <2>9. Cardinality(mine) = Slots
    BY <1>0, <2>3
  <2> HIDE DEF mine
  <2> QED
    BY <1>0, <2>8, <2>9
<1> QED
  BY <1>0, <1>1

LEMMA OpenStep == ASSUME Inv, OpenBounded, [Next]_vars PROVE OpenBounded'
<1> USE DEF tracking
<1>t. ASSUME NEW c \in Conns, NEW t \in BOOLEAN, Track(c, t) PROVE OpenBounded'
  <2>1. open' = [open EXCEPT ![c] = IF t THEN open[c] + 1 ELSE open[c]]
    BY <1>t DEF Track
  <2>2. (IF t THEN open[c] + 1 ELSE open[c]) \in 0..Slots
    <3>1. CASE t
      BY <1>t, <3>1, SlotsLeft DEF Track
    <3>2. CASE ~t
      BY <3>2 DEF OpenBounded
    <3> QED
      BY <3>1, <3>2
  <2> QED
    BY <2>1, <2>2 DEF OpenBounded
<1>c. ASSUME NEW c \in Conns, CloseTracker(c), pc[c] \in Resulted PROVE OpenBounded'
  <2>1. open' = [open EXCEPT ![c] = IF tracker[c] THEN open[c] - 1 ELSE open[c]]
    BY <1>c DEF CloseTracker
  <2>2. tracker[c] => open[c] = 1
    BY <1>c DEF Inv, Phases, HeldInUse
  <2>3. (IF tracker[c] THEN open[c] - 1 ELSE open[c]) \in 0..Slots
    BY <2>2, DownstreamAssumption DEF OpenBounded
  <2> QED
    BY <2>1, <2>3 DEF OpenBounded
<1>s. ASSUME open' = open PROVE OpenBounded'
  BY <1>s DEF OpenBounded
<1>1. ASSUME NEW c \in Conns, NEW p \in Protocols, Accept(c, p) PROVE OpenBounded'
  BY <1>1, <1>s DEF Accept
<1>2. ASSUME NEW c \in Conns, Handle(c) PROVE OpenBounded'
  <2>1. CASE RelayReturns(c)
    BY <2>1, <1>c DEF RelayReturns, At, Resulted
  <2>2. CASE ~RelayReturns(c)
    <3>1. open' = open
      BY <1>2, <2>2 DEF Handle, AuthFails, Dispatch, NotHijackable, Announce, Hijack,
         HijackFails, Greet,
         GreetFails, ReadRequest, Unsupported, RequestFails, Intercept, InterceptEnds,
         Handshake, ServeRequest
    <3> QED
      BY <1>s, <3>1
  <2> QED
    BY <2>1, <2>2
<1>3. ASSUME NEW c \in Conns, Answered(c) PROVE OpenBounded'
  <2>1. CASE DialFails(c) \/ StreamEnds(c)
    BY <2>1, <1>c DEF DialFails, StreamEnds, At, Resulted
  <2>2. CASE \E t \in BOOLEAN : ResolveProxy(c, t) \/ ChildProxy(c, t)
    BY <2>2, <1>t DEF ResolveProxy, ChildProxy
  <2>3. CASE ResolveFails(c) \/ ResolveHandled(c) \/ AutoUpstream(c) \/ ForwardPlainHTTP(c)
    <3>1. open' = open
      BY <2>3 DEF ResolveFails, ResolveHandled, AutoUpstream, HTTPUpstream, SOCKS5Upstream,
         DialTunnel, ForwardPlainHTTP
    <3> QED
      BY <1>s, <3>1
  <2>4. CASE UploadChunk(c) \/ StreamChunk(c) \/ ChildAnswered(c) \/ RoundTrip(c)
    <3>1. open' = open
      BY <2>4 DEF UploadChunk, StreamChunk, ChildAnswered, RoundTrip
    <3> QED
      BY <1>s, <3>1
  <2> QED
    BY <1>3, <2>1, <2>2, <2>3, <2>4 DEF Answered
<1>4. ASSUME NEW c \in Conns, Peers(c) PROVE OpenBounded'
  BY <1>4, <1>s DEF Peers, ClientSays, ClientEnds, TargetEnds, Send
<1>5. ASSUME NEW c \in Conns, NEW d \in Directions, Copy(c, d) PROVE OpenBounded'
  BY <1>5, <1>s DEF Copy, ReadEnds, WriteFails, CopyReturns, ReadChunk, Cancel, Receive, WriteChunk
<1>6. CASE Signal \/ Exit \/ Stopped \/ UNCHANGED vars
  BY <1>6, <1>s DEF Signal, Exit, Stopped, vars
<1>7. CASE Next
  BY <1>1, <1>2, <1>3, <1>4, <1>5, <1>6, <1>7, Zenon DEF Next
<1> QED
  BY <1>6, <1>7

\* Every variable keeps its type; for the data and the trackers that says that
\* counters never run ahead of what was sent or below zero, and that no
\* connection has more trackers open than there are slots.
THEOREM TypeCorrect == Spec => []TypeOK
<1>1. Init => Base /\ Flowing /\ Uploads /\ OpenBounded
  <2>1. Init => OpenBounded
    BY DownstreamAssumption DEF Init, OpenBounded
  <2> QED
    BY <2>1, InvInit, TalkingInit, StreamInit, UploadsInit DEF Base
<1>2. Base /\ Flowing /\ Uploads /\ OpenBounded /\ [Next]_vars =>
         Base' /\ Flowing' /\ Uploads' /\ OpenBounded'
  BY StreamStep, UploadsStep, OpenStep DEF Base
<1>3. Base /\ Flowing /\ Uploads /\ OpenBounded => TypeOK
  <2> SUFFICES ASSUME Base, Uploads, OpenBounded PROVE TypeOK
    OBVIOUS
  <2>1. \A c \in Conns : replies[c] \in Seq({"method", "ok", "error", "response"})
    BY DEF Base, Talking, Answers
  <2> QED
    BY <2>1 DEF Base, Inv, TrackingTypes, Places, Talking, Inboxes, StreamTypes, Uploads,
       OpenBounded, TypeOK
<1> QED
  BY <1>1, <1>2, <1>3, PTL DEF Spec

=============================================================================
