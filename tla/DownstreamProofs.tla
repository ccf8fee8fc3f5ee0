-------------------------- MODULE DownstreamProofs --------------------------
(***************************************************************************)
(* What Downstream keeps for its clients and for the limiter, for any      *)
(* number of connections, slots and requests: trackers are closed exactly  *)
(* once (Inv: which places a connection with a result can be at), and      *)
(* clients are answered in turn (Talking: how many answers and unread      *)
(* questions each place allows).  StreamProofs goes on with the data.      *)
(***************************************************************************)
EXTENDS Downstream, TLAPS

\* The places a goroutine can be at.
Places ==
    {None, "auth", "hijack", "flushed", "greeting", "request", "resolve", "tls",
     "serve", "child", "forward", "dial", "relay", "stream"} \cup Ended

\* The types the argument needs.
TrackingTypes ==
    /\ pc \in [Conns -> Places]
    /\ proto \in [Conns -> Protocols \cup {None}]
    /\ copier \in [Conns \X Directions -> {None, "copy", "sent"}]
    /\ open \in [Conns -> Int]
    /\ tracker \in [Conns -> BOOLEAN]
    /\ mitm \in BOOLEAN

\* Where a tunnel or a plain request has a result in its hands.
Resulted == {"dial", "stream", "relay"}

\* A connection not yet accepted has had no tracker; intercepted ones never
\* come to the steps after Resolve; goroutines copy only while relay waits.
Phases ==
    \A c \in Conns :
        /\ pc[c] = None => open[c] = 0
        /\ pc[c] \in Resulted => ~Intercepted(c)
        /\ pc[c] \in {"child", "forward", "serve", "tls"} => Intercepted(c)
        /\ \A d \in Directions : copier[<<c, d>>] = "copy" => pc[c] = "relay"

\* open is 1 while a tracked result is in use, else 0.
HeldInUse ==
    \A c \in Conns : ~Intercepted(c) =>
        open[c] = IF tracker[c] /\ pc[c] \in Resulted THEN 1 ELSE 0

Inv == TrackingTypes /\ Phases /\ HeldInUse

\* What is held in use is held while goroutines copy.
LEMMA InvImplies == Inv => TrackerClosedOnce
  BY DEF Inv, Phases, HeldInUse, Resulted, TrackerClosedOnce

LEMMA InvInit == Init => Inv
<1> SUFFICES ASSUME Init PROVE Inv
  OBVIOUS
<1>1. TrackingTypes
  <2>1. mitm \in BOOLEAN
    BY DownstreamAssumption DEF Init
  <2> QED
    BY <2>1 DEF Init, TrackingTypes, Places, None
<1>2. Phases
  <2>1. ASSUME NEW c \in Conns, NEW d \in Directions PROVE copier[<<c, d>>] # "copy"
    BY DEF Init, None
  <2> QED
    BY <2>1 DEF Init, Phases, Resulted, None
<1>3. HeldInUse
  BY DEF Init, HeldInUse, Resulted, None
<1> QED
  BY <1>1, <1>2, <1>3 DEF Inv

\* Steps that leave pc, proto, copier and the trackers alone, and those of the
\* copying goroutines, keep the invariant.
LEMMA OthersKeep ==
  ASSUME Inv, UNCHANGED <<mitm, proto, pc, open, tracker>>,
         copier' = copier \/ \E r \in Conns \X Directions :
                                copier' = [copier EXCEPT ![r] = "sent"]
  PROVE  Inv'
<1>1. TrackingTypes'
  BY DEF Inv, TrackingTypes
<1>2. Phases'
  BY DEF Inv, TrackingTypes, Phases, Resulted, Intercepted
<1>3. HeldInUse'
  BY DEF Inv, TrackingTypes, HeldInUse, Resulted, Intercepted
<1> QED
  BY <1>1, <1>2, <1>3 DEF Inv

\* A goroutine moves on without touching trackers or copiers.
LEMMA MoveKeeps ==
  ASSUME Inv, NEW c \in Conns, NEW where \in Places,
         pc' = [pc EXCEPT ![c] = where],
         pc[c] \notin {None, "relay"}, where # None,
         mitm' = mitm, proto' = proto, copier' = copier,
         tracker' = tracker, open' = open,
         where \in Resulted => pc[c] \in Resulted,
         pc[c] \in Resulted => where \in Resulted,
         where \in {"child", "forward", "serve", "tls"} => Intercepted(c)
  PROVE  Inv'
<1>1. TrackingTypes'
  BY DEF Inv, TrackingTypes
<1>2. Phases'
  BY DEF Inv, TrackingTypes, Phases, Resulted, Intercepted
<1>3. HeldInUse'
  BY DEF Inv, TrackingTypes, HeldInUse, Resulted, Intercepted
<1> QED
  BY <1>1, <1>2, <1>3 DEF Inv

\* A tracker is handed out with a result, or not.
LEMMA ResolveKeeps ==
  ASSUME Inv, NEW c \in Conns, NEW t \in BOOLEAN, ResolveProxy(c, t)
  PROVE  Inv'
<1>1. /\ pc[c] = "resolve" /\ ~Intercepted(c)
      /\ pc' = [pc EXCEPT ![c] = "dial"]
      /\ tracker' = [tracker EXCEPT ![c] = t]
      /\ open' = [open EXCEPT ![c] = IF t THEN @ + 1 ELSE @]
      /\ mitm' = mitm /\ proto' = proto /\ copier' = copier
  BY DEF ResolveProxy, At, Goto, Track, link, ends
<1>2. TrackingTypes'
  BY <1>1 DEF Inv, TrackingTypes, Places, Ended
<1>3. Phases'
  BY <1>1 DEF Inv, TrackingTypes, Phases, Resulted, Intercepted, None
<1>4. HeldInUse'
  BY <1>1 DEF Inv, TrackingTypes, HeldInUse, Resulted, Intercepted
<1> QED
  BY <1>2, <1>3, <1>4 DEF Inv

\* The same for a request inside an intercepted tunnel, where it is not counted.
LEMMA ChildKeeps ==
  ASSUME Inv, NEW c \in Conns, NEW t \in BOOLEAN, ChildProxy(c, t)
  PROVE  Inv'
<1>1. /\ pc[c] = "child"
      /\ pc' = [pc EXCEPT ![c] = "forward"]
      /\ tracker' = [tracker EXCEPT ![c] = t]
      /\ open' = [open EXCEPT ![c] = IF t THEN @ + 1 ELSE @]
      /\ mitm' = mitm /\ proto' = proto /\ copier' = copier
  BY DEF ChildProxy, At, Goto, Track, link, ends
<1>2. TrackingTypes'
  BY <1>1 DEF Inv, TrackingTypes, Places, Ended
<1>3. Phases'
  BY <1>1 DEF Inv, TrackingTypes, Phases, Resulted, Intercepted, None
<1>4. HeldInUse'
  BY <1>1, <1>3 DEF Inv, TrackingTypes, Phases, HeldInUse, Resulted, Intercepted
<1> QED
  BY <1>2, <1>3, <1>4 DEF Inv

\* The three places where a result is finished with.
LEMMA CloseKeeps ==
  ASSUME Inv, NEW c \in Conns, CloseTracker(c),
         NEW where \in Ended,
         pc' = [pc EXCEPT ![c] = where],
         pc[c] \in Resulted, \A d \in Directions : copier[<<c, d>>] # "copy",
         mitm' = mitm, proto' = proto, copier' = copier, tracker' = tracker
  PROVE  Inv'
<1>1. /\ pc' = [pc EXCEPT ![c] = where] /\ where \in {"done", "kept"}
      /\ open' = [open EXCEPT ![c] = IF tracker[c] THEN @ - 1 ELSE @]
  BY DEF CloseTracker, Ended
<1>2. TrackingTypes'
  BY <1>1 DEF Inv, TrackingTypes, Places, Ended
<1>3. Phases'
  BY <1>1 DEF Inv, TrackingTypes, Phases, Resulted, Intercepted, None
<1>4. HeldInUse'
  BY <1>1 DEF Inv, TrackingTypes, HeldInUse, Resulted, Intercepted
<1> QED
  BY <1>2, <1>3, <1>4 DEF Inv

\* The tunnel stands and the goroutines start to copy.
LEMMA TunnelKeeps ==
  ASSUME Inv, NEW c \in Conns, NEW t \in BOOLEAN, DialTunnel(c, t)
  PROVE  Inv'
<1>1. /\ pc[c] = "dial"
      /\ pc' = [pc EXCEPT ![c] = "relay"]
      /\ copier' = [r \in Conns \X Directions |-> IF r[1] = c THEN "copy" ELSE copier[r]]
      /\ mitm' = mitm /\ proto' = proto /\ tracker' = tracker /\ open' = open
  BY DEF DialTunnel, At, Goto, tracking
<1>2. TrackingTypes'
  BY <1>1 DEF Inv, TrackingTypes, Places, Ended
<1>3. Phases'
  <2>1. ASSUME NEW e \in Conns, NEW d \in Directions, copier'[<<e, d>>] = "copy"
        PROVE  pc'[e] = "relay"
    BY <1>1, <2>1 DEF Inv, TrackingTypes, Phases
  <2> QED
    BY <1>1, <2>1 DEF Inv, TrackingTypes, Phases, Resulted, Intercepted, None
<1>4. HeldInUse'
  BY <1>1 DEF Inv, TrackingTypes, HeldInUse, Resulted, Intercepted
<1> QED
  BY <1>2, <1>3, <1>4 DEF Inv

\* A connection is accepted: whether it is intercepted is known from now on.
LEMMA AcceptKeeps ==
  ASSUME Inv, NEW c \in Conns, NEW p \in Protocols, Accept(c, p)
  PROVE  Inv'
<1>1. /\ pc[c] = None
      /\ \E where \in {"greeting", "auth"} : pc' = [pc EXCEPT ![c] = where]
      /\ proto' = [proto EXCEPT ![c] = p]
      /\ mitm' = mitm /\ copier' = copier /\ tracker' = tracker /\ open' = open
  BY DEF Accept, At, Goto, link, ends, tracking
<1>2. TrackingTypes'
  BY <1>1 DEF Inv, TrackingTypes, Places, Ended
<1>3. Phases'
  BY <1>1 DEF Inv, TrackingTypes, Phases, Resulted, Intercepted, None
<1>4. HeldInUse'
  BY <1>1 DEF Inv, TrackingTypes, Phases, HeldInUse, Resulted, Intercepted, None
<1> QED
  BY <1>2, <1>3, <1>4 DEF Inv

\* Every step keeps the invariant: one step per action of Next.
LEMMA InvStep == Inv /\ [Next]_vars => Inv'
<1> SUFFICES ASSUME Inv, [Next]_vars PROVE Inv'
  OBVIOUS
<1> USE DEF At, Goto, link, ends, tracking, peer, Places, Ended
<1>1. ASSUME NEW c \in Conns, NEW p \in Protocols, Accept(c, p) PROVE Inv'
  BY <1>1, AcceptKeeps
<1>2. ASSUME NEW c \in Conns, Handle(c) PROVE Inv'
  <2>1. CASE AuthFails(c)
    BY <2>1, MoveKeeps DEF AuthFails, Resulted, None
  <2>2. CASE Dispatch(c)
    BY <2>2, MoveKeeps DEF Dispatch, Resulted, None
  <2>3. CASE Hijack(c)
    BY <2>3, MoveKeeps DEF Hijack, Resulted, None
  <2>4. CASE HijackFails(c)
    BY <2>4, MoveKeeps DEF HijackFails, Resulted, None
  <2>15. CASE NotHijackable(c)
    BY <2>15, MoveKeeps DEF NotHijackable, Resulted, None
  <2>16. CASE Announce(c)
    BY <2>16, MoveKeeps DEF Announce, Resulted, None
  <2>5. CASE Greet(c)
    BY <2>5, MoveKeeps DEF Greet, Resulted, None
  <2>6. CASE GreetFails(c)
    BY <2>6, MoveKeeps DEF GreetFails, Resulted, None
  <2>7. CASE ReadRequest(c)
    BY <2>7, MoveKeeps DEF ReadRequest, Resulted, None
  <2>8. CASE Unsupported(c)
    BY <2>8, MoveKeeps DEF Unsupported, Resulted, None
  <2>9. CASE RequestFails(c)
    BY <2>9, MoveKeeps DEF RequestFails, Resulted, None
  <2>10. CASE Intercept(c)
    BY <2>10, MoveKeeps DEF Intercept, Resulted, None
  <2>11. CASE InterceptEnds(c)
    BY <2>11, MoveKeeps DEF InterceptEnds, Resulted, None
  <2>12. CASE Handshake(c)
    BY <2>12, MoveKeeps DEF Handshake, Resulted, None, Inv, Phases
  <2>13. CASE ServeRequest(c)
    BY <2>13, MoveKeeps DEF ServeRequest, Resulted, None, Inv, Phases
  <2>14. CASE RelayReturns(c)
    BY <2>14, CloseKeeps DEF RelayReturns, RelayOver, Resulted, Ended
  <2> QED
    BY <1>2, <2>1, <2>2, <2>3, <2>4, <2>5, <2>6, <2>7, <2>8, <2>9, <2>10,
       <2>11, <2>12, <2>13, <2>14, <2>15, <2>16 DEF Handle
<1>3. ASSUME NEW c \in Conns, Answered(c) PROVE Inv'
  <2>1. CASE ResolveFails(c)
    BY <2>1, MoveKeeps DEF ResolveFails, Resulted, None
  <2>2. CASE ResolveHandled(c)
    BY <2>2, MoveKeeps DEF ResolveHandled, Resulted, None
  <2>3. CASE DialFails(c)
    <3>1. \A d \in Directions : copier[<<c, d>>] # "copy"
      BY <2>3 DEF DialFails, Inv, Phases
    <3> QED
      BY <2>3, <3>1, CloseKeeps DEF DialFails, Resulted, Ended
  <2>4. ASSUME NEW t \in BOOLEAN,
               ResolveProxy(c, t) \/ ChildProxy(c, t)
        PROVE  Inv'
    BY <2>4, ResolveKeeps, ChildKeeps
  <2>5. CASE ForwardPlainHTTP(c)
    BY <2>5, MoveKeeps DEF ForwardPlainHTTP, Resulted, None
  <2>10. CASE UploadChunk(c) \/ StreamChunk(c)
    <3>1. UNCHANGED <<mitm, proto, pc, open, tracker, copier>>
      BY <2>10 DEF UploadChunk, StreamChunk
    <3> QED
      BY <3>1, OthersKeep
  <2>6. CASE StreamEnds(c)
    <3>1. \A d \in Directions : copier[<<c, d>>] # "copy"
      BY <2>6 DEF StreamEnds, Inv, Phases
    <3> QED
      BY <2>6, <3>1, CloseKeeps DEF StreamEnds, Resulted, Ended
  <2>7. CASE ChildAnswered(c)
    BY <2>7, MoveKeeps DEF ChildAnswered, Resulted, None, Inv, Phases
  <2>8. CASE RoundTrip(c)
    BY <2>8, MoveKeeps DEF RoundTrip, Resulted, None, Inv, Phases
  <2>9. CASE AutoUpstream(c)
    BY <2>9, TunnelKeeps DEF AutoUpstream, HTTPUpstream, SOCKS5Upstream
  <2> QED
    BY <1>3, <2>1, <2>2, <2>3, <2>4, <2>5, <2>6, <2>7, <2>8, <2>9, <2>10 DEF Answered
<1>4. ASSUME NEW c \in Conns, Peers(c) PROVE Inv'
  <2>1. UNCHANGED <<mitm, proto, pc, open, tracker, copier>>
    BY <1>4 DEF Peers, ClientSays, ClientEnds, TargetEnds, Send
  <2> QED
    BY <2>1, OthersKeep
<1>5. ASSUME NEW c \in Conns, NEW d \in Directions, Copy(c, d) PROVE Inv'
  <2>1. /\ UNCHANGED <<mitm, proto, pc, open, tracker>>
        /\ copier' = copier \/ copier' = [copier EXCEPT ![<<c, d>>] = "sent"]
    BY <1>5 DEF Copy, ReadEnds, WriteFails, CopyReturns, ReadChunk, Cancel, Receive, WriteChunk
  <2>2. <<c, d>> \in Conns \X Directions
    OBVIOUS
  <2> QED
    BY <2>1, <2>2, OthersKeep
<1>6. CASE Signal \/ Exit \/ Stopped \/ UNCHANGED vars
  <2>1. UNCHANGED <<mitm, proto, pc, open, tracker, copier>>
    BY <1>6 DEF Signal, Exit, Stopped, vars
  <2> QED
    BY <2>1, OthersKeep
<1> QED
  BY <1>1, <1>2, <1>3, <1>4, <1>5, <1>6 DEF Next

\* Whatever the connection, the protocol and the way it ends, the tracker of a
\* tunnel or a plain request is closed exactly once and not while a goroutine
\* still records traffic.
THEOREM TrackersBalanced == Spec => []TrackerClosedOnce
<1>1. Init => Inv
  BY InvInit
<1>2. Inv /\ [Next]_vars => Inv'
  BY InvStep
<1>3. Inv => TrackerClosedOnce
  BY InvImplies
<1> QED
  BY <1>1, <1>2, <1>3, PTL DEF Spec
-----------------------------------------------------------------------------
Inboxes == {None, "hello", "connect", "bind", "tls", "http", "torn"}
Answers == {"method", "ok", "error", "response"}

Unread(box) == IF box = None THEN 0 ELSE 1

\* What holds of a connection of protocol p whose goroutine is at where, after
\* said answers, when the client has spoken n times and unread of it was not
\* read.  CONNECT is answered before anything else, the request of a SOCKS5
\* client once the tunnel stands: so each place has its own balance.
TalkOf(where, p, said, unread, n) ==
    /\ where = None => said = 0 /\ n = 0 /\ unread = 0
    /\ where \in {"auth", "hijack"} =>
          p \in {"connect", "plain"} /\ said = 0 /\ n = 1 /\ unread = 0
    /\ where = "hijack" => p = "connect"
    /\ where = "flushed" => p = "connect" /\ said = 1 /\ n = 1 + unread
    /\ where = "greeting" => p = "socks5" /\ said = 0 /\ n = unread
    /\ where = "request" => p = "socks5" /\ said = 1 /\ n = 1 + unread
    /\ where \in {"resolve", "tls", "dial"} =>
          \/ p = "connect" /\ said = 1 /\ n = 1 + unread
          \/ p = "socks5" /\ said = 1 /\ n = 2 /\ unread = 0
          \/ p = "plain" /\ said = 0 /\ n = 1 /\ unread = 0
    /\ where \in {"serve", "relay"} => p # "plain" /\ n = said + unread
    /\ where \in {"child", "forward"} => p # "plain" /\ n = said + 1 /\ unread = 0
    /\ where = "stream" => p = "plain" /\ said = 1 /\ n = 1 /\ unread = 0
    /\ where = "kept" => said = 1 /\ n >= 1
    /\ where = "done" => p # "plain"

Talking ==
    /\ replies \in [Conns -> Seq(Answers)]
    /\ inbox \in [Conns -> Inboxes]
    /\ asked \in [Conns -> 0..MaxRequests]
    /\ \A c \in Conns :
          TalkOf(pc[c], proto[c], Len(replies[c]), Unread(inbox[c]), asked[c])

LEMMA UnreadIs ==
  ASSUME NEW box
  PROVE  /\ Unread(box) \in {0, 1} /\ Unread(None) = 0
         /\ box # None => Unread(box) = 1
  BY DEF Unread

\* In no place but the last are there more answers than questions.
LEMMA TalkBalance ==
  ASSUME NEW where \in Places \ {"done"}, NEW p, NEW said \in Nat, NEW unread \in {0, 1},
         NEW n \in Nat, TalkOf(where, p, said, unread, n)
  PROVE  said <= n
  BY DEF TalkOf, Places, Ended

LEMMA TalkingImplies == Inv /\ Talking => AnsweredInTurn
<1> SUFFICES ASSUME Inv, Talking, NEW c \in Conns
             PROVE  /\ pc[c] \in {"request", "serve", "relay"} =>
                          asked[c] = Len(replies[c]) + (IF inbox[c] = None THEN 0 ELSE 1)
                    /\ proto[c] = "plain" /\ pc[c] \in Ended => Len(replies[c]) = 1
                    /\ Len(replies[c]) > asked[c] => pc[c] = "done"
  BY DEF AnsweredInTurn
<1> DEFINE said == Len(replies[c])
           unread == Unread(inbox[c])
<1>1. /\ TalkOf(pc[c], proto[c], said, unread, asked[c])
      /\ said \in Nat /\ asked[c] \in Nat /\ pc[c] \in Places
      /\ unread \in {0, 1} /\ unread = IF inbox[c] = None THEN 0 ELSE 1
  BY DEF Inv, TrackingTypes, Talking, Unread
<1> SUFFICES /\ pc[c] \in {"request", "serve", "relay"} => asked[c] = said + unread
             /\ proto[c] = "plain" /\ pc[c] \in Ended => said = 1
             /\ said > asked[c] => pc[c] = "done"
  BY DEF Unread
<1> HIDE DEF said, unread
<1>2. pc[c] \in {"request", "serve", "relay"} => asked[c] = said + unread
  BY <1>1 DEF TalkOf
<1>3. proto[c] = "plain" /\ pc[c] \in Ended => said = 1
  BY <1>1 DEF TalkOf, Ended
<1>4. pc[c] # "done" => said <= asked[c]
  BY <1>1, TalkBalance
<1> QED
  BY <1>1, <1>2, <1>3, <1>4

LEMMA TalkingInit == Init => Talking
<1> SUFFICES ASSUME Init PROVE Talking
  OBVIOUS
<1>1. /\ replies \in [Conns -> Seq(Answers)] /\ inbox \in [Conns -> Inboxes]
      /\ asked \in [Conns -> 0..MaxRequests]
  BY DownstreamAssumption DEF Init, Inboxes
<1>2. ASSUME NEW c \in Conns
      PROVE  /\ pc[c] = None /\ Len(replies[c]) = 0 /\ Unread(inbox[c]) = 0 /\ asked[c] = 0
  BY DEF Init, Unread
<1> QED
  BY <1>1, <1>2 DEF Talking, TalkOf, None

\* A step changes the conversation of one connection.
LEMMA TalkStep ==
  ASSUME Talking, TrackingTypes, NEW c \in Conns,
         NEW where, NEW p, NEW rs \in Seq(Answers), NEW box \in Inboxes, NEW n \in 0..MaxRequests,
         pc' = [pc EXCEPT ![c] = where], proto' = [proto EXCEPT ![c] = p],
         replies' = [replies EXCEPT ![c] = rs], inbox' = [inbox EXCEPT ![c] = box],
         asked' = [asked EXCEPT ![c] = n],
         TalkOf(where, p, Len(rs), Unread(box), n)
  PROVE  Talking'
  BY DEF Talking, TrackingTypes

\* The goroutine goes from one place to another, says rs in all and has read
\* what there was, or has not.
LEMMA TalkMove ==
  ASSUME Talking, TrackingTypes, NEW c \in Conns, NEW where, NEW rs \in Seq(Answers),
         NEW box \in {inbox[c], None, "torn"},
         pc' = [pc EXCEPT ![c] = where],
         replies' = [replies EXCEPT ![c] = rs],
         inbox' = [inbox EXCEPT ![c] = box],
         UNCHANGED <<proto, asked>>,
         TalkOf(where, proto[c], Len(rs), Unread(box), asked[c])
  PROVE  Talking'
<1>1. proto' = [proto EXCEPT ![c] = proto[c]] /\ asked' = [asked EXCEPT ![c] = asked[c]]
  BY DEF Talking, TrackingTypes
<1>2. box \in Inboxes /\ asked[c] \in 0..MaxRequests
  BY DEF Talking, Inboxes
<1> QED
  BY <1>1, <1>2, TalkStep

\* Nobody says, reads or answers anything, and no goroutine moves.
LEMMA TalkSame ==
  ASSUME Talking, UNCHANGED <<pc, proto, replies, inbox, asked>>
  PROVE  Talking'
  BY DEF Talking

\* The client says something: all it said so far was answered.
LEMMA SayBalance ==
  ASSUME NEW where, NEW p, NEW said \in Nat, NEW unread \in {0, 1},
         TalkOf(where, p, said, unread, said), where \notin {None, "done", "kept"}, p # "plain"
  PROVE  TalkOf(where, p, said, 1, said + 1)
<1>1. CASE where \in {"greeting", "request", "serve", "relay"}
  BY <1>1 DEF TalkOf, None
<1>2. CASE where \in {"flushed", "resolve", "tls", "dial"}
  BY <1>2 DEF TalkOf, None
<1>3. CASE where \notin {"greeting", "request", "serve", "relay", "flushed", "resolve",
                        "tls", "dial"}
  BY <1>3 DEF TalkOf, None
<1> QED
  BY <1>1, <1>2, <1>3

\* Steps between places that change a balance in one way only.
LEMMA MoveBalance ==
  ASSUME NEW p, NEW said \in Nat, NEW unread \in {0, 1}, NEW n \in Nat
  PROVE  /\ TalkOf("greeting", p, said, 1, n) => TalkOf("request", p, said + 1, 0, n)
         /\ TalkOf("tls", p, said, 1, n) /\ p # "plain" => TalkOf("serve", p, said + 1, 0, n)
         /\ TalkOf("dial", p, said, unread, n) /\ p = "socks5" => TalkOf("relay", p, said + 1, unread, n)
         /\ TalkOf("resolve", p, said, unread, n) /\ p = "plain" => TalkOf("kept", p, said + 1, unread, n)
  BY DEF TalkOf, None

\* The same without an answer.
LEMMA StayBalance ==
  ASSUME NEW p, NEW said \in Nat, NEW unread \in {0, 1}, NEW n \in Nat
  PROVE  /\ TalkOf("resolve", p, said, unread, n) /\ p # "plain" =>
               TalkOf("kept", p, said, unread, n) /\ TalkOf("done", p, said, unread, n)
         /\ TalkOf("flushed", p, said, unread, n) => TalkOf("kept", p, said, unread, n)
         /\ TalkOf("request", p, said, 1, n) => TalkOf("resolve", p, said, 0, n)
  BY DEF TalkOf, None

\* What is known of the conversation of c.
LEMMA TalkFacts ==
  ASSUME Inv, Talking, NEW c \in Conns
  PROVE  /\ TrackingTypes
         /\ TalkOf(pc[c], proto[c], Len(replies[c]), Unread(inbox[c]), asked[c])
         /\ replies[c] \in Seq(Answers) /\ Len(replies[c]) \in Nat
         /\ inbox[c] \in Inboxes /\ asked[c] \in 0..MaxRequests /\ asked[c] \in Nat
         /\ replies \in [Conns -> Seq(Answers)] /\ inbox \in [Conns -> Inboxes]
         /\ asked \in [Conns -> 0..MaxRequests]
         /\ \A r \in Answers : /\ Append(replies[c], r) \in Seq(Answers)
                                /\ Len(Append(replies[c], r)) = Len(replies[c]) + 1
  BY DownstreamAssumption DEF Inv, Talking

LEMMA TalkingStep == Inv /\ Talking /\ [Next]_vars => Talking'
<1> SUFFICES ASSUME Inv, Talking, [Next]_vars PROVE Talking'
  OBVIOUS
<1> USE DEF At, Goto, Answer, Read, link, ends, tracking, peer, Ended
<1>1. ASSUME NEW c \in Conns, NEW p \in Protocols, Accept(c, p) PROVE Talking'
  <2> DEFINE where == IF p = "socks5" THEN "greeting" ELSE "auth"
             n == IF p = "socks5" THEN 0 ELSE 1
  <2>1. /\ pc[c] = None /\ pc' = [pc EXCEPT ![c] = where]
        /\ proto' = [proto EXCEPT ![c] = p] /\ asked' = [asked EXCEPT ![c] = n]
        /\ replies' = [replies EXCEPT ![c] = replies[c]]
        /\ inbox' = [inbox EXCEPT ![c] = inbox[c]]
    BY <1>1, TalkFacts DEF Accept
  <2>2. p \in {"connect", "plain", "socks5"} /\ n \in 0..MaxRequests
    BY DownstreamAssumption
  <2>3. Len(replies[c]) = 0 /\ Unread(inbox[c]) = 0
    BY <2>1, TalkFacts DEF TalkOf
  <2>4. TalkOf(where, p, Len(replies[c]), Unread(inbox[c]), n)
    BY <2>2, <2>3 DEF TalkOf, None
  <2> HIDE DEF where, n
  <2> QED
    BY <2>1, <2>2, <2>4, TalkFacts, TalkStep
<1>2. ASSUME NEW c \in Conns, Handle(c) PROVE Talking'
  <2>1. CASE AuthFails(c)
    <3>1. /\ pc' = [pc EXCEPT ![c] = "kept"]
          /\ replies' = [replies EXCEPT ![c] = Append(replies[c], "error")]
          /\ inbox' = [inbox EXCEPT ![c] = inbox[c]]
          /\ UNCHANGED <<proto, asked>>
          /\ pc[c] = "auth"
      BY <2>1, TalkFacts DEF AuthFails
    <3>2. Append(replies[c], "error") \in Seq(Answers) /\ Len(Append(replies[c], "error")) = Len(replies[c]) + 1
      BY TalkFacts DEF Answers
    <3>3. TalkOf("kept", proto[c], Len(replies[c]) + 1, Unread(inbox[c]), asked[c])
      BY <3>1, TalkFacts, UnreadIs DEF TalkOf, None
    <3> QED
      BY <3>1, <3>2, <3>3, TalkFacts, TalkMove
  <2>2. CASE Dispatch(c)
    <3>1. /\ pc' = [pc EXCEPT ![c] = IF proto[c] = "connect" THEN "hijack" ELSE "resolve"]
          /\ replies' = [replies EXCEPT ![c] = replies[c]]
          /\ inbox' = [inbox EXCEPT ![c] = inbox[c]]
          /\ UNCHANGED <<proto, asked>>
          /\ pc[c] = "auth"
      BY <2>2, TalkFacts DEF Dispatch
    <3>2. TalkOf(IF proto[c] = "connect" THEN "hijack" ELSE "resolve", proto[c], Len(replies[c]), Unread(inbox[c]), asked[c])
      BY <3>1, TalkFacts, UnreadIs DEF TalkOf, None
    <3> QED
      BY <3>1, <3>2, TalkFacts, TalkMove
  <2>3. CASE Hijack(c)
    <3>1. PICK box \in {inbox[c], "torn"} :
             inbox' = [inbox EXCEPT ![c] = box] /\ (box = None <=> inbox[c] = None)
      BY <2>3, TalkFacts DEF Hijack, None
    <3>2. /\ pc' = [pc EXCEPT ![c] = "resolve"]
          /\ replies' = [replies EXCEPT ![c] = replies[c]]
          /\ UNCHANGED <<proto, asked>>
          /\ pc[c] = "flushed"
      BY <2>3, TalkFacts DEF Hijack
    <3>3. Unread(box) = Unread(inbox[c])
      BY <3>1 DEF Unread
    <3>4. TalkOf("resolve", proto[c], Len(replies[c]), Unread(box), asked[c])
      BY <3>2, <3>3, TalkFacts, UnreadIs DEF TalkOf, None
    <3> QED
      BY <3>1, <3>2, <3>4, TalkFacts, TalkMove
  <2>4. CASE HijackFails(c)
    <3>1. /\ pc' = [pc EXCEPT ![c] = "kept"]
          /\ replies' = [replies EXCEPT ![c] = replies[c]]
          /\ inbox' = [inbox EXCEPT ![c] = inbox[c]]
          /\ UNCHANGED <<proto, asked>>
          /\ pc[c] = "flushed"
      BY <2>4, TalkFacts DEF HijackFails
    <3>2. TalkOf("kept", proto[c], Len(replies[c]), Unread(inbox[c]), asked[c])
      BY <3>1, TalkFacts, UnreadIs, StayBalance
    <3> QED
      BY <3>1, <3>2, TalkFacts, TalkMove
  <2>15. CASE NotHijackable(c)
    <3>1. /\ pc' = [pc EXCEPT ![c] = "kept"]
          /\ replies' = [replies EXCEPT ![c] = Append(replies[c], "error")]
          /\ inbox' = [inbox EXCEPT ![c] = inbox[c]]
          /\ UNCHANGED <<proto, asked>>
          /\ pc[c] = "hijack"
      BY <2>15, TalkFacts DEF NotHijackable
    <3>2. Append(replies[c], "error") \in Seq(Answers) /\ Len(Append(replies[c], "error")) = Len(replies[c]) + 1
      BY TalkFacts DEF Answers
    <3>3. TalkOf("kept", proto[c], Len(replies[c]) + 1, Unread(inbox[c]), asked[c])
      BY <3>1, TalkFacts, UnreadIs DEF TalkOf, None
    <3> QED
      BY <3>1, <3>2, <3>3, TalkFacts, TalkMove
  <2>16. CASE Announce(c)
    <3>1. /\ pc' = [pc EXCEPT ![c] = "flushed"]
          /\ replies' = [replies EXCEPT ![c] = Append(replies[c], "ok")]
          /\ inbox' = [inbox EXCEPT ![c] = inbox[c]]
          /\ UNCHANGED <<proto, asked>>
          /\ pc[c] = "hijack"
      BY <2>16, TalkFacts DEF Announce
    <3>2. Append(replies[c], "ok") \in Seq(Answers) /\ Len(Append(replies[c], "ok")) = Len(replies[c]) + 1
      BY TalkFacts DEF Answers
    <3>3. TalkOf("flushed", proto[c], Len(replies[c]) + 1, Unread(inbox[c]), asked[c])
      BY <3>1, TalkFacts, UnreadIs DEF TalkOf, None
    <3> QED
      BY <3>1, <3>2, <3>3, TalkFacts, TalkMove
  <2>5. CASE Greet(c)
    <3>1. /\ pc' = [pc EXCEPT ![c] = "request"]
          /\ replies' = [replies EXCEPT ![c] = Append(replies[c], "method")]
          /\ inbox' = [inbox EXCEPT ![c] = None]
          /\ UNCHANGED <<proto, asked>>
          /\ pc[c] = "greeting" /\ inbox[c] = "hello"
      BY <2>5, TalkFacts DEF Greet
    <3>2. Append(replies[c], "method") \in Seq(Answers) /\ Len(Append(replies[c], "method")) = Len(replies[c]) + 1
      BY TalkFacts DEF Answers
    <3>3. TalkOf("request", proto[c], Len(replies[c]) + 1, Unread(None), asked[c])
      BY <3>1, TalkFacts, UnreadIs, MoveBalance DEF None
    <3> QED
      BY <3>1, <3>2, <3>3, TalkFacts, TalkMove
  <2>6. CASE GreetFails(c)
    <3>1. PICK rs \in {replies[c], Append(replies[c], "method")} :
             replies' = [replies EXCEPT ![c] = rs]
      BY <2>6, TalkFacts DEF GreetFails, MethodSent
    <3>2. /\ pc[c] = "greeting" /\ pc' = [pc EXCEPT ![c] = "done"]
          /\ inbox' = [inbox EXCEPT ![c] = None] /\ UNCHANGED <<proto, asked>>
      BY <2>6 DEF GreetFails
    <3>3. rs \in Seq(Answers)
      BY <3>1, TalkFacts DEF Answers
    <3>4. TalkOf("done", proto[c], Len(rs), Unread(None), asked[c])
      BY <3>2, TalkFacts DEF TalkOf, None
    <3> QED
      BY <3>1, <3>2, <3>3, <3>4, TalkFacts, TalkMove
  <2>7. CASE ReadRequest(c)
    <3>1. /\ pc' = [pc EXCEPT ![c] = "resolve"]
          /\ replies' = [replies EXCEPT ![c] = replies[c]]
          /\ inbox' = [inbox EXCEPT ![c] = None]
          /\ UNCHANGED <<proto, asked>>
          /\ pc[c] = "request" /\ inbox[c] = "connect"
      BY <2>7, TalkFacts DEF ReadRequest
    <3>2. TalkOf("resolve", proto[c], Len(replies[c]), Unread(None), asked[c])
      BY <3>1, TalkFacts, UnreadIs, StayBalance DEF None
    <3> QED
      BY <3>1, <3>2, TalkFacts, TalkMove
  <2>8. CASE Unsupported(c)
    <3>1. /\ pc' = [pc EXCEPT ![c] = "done"]
          /\ replies' = [replies EXCEPT ![c] = replies[c] \o <<"error", "error">>]
          /\ inbox' = [inbox EXCEPT ![c] = None]
          /\ UNCHANGED <<proto, asked>>
          /\ pc[c] = "request"
      BY <2>8, TalkFacts DEF Unsupported
    <3>2. replies[c] \o <<"error", "error">> \in Seq(Answers) /\ Len(replies[c] \o <<"error", "error">>) = Len(replies[c]) + 2
      BY TalkFacts DEF Answers
    <3>3. TalkOf("done", proto[c], Len(replies[c]) + 2, Unread(None), asked[c])
      BY <3>1, TalkFacts, UnreadIs DEF TalkOf, None
    <3> QED
      BY <3>1, <3>2, <3>3, TalkFacts, TalkMove
  <2>9. CASE RequestFails(c)
    <3>1. /\ pc' = [pc EXCEPT ![c] = "done"]
          /\ replies' = [replies EXCEPT ![c] = Append(replies[c], "error")]
          /\ inbox' = [inbox EXCEPT ![c] = None]
          /\ UNCHANGED <<proto, asked>>
          /\ pc[c] = "request"
      BY <2>9, TalkFacts DEF RequestFails
    <3>2. Append(replies[c], "error") \in Seq(Answers) /\ Len(Append(replies[c], "error")) = Len(replies[c]) + 1
      BY TalkFacts DEF Answers
    <3>3. TalkOf("done", proto[c], Len(replies[c]) + 1, Unread(None), asked[c])
      BY <3>1, TalkFacts, UnreadIs DEF TalkOf, None
    <3> QED
      BY <3>1, <3>2, <3>3, TalkFacts, TalkMove
  <2>10. CASE Intercept(c)
    <3>1. /\ pc' = [pc EXCEPT ![c] = "tls"]
          /\ replies' = [replies EXCEPT ![c] = replies[c]]
          /\ inbox' = [inbox EXCEPT ![c] = inbox[c]]
          /\ UNCHANGED <<proto, asked>>
          /\ pc[c] = "resolve"
      BY <2>10, TalkFacts DEF Intercept
    <3>2. TalkOf("tls", proto[c], Len(replies[c]), Unread(inbox[c]), asked[c])
      BY <3>1, TalkFacts, UnreadIs DEF TalkOf, None
    <3> QED
      BY <3>1, <3>2, TalkFacts, TalkMove
  <2>11. CASE InterceptEnds(c)
    <3>1. /\ pc' = [pc EXCEPT ![c] = "done"]
          /\ replies' = [replies EXCEPT ![c] = replies[c]]
          /\ inbox' = [inbox EXCEPT ![c] = None]
          /\ UNCHANGED <<proto, asked>>
          /\ proto[c] # "plain"
      BY <2>11, TalkFacts DEF InterceptEnds, Intercepted, Inv, Phases
    <3>2. TalkOf("done", proto[c], Len(replies[c]), Unread(None), asked[c])
      BY <3>1, TalkFacts, UnreadIs DEF TalkOf, None
    <3> QED
      BY <3>1, <3>2, TalkFacts, TalkMove
  <2>12. CASE Handshake(c)
    <3>1. /\ pc' = [pc EXCEPT ![c] = "serve"]
          /\ replies' = [replies EXCEPT ![c] = Append(replies[c], "ok")]
          /\ inbox' = [inbox EXCEPT ![c] = None]
          /\ UNCHANGED <<proto, asked>>
          /\ pc[c] = "tls" /\ inbox[c] = "tls" /\ proto[c] # "plain"
      BY <2>12, TalkFacts DEF Handshake, Intercepted, Inv, Phases
    <3>2. Append(replies[c], "ok") \in Seq(Answers) /\ Len(Append(replies[c], "ok")) = Len(replies[c]) + 1
      BY TalkFacts DEF Answers
    <3>3. TalkOf("serve", proto[c], Len(replies[c]) + 1, Unread(None), asked[c])
      <4>1. TalkOf("tls", proto[c], Len(replies[c]), 1, asked[c])
        BY <3>1, TalkFacts, UnreadIs DEF None
      <4> QED
        BY <3>1, <4>1, TalkFacts, UnreadIs, MoveBalance
    <3> QED
      BY <3>1, <3>2, <3>3, TalkFacts, TalkMove
  <2>13. CASE ServeRequest(c)
    <3>1. /\ pc' = [pc EXCEPT ![c] = "child"]
          /\ replies' = [replies EXCEPT ![c] = replies[c]]
          /\ inbox' = [inbox EXCEPT ![c] = None]
          /\ UNCHANGED <<proto, asked>>
          /\ pc[c] = "serve" /\ inbox[c] = "http"
      BY <2>13, TalkFacts DEF ServeRequest
    <3>2. TalkOf("child", proto[c], Len(replies[c]), Unread(None), asked[c])
      BY <3>1, TalkFacts, UnreadIs DEF TalkOf, None
    <3> QED
      BY <3>1, <3>2, TalkFacts, TalkMove
  <2>14. CASE RelayReturns(c)
    <3>1. /\ pc' = [pc EXCEPT ![c] = "done"]
          /\ replies' = [replies EXCEPT ![c] = replies[c]]
          /\ inbox' = [inbox EXCEPT ![c] = inbox[c]]
          /\ UNCHANGED <<proto, asked>>
          /\ pc[c] = "relay"
      BY <2>14, TalkFacts DEF RelayReturns
    <3>2. TalkOf("done", proto[c], Len(replies[c]), Unread(inbox[c]), asked[c])
      BY <3>1, TalkFacts, UnreadIs DEF TalkOf, None
    <3> QED
      BY <3>1, <3>2, TalkFacts, TalkMove
  <2> QED
    BY <1>2, <2>1, <2>2, <2>3, <2>4, <2>5, <2>6, <2>7, <2>8, <2>9, <2>10,
       <2>11, <2>12, <2>13, <2>14, <2>15, <2>16 DEF Handle
<1>3. ASSUME NEW c \in Conns, Answered(c) PROVE Talking'
  <2>1. CASE ResolveFails(c)
    <3> DEFINE where == IF proto[c] = "plain" THEN "kept" ELSE "done"
               rs == IF proto[c] = "connect" THEN replies[c] ELSE Append(replies[c], "error")
    <3>1. /\ pc' = [pc EXCEPT ![c] = where]
          /\ replies' = [replies EXCEPT ![c] = rs]
          /\ inbox' = [inbox EXCEPT ![c] = inbox[c]]
          /\ UNCHANGED <<proto, asked>>
          /\ pc[c] = "resolve"
      BY <2>1, TalkFacts DEF ResolveFails
    <3>2. rs \in Seq(Answers) /\ TalkOf(where, proto[c], Len(rs), Unread(inbox[c]), asked[c])
      <4>1. CASE proto[c] = "connect"
        <5>1. rs = replies[c]
          BY <4>1
        <5>2. rs \in Seq(Answers) /\ Len(rs) = Len(replies[c])
          BY <5>1, TalkFacts DEF Answers
        <5> QED
          BY <3>1, <4>1, <5>2, TalkFacts, UnreadIs DEF TalkOf, None
      <4>2. CASE ~(proto[c] = "connect")
        <5>1. rs = Append(replies[c], "error")
          BY <4>2
        <5>2. rs \in Seq(Answers) /\ Len(rs) = Len(replies[c]) + 1
          BY <5>1, TalkFacts DEF Answers
        <5> QED
          BY <3>1, <4>2, <5>2, TalkFacts, UnreadIs DEF TalkOf, None
      <4> QED
        BY <4>1, <4>2
    <3> HIDE DEF where, rs
    <3> QED
      BY <3>1, <3>2, TalkFacts, TalkMove
  <2>2. CASE ResolveHandled(c)
    <3> DEFINE where == IF proto[c] = "socks5" THEN "done" ELSE "kept"
               rs == IF proto[c] = "plain" THEN Append(replies[c], "response") ELSE replies[c]
    <3>1. /\ pc' = [pc EXCEPT ![c] = where]
          /\ replies' = [replies EXCEPT ![c] = rs]
          /\ inbox' = [inbox EXCEPT ![c] = inbox[c]]
          /\ UNCHANGED <<proto, asked>>
          /\ pc[c] = "resolve"
      BY <2>2, TalkFacts DEF ResolveHandled
    <3>2. rs \in Seq(Answers) /\ TalkOf(where, proto[c], Len(rs), Unread(inbox[c]), asked[c])
      <4>1. CASE proto[c] = "plain"
        <5>1. rs = Append(replies[c], "response")
          BY <4>1
        <5>2. rs \in Seq(Answers) /\ Len(rs) = Len(replies[c]) + 1
          BY <5>1, TalkFacts DEF Answers
        <5> QED
          BY <3>1, <4>1, <5>2, TalkFacts, UnreadIs, MoveBalance
      <4>2. CASE ~(proto[c] = "plain")
        <5>1. rs = replies[c]
          BY <4>2
        <5>2. rs \in Seq(Answers) /\ Len(rs) = Len(replies[c])
          BY <5>1, TalkFacts DEF Answers
        <5> QED
          BY <3>1, <4>2, <5>2, TalkFacts, UnreadIs, StayBalance
      <4> QED
        BY <4>1, <4>2
    <3> HIDE DEF where, rs
    <3> QED
      BY <3>1, <3>2, TalkFacts, TalkMove
  <2>3. CASE DialFails(c)
    <3> DEFINE where == IF proto[c] = "plain" THEN "kept" ELSE "done"
               rs == IF proto[c] = "connect" THEN replies[c] ELSE Append(replies[c], "error")
    <3>1. /\ pc' = [pc EXCEPT ![c] = where]
          /\ replies' = [replies EXCEPT ![c] = rs]
          /\ inbox' = [inbox EXCEPT ![c] = inbox[c]]
          /\ UNCHANGED <<proto, asked>>
          /\ pc[c] = "dial"
      BY <2>3, TalkFacts DEF DialFails
    <3>2. rs \in Seq(Answers) /\ TalkOf(where, proto[c], Len(rs), Unread(inbox[c]), asked[c])
      <4>1. CASE proto[c] = "connect"
        <5>1. rs = replies[c]
          BY <4>1
        <5>2. rs \in Seq(Answers) /\ Len(rs) = Len(replies[c])
          BY <5>1, TalkFacts DEF Answers
        <5> QED
          BY <3>1, <4>1, <5>2, TalkFacts, UnreadIs DEF TalkOf, None
      <4>2. CASE ~(proto[c] = "connect")
        <5>1. rs = Append(replies[c], "error")
          BY <4>2
        <5>2. rs \in Seq(Answers) /\ Len(rs) = Len(replies[c]) + 1
          BY <5>1, TalkFacts DEF Answers
        <5> QED
          BY <3>1, <4>2, <5>2, TalkFacts, UnreadIs DEF TalkOf, None
      <4> QED
        BY <4>1, <4>2
    <3> HIDE DEF where, rs
    <3> QED
      BY <3>1, <3>2, TalkFacts, TalkMove
  <2>4. ASSUME NEW t \in BOOLEAN, ResolveProxy(c, t) PROVE Talking'
    <3>1. /\ pc' = [pc EXCEPT ![c] = "dial"]
          /\ replies' = [replies EXCEPT ![c] = replies[c]]
          /\ inbox' = [inbox EXCEPT ![c] = inbox[c]]
          /\ UNCHANGED <<proto, asked>>
          /\ pc[c] = "resolve"
      BY <2>4, TalkFacts DEF ResolveProxy
    <3>2. TalkOf("dial", proto[c], Len(replies[c]), Unread(inbox[c]), asked[c])
      BY <3>1, TalkFacts, UnreadIs DEF TalkOf, None
    <3> QED
      BY <3>1, <3>2, TalkFacts, TalkMove
  <2>5. ASSUME NEW t \in BOOLEAN, ChildProxy(c, t) PROVE Talking'
    <3>1. /\ pc' = [pc EXCEPT ![c] = "forward"]
          /\ replies' = [replies EXCEPT ![c] = replies[c]]
          /\ inbox' = [inbox EXCEPT ![c] = inbox[c]]
          /\ UNCHANGED <<proto, asked>>
          /\ pc[c] = "child"
      BY <2>5, TalkFacts DEF ChildProxy
    <3>2. TalkOf("forward", proto[c], Len(replies[c]), Unread(inbox[c]), asked[c])
      BY <3>1, TalkFacts, UnreadIs DEF TalkOf, None
    <3> QED
      BY <3>1, <3>2, TalkFacts, TalkMove
  <2>6. CASE AutoUpstream(c)
    <3> DEFINE where == "relay"
               rs == IF proto[c] = "socks5" THEN Append(replies[c], "ok") ELSE replies[c]
    <3>1. /\ pc' = [pc EXCEPT ![c] = where]
          /\ replies' = [replies EXCEPT ![c] = rs]
          /\ inbox' = [inbox EXCEPT ![c] = inbox[c]]
          /\ UNCHANGED <<proto, asked>>
          /\ pc[c] = "dial" /\ proto[c] # "plain"
      BY <2>6, TalkFacts DEF AutoUpstream, HTTPUpstream, SOCKS5Upstream, DialTunnel
    <3>2. rs \in Seq(Answers) /\ TalkOf(where, proto[c], Len(rs), Unread(inbox[c]), asked[c])
      <4>1. CASE proto[c] = "socks5"
        <5>1. rs = Append(replies[c], "ok")
          BY <4>1
        <5>2. rs \in Seq(Answers) /\ Len(rs) = Len(replies[c]) + 1
          BY <5>1, TalkFacts DEF Answers
        <5> QED
          BY <3>1, <4>1, <5>2, TalkFacts, UnreadIs, MoveBalance
      <4>2. CASE ~(proto[c] = "socks5")
        <5>1. rs = replies[c]
          BY <4>2
        <5>2. rs \in Seq(Answers) /\ Len(rs) = Len(replies[c])
          BY <5>1, TalkFacts DEF Answers
        <5> QED
          BY <3>1, <4>2, <5>2, TalkFacts, UnreadIs DEF TalkOf, None
      <4> QED
        BY <4>1, <4>2
    <3> HIDE DEF where, rs
    <3> QED
      BY <3>1, <3>2, TalkFacts, TalkMove
  <2>7. CASE ForwardPlainHTTP(c)
    <3>1. /\ pc' = [pc EXCEPT ![c] = "stream"]
          /\ replies' = [replies EXCEPT ![c] = Append(replies[c], "response")]
          /\ inbox' = [inbox EXCEPT ![c] = inbox[c]]
          /\ UNCHANGED <<proto, asked>>
          /\ pc[c] = "dial" /\ proto[c] = "plain"
      BY <2>7, TalkFacts DEF ForwardPlainHTTP
    <3>2. Append(replies[c], "response") \in Seq(Answers) /\ Len(Append(replies[c], "response")) = Len(replies[c]) + 1
      BY TalkFacts DEF Answers
    <3>3. TalkOf("stream", proto[c], Len(replies[c]) + 1, Unread(inbox[c]), asked[c])
      BY <3>1, TalkFacts, UnreadIs DEF TalkOf, None
    <3> QED
      BY <3>1, <3>2, <3>3, TalkFacts, TalkMove
  <2>8. CASE UploadChunk(c) \/ StreamChunk(c)
    BY <2>8, TalkSame DEF UploadChunk, StreamChunk
  <2>9. CASE StreamEnds(c)
    <3>1. /\ pc' = [pc EXCEPT ![c] = "kept"]
          /\ replies' = [replies EXCEPT ![c] = replies[c]]
          /\ inbox' = [inbox EXCEPT ![c] = inbox[c]]
          /\ UNCHANGED <<proto, asked>>
          /\ pc[c] = "stream"
      BY <2>9, TalkFacts DEF StreamEnds
    <3>2. TalkOf("kept", proto[c], Len(replies[c]), Unread(inbox[c]), asked[c])
      BY <3>1, TalkFacts, UnreadIs DEF TalkOf, None
    <3> QED
      BY <3>1, <3>2, TalkFacts, TalkMove
  <2>10. CASE ChildAnswered(c)
    <3>1. /\ pc' = [pc EXCEPT ![c] = "serve"]
          /\ replies' = [replies EXCEPT ![c] = Append(replies[c], "response")]
          /\ inbox' = [inbox EXCEPT ![c] = inbox[c]]
          /\ UNCHANGED <<proto, asked>>
          /\ pc[c] = "child"
      BY <2>10, TalkFacts DEF ChildAnswered
    <3>2. Append(replies[c], "response") \in Seq(Answers) /\ Len(Append(replies[c], "response")) = Len(replies[c]) + 1
      BY TalkFacts DEF Answers
    <3>3. TalkOf("serve", proto[c], Len(replies[c]) + 1, Unread(inbox[c]), asked[c])
      BY <3>1, TalkFacts, UnreadIs DEF TalkOf, None
    <3> QED
      BY <3>1, <3>2, <3>3, TalkFacts, TalkMove
  <2>11. CASE RoundTrip(c)
    <3>1. /\ pc' = [pc EXCEPT ![c] = "serve"]
          /\ replies' = [replies EXCEPT ![c] = Append(replies[c], "response")]
          /\ inbox' = [inbox EXCEPT ![c] = inbox[c]]
          /\ UNCHANGED <<proto, asked>>
          /\ pc[c] = "forward"
      BY <2>11, TalkFacts DEF RoundTrip
    <3>2. Append(replies[c], "response") \in Seq(Answers) /\ Len(Append(replies[c], "response")) = Len(replies[c]) + 1
      BY TalkFacts DEF Answers
    <3>3. TalkOf("serve", proto[c], Len(replies[c]) + 1, Unread(inbox[c]), asked[c])
      BY <3>1, TalkFacts, UnreadIs DEF TalkOf, None
    <3> QED
      BY <3>1, <3>2, <3>3, TalkFacts, TalkMove
  <2> QED
    BY <1>3, <2>1, <2>2, <2>3, <2>4, <2>5, <2>6, <2>7, <2>8, <2>9, <2>10, <2>11 DEF Answered
<1>4. ASSUME NEW c \in Conns, Peers(c) PROVE Talking'
  <2>1. ASSUME NEW m \in {"hello", "connect", "bind", "tls", "http"}, ClientSays(c, m)
        PROVE  Talking'
    <3> DEFINE n == asked[c] + 1
    <3>1. /\ pc[c] \notin {"done", "kept", None} /\ asked[c] = Len(replies[c])
          /\ asked[c] < MaxRequests
          /\ proto[c] # "plain"
          /\ inbox' = [inbox EXCEPT ![c] = m]
          /\ asked' = [asked EXCEPT ![c] = n]
          /\ UNCHANGED <<pc, proto, replies>>
      BY <2>1 DEF ClientSays, Intercepted
    <3>2. /\ pc' = [pc EXCEPT ![c] = pc[c]] /\ proto' = [proto EXCEPT ![c] = proto[c]]
          /\ replies' = [replies EXCEPT ![c] = replies[c]]
      BY <3>1, TalkFacts DEF TrackingTypes
    <3>3. m \in Inboxes /\ m # None /\ n \in 0..MaxRequests
      BY <3>1, TalkFacts, DownstreamAssumption DEF Inboxes, None
    <3>4. TalkOf(pc[c], proto[c], Len(replies[c]), Unread(m), n)
      <4>1. Unread(m) = 1 /\ Unread(inbox[c]) \in {0, 1}
        BY <3>3, UnreadIs
      <4>2. TalkOf(pc[c], proto[c], Len(replies[c]), Unread(inbox[c]), Len(replies[c]))
        BY <3>1, TalkFacts
      <4> QED
        BY <3>1, <4>1, <4>2, TalkFacts, SayBalance
    <3> HIDE DEF n
    <3> QED
      BY <3>1, <3>2, <3>3, <3>4, TalkFacts, TalkStep
  <2>2. ASSUME NEW how \in {"fin", "gone"}, ClientEnds(c, how) \/ TargetEnds(c, how)
        PROVE  Talking'
    BY <2>2, TalkSame DEF ClientEnds, TargetEnds
  <2>3. ASSUME NEW d \in Directions, Send(c, d) PROVE Talking'
    BY <2>3, TalkSame DEF Send
  <2> QED
    BY <1>4, <2>1, <2>2, <2>3 DEF Peers
<1>5. ASSUME NEW c \in Conns, NEW d \in Directions, Copy(c, d) PROVE Talking'
  <2>1. UNCHANGED <<pc, proto, replies, inbox, asked>>
    BY <1>5 DEF Copy, ReadEnds, WriteFails, CopyReturns, ReadChunk, Cancel, Receive, WriteChunk
  <2> QED
    BY <2>1, TalkSame
<1>6. CASE Signal \/ Exit \/ Stopped \/ UNCHANGED vars
  <2>1. UNCHANGED <<pc, proto, replies, inbox, asked>>
    BY <1>6 DEF Signal, Exit, Stopped, vars
  <2> QED
    BY <2>1, TalkSame
<1> QED
  BY <1>1, <1>2, <1>3, <1>4, <1>5, <1>6 DEF Next

\* Clients of every protocol are answered in turn, and a plain request once.
THEOREM TurnsKept == Spec => []AnsweredInTurn
<1>1. Init => Inv /\ Talking
  BY InvInit, TalkingInit
<1>2. Inv /\ Talking /\ [Next]_vars => Inv' /\ Talking'
  BY InvStep, TalkingStep
<1>3. Inv /\ Talking => AnsweredInTurn
  BY TalkingImplies
<1> QED
  BY <1>1, <1>2, <1>3, PTL DEF Spec
=============================================================================
