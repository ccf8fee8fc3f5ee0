----------------------------- MODULE Downstream -----------------------------
(***************************************************************************)
(* The life of a client connection in proxy-kit: http_downstream.go        *)
(* (CONNECT and plain HTTP), socks5_downstream.go, mitm.go and relay.go,   *)
(* and the process around them, proxy-gateway/server.go.                   *)
(*                                                                         *)
(* One goroutine handles a connection; a tunnel has two more that copy.    *)
(* The client, the target behind the upstream proxy, and the shutdown      *)
(* signal act on their own.  Of the pipeline only the result matters: an   *)
(* error, nothing, or a proxy with or without a ConnTracker, which holds   *)
(* one of the slots of a concurrent rule (see RateLimiter) until it is     *)
(* closed.  The data of a tunnel are numbered chunks, what one Read may    *)
(* return, so that a lost, repeated or reordered one can be told.          *)
(***************************************************************************)
EXTENDS Integers, Sequences, FiniteSets

CONSTANTS
    Conns,          \* client connections
    Protocols,      \* what clients speak: CONNECT, plain HTTP, SOCKS5
    Interception,   \* does the pipeline start with MITM?  (both, or one)
    Slots,          \* trackers the rate limiter lets be open at once
    MaxRequests,    \* bound on the messages of one client
    MaxChunks       \* bound on the chunks sent in one direction

ASSUME DownstreamAssumption ==
    /\ IsFiniteSet(Conns)
    /\ Protocols \subseteq {"connect", "plain", "socks5"}
    /\ Interception \subseteq BOOLEAN
    /\ Slots \in Nat /\ MaxRequests \in Nat \ {0} /\ MaxChunks \in Nat

Directions == {"up", "down"}
None == "none"

VARIABLES
    server,         \* "up", "draining" after the signal, "exited"
    mitm,           \* the pipeline starts with MITM
    proto,          \* protocol of each connection, None before it is accepted
    pc,             \* where its goroutine is
    client,         \* the client's side: "open", "fin" (sends no more), "gone"
    inbox,          \* what the client said and the goroutine has not read
    asked,          \* how many things the client has said
    replies,        \* what it was answered, in order
    upstream,       \* the upstream connection: None, "open", "closed"
    tcp,            \* it is a *net.TCPConn, which can be half-closed
    target,         \* the target's side, as client
    copier,         \* the copying goroutines: None, "copy", "sent"
    eof,            \* CloseWrite: the reader of that direction sees the end
    cut,            \* cancelConn was called: both deadlines have passed
    flow,           \* the data of each direction, see Flows
    request,        \* the body of a plain request, see Requests
    tracker,        \* result.ConnTracker is not nil
    open            \* trackers handed out for the connection and not closed

peer == <<client, inbox, asked>>
ends == <<upstream, tcp, target, copier, eof, cut>>
link == <<ends, flow, request>>
tracking == <<tracker, open>>
vars == <<server, mitm, proto, pc, peer, replies, link, tracking>>

\* The goroutine has returned, and the client's connection is closed ("done")
\* or kept by net/http or by middleware ("kept").
Ended == {"done", "kept"}

Intercepted(c) == mitm /\ proto[c] # "plain"

\* Of one direction of a tunnel, and of the body of a plain response: how many
\* chunks were sent, and how many of them before the gateway had the connection
\* in its hands; those on the way, the one read and not yet written, those that
\* arrived; and how many were recorded.
Chunks == 1..MaxChunks
Flows == [sent : 0..MaxChunks, eager : 0..MaxChunks, wire : Seq(Chunks),
          buf : Seq(Chunks), seen : Seq(Chunks), counted : 0..MaxChunks]

\* Of a plain request: ContentLength (-1 for a chunked body), how much of the
\* body the transport has carried, and how much was recorded.
Requests == [length : -1..MaxChunks, carried : 0..MaxChunks, counted : 0..MaxChunks]

TypeOK ==
    /\ server \in {"up", "draining", "exited"}
    /\ mitm \in Interception
    /\ proto \in [Conns -> Protocols \cup {None}]
    /\ pc \in [Conns -> {None, "auth", "hijack", "flushed", "greeting", "request",
                         "resolve", "tls", "serve", "child", "forward", "dial",
                         "relay", "stream"} \cup Ended]
    /\ client \in [Conns -> {"open", "fin", "gone"}]
    /\ inbox \in [Conns -> {None, "hello", "connect", "bind", "tls", "http", "torn"}]
    /\ asked \in [Conns -> 0..MaxRequests]
    /\ \A c \in Conns : replies[c] \in Seq({"method", "ok", "error", "response"})
    /\ upstream \in [Conns -> {None, "open", "closed"}]
    /\ tcp \in [Conns -> BOOLEAN]
    /\ target \in [Conns -> {"open", "fin", "gone"}]
    /\ copier \in [Conns \X Directions -> {None, "copy", "sent"}]
    /\ eof \in [Conns \X Directions -> BOOLEAN]
    /\ cut \in [Conns -> BOOLEAN]
    /\ flow \in [Conns \X Directions -> Flows]
    /\ request \in [Conns -> Requests]
    /\ tracker \in [Conns -> BOOLEAN]
    /\ open \in [Conns -> 0..Slots]

Init ==
    /\ server = "up"
    /\ mitm \in Interception
    /\ proto = [c \in Conns |-> None]
    /\ pc = [c \in Conns |-> None]
    /\ client = [c \in Conns |-> "open"]
    /\ inbox = [c \in Conns |-> None]
    /\ asked = [c \in Conns |-> 0]
    /\ replies = [c \in Conns |-> <<>>]
    /\ upstream = [c \in Conns |-> None]
    /\ tcp = [c \in Conns |-> FALSE]
    /\ target = [c \in Conns |-> "open"]
    /\ copier = [r \in Conns \X Directions |-> None]
    /\ eof = [r \in Conns \X Directions |-> FALSE]
    /\ cut = [c \in Conns |-> FALSE]
    /\ flow = [r \in Conns \X Directions |->
                 [sent |-> 0, eager |-> 0, wire |-> <<>>, buf |-> <<>>,
                  seen |-> <<>>, counted |-> 0]]
    /\ request = [c \in Conns |-> [length |-> 0, carried |-> 0, counted |-> 0]]
    /\ tracker = [c \in Conns |-> FALSE]
    /\ open = [c \in Conns |-> 0]
-----------------------------------------------------------------------------
\* The process lives and the goroutine of c is there.
At(c, where) == server # "exited" /\ pc[c] = where
Goto(c, where) == pc' = [pc EXCEPT ![c] = where]

Answer(c, r) == replies' = [replies EXCEPT ![c] = Append(@, r)]
Read(c) == inbox' = [inbox EXCEPT ![c] = None]

\* Mutants: the tracker is closed only when the relay was reached; it is
\* taken to be there always.
CloseTrackerMutant(c) ==
    open' = [open EXCEPT ![c] = IF upstream[c] = "open" THEN @ - 1 ELSE @]

CloseAlwaysMutant(c) == open' = [open EXCEPT ![c] = @ - 1]

\* What has come in is read along with something else and thrown away.
Swallow(r) ==
    \E n \in 0..Len(flow[r].wire) :
        flow' = [flow EXCEPT ![r].wire = SubSeq(@, n + 1, Len(@))]

\* if result.ConnTracker != nil { result.ConnTracker.Close(...) }
CloseTracker(c) ==
    open' = [open EXCEPT ![c] = IF tracker[c] THEN @ - 1 ELSE @]

\* A connection is accepted: net/http has read a request by the time it calls
\* the handler, SOCKS5 waits for the greeting.
Accept(c, p) ==
    /\ At(c, None)
    /\ p = "socks5" \/ server = "up"
    /\ proto' = [proto EXCEPT ![c] = p]
    /\ asked' = [asked EXCEPT ![c] = IF p = "socks5" THEN 0 ELSE 1]
    /\ Goto(c, IF p = "socks5" THEN "greeting" ELSE "auth")
    /\ \E n \in IF p = "plain" THEN -1..MaxChunks ELSE {0} :
          request' = [request EXCEPT ![c].length = n]
    /\ UNCHANGED <<server, mitm, client, inbox, replies, ends, flow, tracking>>

\* httpHandler: Proxy-Authorization is missing or malformed (407), or the
\* request is dispatched.
AuthFails(c) ==
    /\ At(c, "auth")
    /\ Answer(c, "error")
    /\ Goto(c, "kept")
    /\ UNCHANGED <<server, mitm, proto, peer, link, tracking>>

Dispatch(c) ==
    /\ At(c, "auth")
    /\ Goto(c, IF proto[c] = "connect" THEN "hijack" ELSE "resolve")
    /\ UNCHANGED <<server, mitm, proto, peer, replies, link, tracking>>

\* serveConnect: the ResponseWriter cannot be hijacked, or ...
NotHijackable(c) ==
    /\ At(c, "hijack")
    /\ Answer(c, "error")
    /\ Goto(c, "kept")
    /\ UNCHANGED <<server, mitm, proto, peer, link, tracking>>

\* ... 200 is written before anything is resolved; Hijack flushes it first ...
Announce(c) ==
    /\ At(c, "hijack")
    /\ Answer(c, "ok")
    /\ Goto(c, "flushed")
    /\ UNCHANGED <<server, mitm, proto, peer, link, tracking>>

\* ... and only then stops net/http from reading on.  What that has read beyond
\* the request is in the buffer that Hijack returns, which is dropped: it may be
\* of what the client sent after it saw its 200, a TLS handshake for instance.
Hijack(c) ==
    /\ At(c, "flushed")
    /\ Swallow(<<c, "up">>)
    /\ UNCHANGED inbox \/ (inbox[c] # None /\ inbox' = [inbox EXCEPT ![c] = "torn"])
    /\ Goto(c, "resolve")
    /\ UNCHANGED <<server, mitm, proto, client, asked, replies, ends, request, tracking>>

\* Hijack returns an error; net/http keeps the connection.
HijackFails(c) ==
    /\ At(c, "flushed")
    /\ Goto(c, "kept")
    /\ UNCHANGED <<server, mitm, proto, peer, replies, link, tracking>>

\* socks5ServerHandshake: a method is selected (and a username and password
\* are accepted unseen), or the greeting is not one, the client is gone or
\* the deadline of the handshake passes.
Greet(c) ==
    /\ At(c, "greeting") /\ inbox[c] = "hello"
    /\ Read(c)
    /\ Answer(c, "method")
    /\ Goto(c, "request")
    /\ UNCHANGED <<server, mitm, proto, client, asked, link, tracking>>

\* The username and password may fail to come after the method was selected.
MethodSent(c) == UNCHANGED replies \/ (inbox[c] = "hello" /\ Answer(c, "method"))

\* A mutant: no deadline is set for the handshake.
GreetFailsMutant(c) ==
    /\ At(c, "greeting")
    /\ inbox[c] # None \/ client[c] # "open"
    /\ Read(c)
    /\ MethodSent(c)
    /\ Goto(c, "done")
    /\ UNCHANGED <<server, mitm, proto, client, asked, link, tracking>>

GreetFails(c) ==
    /\ At(c, "greeting")
    /\ Read(c)
    /\ MethodSent(c)
    /\ Goto(c, "done")
    /\ UNCHANGED <<server, mitm, proto, client, asked, link, tracking>>

\* socks5ReadRequest: CONNECT, another command (answered twice), or nothing
\* sensible before the deadline.
ReadRequest(c) ==
    /\ At(c, "request") /\ inbox[c] = "connect"
    /\ Read(c)
    /\ Goto(c, "resolve")
    /\ UNCHANGED <<server, mitm, proto, client, asked, replies, link, tracking>>

Unsupported(c) ==
    /\ At(c, "request") /\ inbox[c] = "bind"
    /\ Read(c)
    /\ replies' = [replies EXCEPT ![c] = @ \o <<"error", "error">>]
    /\ Goto(c, "done")
    /\ UNCHANGED <<server, mitm, proto, client, asked, link, tracking>>

RequestFails(c) ==
    /\ At(c, "request")
    /\ Read(c)
    /\ Answer(c, "error")
    /\ Goto(c, "done")
    /\ UNCHANGED <<server, mitm, proto, client, asked, link, tracking>>
-----------------------------------------------------------------------------
\* handler.Resolve, for all but intercepted tunnels.  An error: the client is
\* told, unless it has its 200 already, and its connection is closed.
ResolveFails(c) ==
    /\ At(c, "resolve") /\ ~Intercepted(c)
    /\ IF proto[c] = "connect" THEN UNCHANGED replies ELSE Answer(c, "error")
    /\ Goto(c, IF proto[c] = "plain" THEN "kept" ELSE "done")
    /\ UNCHANGED <<server, mitm, proto, peer, link, tracking>>

\* No proxy: a plain request gets the synthetic response or 503; a tunnel is
\* taken to be handled by middleware, and a CONNECT is left open for it.
ResolveHandled(c) ==
    /\ At(c, "resolve") /\ ~Intercepted(c)
    /\ IF proto[c] = "plain" THEN Answer(c, "response") ELSE UNCHANGED replies
    /\ Goto(c, IF proto[c] = "socks5" THEN "done" ELSE "kept")
    /\ UNCHANGED <<server, mitm, proto, peer, link, tracking>>

\* The trackers that are open, as pairs of a connection and a number.
Trackers == {n \in Conns \X (1..Slots) : n[2] <= open[n[1]]}

\* The result carries a tracker (t) if a limiter in the pipeline let it pass.
Track(c, t) ==
    /\ t => Cardinality(Trackers) < Slots
    /\ tracker' = [tracker EXCEPT ![c] = t]
    /\ open' = [open EXCEPT ![c] = IF t THEN @ + 1 ELSE @]

ResolveProxy(c, t) ==
    /\ At(c, "resolve") /\ ~Intercepted(c)
    /\ Track(c, t)
    /\ Goto(c, "dial")
    /\ UNCHANGED <<server, mitm, proto, peer, replies, link>>

\* Upstream.Dial or ForwardPlainHTTP fails.
DialFails(c) ==
    /\ At(c, "dial")
    /\ CloseTracker(c)
    /\ IF proto[c] = "connect" THEN UNCHANGED replies ELSE Answer(c, "error")
    /\ Goto(c, IF proto[c] = "plain" THEN "kept" ELSE "done")
    /\ UNCHANGED <<server, mitm, proto, peer, link, tracker>>

\* The tunnel stands: the copying goroutines start.
DialTunnel(c, isTCP) ==
    /\ At(c, "dial") /\ proto[c] # "plain"
    /\ upstream' = [upstream EXCEPT ![c] = "open"]
    /\ tcp' = [tcp EXCEPT ![c] = isTCP]
    /\ IF proto[c] = "socks5" THEN Answer(c, "ok") ELSE UNCHANGED replies
    /\ copier' = [r \in Conns \X Directions |-> IF r[1] = c THEN "copy" ELSE copier[r]]
    /\ Goto(c, "relay")
    /\ UNCHANGED <<server, mitm, proto, peer, target, eof, cut, request, tracking>>

\* The upstream proxy has accepted CONNECT: the connection to it is the tunnel,
\* less what was read together with the end of its answer.
HTTPUpstream(c) == DialTunnel(c, TRUE) /\ Swallow(<<c, "down">>)

\* The dialer of golang.org/x/net/proxy reads its answers to the byte, and
\* returns a wrapper of the connection.
SOCKS5Upstream(c) == DialTunnel(c, FALSE) /\ UNCHANGED flow

\* Which one, the protocol of the resolved proxy says.
AutoUpstream(c) == HTTPUpstream(c) \/ SOCKS5Upstream(c)

\* servePlainHTTP: the response header is passed on, then its body.
ForwardPlainHTTP(c) ==
    /\ At(c, "dial") /\ proto[c] = "plain"
    /\ Answer(c, "response")
    /\ Goto(c, "stream")
    /\ UNCHANGED <<server, mitm, proto, peer, link, tracking>>

\* The transport reads a part of the request's body and writes it upstream: as
\* much as was declared, or until the last chunk, while it waits for the
\* response and after.
UploadChunk(c) ==
    LET b == request[c]
    IN  /\ server # "exited" /\ pc[c] \in {"dial", "stream"} /\ proto[c] = "plain"
        /\ client[c] # "gone"
        /\ b.carried < IF b.length = -1 THEN MaxChunks ELSE b.length
        /\ request' = [request EXCEPT ![c].carried = @ + 1]
        /\ UNCHANGED <<server, mitm, proto, pc, peer, replies, ends, flow, tracking>>

\* A part of the response's body is read and written; that the client may be
\* gone, and the write fail, goes unnoticed.
StreamChunk(c) ==
    LET r == <<c, "down">>
        n == flow[r].sent + 1
    IN  /\ At(c, "stream") /\ n <= MaxChunks
        /\ flow' = [flow EXCEPT ![r].sent = n,
                               ![r].seen = IF client[c] = "gone" THEN @ ELSE Append(@, n)]
        /\ UNCHANGED <<server, mitm, proto, pc, peer, replies, ends, request, tracking>>

\* var sent int64; if r.ContentLength > 0 { sent = r.ContentLength }
Declared(c) == IF request[c].length > 0 THEN request[c].length ELSE 0

\* The response has ended: the traffic is recorded, all at once and with a
\* cancel that does nothing, and the tracker closed.
StreamEnds(c) ==
    LET r == <<c, "down">>
    IN  /\ At(c, "stream")
        /\ flow' = [flow EXCEPT ![r].counted = IF tracker[c] THEN flow[r].sent ELSE @]
        /\ request' = [request EXCEPT ![c].counted = IF tracker[c] THEN Declared(c) ELSE @]
        /\ CloseTracker(c)
        /\ Goto(c, "kept")
        /\ UNCHANGED <<server, mitm, proto, peer, replies, ends, tracker>>
-----------------------------------------------------------------------------
\* mitmHandler.Resolve on a tunnel: CertForHost, and then the handshake, for
\* which it waits without a deadline.
Intercept(c) ==
    /\ At(c, "resolve") /\ Intercepted(c)
    /\ Goto(c, "tls")
    /\ UNCHANGED <<server, mitm, proto, peer, replies, link, tracking>>

\* No certificate, no handshake, or no further request: the connection is
\* closed and the result is nil.
InterceptEnds(c) ==
    /\ \/ At(c, "resolve") /\ Intercepted(c)
       \/ At(c, "tls") /\ (inbox[c] # None \/ client[c] # "open")
       \/ At(c, "serve") /\ (inbox[c] # None \/ client[c] # "open")
    /\ Read(c)
    /\ Goto(c, "done")
    /\ UNCHANGED <<server, mitm, proto, client, asked, replies, link, tracking>>

Handshake(c) ==
    /\ At(c, "tls") /\ inbox[c] = "tls"
    /\ Read(c)
    /\ Answer(c, "ok")
    /\ Goto(c, "serve")
    /\ UNCHANGED <<server, mitm, proto, client, asked, link, tracking>>

\* http.ReadRequest
ServeRequest(c) ==
    /\ At(c, "serve") /\ inbox[c] = "http"
    /\ Read(c)
    /\ Goto(c, "child")
    /\ UNCHANGED <<server, mitm, proto, client, asked, replies, link, tracking>>

\* inner.Resolve of the child request: a synthetic response, an error (403)
\* or no proxy (503) ...
ChildAnswered(c) ==
    /\ At(c, "child")
    /\ Answer(c, "response")
    /\ Goto(c, "serve")
    /\ UNCHANGED <<server, mitm, proto, peer, link, tracking>>

\* ... or a proxy, with a tracker that the loop never looks at.
ChildProxy(c, t) ==
    /\ At(c, "child")
    /\ Track(c, t)
    /\ Goto(c, "forward")
    /\ UNCHANGED <<server, mitm, proto, peer, replies, link>>

\* A mutant: a request that could not be forwarded is not answered.
RoundTripMutant(c) ==
    /\ At(c, "forward")
    /\ Goto(c, "serve")
    /\ UNCHANGED <<server, mitm, proto, peer, replies, link, tracking>>

\* interceptor.RoundTrip: its response or 502.
RoundTrip(c) ==
    /\ At(c, "forward")
    /\ Answer(c, "response")
    /\ Goto(c, "serve")
    /\ UNCHANGED <<server, mitm, proto, peer, link, tracking>>
-----------------------------------------------------------------------------
Sender(c, d) == IF d = "up" THEN client[c] ELSE target[c]
Receiver(c, d) == IF d = "up" THEN target[c] ELSE client[c]

Copying(c, d) == server # "exited" /\ copier[<<c, d>>] = "copy"

\* Mutants: downloads are not recorded; data are left behind at the end.
RecordMutant(c, d) == IF tracker[c] /\ d = "up" THEN 1 ELSE 0
AtEOFMutant(c, d) == Sender(c, d) = "fin"

\* countingReader.Read records what it has read, if there is a tracker.
Record(c, d) == IF tracker[c] THEN 1 ELSE 0

\* The sender has finished and everything it sent was read.
AtEOF(c, d) == Sender(c, d) = "fin" /\ flow[<<c, d>>].wire = <<>>

\* io.Copy reads a chunk ...
Receive(c, d) ==
    LET f == flow[<<c, d>>]
    IN  /\ Copying(c, d) /\ ~cut[c]
        /\ f.buf = <<>> /\ f.wire # <<>>
        /\ flow' = [flow EXCEPT ![<<c, d>>].buf = <<Head(f.wire)>>,
                               ![<<c, d>>].wire = Tail(@),
                               ![<<c, d>>].counted = @ + Record(c, d)]
        /\ UNCHANGED <<server, mitm, proto, pc, peer, replies, upstream, tcp,
                       target, copier, eof, request, tracking>>

ReadChunk(c, d) == Receive(c, d) /\ UNCHANGED cut

\* ... and RecordTraffic may find a limit used up: cancelConn.
Cancel(c, d) ==
    /\ tracker[c]
    /\ Receive(c, d)
    /\ cut' = [cut EXCEPT ![c] = TRUE]

\* The chunk is written; a receiver that is gone may be found so later.
WriteChunk(c, d) ==
    LET f == flow[<<c, d>>]
    IN  /\ Copying(c, d) /\ ~cut[c] /\ f.buf # <<>>
        /\ flow' = [flow EXCEPT
                      ![<<c, d>>].buf = <<>>,
                      ![<<c, d>>].seen = IF Receiver(c, d) = "gone" THEN @ ELSE @ \o f.buf]
        /\ UNCHANGED <<server, mitm, proto, pc, peer, replies, ends, request, tracking>>

\* A mutant: the end of one side is not passed on.
HalfCloseMutant(c, d) == FALSE

\* The type assertion to *net.TCPConn before CloseWrite.
HalfClose(c, d) == d = "down" \/ tcp[c]

\* io.Copy returns, with what it has read and not written: the deadlines have
\* passed, the sender has finished or is gone, or the receiver is.
CopyReturns(c, d) ==
    /\ Copying(c, d)
    /\ flow' = [flow EXCEPT ![<<c, d>>].buf = <<>>]
    /\ copier' = [copier EXCEPT ![<<c, d>>] = "sent"]
    /\ eof' = [eof EXCEPT ![<<c, d>>] = HalfClose(c, d)]
    /\ UNCHANGED <<server, mitm, proto, pc, peer, replies, upstream, tcp,
                   target, cut, request, tracking>>

ReadEnds(c, d) ==
    /\ flow[<<c, d>>].buf = <<>>
    /\ cut[c] \/ Sender(c, d) = "gone" \/ AtEOF(c, d)
    /\ CopyReturns(c, d)

WriteFails(c, d) ==
    /\ flow[<<c, d>>].buf # <<>>
    /\ cut[c] \/ Receiver(c, d) = "gone"
    /\ CopyReturns(c, d)

\* Both results have been received from their channels.
RelayOver(c) == \A d \in Directions : copier[<<c, d>>] = "sent"

\* relay returns; the tracker and, deferred, both connections are closed.
RelayReturns(c) ==
    /\ At(c, "relay")
    /\ RelayOver(c)
    /\ CloseTracker(c)
    /\ upstream' = [upstream EXCEPT ![c] = "closed"]
    /\ Goto(c, "done")
    /\ UNCHANGED <<server, mitm, proto, peer, replies, tcp, target, copier, eof,
                   cut, flow, request, tracker>>
-----------------------------------------------------------------------------
\* A client speaks when all it said so far was answered, and not refused: the
\* SOCKS5 greeting and command, and then, in an intercepted tunnel, the TLS
\* handshake and requests.
ClientSays(c, m) ==
    LET opening == IF proto[c] = "socks5" THEN 2 ELSE 1
    IN  /\ pc[c] \notin Ended \cup {None} /\ client[c] = "open"
        /\ asked[c] = Len(replies[c]) /\ asked[c] < MaxRequests
        /\ \A i \in 1..Len(replies[c]) : replies[c][i] # "error"
        /\ \/ m = "hello" /\ proto[c] = "socks5" /\ asked[c] = 0
           \/ m \in {"connect", "bind"} /\ proto[c] = "socks5" /\ asked[c] = 1
           \/ m = "tls" /\ Intercepted(c) /\ asked[c] = opening
           \/ m = "http" /\ Intercepted(c) /\ asked[c] > opening
        /\ inbox' = [inbox EXCEPT ![c] = m]
        /\ asked' = [asked EXCEPT ![c] = @ + 1]
        /\ UNCHANGED <<server, mitm, proto, pc, client, replies, link, tracking>>

\* The client sends no more, or leaves altogether, at any time.
ClientEnds(c, how) ==
    /\ pc[c] # None /\ client[c] = "open"
    /\ client' = [client EXCEPT ![c] = how]
    /\ UNCHANGED <<server, mitm, proto, pc, inbox, asked, replies, link, tracking>>

TargetEnds(c, how) ==
    /\ upstream[c] = "open" /\ target[c] = "open"
    /\ target' = [target EXCEPT ![c] = how]
    /\ UNCHANGED <<server, mitm, proto, pc, peer, replies, upstream, tcp,
                   copier, eof, cut, flow, request, tracking>>

\* The gateway, not net/http or the dialer, reads what is sent.
InHand(c, d) ==
    IF d = "up" THEN pc[c] \notin {"auth", "hijack", "flushed"} ELSE pc[c] = "relay"

\* Who has something to say may not wait for the tunnel: a client sends after
\* its CONNECT before it is answered, a target as soon as it is reached.
Send(c, d) ==
    LET n == flow[<<c, d>>].sent + 1
    IN  /\ server # "exited" /\ Sender(c, d) = "open" /\ ~Intercepted(c)
        /\ n <= MaxChunks
        /\ IF d = "up"
           THEN /\ pc[c] \notin Ended \cup {None}
                /\ proto[c] = "connect" \/ (proto[c] = "socks5" /\ asked[c] = 2)
           ELSE pc[c] \in {"dial", "relay"} /\ proto[c] # "plain"
        /\ flow' = [flow EXCEPT ![<<c, d>>].sent = n,
                               ![<<c, d>>].eager = IF InHand(c, d) THEN @ ELSE n,
                               ![<<c, d>>].wire = Append(@, n)]
        /\ UNCHANGED <<server, mitm, proto, pc, peer, replies, ends, request, tracking>>

\* Who sees the end of the other side's stream ends its own.
ClientReacts(c) == eof[<<c, "down">>] /\ ClientEnds(c, "gone")
TargetReacts(c) == eof[<<c, "up">>] /\ TargetEnds(c, "gone")

\* SIGINT or SIGTERM: Shutdown closes the HTTP listener, ListenAndServe
\* returns at once, and main returns when RunServer does.
Signal ==
    /\ server = "up"
    /\ server' = "draining"
    /\ UNCHANGED <<mitm, proto, pc, peer, replies, link, tracking>>

Exit ==
    /\ server = "draining"
    /\ server' = "exited"
    /\ UNCHANGED <<mitm, proto, pc, peer, replies, link, tracking>>

\* The goroutine of the connection goes on, as far as that is up to it.
Handle(c) ==
    \/ AuthFails(c) \/ Dispatch(c)
    \/ NotHijackable(c) \/ Announce(c) \/ Hijack(c) \/ HijackFails(c)
    \/ Greet(c) \/ GreetFails(c) \/ ReadRequest(c) \/ Unsupported(c) \/ RequestFails(c)
    \/ Intercept(c) \/ InterceptEnds(c) \/ Handshake(c) \/ ServeRequest(c)
    \/ RelayReturns(c)

\* The pipeline or an upstream proxy answers; neither has to.
Answered(c) ==
    \/ ResolveFails(c) \/ ResolveHandled(c) \/ DialFails(c)
    \/ \E t \in BOOLEAN : ResolveProxy(c, t) \/ ChildProxy(c, t)
    \/ AutoUpstream(c) \/ ForwardPlainHTTP(c) \/ UploadChunk(c) \/ StreamChunk(c)
    \/ StreamEnds(c) \/ ChildAnswered(c) \/ RoundTrip(c)

Copy(c, d) ==
    \/ ReadChunk(c, d) \/ Cancel(c, d) \/ WriteChunk(c, d)
    \/ ReadEnds(c, d) \/ WriteFails(c, d)

Peers(c) ==
    \/ \E m \in {"hello", "connect", "bind", "tls", "http"} : ClientSays(c, m)
    \/ \E how \in {"fin", "gone"} : ClientEnds(c, how) \/ TargetEnds(c, how)
    \/ \E d \in Directions : Send(c, d)

\* The process is gone.
Stopped == server = "exited" /\ UNCHANGED vars

Next ==
    \/ \E c \in Conns, p \in Protocols : Accept(c, p)
    \/ \E c \in Conns : Handle(c) \/ Answered(c) \/ Peers(c)
    \/ \E c \in Conns, d \in Directions : Copy(c, d)
    \/ Signal \/ Exit \/ Stopped

Spec == Init /\ [][Next]_vars

\* Goroutines that can go on do (the SOCKS5 deadline passes, too), clients go
\* on once a tunnel is announced, peers that are there take what they are sent,
\* and those that are told the stream has ended close their side.  Pipelines,
\* upstream proxies and peers that are told nothing may take for ever.
FairSpec ==
    /\ Spec
    /\ \A c \in Conns :
          /\ WF_vars(Handle(c))
          /\ WF_vars(\E m \in {"tls", "http"} : ClientSays(c, m))
          /\ WF_vars(ClientReacts(c))
          /\ WF_vars(TargetReacts(c))
          /\ \A d \in Directions : WF_vars(Copy(c, d))
-----------------------------------------------------------------------------
\* Every tracker a tunnel or a plain request was given is closed, once,
\* whichever way the connection ends, and not before both copying goroutines
\* have recorded their last chunk: a slot of the rate limiter is neither lost
\* nor given back early.  (MITM is another matter, see InterceptedClosed.)
TrackerClosedOnce ==
    \A c \in Conns : ~Intercepted(c) =>
        /\ open[c] = IF tracker[c] /\ pc[c] \in {"dial", "stream", "relay"}
                     THEN 1 ELSE 0
        /\ \A d \in Directions :
              copier[<<c, d>>] = "copy" /\ tracker[c] => open[c] = 1

\* The same for the requests of an intercepted connection: "the inner Handler
\* pipeline handles everything else - auth, rate limiting, ...".
InterceptedClosed == \A c \in Conns : pc[c] \in Ended => open[c] = 0

\* Clients are answered in turn: when the gateway reads on, everything it has
\* read was answered exactly once; a plain request gets one response however
\* it ends; more answers than questions only reach a connection being closed.
AnsweredInTurn ==
    \A c \in Conns :
        /\ pc[c] \in {"request", "serve", "relay"} =>
              asked[c] = Len(replies[c]) + (IF inbox[c] = None THEN 0 ELSE 1)
        /\ proto[c] = "plain" /\ pc[c] \in Ended => Len(replies[c]) = 1
        /\ Len(replies[c]) > asked[c] => pc[c] = "done"

\* Only these drop what came before the gateway read itself.
Swallows(c, d) == IF d = "up" THEN proto[c] = "connect" ELSE tcp[c]

\* A tunnel carries each direction's chunks in order, none twice and none left
\* out: all that can be missing is a beginning that was sent before the gateway
\* read the connection itself, by an HTTP client (before Hijack returned, which
\* may be after its 200) or by the target of an HTTP upstream.  When the sender
\* has finished and the copying ended, the receiver has the rest.
StreamsIntact ==
    \A c \in Conns, d \in Directions :
        LET f == flow[<<c, d>>]
            whole == ~cut[c] /\ Receiver(c, d) # "gone"
        IN  /\ \E lost \in 0..(IF Swallows(c, d) THEN f.eager ELSE 0) :
                  /\ \A i \in 1..Len(f.seen) : f.seen[i] = lost + i
                  /\ whole => f.seen \o f.buf \o f.wire =
                                 [i \in 1..(f.sent - lost) |-> lost + i]
            /\ whole /\ copier[<<c, d>>] = "sent" /\ Sender(c, d) = "fin" =>
                  f.buf \o f.wire = <<>>

\* A plain request is over and was not refused.
Passed(c) == proto[c] = "plain" /\ pc[c] = "kept" /\ replies[c] = <<"response">>

\* What a limiter is told of is what was carried: a chunk of a tunnel is
\* recorded in its direction when it is read, once, and only the last one of a
\* connection that a limit cuts is recorded without being written; the body of
\* a plain response is recorded at its end.  A plain upload is recorded by its
\* declared length, so no less than what was carried of it, provided that it
\* declares one and that the response came: of a chunked upload, and of one
\* whose forwarding fails, nothing is recorded, whatever was carried.
CountedAsCarried ==
    \A c \in Conns :
        /\ \A d \in Directions :
              LET f == flow[<<c, d>>]
                  ahead == f.counted - Len(f.seen)
              IN  /\ ~tracker[c] => f.counted = 0
                  /\ tracker[c] /\ Receiver(c, d) # "gone" /\ pc[c] # "stream" =>
                        ahead = Len(f.buf)
                           \/ (ahead = 1 /\ cut[c] /\ copier[<<c, d>>] = "sent")
        /\ ~tracker[c] => request[c].counted = 0
        /\ tracker[c] /\ Passed(c) /\ request[c].length # -1 =>
              request[c].carried <= request[c].counted

\* A tunnel ends when a limit cuts it, the target finishes, or the client does
\* and the end can be passed on: neither goroutine waits for ever.
TunnelsEnd ==
    \A c \in Conns :
        (/\ At(c, "relay")
         /\ cut[c] \/ target[c] # "open" \/ (tcp[c] /\ client[c] # "open"))
            ~> (pc[c] = "done" \/ server = "exited")

\* A SOCKS5 client that stalls in the handshake is dropped.
HandshakesEnd ==
    \A c \in Conns : pc[c] \in {"greeting", "request"}
        ~> (pc[c] \notin {"greeting", "request"} \/ server = "exited")

\* MITM "intercept[s] tunnel connections (CONNECT / SOCKS5)": the handshake it
\* waits for comes, or the client gives up.
InterceptionProceeds ==
    \A c \in Conns : pc[c] = "tls" ~> (pc[c] # "tls" \/ server = "exited")

\* "It blocks until a shutdown signal is received (SIGINT/SIGTERM), then
\* drains": when the process ends no connection is in use.
Drained ==
    server = "exited" => \A c \in Conns : pc[c] \in Ended \cup {None}
=============================================================================
