# Verification of proxy-rotator

TLA+ models of the Go program in `proxy-kit/` and `proxy-gateway/` (the
repository's current implementation), TLC configurations that check them on
small instances, and TLAPS proofs of their main properties. The Rust crates
(`proxy-gateway-core`, `proxy-gateway-source-*`) and the TypeScript client are
not modelled: the crates are what the Go program replaces, the client sends
HTTP requests.

## The system

A client connects over HTTP (CONNECT or plain) or SOCKS5. A *downstream*
handles the connection and asks a *pipeline* of handlers to resolve it; the
pipeline authenticates the client, may limit its connections and bytes, keeps
its session sticky to one upstream proxy, and takes that proxy from a *source*.
The downstream dials the upstream proxy and relays bytes.

| Component | State | Operations | What is hard |
|---|---|---|---|
| Least-used pool, `utils/counting_pool.go` | an atomic use counter per entry | `Next`, `NextWithSeed`, `NextExcluding` | no lock: two scans and an increment, other callers in between |
| Session manager, `utils/session_manager.go` | table of sessions, id counter | `Resolve`, `ForceRotate`, `GetSession`, `ListEntries`, cleanup goroutine | the source is called with the lock released; the cleanup's clock is older than its lock |
| Session REST API, `proxy-gateway/api.go` | none | list, get, rotate | calls `ForceRotate` concurrently with clients; must find what it lists |
| Rate limiter, `ratelimit.go`, `conn_tracker.go` | per key: slot counter, a rolling counter per windowed rule | `Resolve`, `RecordTraffic`, `Close` | atomics without a lock, check then count, refusal half way |
| Rolling counter, `ratelimit.go` | buckets, their times | `Add`, `Total`, `evict` | `evict` locks, `Add` and the sum do not |
| HTTP downstream, `http_downstream.go`, `forward.go` | a goroutine per connection | authorise, hijack, resolve, dial, relay or forward | every failure path must answer and give the tracker back; the 200 goes out before `net/http` has let go of the connection |
| SOCKS5 downstream, `socks5_downstream.go` | a goroutine per connection | greeting, request, resolve, dial, relay | stalling clients; the order of replies |
| Relay, `relay.go` | two goroutines per tunnel, a buffer each | copy, record, half-close, cancel | both must end, after all that was read is written |
| TLS interception, `mitm.go` | a TLS session inside a connection | handshake, loop over requests | runs inside `Resolve`, before the downstream goes on |
| Certificate cache, `mitm.go` | a map, made by the first call | `Get` | double-checked under a lock, but the first check of the map is not locked |
| Upstream dialers, `http_upstream.go`, `socks5_upstream.go` | none | `Dial` | result type decides on half-close |
| Server, `proxy-gateway/server.go` | listeners, signal | start, shutdown | what happens to open connections |
| Pipeline, `proxy-gateway/pipeline.go`, `username.go`, `affinity_params.go` | the configuration, the router's table | start, password, username to key and TTL, router | two usernames may mean one session; a rotation has only the context kept with the session |
| Sources, `utils/provider_*.go` | pool or none | resolve a seed to a proxy | panics, which end the process when a SOCKS5 goroutine meets them |
| Proxy formats, `utils/proxy_format.go` | none | parse a line of a proxy list | separators that are also data |

Interactions: the session manager and the rate limiter are handlers that call
the next handler and change its result; a limiter hands the downstream a
`ConnTracker`, which the relay calls for every chunk and which the downstream
must close; interception calls the inner pipeline for each decrypted request.

## Modules

| Module | Models |
|---|---|
| `CountingPool` | the pool, one atomic operation per step |
| `LeastUsed` | abstract: a call charges an entry that was least-used, among those it may use, at some moment of the call |
| `SessionManager` | the session manager, one critical section or source call per step |
| `StickySessions` | abstract: sessions whose calls take effect at one instant |
| `RateLimiter` | `ratelimit.go` and the counting reader of the relay, one atomic operation per step |
| `RollingCounter` | one counter, one bucket per step |
| `Downstream` | the life of connections and what their tunnels carry, interception, relay and shutdown |
| `CertCache` | the certificate cache, one critical section or racing read per step |
| `ProxyFormat` | lines of proxy lists: the parsers, and how a proxy is written as reference |
| `Gateway` | the assembled program: start, pipeline, router, sources, API, composed of `SessionManager` (instantiated) and `ProxyFormat` |
| `CountingPoolProofs`, `SessionManagerProofs`, `RateLimiterProofs`, `RollingCounterProofs`, `CertCacheProofs`, `GatewayProofs` | proofs about the module of that name |
| `DownstreamProofs`, `StreamProofs` | proofs about `Downstream`: its places, trackers and answers; its data, on top of them |
| `MC...` | instances for TLC |

How state and actions correspond to the code:

* **CountingPool.** `useCount` are the counters; per caller `pc`, `todo`,
  `minCount`, `candidates`, `idx` are the locals of `pickLeastUsed`. `LoadMin`
  and `LoadCandidate` are single loads of the two scans, `Pick` the choice
  among candidates with any tie breaker, `Panic` the division by zero, `Add`
  the increment. Excluded sets stand for the predicate of `NextExcluding`.
* **SessionManager.** `entries`, `nextID`; a `task` per caller holds what a call
  carries from its lookup over the source call to its commit. `ResolveHit`,
  `ResolveMiss`, `ResolveSource`, `ResolveInsert` and `RotateRead`,
  `RotateSource`, `RotateUpdate` are the pieces between lock operations;
  `CleanupTick` reads the clock, `CleanupSweep` takes the lock. A seed is the
  pair that the code hashes. `reply` is what a caller was last answered.
* **RateLimiter.** `state` maps keys to `userState`s, `concurrent` and `counter`
  are their contents, `pc`/`todo` say which rule of which loop a connection is
  at, `rpc`/`rtodo` the same for its two relay goroutines. A rolling counter is
  one number here; `WindowPasses` sets it to zero, which is how the counter
  behaves (all buckets at once, see `AllTimesEqual`). `admitted` is history: how
  many connections the present window has let pass; `straddling` is how many
  calls were between their count and their sum when it began (`Pending`).
* **RollingCounter.** `buckets`, `times`, `mu`; callers walk through `Lock`,
  `EvictBucket`, `Unlock`, `ChooseBucket`, `AddBucket`, `LoadBucket`. `since`
  and `added` are history.
* **Downstream.** `pc` is the place of the connection's goroutine; `client`,
  `target`, `copier`, `eof`, `cut` describe both sides of a tunnel, `inbox`,
  `asked`, `replies` the dialogue before it, `tracker` and `open` the tracker it
  was given and whether it is closed. The pipeline is its result: an error,
  nothing, or a proxy with or without a tracker. `flow` holds, for each
  direction, how many numbered chunks were sent, how many of those before the
  gateway itself read the connection (`eager`), what is on the wire, in the
  copying goroutine's buffer, and delivered, and how many the tracker counted.
  `ReadChunk`, `Cancel`, `WriteChunk`, `ReadEnds`, `WriteFails` are the turns of
  that goroutine; `Swallow` is the data a buffered reader takes along when
  `serveConnect` hijacks a connection or `HTTPUpstream` reads its answer.
  `Announce` and `Hijack` are the two halves of `net/http`'s `Hijack`: it
  flushes the 200 that `WriteHeader` has written, and only then stops its
  background read, so a client may react to the 200 in between; of an
  intercepted tunnel that may be its TLS handshake, which arrives torn.
  `request` holds the body of a plain request: its `ContentLength` (-1 for a
  chunked one), what the transport has carried of it (`UploadChunk`) and what
  was recorded at the end (`Declared`).
  Clients and targets are external and act as the protocols let them: a client
  speaks when it has been answered, and either side may send, stop or vanish at
  any time.
* **CertCache.** `certs`, `lock`; per caller `pc`, `host`, `got`. `Get` is the
  unlocked `c.certs == nil`, whose outcome `ReadsNil` leaves open as the data
  race does; `Make`, `Lookup`, `Lock`, `Found`, `Store` are the locked parts, and
  `ForgeFails` is a panic in `forgeCert`, after which the deferred unlock runs.
* **ProxyFormat.** A line is a sequence of tokens: separators, and words that
  contain none. The parsers are those of `proxy_format.go` on such sequences; a
  result is a set, empty for an error.
* **Gateway.** `config`, `status`, `sources` are what `main` loads and builds;
  `req` is the context a call carries, `ctx` the label and context a session
  keeps; the other variables are those of `SessionManager`. `BuildServer` is
  the start, `Refused`, `Hit`, `Miss`, `PassThrough`, `Rotate` begin a request,
  `SourceAnswers`, `SourceFails`, `Crash`, `Insert`, `Update` continue it, each
  conjoined with the action of `SessionManager` it takes. A source chooses among
  the proxies of its file or among its countries (`Offers`). A username in a
  path of the API comes in the standard alphabet, in that of URLs, or
  percent-encoded, and `Arrives` says which of them get through the router of
  `server.go` to `decodeBase64Username`, depending on which of `=`, `+` and `/`
  the encoded name has (`b64`).

## Runs

| Run | Checks | Instance | Shows |
|---|---|---|---|
| `pool` | `Balanced`, `ExclusionHonoured`, `LeastUsedDuringCall` | 3 entries, 2 callers, 2 uses of each entry, exclusion of none, one or all | no counter drifts further ahead of an entry nobody excludes than the number of callers; the pool refines `LeastUsed`; exclusion holds unless all are excluded |
| `pool_panic` | `NoPanic` (violated) | 2 entries, 2 callers | two callers suffice for an empty candidate list |
| `session_shared` | `ProxyMatchesSeed`, `UniqueIds`, `LiveSessionKept`, `StickyForClients`, `ExpiredSessionsLeave` | 1 key, 2 callers, 2 upstreams, TTLs 0 to 2, 1 rotation | the table refines `StickySessions`; the cleanup drops the expired and only them |
| `gateway` | `NamedSetServed`, `ListedFetchable`, `AskedDuration`, `SeedDecidesCountry`, `LoadedAsWritten` | 2 callers, one of them of the SOCKS5 listener; 6 usernames and an invalid one; working, panicking and broken configurations | see below |
| `limits` | `ConcurrencyLimit`, `SlotsAccounted`, `TotalLimit`, `OvershootBounded` | 3 connections, a rule of each kind | limits hold per key under every interleaving; a total rule up to the calls that its window has overtaken |
| `counter_shared` | `AllTimesEqual`, `NothingStale` | 2 buckets, 2 callers, 2 adds, 5 ticks | nothing older than a window is counted; all buckets share a time |
| `counter_window` | `CountsWholeWindow` (violated) | 1 caller, 3 buckets | the window does not roll: it is reset as a whole |
| `connection` | `TrackerClosedOnce`, `AnsweredInTurn`, `StreamsIntact`, `CountedAsCarried`, `TunnelsEnd`, `HandshakesEnd` | every protocol, with and without interception, 2 chunks each way | see below |
| `certs` | `MapMade`, `OneCertPerHost`, `GetsEnd` | 3 callers, 2 hosts | the map is there when it is used, although its check races; every connection to a host is shown one certificate; nobody waits for ever |
| `intercept_limit` | `InterceptedClosed` (violated) | CONNECT, intercepted | slots of decrypted requests are never returned |
| `intercept_socks5` | `InterceptionProceeds` (violated) | SOCKS5, intercepted | handshake and SOCKS5 reply wait for each other |
| `drain` | `Drained` (violated) | plain HTTP | the process exits with requests in flight |

Every passing run also checks its module's `TypeOK`. The violated properties
are statements of comments and documentation; `PROJECT.json` quotes them under
`findings`.

`connection` in words: whichever way a connection that is not intercepted ends,
the tracker it was given is closed exactly once and only after both copying
goroutines have stopped recording; a client has been answered once for
everything read from it whenever the gateway reads on. What a tunnel
delivers is what was sent, in order, without a gap; only chunks sent before the
gateway itself read the connection may be missing at its front (the buffered
data `Swallow` is about), and only a cut or a peer that vanished may cost the
rest. For a client of CONNECT that moment is the return of `Hijack`, which is
after its 200, so even a client that waits for the 200 may lose what it sends
first. The tracker has counted exactly the chunks of a tunnel that were read, and
the whole body of a plain response at its end. A plain upload is counted by its declared length, which is
no less than what was carried, if it declares one and is answered; of the others
nothing is counted. A tunnel ends when a limit cuts it, the target finishes, or
the client does and the upstream connection can be half-closed, and a stalled
SOCKS5 handshake ends.

`limits` on total rules in words: a window lets at most `Max` connections pass
and, on top, those calls that had counted and not yet read their sum when it
began. The run reaches that bound: a connection counts, the window passes and
takes the count along, the connection reads a sum of zero and is admitted, and
then the new window admits `Max` others.

`gateway` in words: a session serves from the set its username names, also after
rotations over the API, and usernames that name different sets never share one;
the username the API lists for a session leads to it, in every encoding that gets
through the path, and the set it shows is the one the proxy comes from; a session
that was not rotated yet ends when the request that made it asked for, and
another request does not change that (a rotation may, see Known limits); a
country follows from the seed; a file loads to the proxies that were written into
it.

### Bounds

Two callers are enough for every interleaving of a pair of operations, which is
all that the counterexamples found need; the theorems cover any number.
`MaxUses`, `MaxTime`, `MaxRotation`, `MaxSessions`, `MaxCount`, `MaxWindows`,
`MaxAdds`, `MaxRequests`, `MaxChunks` stop unbounded counters: they are guards on
starting new work, never on finishing it. `MaxItems` bounds the lists in
`Gateway`'s configurations. Three entries let a minimum, a tie and a third
entry differ; TTLs up to 2 with 2 ticks let sessions of both TTLs expire during
a call; a byte limit smaller than two chunks is passed by two goroutines at
once; a window of two slots passes twice in 5 ticks. In `limits` three
connections compete for two slots and two admissions, so that each rule refuses.
In `gateway` durations are 3 bits wide, so that minutes wrap to a negative and,
from a negative number, to a positive TTL; TTLs of 1 and 2 with one tick let a
session expire during a call while another lives; the files hold each format
with and without credentials, separators inside names and passwords, and IPv6
hosts. In `certs` three callers let two race for one host while a third asks for
the other. Two chunks each way let one be in the buffer while the next is on the
wire. The runs on interception and shutdown have `MaxChunks` 0: their
counterexamples carry no data.

Symmetry is used only in runs without temporal properties other than action
properties of the form `[][...]_vars` that do not mention a caller by name.

### Fairness

* Session manager: weak fairness of the cleanup goroutine, whose ticker fires
  for ever. Sources need not answer.
* Downstream (`connection`, `intercept_socks5`): weak fairness of goroutines that
  are not waiting for anyone, of the SOCKS5 deadline, of a client going on in a tunnel it was promised, and of
  a peer closing its side once it sees the other side's end; and of the copying
  goroutines, which assumes that a peer that is there reads what it is sent.
  Pipelines, dials and peers that are told nothing may take for ever.
* Certificate cache: strong fairness of a call's steps, since the lock may be
  taken by others again and again; Go's `RWMutex` starves neither side.

The pool, the limiter, the counter and the gateway are checked for safety only:
their calls run through finite loops and wait for nobody.

## Proofs

All for every value of the constants; no theorem is about a bound.

* **CountingPool.** `TypeCorrect`, `MinimumSound`, `ExclusionRespected`,
  `PoolBalanced`, `PoolImplementsLeastUsed`. `Balanced` compares every counter
  with those of the entries no call may exclude (`AlwaysEligible`): an entry
  that is excluded for long falls behind by any amount, as it should. It
  is not inductive: a caller that has picked an entry will still charge it.
  `ClaimsBounded` counts such callers: a counter and the callers that may yet
  charge it stay within the number of callers of every such counter. A caller
  joins the claims of an entry only when it loads its counter at its minimum,
  and `MinimumIsSound` says that a minimum is never above a counter. That is
  also the core of `PoolImplementsLeastUsed`: an entry found at the minimum in
  the second scan is least-used at that moment, although the minimum is old.
  `AloneNoPanic`: with a single caller nothing moves between its scans, so the
  minimum is the counter of an entry still to be scanned or already a candidate
  (`MinimumHeld`), and the panic that `pool_panic` finds cannot happen.
* **SessionManager.** `TypeCorrect`; `SeedsMatch`, strengthened by the same fact
  for calls about to commit (`TaskSeeds`); `LiveSessionsStay`, which needs that
  the cleanup's clock is never ahead (`SweepBehind`); `IdsUnique`; and
  `SessionsSticky`, the refinement, in which every action maps to an abstract
  action or a stutter: a miss, a lookup for rotation and a source call are
  invisible, the commit is the instant of the call.
* **RollingCounter.** `TypeCorrect`, `OneTime`, `NeverStale`. The
  inductive invariant `Inv` says that the goroutine that evicts holds the lock
  (`Locking`), no time is in the future (`Past`), an evict has found all buckets
  with one time and renewed those it visited, or none (`Uniform`), and a bucket
  a call has visited is young by its clock and stays so (`Young`). `NeverStale`
  rests on it and on `HeldSinceCleared`: what a bucket holds was added after the
  bucket was last cleared. `OneTime` is
  the reason for the violation in `counter_window`.
* **RateLimiter.** `TypeCorrect`, `LimitKept`, `SlotsBalanced`, `TotalKept`,
  `OvershootLimited`. No limit is inductive by itself: a counter is what others
  have done to it, so each proof relates it to the connections that account for
  it, and shows that every action moves both sides together. Common to all are
  `Located` (a connection past the creation of its `userState` has the one of
  its key) and `Recording` (relay goroutines run only for open connections).
  - `LimitKept`: connections that have passed a concurrent rule hold a slot
    (`SlotsCover`), and whoever passes finds at most `Max` of them, itself
    included (`PassersLimited`). It holds for any number of concurrent rules:
    with several, slots leak, which makes the limiter stricter, never laxer.
  - `SlotsBalanced` assumes `OneConcurrentRule`. The assumption cannot go: with
    two rules `Close` gives back one of two slots, with none a refusal by a
    total rule (`ratelimit.go:170`) gives back one that was never taken.
    `SlotsExact` counts the calls that hold a slot, those between the load and
    the decrement of `Close` among them.
  - `TotalKept`: the count of a window and the calls that were pending when it
    began (`straddling`) cover those it has admitted and those that have counted
    and not yet compared (`CountsCover`).
  - `OvershootLimited`: a byte counter at its limit exceeds it by less than a
    chunk for each goroutine that can add nothing more, because it is being cut
    or its connection will be refused (`OvershootCovered`); an addition moves a
    goroutine from those that may add to those that may not.
* **Downstream** (`DownstreamProofs`). `TrackersBalanced`, from an invariant on
  which places a connection with a result may be in (`Phases`) and that copying
  goroutines run only during the relay (`HeldInUse`). `TurnsKept`, from
  `Talking`: `TalkOf` gives, for every place of a goroutine and every protocol,
  the balance of answers, questions and what is unread. `AnsweredInTurn` speaks
  of three places only; a step into one of them needs the balance of the place
  it comes from.
* **Downstream's data** (`StreamProofs`). `StreamsKept`, `TrafficCounted`,
  `TypeCorrect`. `FlowOK` says of the record of one direction how its chunks are
  spread: those delivered follow a lost beginning without a gap, those in the
  buffer and on the wire follow them, and together with the lost ones they are
  all that was sent (`Ordered`); what was counted is what was delivered and the
  one in the buffer (`Recorded`); while `net/http` or the dialer reads, all was
  sent eagerly (`Early`), which is why `Swallow` may only cost eager chunks; a goroutine that
  has finished left nothing behind (`Finished`). All this depends on where the
  connection is: `Situation` collects that, and `Later` says how it may change.
  So most actions need one fact (they move the situation to a later one,
  `SituationKeeps`), and the few that move chunks have a lemma each. Uploads of
  plain requests have an invariant of their own, `Uploads`: no more of a body is
  carried than its request declares, and nothing is recorded before the end,
  where the declared length is. The trackers
  that are open are counted as a finite set (`Trackers`), which gives the bound
  of `open` in `TypeOK`.
* **Gateway.** `TypeCorrect`, `SessionGuarantees`, `SetsServed`, `ListedFound`,
  `DurationAsked`, `CountryDecided`. The
  invariant says that a call under way carries the context of a username for
  the key it works on (`WellCalled`), a session keeps such a context, the
  duration it asked for, until its first rotation the end that follows from it,
  and a proxy that the source of the key's set chose (`WellKept`), and an answer holds such a proxy (`WellAnswered`); these three
  pass facts from a request to its session and from there to a rotation and its
  answer, and none is inductive without the others. Each action of the program
  contains an action of the session manager, so its steps are steps of
  `SessionManager` (the lemma `SessionsUsed`), and the theorems of `SessionManagerProofs`,
  instantiated, hold of the program (`SessionGuarantees`).
* **CertCache.** `TypeCorrect`, `MapAlwaysMade`, `CacheKept`, `OneCertificate`. A
  map once made is never replaced, so a stale nil costs a lock and no more; the
  writer is alone between its second look and its store, and serial numbers in
  the map are below the next one, so no two hosts share one.

Assumptions are the named `ASSUME`s of the modules: natural bounds, non-empty
pools and usernames, finite callers and connections, at least one request per
connection (`MaxRequests`), and
`None` distinct from every username, key, seed, session and reply
(`NilAssumption`: in the code it is `nil` or a missing map entry).
`ConfigAssumption` says that sets and their items are lists of bounded length and that
a hash is a natural number. TLC evaluates each of them in the runs.

Only model-checked:

* liveness (`ExpiredSessionsLeave`, `TunnelsEnd`, `HandshakesEnd`, `GetsEnd`),
  which needs fairness and `ENABLED`, out of the prover's reach;
* `LoadedAsWritten`: what the parsers of `ProxyFormat` return for every line
  needs induction over lines, which this prover cannot do.

Every other property of a passing run is also a theorem.

## Known limits

What the code does that a reader of the properties should know:

* Two rotations of a session at once may count as one: both read the counter
  before either writes it (`session_manager.go:190`, `:212`), although
  `ForceRotate` is said to bump it. `StickySessions` promises a
  new proxy and expiry for a rotation, and nothing of the counter.
* A rotation that commits on a session re-created meanwhile gives it the
  duration of the old one (`session_manager.go:192`, `:214`), which may even end
  it at once, although the repository's README (line 154) says that a rotation
  resets `next_rotation_at` to now plus the duration of the session.
  `LiveSessionKept` and `StickyForClients` are about identity, start and duration
  of a session, `AskedDuration` about its end until the first rotation.
* With two concurrent rules for one key a connection takes two slots and gives
  one back (`ratelimit.go:158`, `:271`); `SlotsAccounted` is about one rule.
  Without any, a connection that a total rule refuses gives back a slot it never
  took (`:170`); no rule compares that counter then.
* Two connections that count before either sums may both be refused by a total
  rule that had room for one (`ratelimit.go:169`); `TotalLimit` is the upper
  bound only. And a window may admit more than `Max`, against `proxy-kit/README.md`
  (line 297), by as many calls as it has overtaken between count and sum.
* Plain HTTP records its bytes after the body with a cancel that does nothing
  (`http_downstream.go:183`): a byte limit never cuts it. An upload is recorded
  by its `ContentLength`, so a chunked one, or one whose forwarding fails, as
  nothing (`:167`, `:147`), against `LimitUploadBytes` as an "upload bandwidth
  cap" (`proxy-kit/README.md`, line 298), and one that is cut short as more than
  was carried.
* The repository's root README and the TypeScript client send usernames as
  base64, as the Rust server expected; `ParseUsername` takes the JSON itself.
  Such a client is `Refused`. Percent-encoded path parameters of the API reach
  the handler undecoded and are refused too if there is anything to escape in
  them (`Arrives`, form `"percent"`), although that README (line 150) and the
  client (`client.ts:97`) ask for it; a `/` as it stands does not match the route
  (`server.go:83`). Whoever takes a name from the list must re-encode it in the
  alphabet of URLs to be sure to get through.
* That README (lines 96 and 237) says that the base64 string is the affinity key.
  The key is made of set and meta only (`Seed`, `affinity_params.go:21`), on
  purpose: usernames that differ in minutes, or in an absent and an empty meta,
  share a session.
* In the format `user_pass_host_port` an IPv6 host in brackets is not
  recognised; `LoadedAsWritten` leaves that format out for IPv6 hosts.
* Minutes beyond what a `time.Duration` holds wrap (`username.go:78`): a
  session then has a short TTL or none. `AskedDuration` is about the others.
* A `bottingtools` source has no product configuration and panics on every
  request; over SOCKS5 that ends the process (`Crash`), although `pipeline.go:72`
  and `proxy-kit/README.md` (line 393) list its products as supported.
* A forged certificate is valid for 24 hours and cached for good (`mitm.go:348`).
* Data that follows a CONNECT request or its 200 before `Hijack` has returned, or
  the answer of an HTTP upstream in the same packet, may be lost
  (`http_downstream.go:57`, `http_upstream.go:35`).

Not modelled:

* Bodies of intercepted responses: `RoundTrip` closes the upstream connection
  before its caller reads the body (`mitm.go:64`), which may cut it short.
* The authentication middleware (`Auth`, `MapAuth`) and the `Gateway` builder of
  `proxy-kit`, which `proxy-gateway` does not use; limits that change while the
  program runs (`WithLimits`).
* Cache hits that return no tracker (`session_manager.go:142`): `proxy-gateway`
  puts no limiter inside its sessions.
* TLS fingerprint spoofing and the cryptography of forged certificates, which
  are calls of libraries; decoding of configuration files, JSON and time
  formats, which are I/O and libraries; errors of listeners.

`PROJECT.json` lists these under `hazards` and `components` with the reason.

## Plan

1. Done: pool, sessions, limits, counter, connections with their data, the
   certificate cache, the assembled gateway with its formats and API; proofs of
   every safety property of these but `LoadedAsWritten`.
2. Composition of `SessionManager` and `RateLimiter` as another program may
   assemble them: trackers through both.
3. Proofs: `RateLimiter`'s windowed counter as an abstraction of
   `RollingCounter`, which today rests on `OneTime` and an argument in words;
   an abstract specification of a tunnel (two queues) that `Downstream`
   refines.
