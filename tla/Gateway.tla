------------------------------ MODULE Gateway ------------------------------
(***************************************************************************)
(* The program proxy-gateway: what main assembles from the components of   *)
(* proxy-kit (pipeline.go, username.go, affinity_params.go), and the REST  *)
(* API beside it (api.go).                                                 *)
(*                                                                         *)
(*    PasswordAuth -> ParseJSONCreds -> SessionManager -> router -> source *)
(*                                                                         *)
(* Every client connection and API request is a goroutine that runs this   *)
(* pipeline.  Sessions are those of SessionManager, whose actions are used *)
(* as they are, and lines of proxy lists are those of ProxyFormat.         *)
(* New here: the start, the way from a username to a session key and a     *)
(* TTL, the router, what each source chooses from a seed, and the context  *)
(* a session keeps for its rotations and for the API.                      *)
(***************************************************************************)
EXTENDS ProxyFormat

CONSTANTS
    Configs,        \* configurations (and environments) main may start with
    RawUsernames,   \* what clients put into the username, as a JSON object:
                    \* set, minutes, meta; an empty set for anything invalid;
                    \* b64: which of "=", "+" and "/" its base64 form holds
    Lists,          \* proxy lists that are written into files
    Encodings,      \* of usernames in API paths: "std", "url", or "percent"
                    \* for the standard one percent-encoded
    Callers,        \* goroutines of client connections and API requests
    SOCKS5Callers,  \* those the SOCKS5 listener started: they recover no panic
    None,           \* nil
    Minute,         \* clock ticks in time.Minute
    Width,          \* bits of a time.Duration
    Hash(_),        \* the value of a SessionSeed
    MaxItems,       \* the longest list of proxies or countries
    MaxTime, MaxRotation, MaxSessions       \* bounds, as in SessionManager

ASSUME GatewayAssumption ==
    /\ IsFiniteSet(Callers) /\ SOCKS5Callers \subseteq Callers
    /\ Minute \in Nat \ {0} /\ Width \in Nat \ {0}
    /\ MaxTime \in Nat /\ MaxRotation \in Nat /\ MaxSessions \in Nat
    /\ RawUsernames # {} /\ \A u \in RawUsernames : u.minutes \in Int

VARIABLES
    config,         \* what main loaded: proxy sets, PROXY_PASSWORD, API_KEY
    status,         \* "starting", "serving", "failed" or "crashed"
    sources,        \* the router's table: the source of each set
    req,            \* the username whose context a call carries, or None
    ctx,            \* label and resolveCtx of each session: its username
    now, entries, nextID, task, reply, sweep    \* as in SessionManager

table == <<now, entries, nextID, task, reply, sweep>>
server == <<config, status, sources>>
vars == <<server, req, ctx, table>>
-----------------------------------------------------------------------------
\* meta serialised with sorted keys: absent and empty are the same.
CanonicalMeta(meta) == IF meta = "absent" THEN "{}" ELSE meta

\* A mutant: the set is not part of what is hashed.
SeedWithoutSet(u) == [set |-> "any", meta |-> CanonicalMeta(u.meta)]

\* AffinityParams.Seed: hashed, which is taken to be injective and not zero.
Seed(u) == [set |-> u.set, meta |-> CanonicalMeta(u.meta)]

\* ParseUsername; the error cases are one.
Valid(raw) == raw.set # ""

AffinityKeys == {Seed(u) : u \in {raw \in RawUsernames : Valid(raw)}}

\* Two's complement.
Wrap(n) == ((n + 2^(Width - 1)) % 2^Width) - 2^(Width - 1)

\* time.Duration(u.Minutes) * time.Minute
SeedTTL(u) == Wrap(u.minutes * Minute)
-----------------------------------------------------------------------------
\* Products btBuildUsername knows; the typed configuration it dereferences is
\* never filled in from a configuration file.
Products == {"residential", "isp", "datacenter"}

\* A source is its type and what it chooses among: the proxies of a file, or
\* the countries of a provider.
Source(type, items, product) == [type |-> type, items |-> items, product |-> product]

FormatOf(raw) == IF raw.format = "" THEN DefaultProxyFormat ELSE raw.format

\* Constructors of sources; {} for their errors: a file without a valid list,
\* a password variable that is not set.
NewStaticFileSource(raw) ==
    {Source("static_file", list, "none") : list \in LoadProxies(raw.lines, FormatOf(raw))}
NewBottingtoolsSource(raw) ==
    {s \in {Source("bottingtools", <<>>, raw.product)} : raw.password}
NewGeonodeSource(raw) ==
    {s \in {Source("geonode", raw.countries, "none")} : raw.password}

\* The switch of buildProxysetRouter; a missing section or an unknown source
\* type is an error as well.
NewSource(raw) ==
    CASE raw.section /\ raw.source_type = "static_file" -> NewStaticFileSource(raw)
      [] raw.section /\ raw.source_type = "bottingtools" -> NewBottingtoolsSource(raw)
      [] raw.section /\ raw.source_type = "geonode" -> NewGeonodeSource(raw)
      [] OTHER -> {}

SetNames(cfg) == {cfg.sets[i].name : i \in DOMAIN cfg.sets}

\* sources[raw.Name] = src, in the order of the file: the last one stays.
LastOfName(cfg, name) ==
    cfg.sets[CHOOSE i \in LastOf({j \in DOMAIN cfg.sets : cfg.sets[j].name = name}) : TRUE]

\* A mutant: the country is drawn anew for every session.
PickCountryMutant(countries, seed) == IF countries = <<>> THEN {0} ELSE DOMAIN countries

\* With a seed the country is determined, without one any may be drawn.
PickCountry(countries, seed) ==
    CASE countries = <<>> -> {0}
      [] seed = None -> DOMAIN countries
      [] OTHER -> {(Hash(seed) % Len(countries)) + 1}

\* What Resolve of a source may choose, called with a seed or without.  Which
\* entry of a file is the least-used one, CountingPool says; a bottingtools
\* source always panics on a product it knows.
StaticFileOffers(s) == DOMAIN s.items
GeonodeOffers(s, seed) == PickCountry(s.items, seed)
BottingtoolsOffers(s) == {i \in {0} : s.product \notin Products}

\* The router: nothing if the set is unknown.
Offers(set, seed) ==
    IF set \notin DOMAIN sources THEN {}
    ELSE LET s == sources[set]
         IN  CASE s.type = "static_file" -> StaticFileOffers(s)
               [] s.type = "geonode" -> GeonodeOffers(s, seed)
               [] OTHER -> BottingtoolsOffers(s)

\* The product's configuration is nil; or calls overlap in a pool, and one
\* finds no candidate (see CountingPool).
MayPanic(set) ==
    /\ set \in DOMAIN sources
    /\ \/ sources[set].product \in Products
       \/ sources[set].type = "static_file" /\ Cardinality(Callers) > 1

\* No source has the name, or there is a panic and net/http recovers it.
MayFail(c, set) ==
    \/ set \notin DOMAIN sources
    \/ MayPanic(set) /\ c \notin SOCKS5Callers

Node(set, i) == [set |-> set, choice |-> i]

Sessions == INSTANCE SessionManager
               WITH Keys <- AffinityKeys, NoKey <- None,
                    Nodes <- [set : {u.set : u \in RawUsernames}, choice : 0..MaxItems],
                    TTLs <- {SeedTTL(u) : u \in RawUsernames}

\* nil is no username, seed, entry or answer.
ASSUME NilAssumption ==
    /\ None \notin RawUsernames \cup AffinityKeys
    /\ None \notin Sessions!SessionSeed
    /\ None \notin Sessions!SessionEntry
    /\ None \notin [id : Nat, proxy : Sessions!Proxy, until : Nat]

\* Configured sets, and what a source chooses among, are lists; a hash is
\* unsigned.
ASSUME ConfigAssumption ==
    /\ MaxItems \in Nat
    /\ \A cfg \in Configs :
          /\ cfg.sets \in Seq(Range(cfg.sets))
          /\ \A i \in DOMAIN cfg.sets : \A s \in NewSource(cfg.sets[i]) :
                s.items \in Seq(Range(s.items)) /\ Len(s.items) <= MaxItems
    /\ \A k \in AffinityKeys, r \in 0..MaxRotation :
          Hash(Sessions!NewSessionSeed(k, r)) \in Nat

TypeOK ==
    /\ status \in {"starting", "serving", "failed", "crashed"}
    /\ \A set \in DOMAIN sources :
          /\ sources[set].type \in {"static_file", "bottingtools", "geonode"}
          /\ Len(sources[set].items) <= MaxItems
    /\ req \in [Callers -> RawUsernames \cup {None}]
    /\ ctx \in [AffinityKeys -> RawUsernames \cup {None}]
    /\ Sessions!TypeOK

Init ==
    /\ config \in Configs
    /\ status = "starting"
    /\ sources = <<>>
    /\ req = [c \in Callers |-> None]
    /\ ctx = [k \in AffinityKeys |-> None]
    /\ Sessions!Init
-----------------------------------------------------------------------------
\* BuildServer: one bad proxy set is enough to exit.  The proxy sets are not
\* looked at again, and the model forgets them.
BuildServer ==
    /\ status = "starting"
    /\ config' = [config EXCEPT !.sets = <<>>]
    /\ IF \E i \in DOMAIN config.sets : NewSource(config.sets[i]) = {}
       THEN status' = "failed" /\ UNCHANGED sources
       ELSE /\ status' = "serving"
            /\ sources' = [name \in SetNames(config) |->
                              CHOOSE s \in NewSource(LastOfName(config, name)) : TRUE]
    /\ UNCHANGED <<req, ctx, table>>

Ready(c) == status = "serving" /\ req[c] = None
Carry(c, raw) == req' = [req EXCEPT ![c] = raw]

\* What a password or an API key may be compared with.
Guesses == {"secret", "wrong"}

\* Whether a username gets through the path to decodeBase64Username whole: a
\* "/" as it stands does not match {username}, and a path that is escaped is
\* matched and handed on as it is, so that what "%3D", "%2B" or "%2F" stands
\* for is never decoded.  The URL alphabet has neither "/" nor "+".
Arrives(form, raw) ==
    \/ form = "url"
    \/ form = "std" /\ "/" \notin raw.b64
    \/ form = "percent" /\ raw.b64 = {}

\* A mutant: the alphabet of URLs is not tried.
OneAlphabetMutant(form, raw) ==
    IF Arrives(form, raw) /\ Valid(raw) /\ (form = "url" => raw.b64 \cap {"+", "/"} = {})
    THEN {raw} ELSE {}

\* {username} of the routes and decodeBase64Username.
Decode(form, raw) == IF Arrives(form, raw) /\ Valid(raw) THEN {raw} ELSE {}

\* PasswordAuth (off without a password) and ParseJSONCreds let a request pass.
Admitted(raw, guess) == Valid(raw) /\ config.password \in {"", guess}

\* bearerAuth lets an API request pass; without a key there is no listener.
Permitted(c, token) == c \notin SOCKS5Callers /\ config.apiKey = token

\* A client or an API request is turned away before it gets to the sessions.
Refused(c) ==
    /\ Ready(c)
    /\ \/ \E raw \in RawUsernames, guess \in Guesses : ~Admitted(raw, guess)
       \/ c \notin SOCKS5Callers /\ config.apiKey # "" /\ \E token \in Guesses : ~Permitted(c, token)
       \/ \E raw \in RawUsernames, form \in Encodings, token \in Guesses :
             Permitted(c, token) /\ Decode(form, raw) = {}
    /\ Sessions!ReturnNone(c)
    /\ UNCHANGED <<server, req, ctx, now, entries, nextID, sweep>>

Hit(c, raw) ==
    /\ Ready(c)
    /\ Sessions!ResolveHit(c, Seed(raw), SeedTTL(raw))
    /\ UNCHANGED <<server, req, ctx>>

Miss(c, raw) ==
    /\ Ready(c)
    /\ Sessions!ResolveMiss(c, Seed(raw), SeedTTL(raw))
    /\ Carry(c, raw)
    /\ UNCHANGED <<server, ctx>>

\* Without affinity the source is asked and nothing is kept.
PassThrough(c, raw) ==
    /\ Ready(c)
    /\ Sessions!ResolvePassThrough(c, Seed(raw), SeedTTL(raw))
    /\ Offers(raw.set, None) # {} \/ MayFail(c, raw.set)
    /\ UNCHANGED <<server, req, ctx>>

\* handleForceRotate.  The source is called with the context of the request
\* that made the session, not with that of this one.
Rotate(c, raw) ==
    /\ Ready(c)
    /\ \/ Sessions!RotateAbsent(c, Seed(raw)) /\ UNCHANGED req
       \/ Sessions!RotateRead(c, Seed(raw)) /\ Carry(c, ctx[Seed(raw)])
    /\ UNCHANGED <<server, ctx>>

\* The router passes the call on to the source of the set in its context.
SourceAnswers(c) ==
    /\ status = "serving" /\ task[c].pc \in {"resolve", "rotate"}
    /\ \E i \in Offers(req[c].set, Sessions!NewSessionSeed(task[c].key, task[c].rotation)) :
          \/ Sessions!ResolveSource(c, Node(req[c].set, i))
          \/ Sessions!RotateSource(c, Node(req[c].set, i))
    /\ UNCHANGED <<server, req, ctx>>

SourceFails(c) ==
    /\ status = "serving" /\ req[c] # None
    /\ MayFail(c, req[c].set)
    /\ Sessions!SourceFails(c)
    /\ Carry(c, None)
    /\ UNCHANGED <<server, ctx>>

\* A panic nobody recovers ends the process.
Crash(c, set) ==
    /\ status = "serving" /\ c \in SOCKS5Callers /\ MayPanic(set)
    /\ status' = "crashed"
    /\ UNCHANGED <<config, sources, req, ctx, table>>

PassThroughCrashes(c, raw) == Ready(c) /\ SeedTTL(raw) <= 0 /\ Crash(c, raw.set)
SourceCrashes(c) == task[c].pc = "resolve" /\ Crash(c, req[c].set)

\* A mutant: the context of the winner of a race is replaced.
InsertContextMutant(c) ==
    /\ status = "serving"
    /\ Sessions!ResolveInsert(c)
    /\ ctx' = [ctx EXCEPT ![task[c].key] = req[c]]
    /\ Carry(c, None)
    /\ UNCHANGED server

\* Label and context go into the table with a new entry.
Insert(c) ==
    /\ status = "serving"
    /\ Sessions!ResolveInsert(c)
    /\ ctx' = [ctx EXCEPT ![task[c].key] = IF Sessions!Live(task[c].key) THEN @ ELSE req[c]]
    /\ Carry(c, None)
    /\ UNCHANGED server

Update(c) ==
    /\ status = "serving"
    /\ Sessions!RotateUpdate(c)
    /\ Carry(c, None)
    /\ UNCHANGED <<server, ctx>>

\* The cleanup removes a session with its context.
Cleanup ==
    /\ status = "serving"
    /\ Sessions!Cleanup
    /\ ctx' = [k \in AffinityKeys |-> IF entries'[k] = None THEN None ELSE ctx[k]]
    /\ UNCHANGED <<server, req>>

Tick == status = "serving" /\ Sessions!Tick /\ UNCHANGED <<server, req, ctx>>

\* The process has ended.
Ended == status \in {"failed", "crashed"} /\ UNCHANGED vars

Begin(c) ==
    \/ Refused(c)
    \/ \E raw \in RawUsernames, guess \in Guesses :
          /\ Admitted(raw, guess)
          /\ \/ Hit(c, raw) \/ Miss(c, raw)
             \/ PassThrough(c, raw) \/ PassThroughCrashes(c, raw)
    \/ \E form \in Encodings, token \in Guesses, any \in RawUsernames :
          Permitted(c, token) /\ \E raw \in Decode(form, any) : Rotate(c, raw)

Continue(c) ==
    SourceAnswers(c) \/ SourceFails(c) \/ SourceCrashes(c) \/ Insert(c) \/ Update(c)

Next ==
    \/ BuildServer
    \/ \E c \in Callers : Begin(c) \/ Continue(c)
    \/ Cleanup \/ Tick \/ Ended

Spec == Init /\ [][Next]_vars
-----------------------------------------------------------------------------
\* toAPISessionInfo, handleListSessions and handleGetSession.
APISessionInfo(k) ==
    [session_id |-> entries[k].id, username |-> ctx[k], proxy_set |-> ctx[k].set]

ListSessions == {APISessionInfo(k) : k \in {j \in AffinityKeys : Sessions!Live(j)}}

GetSession(form, raw) ==
    {APISessionInfo(Seed(u)) : u \in {v \in Decode(form, raw) : Sessions!Live(Seed(v))}}
-----------------------------------------------------------------------------
\* A session serves from the proxy set its client named, whatever overlapped
\* and however often it was rotated over the API: same meta in two sets never
\* share a session, and a rotation finds the set in the context kept for it.
NamedSetServed ==
    \A u \in RawUsernames :
        Valid(u) /\ Sessions!Live(Seed(u)) => entries[Seed(u)].proxy.node.set = u.set

\* Which session the API means does not get lost between its answers: the
\* username of a listed session leads to that session, in every encoding that
\* gets through the path, and the proxy_set it shows is the one that the proxy
\* comes from, although label and context were kept by whichever of the racing
\* requests stored the session.  (The documented percent-encoding gets through
\* only if nothing needs escaping, see Arrives.)
ListedFetchable ==
    /\ \A s \in ListSessions, form \in Encodings :
          Arrives(form, s.username) => GetSession(form, s.username) = {s}
    /\ \A k \in AffinityKeys : Sessions!Live(k) =>
          APISessionInfo(k).proxy_set = entries[k].proxy.node.set

\* A session that was not rotated yet ends when the request that made it asked
\* for, also when others with the same key and other minutes overlapped and
\* tried to store theirs; minutes must be small enough not to wrap (documented:
\* 0 to 1440).  A rotation that began before the session did may give it the
\* duration of an earlier one.
AskedDuration ==
    \A k \in AffinityKeys : entries[k] # None /\ entries[k].rotation = 0 =>
        LET asked == ctx[k].minutes * Minute
        IN  asked \in 0..(2^(Width - 1) - 1) =>
                asked > 0 /\ entries[k].expiresAt = entries[k].startedAt + asked

\* A provider derives country and session id from the seed: whoever was handed
\* a proxy for a seed, and the session with that seed now, have the same one,
\* even if the session has expired and was made anew in between.
SeedDecidesCountry ==
    \A c \in Callers, k \in AffinityKeys :
        (/\ reply[c] # None /\ entries[k] # None
         /\ reply[c].proxy.seed = entries[k].proxy.seed
         /\ sources[entries[k].proxy.node.set].type = "geonode")
            => reply[c].proxy = entries[k].proxy

\* The file of a set holds list, written in the format the set names.
Written(raw, list) ==
    raw.source_type = "static_file" /\ raw.lines = WriteProxies(list, FormatOf(raw))

\* A file written in a format is loaded as what was written, comments and
\* blank lines apart, and does not keep the program from starting.  (Bracketed
\* IPv6 hosts are not understood in user_pass_host_port.)
LoadedAsWritten ==
    [][status = "starting" =>
          /\ status' = "failed" =>
                \E i \in DOMAIN config.sets : \A list \in Lists : ~Written(config.sets[i], list)
          /\ status' = "serving" =>
                \A name \in SetNames(config), list \in Lists :
                    Written(LastOfName(config, name), list) => sources'[name].items = list]_vars
=============================================================================
