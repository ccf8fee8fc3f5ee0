---------------------------- MODULE ProxyFormat ----------------------------
(***************************************************************************)
(* proxy-kit/utils/proxy_format.go and the file loader of                  *)
(* provider_static_file.go.  A line is a sequence of tokens: punctuation   *)
(* (":", "@", "[", "]", "://", "#") and the words between it; what a word  *)
(* is spelled like matters only where it is a port.  A parser returns the  *)
(* set of what it parsed: one element, or none for an error.               *)
(***************************************************************************)
EXTENDS Integers, SequencesExt

CONSTANT PortTokens     \* the words strconv.ParseUint(_, 10, 16) accepts

ProxyFormats == {"host_port_user_pass", "user_pass_at_host_port", "user_pass_host_port"}
DefaultProxyFormat == "host_port_user_pass"

\* proxykit.Proxy as far as a line sets it; no credentials are <<>>.
MakeProxy(host, port, user, pass) ==
    [host |-> host, port |-> port, username |-> user, password |-> pass]

HasPrefix(s, t) == s # <<>> /\ s[1] = t
Positions(s, t) == {i \in DOMAIN s : s[i] = t}
FirstOf(S) == {i \in S : \A j \in S : i <= j}       \* strings.Index
LastOf(S) == {i \in S : \A j \in S : i >= j}        \* strings.LastIndex
Before(s, i) == SubSeq(s, 1, i - 1)
After(s, i) == SubSeq(s, i + 1, Len(s))

\* What lies between the positions P of a line.
SplitAt(s, P) ==
    LET cut == <<0>> \o SetToSortSeq(P, <) \o <<Len(s) + 1>>
    IN  [i \in 1..(Len(cut) - 1) |-> SubSeq(s, cut[i] + 1, cut[i + 1] - 1)]

\* Split at the first, or the last, n - 1 colons.
SplitN(s, n) ==
    LET P == Positions(s, ":")
    IN  SplitAt(s, {i \in P : Cardinality({j \in P : j < i}) < n - 1})
RSplitN(s, n) ==
    LET P == Positions(s, ":")
    IN  SplitAt(s, {i \in P : Cardinality({j \in P : j > i}) < n - 1})

StripProtocol(s) ==
    IF Positions(s, "://") = {} THEN s
    ELSE After(s, CHOOSE i \in FirstOf(Positions(s, "://")) : TRUE)

ParsePort(s) == {p \in PortTokens : s = <<p>>}

\* "[" host "]:" rest, and nothing if the bracket is not closed that way.
Bracketed(s) ==
    {[host |-> SubSeq(s, 2, end - 1), rest |-> After(s, end + 1)] :
        end \in {i \in FirstOf(Positions(s, "]")) : HasPrefix(After(s, i), ":")}}

ParseHostPort(s) ==
    LET split == IF HasPrefix(s, "[") THEN Bracketed(s)
                 ELSE {[host |-> Before(s, i), rest |-> After(s, i)] :
                          i \in LastOf(Positions(s, ":"))}
    IN  UNION {{[host |-> b.host, port |-> p] : p \in ParsePort(b.rest)} : b \in split}

WithoutCreds(s) == {MakeProxy(e.host, e.port, <<>>, <<>>) : e \in ParseHostPort(s)}

SplitUserPass(s) ==
    {[user |-> Before(s, i), pass |-> After(s, i)] : i \in FirstOf(Positions(s, ":"))}

\* A mutant: the host is looked for after the first "@".
ParseUserPassAtHostPortMutant(s) ==
    IF Positions(s, "@") = {} THEN WithoutCreds(s)
    ELSE LET at == CHOOSE i \in FirstOf(Positions(s, "@")) : TRUE
         IN  {MakeProxy(e.host, e.port, c.user, c.pass) :
                 e \in ParseHostPort(After(s, at)), c \in SplitUserPass(Before(s, at))}

ParseUserPassAtHostPort(s) ==
    IF Positions(s, "@") = {} THEN WithoutCreds(s)
    ELSE LET at == CHOOSE i \in LastOf(Positions(s, "@")) : TRUE
         IN  {MakeProxy(e.host, e.port, c.user, c.pass) :
                 e \in ParseHostPort(After(s, at)), c \in SplitUserPass(Before(s, at))}

\* user:pass:host:port with a user that is not empty, or else host:port.
ParseUserPassHostPort(s) ==
    LET parts == RSplitN(s, 3)
        full == IF Len(parts) # 3 THEN {}
                ELSE {MakeProxy(parts[2], p, c.user, c.pass) :
                         p \in ParsePort(parts[3]),
                         c \in {d \in SplitUserPass(parts[1]) : d.user # <<>>}}
    IN  IF full # {} THEN full ELSE WithoutCreds(s)

\* port, or port:user:pass, after a host.
ParsePortAndOptionalCreds(host, parts) ==
    CASE Len(parts) = 1 -> {MakeProxy(host, p, <<>>, <<>>) : p \in ParsePort(parts[1])}
      [] Len(parts) = 3 -> {MakeProxy(host, p, parts[2], parts[3]) : p \in ParsePort(parts[1])}
      [] OTHER -> {}

ParseHostPortUserPass(s) ==
    IF HasPrefix(s, "[")
    THEN UNION {ParsePortAndOptionalCreds(b.host, SplitN(b.rest, 3)) : b \in Bracketed(s)}
    ELSE LET parts == SplitN(s, 4)
         IN  ParsePortAndOptionalCreds(parts[1], Tail(parts))

ParseProxyLine(s, format) ==
    LET line == StripProtocol(s)
    IN  CASE format = "user_pass_at_host_port" -> ParseUserPassAtHostPort(line)
          [] format = "user_pass_host_port" -> ParseUserPassHostPort(line)
          [] OTHER -> ParseHostPortUserPass(line)

\* The proxies of a file; blank lines and comments are skipped, one line that
\* does not parse, or no proxy at all, is an error.
LoadProxies(lines, format) ==
    LET kept == SelectSeq(lines, LAMBDA l : l # <<>> /\ ~HasPrefix(l, "#"))
        parsed == [i \in DOMAIN kept |-> ParseProxyLine(kept[i], format)]
    IN  IF kept = <<>> \/ \E i \in DOMAIN kept : parsed[i] = {} THEN {}
        ELSE {[i \in DOMAIN kept |-> CHOOSE p \in parsed[i] : TRUE]}
-----------------------------------------------------------------------------
\* How a proxy is written in each format, as the name of the format says: the
\* reference the parsers are compared with.  An IPv6 host is put in brackets.
WrittenHost(p) ==
    IF Positions(p.host, ":") = {} THEN p.host ELSE <<"[">> \o p.host \o <<"]">>

WriteProxy(p, format) ==
    LET host == WrittenHost(p) \o <<":", p.port>>
        creds == p.username \o <<":">> \o p.password
    IN  CASE p.username = <<>> -> host
          [] format = "host_port_user_pass" -> host \o <<":">> \o creds
          [] format = "user_pass_at_host_port" -> creds \o <<"@">> \o host
          [] OTHER -> creds \o <<":">> \o host

\* A file: a comment, and the proxies with a blank line after each.
WriteProxies(list, format) ==
    FoldLeft(LAMBDA lines, p : lines \o <<WriteProxy(p, format), <<>>>>,
             <<<<"#", "comment">>>>, list)
=============================================================================
