----------------------------- MODULE MCGateway -----------------------------
(***************************************************************************)
(* Instances of Gateway.                                                   *)
(***************************************************************************)
EXTENDS Gateway

CONSTANTS c1, c2

TwoCallers == {c1, c2}
OneSOCKS5Caller == {c2}

Ports == {"80", "81"}

\* Proxies without and with credentials, a ":" and an "@" in a password, an
\* "@" in a username, and an IPv6 host.
Plain == MakeProxy(<<"a">>, "80", <<>>, <<>>)
Closed == MakeProxy(<<"b">>, "81", <<"u">>, <<"p">>)
Odd == MakeProxy(<<"b">>, "81", <<"u", "@", "d">>, <<"p", ":", "@", "q">>)
V6 == MakeProxy(<<":", ":", "1">>, "80", <<>>, <<>>)
V6Closed == MakeProxy(<<":", ":", "1">>, "80", <<"u">>, <<"p">>)

PlainLists == {<<Plain>>, <<Plain, Closed>>, <<Odd, Plain, Closed>>}
V6Lists == {<<V6, Odd>>, <<V6Closed>>}
SomeLists == PlainLists \cup V6Lists

ProxySet(name, type) ==
    [name |-> name, source_type |-> type, section |-> TRUE, lines |-> <<>>,
     format |-> "", password |-> TRUE, product |-> "none", countries |-> <<>>]
Static(name, list, format) ==
    [ProxySet(name, "static_file") EXCEPT !.format = format,
        !.lines = WriteProxies(list, IF format = "" THEN DefaultProxyFormat ELSE format)]
Geonode(name, countries) == [ProxySet(name, "geonode") EXCEPT !.countries = countries]
Bottingtools(name, product) == [ProxySet(name, "bottingtools") EXCEPT !.product = product]

Config(sets, password, apiKey) == [sets |-> sets, password |-> password, apiKey |-> apiKey]

\* A list and a provider, and a name that is used twice; a source that panics.
Working ==
    <<Geonode("pool", <<>>), Static("pool", <<Closed>>, ""), Geonode("geo", <<"de", "fr">>)>>
Panicking == <<Bottingtools("bt", "residential")>>

\* Files in every format, behind a name no client asks for.
Files ==
    {<<Static("file", list, f)>> : list \in PlainLists, f \in ProxyFormats \cup {""}}
    \cup {<<Static("file", list, f)>> :
             list \in V6Lists, f \in {"host_port_user_pass", "user_pass_at_host_port"}}

Broken ==
    {<<ProxySet("pool", "static_file")>>, <<ProxySet("pool", "other")>>,
     <<[Geonode("geo", <<>>) EXCEPT !.password = FALSE]>>,
     <<[Bottingtools("bt", "isp") EXCEPT !.section = FALSE]>>,
     <<Static("pool", <<Odd>>, "user_pass_at_host_port"),
       [Static("geo", <<Closed>>, "user_pass_host_port") EXCEPT
            !.format = "user_pass_at_host_port"]>>}

SomeConfigs ==
    {Config(Working, "secret", "secret")}
    \cup {Config(sets, "", "") : sets \in {Panicking} \cup Files \cup Broken}

Name(set, minutes, meta, b64) ==
    [set |-> set, minutes |-> minutes, meta |-> meta, b64 |-> b64]

\* With Width = 3, four minutes wrap to a negative TTL and minus seven to a
\* positive one.
SomeUsernames ==
    {Name("pool", 1, "absent", {}), Name("pool", 2, "{}", {"="}),
     Name("geo", -7, "{}", {"/"}), Name("pool", 4, "{}", {"=", "+"}),
     Name("bt", 1, "{}", {}), Name("bt", 0, "{}", {}), Name("", 1, "{}", {})}

SeedHash(seed) == seed[2]
=============================================================================
