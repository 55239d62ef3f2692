------------------------------ MODULE MCTlsRouting ------------------------------
(* Connections and router configurations for TlsRouting. *)
EXTENDS TlsRouting

\* Two hosts, b.c also in capitals, and a literal IPv6 address.
a_c == <<97, Dot, 99>>
b_c == <<98, Dot, 99>>
B_c == <<66, Dot, 99>>
c_b_c == <<99, Dot>> \o b_c
v6 == <<Bracket, Colon, Colon, 49, 93>>

Prefixed(s) == <<Len(s)>> \o s
Record(type, data) == [cells |-> <<type, 3>> \o Prefixed(data), host |-> None]

\* A hello: extensions before the name, names before the host name, its host
\* name if any, extensions after it.
Extension(type, data) == <<type>> \o Prefixed(data)
ServerNames(names) == Extension(ServerNameExt, Prefixed(names))
Name(type, name) == <<type>> \o Prefixed(name)
HelloCells(sid, extensions) ==
  LET body == <<0>> \o Prefixed(sid) \o Prefixed(<<19>>) \o Prefixed(<<0>>) \o Prefixed(extensions)
  IN <<ClientHello, Len(body)>> \o body
Hello(sid, extensions, host) ==
  [cells |-> Record(HandshakeType, HelloCells(sid, extensions)).cells, host |-> host]

PlainHello == Hello(<<>>, ServerNames(Name(HostName, a_c)), Some(a_c))
Spread(at) ==
  LET d == HelloCells(<<>>, ServerNames(Name(HostName, a_c)))
  IN <<Record(HandshakeType, SubSeq(d, 1, at)), Record(HandshakeType, SubSeq(d, at + 1, Len(d)))>>

MCScripts ==
  { <<PlainHello>>,
    <<PlainHello, Hello(<<>>, ServerNames(Name(HostName, c_b_c)), Some(c_b_c))>>,
    <<Hello(<<7>>, Extension(16, <<2>>) \o ServerNames(Name(1, <<66>>) \o Name(HostName, c_b_c))
              \o Extension(43, <<>>), Some(c_b_c))>>,
    <<Hello(<<>>, ServerNames(Name(HostName, B_c)), Some(B_c)), Record(23, <<5, 5>>)>>,
    <<Hello(<<>>, Extension(16, <<2>>), None), Record(20, <<1>>), PlainHello>>,
    <<Record(21, <<2>>), Record(HandshakeType, <<>>), PlainHello>>,
    <<Hello(<<>>, Extension(ServerNameExt, <<9, 0>>), None)>>,
    <<Record(HandshakeType, <<2, 1, 0>>), Record(99, <<>>)>>,
    <<[cells |-> <<23, 3, MaxPayload + 1, 0>>, host |-> None]>> }
  \cup {Spread(at) : at \in {1, 3, 9, 15}}

\* Keys as text, the router kinds each form is meant for.
Line(text, host, port, for) == [text |-> text, host |-> host, port |-> port, for |-> for]
Get(uri) == <<71, Space>> \o uri \o <<Space, 49>>
Path == <<Slash, 120>>
Scheme == <<104, Colon, Slash, Slash>>

MCLines ==
  UNION {
    LET at == Authority(host, port)
        tcp == IF port = None THEN {} ELSE {"Tcp"}
        tls == IF host = v6 THEN {} ELSE {"Tls", "TlsClient"}
    IN { Line(Get(Scheme \o at), host, port, tcp),
         Line(Get(Scheme \o at \o Path), host, port, tcp),
         Line(Get(Scheme \o at \o <<Slash>> \o Scheme \o b_c \o <<Colon, 8080>>), host, port, tcp),
         Line(Get(<<Slash>> \o at), host, port, tcp),
         Line(Get(<<Slash>> \o at \o Path), host, port, {}),
         Line(Get(at), host, port, tcp),
         Line(at, host, port, tls),
         Line(at \o Path, host, port, tls \ {"Tls"}),
         Line(at \o <<NotUtf8>>, host, port, {}) }
    : <<host, port>> \in {a_c, v6} \X {None, Some(8080)} }
  \cup {Line(host, host, None, {"Tls", "TlsClient"}) : host \in {a_c, b_c, B_c, c_b_c, b_c \o <<Dot>> \o b_c}}
  \cup {Line(<<>>, a_c, None, {}), Line(<<Slash>>, a_c, None, {}), Line(Get(<<>>), a_c, None, {})}

To(port) == <<120, Colon, port>>
Rule(how, domain, port) == [how |-> how, domain |-> domain, addr |-> To(port)]
MatchingRouter(rules) == [kind |-> "Matching", routes |-> rules]

MCConfigs ==
  { OverTcp(None), OverTcp(Some(To(8080))), OverTls(None), OverTls(Some(To(8080))), OverUnix(Path),
    [kind |-> "Tls", fixed |-> None], [kind |-> "Tls", fixed |-> Some(To(8080)), sni |-> a_c],
    MatchingRouter(<<>>),
    MatchingRouter(<<Rule("Exact", B_c, 1001), Rule("Suffix", b_c, 1002), Rule("Contains", <<99>>, 1003)>>),
    MatchingRouter(<<Rule("Prefix", <<97>>, 1001), Rule("Suffix", <<Dot, 99>>, 1002), Rule("Exact", <<>>, 1003)>>) }
================================================================================
