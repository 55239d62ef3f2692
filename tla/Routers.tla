-------------------------------- MODULE Routers --------------------------------
(***************************************************************************)
(* What the routers make of a routing key: MatchStrategy and MatchingRouter *)
(* (train_track/src/destinations/route.rs), TcpRouter and TcpOverSockRouter *)
(* (carriage/src/tcp/dest/routed.rs), TlsRouter                            *)
(* (trezorcarriage/src/destination.rs) and TlsClientRouter                 *)
(* (trezorcarriage/src/client.rs). Text is a sequence of cells: a cell is  *)
(* the code of a character, a whole label or scheme is one letter, and a   *)
(* port is one cell, its number, which is above every code.                *)
(***************************************************************************)
EXTENDS Integers, Sequences, SequencesExt

Space == 32
Dot == 46
Slash == 47
Colon == 58
Bracket == 91
NotUtf8 == 255

IsPort(cell) == cell > 255
HttpsPort == 443

\* Text or no text: a set of at most one sequence.
None == {}
Some(s) == {s}

\* Where pat occurs in s.
Occurs(s, pat) == {i \in 1..(Len(s) - Len(pat) + 1) : SubSeq(s, i, i + Len(pat) - 1) = pat}

\* s.split(pat).next(), and what the split leaves for the rest.
Before(s, pat) == IF Occurs(s, pat) = {} THEN s ELSE SubSeq(s, 1, Min(Occurs(s, pat)) - 1)
After(s, pat) == SubSeq(s, Min(Occurs(s, pat)) + Len(pat), Len(s))

Utf8(s) == NotUtf8 \notin ToSet(s)

-----------------------------------------------------------------------------
(* MatchStrategy. *)

Lowercase(s) == [i \in DOMAIN s |-> IF s[i] \in 65..90 THEN s[i] + 32 ELSE s[i]]

\* The constructors lower the case of the pattern.
Strategy(how, domain) == [how |-> how, pat |-> Lowercase(domain)]

\* A variant that looks for a suffix at its first occurrence only.
IsMatchFirstOccurrence(s, domain) ==
  LET n == Len(domain) - Len(s.pat)
  IN CASE s.how = "Exact"    -> n = 0 /\ Occurs(domain, s.pat) # {}
       [] s.how = "Suffix"   -> Occurs(domain, s.pat) # {} /\ Min(Occurs(domain, s.pat)) = n + 1
       [] s.how = "Prefix"   -> n >= 0 /\ SubSeq(domain, 1, Len(s.pat)) = s.pat
       [] s.how = "Contains" -> Occurs(domain, s.pat) # {}

\* is_match; the key is compared as it came.
IsMatch(s, domain) ==
  LET n == Len(domain) - Len(s.pat)
  IN CASE s.how = "Exact"    -> n = 0 /\ Occurs(domain, s.pat) # {}
       [] s.how = "Suffix"   -> n >= 0 /\ SubSeq(domain, n + 1, Len(domain)) = s.pat
       [] s.how = "Prefix"   -> n >= 0 /\ SubSeq(domain, 1, Len(s.pat)) = s.pat
       [] s.how = "Contains" -> Occurs(domain, s.pat) # {}

-----------------------------------------------------------------------------
(* Addresses out of a key. *)

WordStarts(s) == {i \in DOMAIN s : s[i] # Space /\ (i = 1 \/ s[i - 1] = Space)}

TrimSlashes(s) ==
  LET rest == {i \in DOMAIN s : s[i] # Slash}
  IN IF rest = {} THEN <<>> ELSE SubSeq(s, Min(rest), Len(s))

\* extract_host of TcpRouter: the second word of a request line; of an absolute
\* URI what is between the scheme and the path.
ExtractHost(line) ==
  LET starts == WordStarts(line)
      uri == Before(SubSeq(line, Min(starts \ {Min(starts)}), Len(line)), <<Space>>)
      scheme == <<Colon, Slash, Slash>>
  IN IF ~Utf8(line) \/ starts = {} \/ starts = {Min(starts)} THEN None
     ELSE IF Occurs(uri, scheme) # {} THEN Some(Before(Before(After(uri, scheme), scheme), <<Slash>>))
     ELSE Some(TrimSlashes(uri))

\* A variant that names the server by its address.
ResolveSniAddr(addr) == addr

\* resolve_addr and resolve_sni of TlsClientRouter.
ResolveAddr(key) ==
  LET host == Before(key, <<Slash>>)
  IN IF ~Utf8(key) \/ host = <<>> THEN None
     ELSE IF Occurs(host, <<Colon>>) # {} THEN Some(host)
     ELSE Some(host \o <<Colon, HttpsPort>>)
ResolveSni(addr) == Before(addr, <<Colon>>)

-----------------------------------------------------------------------------
(* The routers. A router is built for a fixed address or to take it from the *)
(* key; what it dials is an address and, for TLS, the name it expects in the *)
(* certificate. None: it fails before it dials.                              *)

Plain(addr) == [addr |-> addr, sni |-> None]
Named(addr, name) == [addr |-> addr, sni |-> Some(name)]

\* OverTcp, OverTls, OverUnix: the shunts wrap a router each.
OverTcp(fixed) == [kind |-> "Tcp", fixed |-> fixed]
OverTls(fixed) == [kind |-> "TlsClient", fixed |-> fixed]
OverUnix(path) == [kind |-> "Sock", fixed |-> Some(path)]

\* TcpRouter::route
TcpRoute(router, key) ==
  {Plain(a) : a \in IF router.fixed # None THEN router.fixed ELSE ExtractHost(key)}

\* TcpOverSockRouter::route
TcpOverSockRoute(router) == {Plain(a) : a \in router.fixed}

\* MatchingRouter::route: the first route whose strategy matches.
MatchingRoute(router, key) ==
  LET hits == {i \in DOMAIN router.routes :
                 IsMatch(Strategy(router.routes[i].how, router.routes[i].domain), key)}
  IN IF hits = {} THEN None ELSE Some(Plain(router.routes[Min(hits)].addr))

\* TlsRouter::route: host and port around the last colon.
TlsRoute(router, key) ==
  LET colons == Occurs(key, <<Colon>>)
  IN IF router.fixed # None THEN {Named(a, router.sni) : a \in router.fixed}
     ELSE IF ~Utf8(key) THEN None
     ELSE IF colons = {} THEN Some(Named(key \o <<Colon, HttpsPort>>, key))
     ELSE Some(Named(key, SubSeq(key, 1, Max(colons) - 1)))

\* TlsClientRouter::route
TlsClientRoute(router, key) ==
  {Named(a, ResolveSni(a)) : a \in IF router.fixed # None THEN router.fixed ELSE ResolveAddr(key)}

\* DestinationRouter::route
Resolve(router, key) ==
  CASE router.kind = "Tcp"       -> TcpRoute(router, key)
    [] router.kind = "Sock"      -> TcpOverSockRoute(router)
    [] router.kind = "Matching"  -> MatchingRoute(router, key)
    [] router.kind = "Tls"       -> TlsRoute(router, key)
    [] router.kind = "TlsClient" -> TlsClientRoute(router, key)

\* ServerName::try_from: a DNS name.
ServerName(name) == name # <<>> /\ {Colon, Slash, Bracket, Space} \cap ToSet(name) = {}

\* Whether connecting can succeed: over TCP the address must be host:port, over
\* TLS the name must be one that a certificate can carry.
Dialable(router, target) ==
  LET n == Len(target.addr)
  IN /\ \/ router.kind = "Sock"
        \/ /\ n >= 3 /\ IsPort(target.addr[n]) /\ target.addr[n - 1] = Colon
           /\ {Slash, Space} \cap ToSet(target.addr) = {}
     /\ \A name \in target.sni : ServerName(name)
================================================================================
