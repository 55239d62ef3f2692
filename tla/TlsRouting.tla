------------------------------- MODULE TlsRouting -------------------------------
(***************************************************************************)
(* How a connection finds its server: TlsParser cuts the byte stream into  *)
(* records (trezorcarriage/src/parser.rs), TlsEncryptedFrame looks for the *)
(* server name in a ClientHello (frame.rs), the first loop of              *)
(* do_connection (train_track/src/core/service.rs) waits for the first     *)
(* frame with a routing key, and a router takes it from there while the    *)
(* second loop reads on. A cell stands for a field of fixed length: a      *)
(* record header is its type, version and payload length. Scripts stay     *)
(* below the buffer limits of the two loops, which are in module Pipeline. *)
(***************************************************************************)
EXTENDS Routers

CONSTANTS
  Scripts,   \* what a client may send, see script
  Lines,     \* HTTP request lines that are routing keys, see named
  Configs    \* router configurations

HeaderLen == 3     \* TLS_HEADER_LEN
MaxPayload == 40   \* TLS_MAX_PAYLOAD
RecordType == {20, 21, 22, 23}

\* A host is a name or an address in brackets.
Host == {h \in Seq(0..(NotUtf8 - 1)) : /\ h # <<>> /\ {Slash, Space} \cap ToSet(h) = {}
                                       /\ Colon \in ToSet(h) => h[1] = Bracket /\ h[Len(h)] # Colon}
Authority(host, port) == IF port = None THEN host ELSE host \o <<Colon, Min(port)>>

SchemeAt(s, i) == s[i] = Colon /\ s[i + 1] = Slash /\ s[i + 2] = Slash

\* The second word of s is behind m and ends before e.
UriAt(s, m, e) ==
  /\ 1 < m /\ m + 1 < e /\ s[m] = Space /\ (e = Len(s) + 1 \/ s[e] = Space)
  /\ \A i \in 1..(m - 1) : s[i] \notin {Space, Slash}
  /\ \A i \in (m + 1)..(e - 1) : s[i] # Space

\* Behind j comes at, and then a path or the end.
NamesAt(s, at, j, e) ==
  /\ j + Len(at) < e /\ SubSeq(s, j + 1, j + Len(at)) = at
  /\ j + Len(at) + 1 = e \/ s[j + Len(at) + 1] = Slash

\* A request with an absolute URI; one with the authority in front of the path, in
\* which there is no other URI; the authority alone, or with a path; or a text that
\* names nothing. The routers each is meant for.
IsKey(line) ==
  LET s == line.text
      at == Authority(line.host, line.port)
      tcp == IF line.port = None THEN {} ELSE {"Tcp"}
  IN /\ s \in Seq(Nat) /\ line.host \in Host
     /\ line.port = None \/ \E p \in line.port : line.port = Some(p) /\ p \in Nat /\ IsPort(p)
     /\ \/ /\ Utf8(s)
           /\ \E m, j \in 1..Len(s), e \in 1..(Len(s) + 1) :
                /\ UriAt(s, m, e) /\ m <= j /\ NamesAt(s, at, j, e)
                /\ \/ /\ m + 3 <= j /\ SchemeAt(s, j - 2) /\ \A i \in (m + 1)..(j - 3) : s[i] # Colon
                      /\ line.for \subseteq tcp
                   \/ /\ \A i \in (m + 1)..j : s[i] = Slash
                      /\ \A i \in (m + 1)..(e - 3) : ~SchemeAt(s, i)
                      /\ line.for \subseteq IF j + Len(at) + 1 = e THEN tcp ELSE {}
        \/ /\ Utf8(s) /\ Space \notin ToSet(s) /\ NamesAt(s, at, 0, Len(s) + 1)
           /\ line.for \subseteq IF ~ServerName(line.host) THEN {}
                                 ELSE {"TlsClient"} \cup (IF s = at THEN {"Tls"} ELSE {})
        \/ /\ line.for = {}
           /\ \/ ~Utf8(s) \/ s \in {<<>>, <<Slash>>}
              \/ /\ \A i \in DOMAIN s : ~IsPort(s[i])
                 /\ \E m \in DOMAIN s : s[m] = Space /\ \A i \in 1..(m - 1) : s[i] # Slash

\* A script is cut where its records end; behind a header that the parser refuses
\* there may be anything.
ASSUME RoutingAssumption ==
  /\ \A s \in Scripts : s \in Seq([cells : Seq(Nat), host : SUBSET Seq(Nat)])
  /\ \A s \in Scripts : \A i \in DOMAIN s :
        LET c == s[i].cells
        IN /\ Len(c) >= HeaderLen
           /\ c[3] = Len(c) - HeaderLen \/ c[1] \notin RecordType \/ c[3] > MaxPayload
  /\ \A line \in Lines : IsKey(line)
  /\ \A r \in Configs : r.kind \in {"Tcp", "Sock", "Matching", "Tls", "TlsClient"}
  /\ \A r \in Configs : r.kind = "Matching" =>
        r.routes \in Seq([how : {"Exact", "Suffix", "Prefix", "Contains"}, domain : Seq(Nat), addr : Seq(Nat)])

VARIABLES
  script,    \* the client's records: cells, and the host name of the hello in it, if any
  sent,      \* cells the client has sent
  taken,     \* cells the parser has read
  peer,      \* the client: "open", "closed", "reset"
  header, payload,   \* header_buf, payload_buf
  frames,    \* the frames that came out
  stage,     \* "pre": first loop; "routing": the join; "joined"; "failed"
  post,      \* the second loop: "reading", "end", "err"
  key,       \* routing_key
  named,     \* of a text key: the host and port it was made from
  router,    \* the router
  route,     \* its result: "pending", "ok", "err"
  target     \* what it dialled

client == <<script, sent, peer, named>>
parser == <<taken, header, payload, frames>>
flow == <<stage, post, key, router, route, target>>
vars == <<client, parser, flow>>

wire == FlattenSeq([i \in DOMAIN script |-> script[i].cells])

\* Either a TLS connection, or one whose parser has yielded a key as text.
Init ==
  /\ sent = 0 /\ taken = 0 /\ peer = "open"
  /\ header = <<>> /\ payload = <<>> /\ frames = <<>>
  /\ post = "reading" /\ router = None /\ route = "pending" /\ target = None
  /\ \/ /\ script \in Scripts /\ named = None
        /\ stage = "pre" /\ key = None
     \/ /\ script = <<>>
        /\ \E line \in Lines : named = Some(line) /\ key = Some(line.text)
        /\ stage = "routing"

-----------------------------------------------------------------------------
(* The client. *)

Send ==
  /\ peer = "open" /\ sent < Len(wire)
  /\ sent' = sent + 1
  /\ UNCHANGED <<script, peer, named, parser, flow>>

Close ==
  /\ peer = "open"
  /\ peer' \in {"closed", "reset"}
  /\ UNCHANGED <<script, sent, named, parser, flow>>

-----------------------------------------------------------------------------
(* TlsRecordType, TlsEncryptedFrame. *)

HandshakeType == 22
ClientHello == 1
ServerNameExt == 0
HostName == 0

\* The position after the field at p that is preceded by its length; 0 when d is
\* too short, or p is 0.
SkipField(d, p) == IF p \in DOMAIN d /\ p + d[p] <= Len(d) THEN p + d[p] + 1 ELSE 0

\* handshake_payload
HandshakePayload(frame) ==
  IF Len(frame) > HeaderLen /\ frame[1] \in RecordType
    THEN SubSeq(frame, HeaderLen + 1, Len(frame)) ELSE frame

\* A variant that takes the first name of the list, of whatever type.
NameInListAnyType(d, from, end) ==
  IF from + 2 > end \/ from + 2 + d[from + 1] > end THEN None
  ELSE Some(SubSeq(d, from + 2, from + 1 + d[from + 1]))

\* The inner loop: the first name of type host_name, in a list of names that
\* ends before end.
NameInList(d, from, end) ==
  LET name[p \in from..end] ==
        LET next == p + 2 + d[p + 1]
        IN IF p + 2 > end THEN None
           ELSE IF next > end THEN None
           ELSE IF d[p] = HostName THEN Some(SubSeq(d, p + 2, next - 1))
           ELSE name[next]
  IN name[from]

\* The outer loop: the server_name extension among those before end.
NameInExtensions(d, from, end) ==
  LET name[p \in from..end] ==
        LET data == p + 2
            next == data + d[p + 1]
        IN IF data > end THEN None
           ELSE IF next > end THEN None
           ELSE IF d[p] # ServerNameExt THEN name[next]
           ELSE IF d[p + 1] < 1 \/ data + 1 + d[data] > next THEN None
           ELSE NameInList(d, data + 1, data + 1 + d[data])
  IN name[from]

\* extract_sni: type and length, version and random, then session id, cipher
\* suites, compression methods and extensions, each after its length.
ExtractSni(frame) ==
  LET d == HandshakePayload(frame)
      extensions == SkipField(d, SkipField(d, SkipField(d, 4)))
      end == SkipField(d, extensions)
  IN IF frame[1] # HandshakeType \/ Len(d) < 3 THEN None
     ELSE IF d[1] # ClientHello \/ end = 0 THEN None
     ELSE NameInExtensions(d, extensions + 1, end)

-----------------------------------------------------------------------------
(* TlsParser::parse, polled by one of the two loops. *)

Polled == script # <<>> /\ (stage = "pre" \/ (stage = "routing" /\ post = "reading"))
Available == IF peer = "reset" THEN 0 ELSE sent - taken

\* The stream yields an error or ends: the first loop then fails the connection,
\* for want of a routing frame in the second case; the second loop is over.
Fruitless(outcome) ==
  /\ stage' = IF stage = "pre" THEN "failed" ELSE stage
  /\ post' = IF stage = "pre" THEN post ELSE outcome
  /\ UNCHANGED <<key, router, route, target, client, parser>>

HeaderDone == Len(header) = HeaderLen
BadHeader == HeaderDone /\ (header[1] \notin RecordType \/ header[3] > MaxPayload)

\* A variant that reads one too many.
PayloadWantedOffByOne == header[3] + 1 - Len(payload)

PayloadWanted == header[3] - Len(payload)

\* A variant with room for more than a header.
ReadHeaderGreedy(n) ==
  /\ Polled /\ ~HeaderDone
  /\ n \in 1..Available
  /\ header' = SubSeq(header \o SubSeq(wire, taken + 1, taken + n), 1, Min({HeaderLen, Len(header) + n}))
  /\ taken' = taken + n
  /\ UNCHANGED <<payload, frames, client, flow>>

\* read_buf, as long as the header is short; the buffer has room for no more.
ReadHeader(n) ==
  /\ Polled /\ ~HeaderDone
  /\ n \in 1..Available /\ Len(header) + n <= HeaderLen
  /\ header' = header \o SubSeq(wire, taken + 1, taken + n)
  /\ taken' = taken + n
  /\ UNCHANGED <<payload, frames, client, flow>>

ReadPayload(n) ==
  /\ Polled /\ HeaderDone /\ ~BadHeader
  /\ n \in 1..Available /\ n <= PayloadWanted
  /\ payload' = payload \o SubSeq(wire, taken + 1, taken + n)
  /\ taken' = taken + n
  /\ UNCHANGED <<header, frames, client, flow>>

\* An unknown record type or a payload that is too long.
RejectHeader == Polled /\ BadHeader /\ Fruitless("err")

\* read_buf yields 0: between two records the stream ends, within one it is an
\* error.
ReadEof ==
  /\ Polled /\ peer = "closed" /\ Available = 0
  /\ ~BadHeader /\ ~(HeaderDone /\ PayloadWanted = 0)
  /\ Fruitless(IF header = <<>> THEN "end" ELSE "err")

\* read_buf fails.
ReadError ==
  /\ Polled /\ peer = "reset"
  /\ ~BadHeader /\ ~(HeaderDone /\ PayloadWanted = 0)
  /\ Fruitless("err")

\* A record is complete. The first loop looks for a key in it, and stops at the
\* first it gets.
YieldFrame ==
  LET frame == header \o payload
  IN /\ Polled /\ HeaderDone /\ ~BadHeader /\ PayloadWanted = 0
     /\ frames' = Append(frames, frame)
     /\ header' = <<>> /\ payload' = <<>>
     /\ key' = IF stage = "pre" THEN ExtractSni(frame) ELSE key
     /\ stage' = IF key' # None THEN "routing" ELSE stage
     /\ UNCHANGED <<taken, client, post, router, route, target>>

-----------------------------------------------------------------------------
(* The join: router.route beside the second loop. *)

\* RouterShunt::connect of OverTcp, OverTls and OverUnix does the same. Dialling
\* an address that is well formed may fail too.
Route(r) ==
  LET dialled == {t \in UNION {Resolve(r, k) : k \in key} : Dialable(r, t)}
  IN /\ stage = "routing" /\ route = "pending"
     /\ router' = Some(r)
     /\ \/ route' = "ok" /\ \E t \in dialled : target' = Some(t)
        \/ route' = "err" /\ UNCHANGED target
     /\ UNCHANGED <<stage, post, key, client, parser>>

\* Both are over. A text key came with a whole request. An error of the parser
\* only ended its loop: what was read before goes to the server.
Join ==
  /\ stage = "routing" /\ route # "pending"
  /\ script = <<>> \/ post # "reading"
  /\ stage' = IF route = "err" THEN "failed" ELSE "joined"
  /\ UNCHANGED <<post, key, router, route, target, client, parser>>

Read == \E n \in 1..Len(wire) : ReadHeader(n) \/ ReadPayload(n)

Next ==
  \/ Send \/ Close
  \/ Read \/ RejectHeader \/ ReadEof \/ ReadError \/ YieldFrame
  \/ \E r \in Configs : Route(r)
  \/ Join

\* The task is polled when there is something to read. The client owes nothing,
\* and nothing here depends on the dial.
Spec == Init /\ [][Next]_vars /\ WF_vars(Read) /\ WF_vars(RejectHeader) /\ WF_vars(YieldFrame)

-----------------------------------------------------------------------------
(* Properties *)

\* However the stream is split into reads, the frames are the client's records,
\* one by one, and with the two buffers they are all the bytes that were read:
\* header_buf never takes a byte of the payload, which is cut off it, and
\* payload_buf none of the next record.
RecordsConserved ==
  /\ FlattenSeq(frames) \o header \o payload = SubSeq(wire, 1, taken)
  /\ \A i \in DOMAIN frames : frames[i] = script[i].cells

\* The routing key is the host name of the first hello that names one and is
\* whole in its record; whatever precedes it and whatever else it carries. A
\* hello that is spread over records has no key.
RoutedByHello ==
  LET hellos == {i \in DOMAIN frames : script[i].host # None}
  IN named = None => key = IF hellos = {} THEN None ELSE script[Min(hellos)].host

\* A router that takes the address from the key dials the host and the port the
\* key was made from, and asks for a certificate of that host, or fails; the one
\* that a form of key is meant for does not fail before it dials.
DialsWhatIsNamed ==
  \A r \in {q \in router : q.kind # "Matching" /\ q.fixed = None}, line \in named :
    /\ \A t \in target :
         LET tls == r.kind # "Tcp"
         IN /\ line.port # None \/ tls
            /\ t.addr = line.host \o <<Colon, IF line.port = None THEN HttpsPort ELSE Min(line.port)>>
            /\ t.sni = IF tls THEN Some(line.host) ELSE None
    /\ r.kind \in line.for => \E t \in Resolve(r, line.text) : Dialable(r, t)

\* A matching router takes the first of its routes that the key fits: as a whole,
\* at its end, at its start, or anywhere, said without positions.
Fits(how, pat, domain) ==
  \E a, b \in 0..Len(domain) :
    LET front == SubSeq(domain, 1, a)
        back == SubSeq(domain, b + 1, Len(domain))
    IN /\ domain = front \o pat \o back
       /\ how \in {"Exact", "Prefix"} => front = <<>>
       /\ how \in {"Exact", "Suffix"} => back = <<>>

FirstRouteThatFits ==
  \A r \in {q \in router : q.kind = "Matching"}, k \in key, t \in target :
    \E i \in DOMAIN r.routes :
      /\ t.addr = r.routes[i].addr
      /\ Fits(r.routes[i].how, Lowercase(r.routes[i].domain), k)
      /\ \A j \in 1..(i - 1) : ~Fits(r.routes[j].how, Lowercase(r.routes[j].domain), k)

\* A record that was sent whole comes out without another byte of the client,
\* however it was split, unless the connection fails first.
RecordsComeOut ==
  \A i \in 1..3 :
    i \in DOMAIN script /\ sent >= Len(FlattenSeq([j \in 1..i |-> script[j].cells]))
      ~> Len(frames) >= i \/ stage = "failed" \/ post = "err" \/ peer = "reset"
================================================================================
