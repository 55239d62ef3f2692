--------------------------- MODULE HttpDeriveProofs ---------------------------
(***************************************************************************)
(* Proofs about the derive system and its two users, which have a session  *)
(* each and nothing else in common.                                        *)
(*                                                                         *)
(* HttpDeriverHook, for messages of any length with any headers: what it   *)
(* decides line by line is what the whole message says, and the receiver   *)
(* of what HttpPipeline passes on decides the same.                        *)
(*                                                                         *)
(* ResponseCodec in its FramedRead, for responses of any length, cut by    *)
(* the socket in any way: no byte is lost, and a well-formed response ends *)
(* where its head says.                                                    *)
(***************************************************************************)
EXTENDS DeriverHook, ResponseStream, SequenceLemmas

\* The matchers that look at a header.
HeaderMatcher == {"Content-Length", "Transfer-Encoding", "Connection"}

\* What a matcher finds in a line.
Hit(m, line) == IF MatcherPhase(m) = line.phase THEN TryMatch(m, line) ELSE {}

\* A session knows one of the values a matcher found, and whether there are others.
Knows(s, m, found) ==
  /\ s.results[m] \subseteq found /\ (found # {} => s.results[m] # {})
  /\ \A v, w \in s.results[m] : v = w
  /\ m \in s.conflicts <=> ~(found \subseteq s.results[m])

-----------------------------------------------------------------------------
(* DeriverSession::feed *)

\* feed, matcher by matcher.
LEMMA FeedAt ==
  ASSUME NEW s, NEW line, NEW m \in Matcher
  PROVE  /\ Feed(s, line).results[m] = IF s.results[m] = {} THEN Hit(m, line) ELSE s.results[m]
         /\ m \in Feed(s, line).conflicts <=>
               m \in s.conflicts \/ (s.results[m] # {} /\ ~(Hit(m, line) \subseteq s.results[m]))
BY DEF Feed, Hit

\* Only matchers are in conflict.
LEMMA FeedConflicts ==
  ASSUME NEW s, NEW line, s.conflicts \subseteq Matcher
  PROVE  Feed(s, line).conflicts \subseteq Matcher
BY DEF Feed

\* A match that is fed is known, or in conflict with the one that is.
LEMMA FeedKnows ==
  ASSUME NEW s, NEW line, NEW m \in Matcher, NEW found, Knows(s, m, found)
  PROVE  Knows(Feed(s, line), m, found \cup Hit(m, line))
<1> DEFINE f == Feed(s, line)
           hit == Hit(m, line)
<1>1. /\ f.results[m] = IF s.results[m] = {} THEN hit ELSE s.results[m]
      /\ m \in f.conflicts <=> m \in s.conflicts \/ (s.results[m] # {} /\ ~(hit \subseteq s.results[m]))
  BY FeedAt
<1>2. \A v, w \in hit : v = w BY DEF Hit, TryMatch
<1> HIDE DEF f, hit
<1>3. CASE s.results[m] = {}
  <2>1. found = {} /\ m \notin s.conflicts BY <1>3 DEF Knows
  <2>2. f.results[m] = hit /\ m \notin f.conflicts BY <1>1, <1>3, <2>1
  <2> QED BY <1>2, <2>1, <2>2 DEF Knows, f, hit
<1>4. CASE s.results[m] # {}
  <2>1. f.results[m] = s.results[m] BY <1>1, <1>4
  <2>2. m \in f.conflicts <=> ~((found \cup hit) \subseteq s.results[m]) BY <1>1, <1>4 DEF Knows
  <2> QED BY <1>4, <2>1, <2>2 DEF Knows, f, hit
<1> QED BY <1>3, <1>4

\* A header line concerns the matcher of its name and no other.
LEMMA HeaderHit ==
  ASSUME NEW line, line.phase = "Header"
  PROVE  /\ \A m \in HeaderMatcher : Hit(m, line) = IF line.name = m THEN {line.value} ELSE {}
         /\ Hit("RequestLineVersion", line) = {}
BY DEF Hit, MatcherPhase, TryMatch, HeaderMatcher

-----------------------------------------------------------------------------
(* The invariant *)

\* What the session knows of the lines it has seen, and of the start line.
SessionKnows ==
  /\ \A m \in HeaderMatcher : Knows(hook, m, Values(m))
  /\ hook.results["RequestLineVersion"] = IF kind = "request" THEN {version} ELSE {}
  /\ "RequestLineVersion" \notin hook.conflicts /\ hook.conflicts \subseteq Matcher

\* The receiver sees the same but for the Connection headers, of which it sees
\* none.
ReceiverKnows ==
  /\ \A m \in Matcher \ {"Connection"} :
        receiver.results[m] = hook.results[m] /\ (m \in receiver.conflicts <=> m \in hook.conflicts)
  /\ receiver.results["Connection"] = {}
  /\ "Connection" \notin receiver.conflicts /\ receiver.conflicts \subseteq Matcher

HookType ==
  /\ lines \in Seq(Header) /\ kind \in {"request", "response"}
  /\ version \in {<<"HTTP/1.0">>, <<"HTTP/1.1">>}
  /\ complete \in BOOLEAN

\* The configured replacements do not touch what decides the framing.
FramingUntouched == Replaced \cap {"Content-Length", "Transfer-Encoding"} = {}

-----------------------------------------------------------------------------
(* Steps *)

\* What a new session knows after the start line.
LEMMA StartKnows ==
  ASSUME NEW k \in {"request", "response"}, NEW v
  PROVE  LET s == Feed(NewSession, StartLine(k, v))
         IN /\ \A m \in HeaderMatcher : s.results[m] = {}
            /\ s.results["RequestLineVersion"] = IF k = "request" THEN {v} ELSE {}
            /\ s.conflicts = {}
<1> DEFINE line == StartLine(k, v)
           s == Feed(NewSession, line)
<1>1. line.phase \in {"RequestLine", "StatusLine"} /\ line.value = v
      /\ (line.phase = "RequestLine" <=> k = "request")
  BY DEF StartLine
<1>2. \A m \in Matcher : NewSession.results[m] = {} /\ NewSession.conflicts = {} BY DEF NewSession
<1> HIDE DEF line
<1>3. \A m \in Matcher : s.results[m] = Hit(m, line) /\ m \notin s.conflicts
  <2> SUFFICES ASSUME NEW m \in Matcher PROVE s.results[m] = Hit(m, line) /\ m \notin s.conflicts
    OBVIOUS
  <2> DEFINE n == NewSession
  <2>1. n.results[m] = {} /\ m \notin n.conflicts BY <1>2
  <2> HIDE DEF n
  <2>2. /\ Feed(n, line).results[m] = IF n.results[m] = {} THEN Hit(m, line) ELSE n.results[m]
        /\ m \in Feed(n, line).conflicts <=>
              m \in n.conflicts \/ (n.results[m] # {} /\ ~(Hit(m, line) \subseteq n.results[m]))
    BY FeedAt
  <2>3. Feed(n, line).results[m] = Hit(m, line) /\ m \notin Feed(n, line).conflicts BY <2>1, <2>2
  <2> QED BY <2>3 DEF n
<1>4. s.conflicts \subseteq Matcher BY <1>2, FeedConflicts DEF Matcher
<1> HIDE DEF s
<1>5. s.conflicts = {} BY <1>3, <1>4
<1>6. \A m \in HeaderMatcher : Hit(m, line) = {} BY <1>1 DEF Hit, MatcherPhase, HeaderMatcher
<1>7. Hit("RequestLineVersion", line) = IF k = "request" THEN {v} ELSE {}
  BY <1>1 DEF Hit, MatcherPhase, TryMatch
<1>8. HeaderMatcher \subseteq Matcher /\ "RequestLineVersion" \in Matcher BY DEF HeaderMatcher, Matcher
<1> QED BY <1>3, <1>5, <1>6, <1>7, <1>8 DEF s, line

\* The values of a header after one more line.
LEMMA ValuesAppend ==
  ASSUME lines \in Seq(Header), NEW h \in Header, lines' = Append(lines, h), NEW name
  PROVE  Values(name)' = Values(name) \cup (IF h.name = name THEN {h.value} ELSE {})
<1>1. /\ Len(lines') = Len(lines) + 1 /\ Len(lines) \in Nat /\ lines'[Len(lines) + 1] = h
      /\ \A i \in 1..Len(lines) : lines'[i] = lines[i]
  OBVIOUS
<1>2. \A x : x \in Values(name)' <=> \E i \in 1..Len(lines') : lines'[i].name = name /\ x = lines'[i].value
  BY DEF Values
<1>3. \A x : x \in Values(name) <=> \E i \in 1..Len(lines) : lines[i].name = name /\ x = lines[i].value
  BY DEF Values
<1>4. ASSUME NEW x PROVE x \in Values(name)' <=> x \in Values(name) \/ (h.name = name /\ x = h.value)
  <2>1. ASSUME x \in Values(name)' PROVE x \in Values(name) \/ (h.name = name /\ x = h.value)
    <3>1. PICK i \in 1..Len(lines') : lines'[i].name = name /\ x = lines'[i].value BY <1>2, <2>1
    <3>2. i \in 1..Len(lines) \/ i = Len(lines) + 1 BY <1>1
    <3> QED BY <1>1, <1>3, <3>1, <3>2
  <2>2. ASSUME x \in Values(name) PROVE x \in Values(name)'
    <3>1. PICK i \in 1..Len(lines) : lines[i].name = name /\ x = lines[i].value BY <1>3, <2>2
    <3>2. i \in 1..Len(lines') /\ lines'[i] = lines[i] BY <1>1
    <3> QED BY <1>2, <3>1, <3>2
  <2>3. ASSUME h.name = name, x = h.value PROVE x \in Values(name)'
    <3>1. Len(lines) + 1 \in 1..Len(lines') BY <1>1
    <3> QED BY <1>1, <1>2, <2>3, <3>1
  <2> QED BY <2>1, <2>2, <2>3
<1>5. \A x : x \in Values(name)' <=> x \in Values(name) \cup (IF h.name = name THEN {h.value} ELSE {})
  BY <1>4
<1> QED BY <1>5

\* No line, no value.
LEMMA ValuesEmpty ==
  ASSUME NEW name, lines = <<>>
  PROVE  Values(name) = {}
BY DEF Values

\* A new session knows nothing of the headers.
LEMMA StartSession ==
  ASSUME kind \in {"request", "response"}, lines = <<>>,
         hook = Feed(NewSession, StartLine(kind, version))
  PROVE  SessionKnows
<1>1. /\ \A m \in HeaderMatcher : hook.results[m] = {}
      /\ hook.results["RequestLineVersion"] = IF kind = "request" THEN {version} ELSE {}
      /\ hook.conflicts = {}
  BY StartKnows
<1>2. \A m : Values(m) = {} BY ValuesEmpty
<1> QED BY <1>1, <1>2 DEF SessionKnows, Knows

\* Neither does the receiver.
LEMMA StartReceiver ==
  ASSUME kind \in {"request", "response"}, ~complete,
         hook = Feed(NewSession, StartLine(kind, version)),
         receiver = Feed(NewSession, StartLine(kind, version))
  PROVE  ReceiverKnows
<1>1. hook = receiver OBVIOUS
<1>2. /\ \A m \in HeaderMatcher : receiver.results[m] = {}
      /\ receiver.conflicts = {}
  BY StartKnows
<1> QED BY <1>1, <1>2 DEF ReceiverKnows, HeaderMatcher

\* on_frame: the session knows of the new line too.
LEMMA SessionFeeds ==
  ASSUME HookType, SessionKnows, NEW h \in Header, OnFrame(h)
  PROVE  SessionKnows'
<1>1. /\ lines \in Seq(Header) /\ lines' = Append(lines, h) /\ hook' = Feed(hook, h)
      /\ kind' = kind /\ version' = version
  BY DEF HookType, OnFrame
<1>2. h.phase = "Header" BY HookAssumption
<1>3. HeaderMatcher \subseteq Matcher /\ "RequestLineVersion" \in Matcher BY DEF HeaderMatcher, Matcher
<1>4. ASSUME NEW m \in HeaderMatcher PROVE Knows(hook, m, Values(m))'
  <2>1. Knows(hook, m, Values(m)) BY DEF SessionKnows
  <2>2. Knows(Feed(hook, h), m, Values(m) \cup Hit(m, h)) BY <1>3, <2>1, FeedKnows
  <2>3. Hit(m, h) = IF h.name = m THEN {h.value} ELSE {} BY <1>2, HeaderHit
  <2>4. Values(m)' = Values(m) \cup Hit(m, h) BY <1>1, <2>3, ValuesAppend
  <2>5. Knows(hook', m, Values(m)') BY <1>1, <2>2, <2>4
  <2> QED BY <2>5 DEF Knows
<1>5. /\ hook'.results["RequestLineVersion"] = hook.results["RequestLineVersion"]
      /\ "RequestLineVersion" \notin hook'.conflicts
  <2>1. Hit("RequestLineVersion", h) = {} BY <1>2, HeaderHit
  <2>2. "RequestLineVersion" \notin hook.conflicts BY DEF SessionKnows
  <2>3. LET m == "RequestLineVersion"
        IN /\ Feed(hook, h).results[m] = IF hook.results[m] = {} THEN Hit(m, h) ELSE hook.results[m]
           /\ m \in Feed(hook, h).conflicts <=>
                m \in hook.conflicts \/ (hook.results[m] # {} /\ ~(Hit(m, h) \subseteq hook.results[m]))
    BY <1>3, FeedAt
  <2> QED BY <1>1, <2>1, <2>2, <2>3
<1>6. hook'.conflicts \subseteq Matcher BY <1>1, FeedConflicts DEF SessionKnows
<1> QED BY <1>1, <1>4, <1>5, <1>6 DEF SessionKnows

\* process: the receiver learns the same of every header but Connection.
LEMMA ReceiverFeeds ==
  ASSUME FramingUntouched, HookType, ReceiverKnows, NEW h \in Header, OnFrame(h)
  PROVE  ReceiverKnows'
<1> DEFINE p == IF h.name \in Replaced THEN [h EXCEPT !.value = NewValue] ELSE h
<1>1. /\ hook' = Feed(hook, h) /\ kind' = kind /\ ~complete /\ ~complete'
      /\ receiver' = IF IsHopByHop(h.name) THEN receiver ELSE Feed(receiver, p)
  BY DEF OnFrame, PassHeader, HookType
<1>2. h.phase = "Header" /\ h.name # "RequestLineVersion" BY HookAssumption
<1>3. "Connection" \in Matcher /\ \A m \in Matcher : m \in HeaderMatcher \/ m = "RequestLineVersion"
  BY DEF HeaderMatcher, Matcher
<1>4. CASE IsHopByHop(h.name)
  <2>1. ASSUME NEW m \in Matcher \ {"Connection"} PROVE Hit(m, h) = {}
    <3>1. m # h.name BY <1>4 DEF IsHopByHop, Matcher
    <3> QED BY <1>2, <1>3, <3>1, HeaderHit
  <2>2. ASSUME NEW m \in Matcher \ {"Connection"}
        PROVE  hook'.results[m] = hook.results[m] /\ (m \in hook'.conflicts <=> m \in hook.conflicts)
    <3>1. Hit(m, h) = {} BY <2>1
    <3>2. /\ Feed(hook, h).results[m] = IF hook.results[m] = {} THEN Hit(m, h) ELSE hook.results[m]
          /\ m \in Feed(hook, h).conflicts <=>
               m \in hook.conflicts \/ (hook.results[m] # {} /\ ~(Hit(m, h) \subseteq hook.results[m]))
      BY FeedAt
    <3> QED BY <1>1, <3>1, <3>2
  <2>3. receiver' = receiver BY <1>1, <1>4
  <2> QED BY <1>1, <2>2, <2>3 DEF ReceiverKnows
<1>5. CASE ~IsHopByHop(h.name)
  <2>1. receiver' = Feed(receiver, p) BY <1>1, <1>5
  <2>2. h.name # "Connection" BY <1>5 DEF IsHopByHop
  <2>3. Hit("Connection", h) = {} BY <1>2, <2>2, HeaderHit DEF HeaderMatcher
  <2>4. ASSUME NEW m \in Matcher PROVE Hit(m, p) = Hit(m, h)
    <3>1. CASE h.name \notin Replaced BY <3>1
    <3>2. CASE h.name \in Replaced
      <4>1. h.name \notin HeaderMatcher
        BY <2>2, <3>2 DEF FramingUntouched, HeaderMatcher
      <4>2. p = [h EXCEPT !.value = NewValue] BY <3>2
      <4>3. MatcherPhase(m) # h.phase \/ TryMatch(m, h) = {}
        BY <1>2, <1>3, <4>1 DEF TryMatch, MatcherPhase, HeaderMatcher
      <4>4. p.phase = h.phase /\ p.name = h.name BY <4>2, HookAssumption
      <4>5. MatcherPhase(m) # p.phase \/ TryMatch(m, p) = {}
        BY <1>2, <1>3, <4>1, <4>4 DEF TryMatch, MatcherPhase, HeaderMatcher
      <4> QED BY <4>3, <4>4, <4>5 DEF Hit
    <3> QED BY <3>1, <3>2
  <2> HIDE DEF p
  <2>5. ASSUME NEW m \in Matcher
        PROVE  /\ receiver'.results[m] = IF receiver.results[m] = {} THEN Hit(m, h) ELSE receiver.results[m]
               /\ m \in receiver'.conflicts <=>
                    m \in receiver.conflicts \/ (receiver.results[m] # {} /\ ~(Hit(m, h) \subseteq receiver.results[m]))
    BY <2>1, <2>4, FeedAt
  <2>6. ASSUME NEW m \in Matcher
        PROVE  /\ hook'.results[m] = IF hook.results[m] = {} THEN Hit(m, h) ELSE hook.results[m]
               /\ m \in hook'.conflicts <=>
                    m \in hook.conflicts \/ (hook.results[m] # {} /\ ~(Hit(m, h) \subseteq hook.results[m]))
    BY <1>1, FeedAt
  <2>7. \A m \in Matcher \ {"Connection"} :
           receiver'.results[m] = hook'.results[m] /\ (m \in receiver'.conflicts <=> m \in hook'.conflicts)
    BY <2>5, <2>6 DEF ReceiverKnows
  <2>8. receiver.results["Connection"] = {} /\ "Connection" \notin receiver.conflicts
    BY <1>1 DEF ReceiverKnows
  <2>9. receiver'.results["Connection"] = {} /\ "Connection" \notin receiver'.conflicts
    BY <1>3, <2>3, <2>5, <2>8
  <2>10. receiver'.conflicts \subseteq Matcher BY <2>1, FeedConflicts DEF ReceiverKnows
  <2> QED BY <1>1, <2>7, <2>9, <2>10 DEF ReceiverKnows
<1> QED BY <1>4, <1>5

-----------------------------------------------------------------------------
(* Decisions *)

\* A session without conflicts knows all there is to know.
LEMMA KnowsAll ==
  ASSUME SessionKnows
  PROVE  /\ \A m \in HeaderMatcher : m \notin hook.conflicts => hook.results[m] = Values(m)
         /\ \A m \in HeaderMatcher : hook.results[m] = {} <=> Values(m) = {}
         /\ \A m \in HeaderMatcher : m \in hook.conflicts <=> \E v, w \in Values(m) : v # w
<1> SUFFICES ASSUME NEW m \in HeaderMatcher
             PROVE  /\ m \notin hook.conflicts => hook.results[m] = Values(m)
                    /\ hook.results[m] = {} <=> Values(m) = {}
                    /\ m \in hook.conflicts <=> \E v, w \in Values(m) : v # w
  OBVIOUS
<1> DEFINE r == hook.results[m]
           V == Values(m)
<1>1. /\ r \subseteq V /\ (V # {} => r # {}) /\ (\A v, w \in r : v = w)
      /\ m \in hook.conflicts <=> ~(V \subseteq r)
  BY DEF SessionKnows, Knows
<1> HIDE DEF r, V
<1>2. ~(V \subseteq r) <=> \E v, w \in V : v # w
  <2>1. ASSUME ~(V \subseteq r) PROVE \E v, w \in V : v # w
    <3>1. PICK v \in V : v \notin r BY <2>1
    <3>2. PICK w \in r : TRUE BY <1>1, <3>1
    <3> QED BY <1>1, <3>1, <3>2
  <2>2. ASSUME V \subseteq r PROVE ~\E v, w \in V : v # w BY <1>1, <2>2
  <2> QED BY <2>1, <2>2
<1> QED BY <1>1, <1>2 DEF r, V

\* No header has the name under which the version is matched.
LEMMA NoVersionHeader ==
  ASSUME lines \in Seq(Header)
  PROVE  Values("RequestLineVersion") = {}
<1>1. \A i \in 1..Len(lines) : lines[i] \in Header OBVIOUS
<1>2. \A i \in 1..Len(lines) : lines[i].name # "RequestLineVersion" BY <1>1, HookAssumption
<1> QED BY <1>2 DEF Values

\* The hook decides by the whole message.
LEMMA DecidesRight ==
  ASSUME HookType, SessionKnows
  PROVE  DecidesByWholeMessage
<1> DEFINE cl == Values("Content-Length")
           te == Values("Transfer-Encoding")
           co == Values("Connection")
           s == hook
<1>1. /\ "Content-Length" \in HeaderMatcher /\ "Transfer-Encoding" \in HeaderMatcher
      /\ "Connection" \in HeaderMatcher
      /\ \A m : m \in Matcher <=> m \in HeaderMatcher \/ m = "RequestLineVersion"
  BY DEF HeaderMatcher, Matcher
<1>2. HasConflicts(s) <=> \E m \in Matcher : \E v, w \in Values(m) : v # w
  <2>1. "RequestLineVersion" \notin s.conflicts /\ s.conflicts \subseteq Matcher BY DEF SessionKnows
  <2>2. Values("RequestLineVersion") = {} BY NoVersionHeader DEF HookType
  <2>3. \A m \in HeaderMatcher : m \in s.conflicts <=> \E v, w \in Values(m) : v # w BY KnowsAll
  <2>4. HasConflicts(s) <=> \E m \in HeaderMatcher : m \in s.conflicts BY <1>1, <2>1 DEF HasConflicts
  <2>5. (\E m \in Matcher : \E v, w \in Values(m) : v # w) <=> (\E m \in HeaderMatcher : \E v, w \in Values(m) : v # w)
    BY <1>1, <2>2
  <2> QED BY <2>3, <2>4, <2>5
<1>3. ClTeConflict(s) <=> cl # {} /\ te # {} BY <1>1, KnowsAll DEF ClTeConflict
<1>4. RejectsExactlyAmbiguous BY <1>2, <1>3 DEF RejectsExactlyAmbiguous, Validate, Ambiguous
<1>5. ASSUME kind = "request", Validate = "Ok"
      PROVE  /\ s.results["Content-Length"] = cl /\ s.results["Transfer-Encoding"] = te
             /\ s.results["Connection"] = co /\ s.results["RequestLineVersion"] = {version}
             /\ (cl = {} \/ te = {})
             /\ \A v, w \in cl : v = w
  <2>1. ~ClTeConflict(s) /\ s.conflicts = {} BY <1>5 DEF Validate, HasConflicts
  <2>2. s.results["RequestLineVersion"] = {version} BY <1>5 DEF SessionKnows
  <2>3. \A m \in HeaderMatcher : s.results[m] = Values(m) BY <2>1, KnowsAll
  <2>4. \A v, w \in cl : v = w BY <1>1, <2>1, KnowsAll
  <2> QED BY <1>1, <1>3, <2>1, <2>2, <2>3, <2>4
<1>6. {version} = {<<"HTTP/1.0">>} <=> version = <<"HTTP/1.0">> OBVIOUS
<1> HIDE DEF cl, te, co, s
<1>7. ASSUME kind = "request", Validate = "Ok" PROVE BodyFraming(s) = RequestFraming
  <2>1. /\ s.results["Content-Length"] = cl /\ s.results["Transfer-Encoding"] = te
        /\ s.results["RequestLineVersion"] = {version} /\ (cl = {} \/ te = {}) /\ (\A v, w \in cl : v = w)
    BY <1>5, <1>7
  <2>2. BodyFraming(s) =
           IF \E v \in te : HasToken(v, "chunked") THEN Framing("Chunked", 0)
           ELSE IF \E v \in cl : Parses(v) THEN Framing("Fixed", ParsedLength(CHOOSE v \in cl : TRUE))
           ELSE IF cl # {} THEN Framing("Invalid", 0)
           ELSE IF version = <<"HTTP/1.0">> THEN Framing("UntilClose", 0)
           ELSE Framing("None", 0)
    BY <1>6, <2>1 DEF BodyFraming, IsHttp10
  <2>3. RequestFraming =
           CASE \E v \in te : HasToken(v, "chunked") -> Framing("Chunked", 0)
             [] cl # {} -> IF \A v \in cl : Parses(v)
                             THEN Framing("Fixed", ParsedLength(CHOOSE v \in cl : TRUE))
                             ELSE Framing("Invalid", 0)
             [] OTHER -> Framing(IF version = <<"HTTP/1.0">> THEN "UntilClose" ELSE "None", 0)
    BY DEF RequestFraming, cl, te
  <2>4. CASE \E v \in te : HasToken(v, "chunked")
    <3>1. cl = {} BY <2>1, <2>4
    <3> QED BY <2>2, <2>3, <2>4, <3>1
  <2>5. CASE (~\E v \in te : HasToken(v, "chunked")) /\ cl # {}
    <3>1. (\E v \in cl : Parses(v)) <=> \A v \in cl : Parses(v) BY <2>1, <2>5
    <3> QED BY <2>2, <2>3, <2>5, <3>1
  <2>6. CASE (~\E v \in te : HasToken(v, "chunked")) /\ cl = {}
    BY <2>2, <2>3, <2>6
  <2> QED BY <2>4, <2>5, <2>6
<1>8. ASSUME kind = "request", Validate = "Ok" PROVE ShouldClose <=> MustClose
  <2>1. s.results["Connection"] = co /\ s.results["RequestLineVersion"] = {version} BY <1>5, <1>8
  <2>2. ShouldClose <=> \/ \E v \in co : HasToken(v, "close")
                        \/ (~\E v \in co : HasToken(v, "keep_alive")) /\ version = <<"HTTP/1.0">>
    BY <1>6, <2>1 DEF ShouldClose, ConnectionMode, IsHttp10, s
  <2> QED BY <2>2 DEF MustClose, co
<1> QED BY <1>4, <1>7, <1>8 DEF DecidesByWholeMessage, FramingOfWholeMessage, KeepAliveDecision, s

\* The receiver decides as the proxy does.
LEMMA ReceiverRight ==
  ASSUME HookType, SessionKnows, ReceiverKnows
  PROVE  ReceiverAgrees
<1> SUFFICES ASSUME Validate = "Ok" PROVE
      /\ BodyFraming(receiver) = BodyFraming(hook) /\ receiver.conflicts = {}
      /\ kind = "request" =>
           ConnectionMode(receiver) = IF version = <<"HTTP/1.0">> THEN "Close" ELSE "KeepAlive"
  BY DEF ReceiverAgrees
<1>1. hook.conflicts = {} BY DEF Validate, HasConflicts
<1>2. receiver.conflicts = {} BY <1>1 DEF ReceiverKnows
<1>3. /\ receiver.results["Content-Length"] = hook.results["Content-Length"]
      /\ receiver.results["Transfer-Encoding"] = hook.results["Transfer-Encoding"]
      /\ receiver.results["RequestLineVersion"] = hook.results["RequestLineVersion"]
  BY DEF ReceiverKnows, Matcher
<1>4. BodyFraming(receiver) = BodyFraming(hook) BY <1>3 DEF BodyFraming
<1>5. ASSUME kind = "request"
      PROVE  ConnectionMode(receiver) = IF version = <<"HTTP/1.0">> THEN "Close" ELSE "KeepAlive"
  <2>1. receiver.results["Connection"] = {} BY DEF ReceiverKnows
  <2>2. receiver.results["RequestLineVersion"] = {version} BY <1>3, <1>5 DEF SessionKnows
  <2>3. IsHttp10({version}) <=> version = <<"HTTP/1.0">> BY DEF IsHttp10
  <2> QED BY <2>1, <2>2, <2>3 DEF ConnectionMode
<1> QED BY <1>2, <1>4, <1>5

-----------------------------------------------------------------------------
(* Theorems *)

\* Every step keeps what the session knows.
LEMMA SessionSteps ==
  /\ HookInit => HookType /\ SessionKnows
  /\ HookType /\ SessionKnows /\ [HookNext]_hookVars => HookType' /\ SessionKnows'
<1>0. <<>> \in Seq(Header) OBVIOUS
<1>1. ASSUME HookInit PROVE HookType /\ SessionKnows
  <2>1. HookType
    <3>1. lines \in Seq(Header) BY <1>0, <1>1 DEF HookInit
    <3>2. complete = FALSE BY <1>1 DEF HookInit
    <3> QED BY <1>1, <3>1, <3>2 DEF HookInit, HookType
  <2>2. SessionKnows BY <1>1, StartSession DEF HookInit
  <2> QED BY <2>1, <2>2
<1>2. ASSUME HookType, SessionKnows, NEW h \in Header, OnFrame(h) PROVE HookType' /\ SessionKnows'
  <2>1. HookType' BY <1>2 DEF OnFrame, HookType
  <2> QED BY <1>2, <2>1, SessionFeeds
<1>3. ASSUME HookType, SessionKnows, EndOfHeaders PROVE HookType' /\ SessionKnows'
  BY <1>3 DEF EndOfHeaders, HookType, SessionKnows, Values
<1>4. ASSUME HookType, SessionKnows, Reset PROVE HookType' /\ SessionKnows'
  <2>1. HookType'
    <3>1. lines' \in Seq(Header) BY <1>0, <1>4 DEF Reset
    <3>2. complete' = FALSE BY <1>4 DEF Reset, HookType
    <3> QED BY <1>4, <3>1, <3>2 DEF Reset, HookType
  <2>2. SessionKnows'
    <3>1. /\ kind' \in {"request", "response"} /\ lines' = <<>>
          /\ hook' = Feed(NewSession, StartLine(kind', version'))
      BY <1>4 DEF Reset
    <3>2. /\ \A m \in HeaderMatcher : hook'.results[m] = {}
          /\ hook'.results["RequestLineVersion"] = IF kind' = "request" THEN {version'} ELSE {}
          /\ hook'.conflicts = {}
      BY <3>1, StartKnows
    <3>3. \A m : Values(m)' = {} BY <3>1 DEF Values
    <3> QED BY <3>2, <3>3 DEF SessionKnows, Knows
  <2> QED BY <2>1, <2>2
<1>5. ASSUME HookType, SessionKnows, UNCHANGED hookVars PROVE HookType' /\ SessionKnows'
  <2>1. HookType' BY <1>5 DEF hookVars, HookType
  <2>2. hook' = hook /\ kind' = kind /\ version' = version BY <1>5 DEF hookVars
  <2>3. \A m : Values(m)' = Values(m) BY <1>5 DEF hookVars, Values
  <2>4. SessionKnows' BY <1>5, <2>2, <2>3 DEF SessionKnows, Knows
  <2> QED BY <2>1, <2>4
<1> QED BY <1>1, <1>2, <1>3, <1>4, <1>5 DEF HookNext

\* And what the receiver knows.
LEMMA ReceiverSteps ==
  ASSUME FramingUntouched
  PROVE  /\ HookInit => ReceiverKnows
         /\ HookType /\ ReceiverKnows /\ [HookNext]_hookVars => ReceiverKnows'
<1>1. ASSUME HookInit PROVE ReceiverKnows BY <1>1, StartReceiver DEF HookInit
<1>2. ASSUME HookType, ReceiverKnows, NEW h \in Header, OnFrame(h) PROVE ReceiverKnows'
  BY <1>2, ReceiverFeeds
<1>3. ASSUME HookType, ReceiverKnows, EndOfHeaders PROVE ReceiverKnows'
  BY <1>3 DEF EndOfHeaders, ReceiverKnows
<1>4. ASSUME HookType, ReceiverKnows, Reset PROVE ReceiverKnows'
  <2>1. /\ kind' \in {"request", "response"} /\ ~complete'
        /\ hook' = Feed(NewSession, StartLine(kind', version'))
        /\ receiver' = Feed(NewSession, StartLine(kind', version'))
    BY <1>4 DEF Reset
  <2>2. /\ \A m \in HeaderMatcher : receiver'.results[m] = {}
        /\ receiver'.conflicts = {}
    BY <2>1, StartKnows
  <2>3. hook' = receiver' BY <2>1
  <2> QED BY <2>1, <2>2, <2>3 DEF ReceiverKnows, HeaderMatcher
<1>5. ASSUME HookType, ReceiverKnows, UNCHANGED hookVars PROVE ReceiverKnows'
  BY <1>5 DEF hookVars, ReceiverKnows
<1> QED BY <1>1, <1>2, <1>3, <1>4, <1>5 DEF HookNext

\* For every message, of any length and with its headers in any order: what
\* HttpDeriverHook rejects, how it frames the body and whether it closes the
\* connection, taken line by line, is what the whole message says.
THEOREM HookDecidesByWholeMessage == HookSpec => []DecidesByWholeMessage
<1>1. HookType /\ SessionKnows => DecidesByWholeMessage BY DecidesRight
<1> QED BY <1>1, SessionSteps, PTL DEF HookSpec

\* For every message and every configuration of HttpPipeline that replaces no
\* Content-Length and no Transfer-Encoding: the receiver of what is passed on
\* ends the body where the proxy does, and a server learns nothing of what the
\* client wants of its connection.
THEOREM ReceiverDecidesTheSame == FramingUntouched => (HookSpec => []ReceiverAgrees)
<1> SUFFICES ASSUME FramingUntouched PROVE HookSpec => []ReceiverAgrees
  OBVIOUS
<1>1. /\ HookInit => ReceiverKnows
      /\ HookType /\ ReceiverKnows /\ [HookNext]_hookVars => ReceiverKnows'
  BY ReceiverSteps
<1>2. HookType /\ SessionKnows /\ ReceiverKnows => ReceiverAgrees BY ReceiverRight
<1> QED BY <1>1, <1>2, SessionSteps, PTL DEF HookSpec

-----------------------------------------------------------------------------
(* The response stream *)

\* What is read is typed, and the socket only hands over what was sent.
StreamType ==
  /\ response \in Responses
  /\ arrived \in 0..Len(response.atoms) /\ taken \in 0..arrived
  /\ buf \in Seq(Atom) /\ emitted \in Seq(Atom)
  /\ BytesKept
  /\ body_state.remaining \in Nat
  /\ \A m \in Matcher : \A v, w \in session.results[m] : v = w

\* The message a response is: h is the end of its head, starts are where its
\* chunks begin.
Framed(h, starts) ==
  LET s == response.atoms
      len == response.len
      framing == HeadFraming(s, h)
  IN /\ HeadEnds(s, h) /\ h <= len
     /\ framing.mode \in {"None", "Fixed"} => len = h + framing.len
     /\ framing.mode = "Chunked" => /\ starts \subseteq h..len /\ h \in starts
                                    /\ \A p \in starts : ChunkAt(s, p, starts, len)
     /\ framing.mode \in {"UntilClose", "Invalid"} => len = Len(s)

\* A session knows what the first n atoms say.
Learnt(known, s, n) == \A m \in Matcher : known.results[m] = FirstValue(s, n, m)

\* Between two lines of the head the session knows the lines before.
InHead(h, p) ==
  /\ p < h /\ (p = 0 \/ response.atoms[p].t = "nl") /\ (first_line <=> p = 0)
  /\ Learnt(session, response.atoms, p)

\* Between two trailers.
InTrailers(p) ==
  LET s == response.atoms
      len == response.len
  IN /\ 1 <= p /\ p < len /\ s[p].t = "nl" /\ s[len - 1].t = "nl" /\ s[len].t = "nl"
     /\ \A i \in p..(len - 2) : s[i].t = "nl" => s[i + 1].t # "nl"

\* The state of the codec fits what has been yielded of the message.
InStep(h, starts) ==
  LET p == Len(emitted)
      n == body_state.remaining
      chunked == HeadFraming(response.atoms, h).mode = "Chunked"
  IN /\ p <= response.len
     /\ body_state.s = "Headers" => InHead(h, p)
     /\ body_state.s = "FixedLength" => n \in Nat \ {0} /\ p + n = response.len
     /\ body_state.s = "ExpectSize" => chunked /\ p \in starts
     /\ body_state.s = "Data" => chunked /\ n \in Nat \ {0} /\ p + n + 1 \in starts
     /\ body_state.s = "ExpectDataCrlf" => chunked /\ p + 1 \in starts
     /\ body_state.s = "TrailerOrEnd" => InTrailers(p)
     /\ body_state.s = "UntilEof" => response.len = Len(response.atoms)
     /\ body_state.s = "Done" => closed \/ p = response.len

\* A well-formed response is cut as its head says, is not refused, and ends at
\* its end or with the connection.
MessageInv ==
  ~response.malformed =>
    /\ \E h \in 1..response.len, starts \in SUBSET (0..response.len) : Framed(h, starts) /\ InStep(h, starts)
    /\ eof => closed
    /\ outcome # "err"
    /\ outcome = "none" => closed \/ Len(emitted) = response.len

-----------------------------------------------------------------------------
(* The bytes *)

\* What an item takes from the front of the buffer.
LEMMA YieldCuts ==
  ASSUME buf \in Seq(Atom), emitted \in Seq(Atom), NEW n \in 0..Len(buf), NEW next, Yield(n, next)
  PROVE  /\ buf' \in Seq(Atom) /\ emitted' \in Seq(Atom) /\ emitted' \o buf' = emitted \o buf
         /\ Len(emitted') = Len(emitted) + n /\ Len(buf') = Len(buf) - n
<1> DEFINE a == SubSeq(buf, 1, n)
           b == SubSeq(buf, n + 1, Len(buf))
<1>1. emitted' = emitted \o a /\ buf' = b BY DEF Yield
<1>2. a \in Seq(Atom) /\ Len(a) = n /\ b \in Seq(Atom) /\ Len(b) = Len(buf) - n /\ a \o b = buf
  BY CutAt
<1> HIDE DEF a, b
<1>3. emitted \o a \in Seq(Atom) /\ Len(emitted \o a) = Len(emitted) + Len(a) BY <1>2, CatType
<1>4. emitted \o (a \o b) = (emitted \o a) \o b
  <2>1. emitted \in Seq(Atom) /\ a \in Seq(Atom) /\ b \in Seq(Atom) BY <1>2
  <2> QED BY <2>1, CatAssociative
<1>5. emitted' \o buf' = emitted \o buf BY <1>1, <1>2, <1>4, Zenon
<1> QED BY <1>1, <1>2, <1>3, <1>5

\* The response keeps its type.
LEMMA ResponseType ==
  ASSUME ResponsesAreDescribed, StreamType
  PROVE  /\ response.atoms \in Seq(Atom) /\ Len(response.atoms) \in Nat /\ response.len \in 0..Len(response.atoms)
         /\ response.malformed \in BOOLEAN /\ (~response.malformed => Message(response.atoms, response.len))
<1>1. response \in Responses BY DEF StreamType
<1>2. /\ response.atoms \in Seq(Atom) /\ response.len \in 0..Len(response.atoms)
      /\ response.malformed \in BOOLEAN /\ (~response.malformed => Message(response.atoms, response.len))
  BY <1>1 DEF ResponsesAreDescribed
<1> QED BY <1>2


\* A length that parses is a number.
LEMMA LengthType ==
  ASSUME NEW v, Parses(v)
  PROVE  ParsedLength(v) \in Nat
<1> DEFINE p == CHOOSE p \in ContentLengths : p[1] = v
<1>1. \E q \in ContentLengths : q[1] = v BY DEF Parses
<1>2. p \in ContentLengths BY <1>1
<1> HIDE DEF p
<1>3. p[2] \in {0, 1, 2} BY <1>2 DEF ContentLengths
<1> QED BY <1>3 DEF ParsedLength, p

\* The length of a body is a number.
LEMMA FramingType ==
  ASSUME NEW s, \A v, w \in s.results["Content-Length"] : v = w
  PROVE  /\ BodyFraming(s).len \in Nat
         /\ BodyFraming(s).mode \in {"None", "Fixed", "Chunked", "UntilClose", "Invalid"}
         /\ BodyFraming(s) = Framing(BodyFraming(s).mode, BodyFraming(s).len)
         /\ BodyFraming(s).mode = "None" => BodyFraming(s).len = 0
<1> DEFINE cl == s.results["Content-Length"]
           length == ParsedLength(CHOOSE v \in cl : TRUE)
<1>1. ASSUME \E v \in cl : Parses(v) PROVE length \in Nat
  <2>1. PICK v \in cl : Parses(v) BY <1>1
  <2>2. (CHOOSE w \in cl : TRUE) = v BY <2>1
  <2> QED BY <2>1, <2>2, LengthType
<1> HIDE DEF length
<1>2. \/ BodyFraming(s) \in {Framing("Chunked", 0), Framing("Invalid", 0), Framing("UntilClose", 0),
                               Framing("None", 0)}
      \/ (\E v \in cl : Parses(v)) /\ BodyFraming(s) = Framing("Fixed", length)
  BY DEF BodyFraming, length
<1> HIDE DEF cl
<1> QED BY <1>1, <1>2 DEF Framing

\* The first match is the one a session keeps.
LEMMA FeedSingle ==
  ASSUME NEW s, NEW line, \A m \in Matcher : \A v, w \in s.results[m] : v = w
  PROVE  \A m \in Matcher : \A v, w \in Feed(s, line).results[m] : v = w
<1> SUFFICES ASSUME NEW m \in Matcher PROVE \A v, w \in Feed(s, line).results[m] : v = w
  OBVIOUS
<1>1. Feed(s, line).results[m] = IF s.results[m] = {} THEN Hit(m, line) ELSE s.results[m] BY FeedAt
<1>2. \A v, w \in Hit(m, line) : v = w BY DEF Hit, TryMatch
<1> QED BY <1>1, <1>2

\* An item moves bytes from the buffer to what was yielded.
LEMMA YieldKeeps ==
  ASSUME StreamType, NEW n \in 0..Len(buf), NEW next, next.remaining \in Nat, Yield(n, next),
         \A m \in Matcher : \A v, w \in session'.results[m] : v = w
  PROVE  StreamType'
<1>1. buf \in Seq(Atom) /\ emitted \in Seq(Atom) BY DEF StreamType
<1>2. buf' \in Seq(Atom) /\ emitted' \in Seq(Atom) /\ emitted' \o buf' = emitted \o buf BY <1>1, YieldCuts
<1>3. response' = response /\ arrived' = arrived /\ taken' = taken /\ body_state' = next BY DEF Yield, socketVars
<1>4. emitted' \o buf' = SubSeq(response'.atoms, 1, taken') BY <1>2, <1>3 DEF StreamType, BytesKept
<1> QED BY <1>2, <1>3, <1>4 DEF StreamType, BytesKept

\* Reading moves bytes from the socket to the buffer.
LEMMA ReadKeeps ==
  ASSUME ResponsesAreDescribed, StreamType, NEW n \in Nat, Read(n)
  PROVE  StreamType'
<1> DEFINE s == response.atoms
           piece == SubSeq(s, taken + 1, taken + n)
<1>1. s \in Seq(Atom) /\ Len(s) \in Nat BY ResponseType
<1>2. /\ arrived \in 0..Len(s) /\ taken \in 0..arrived /\ buf \in Seq(Atom) /\ emitted \in Seq(Atom)
      /\ emitted \o buf = SubSeq(s, 1, taken)
  BY DEF StreamType, BytesKept
<1>3. /\ taken + n <= arrived /\ buf' = buf \o piece /\ taken' = taken + n /\ emitted' = emitted
      /\ response' = response /\ arrived' = arrived /\ body_state' = body_state /\ session' = session
  BY DEF Read, socketVars
<1> HIDE DEF s
<1>4. taken \in Nat /\ arrived \in Nat /\ taken + n <= Len(s) /\ taken + n \in 0..arrived BY <1>1, <1>2, <1>3
<1>5. piece \in Seq(Atom) /\ SubSeq(s, 1, taken) \o piece = SubSeq(s, 1, taken + n) BY <1>1, <1>4, JoinPieces
<1> HIDE DEF piece
<1>6. buf \o piece \in Seq(Atom) BY <1>2, <1>5, CatType
<1>7. emitted \o (buf \o piece) = (emitted \o buf) \o piece
  <2>1. emitted \in Seq(Atom) /\ buf \in Seq(Atom) /\ piece \in Seq(Atom) BY <1>2, <1>5
  <2> QED BY <2>1, CatAssociative
<1>8. emitted' \o buf' = SubSeq(s, 1, taken') BY <1>2, <1>3, <1>5, <1>7, Zenon
<1>9. response'.atoms = s BY <1>3 DEF s
<1> QED BY <1>2, <1>3, <1>4, <1>6, <1>8, <1>9 DEF StreamType, BytesKept

\* What leaves the response, what has been read and what has been yielded alone.
LEMMA StillKeeps ==
  ASSUME StreamType, UNCHANGED <<response, taken, buf, emitted, session>>, body_state'.remaining \in Nat,
         arrived' \in arrived..Len(response.atoms), Len(response.atoms) \in Nat
  PROVE  StreamType'
BY DEF StreamType, BytesKept

\* The number of bytes taken by an item of at most r bytes.
LEMMA MinType ==
  ASSUME NEW r \in Nat, NEW k \in Nat
  PROVE  Min2(r, k) \in 0..k /\ Min2(r, k) <= r /\ (k > 0 /\ r > 0 => Min2(r, k) > 0)
BY DEF Min2

\* The empty line: how the body is framed decides the next state.
LEMMA HeadersEnd ==
  ASSUME DecodeEndOfHeaders, \A v, w \in session.results["Content-Length"] : v = w
  PROVE  LET framing == BodyFraming(session)
         IN /\ Yield(1, body_state') /\ session' = session /\ CrlfAt(1)
            /\ \/ framing.mode \in {"None", "Fixed"} /\ framing.len = 0 /\ body_state' = Done
               \/ framing.mode = "Fixed" /\ framing.len > 0 /\ body_state' = State("FixedLength", framing.len)
               \/ framing.mode = "Chunked" /\ body_state' = ExpectSize
               \/ framing.mode \in {"UntilClose", "Invalid"} /\ body_state' = State("UntilEof", 0)
<1> DEFINE framing == BodyFraming(session)
           next == CASE framing.mode = "None" \/ framing = Framing("Fixed", 0) -> Done
                     [] framing.mode = "Fixed" /\ framing.len > 0 -> State("FixedLength", framing.len)
                     [] framing.mode = "Chunked" -> ExpectSize
                     [] framing.mode \in {"UntilClose", "Invalid"} -> State("UntilEof", 0)
<1>1. /\ framing.len \in Nat /\ framing.mode \in {"None", "Fixed", "Chunked", "UntilClose", "Invalid"}
      /\ framing = Framing(framing.mode, framing.len) /\ (framing.mode = "None" => framing.len = 0)
  BY FramingType
<1>2. Yield(1, next) /\ session' = session /\ CrlfAt(1) BY DEF DecodeEndOfHeaders
<1>3. body_state' = next BY <1>2 DEF Yield
<1> HIDE DEF framing
<1>4. framing.mode = "Fixed" /\ framing.len = 0 => framing = Framing("Fixed", 0) BY <1>1
<1>5. framing = Framing("Fixed", 0) => framing.mode = "Fixed" /\ framing.len = 0 BY DEF Framing
<1>6. \/ framing.mode \in {"None", "Fixed"} /\ framing.len = 0 /\ next = Done
      \/ framing.mode = "Fixed" /\ framing.len > 0 /\ next = State("FixedLength", framing.len)
      \/ framing.mode = "Chunked" /\ next = ExpectSize
      \/ framing.mode \in {"UntilClose", "Invalid"} /\ next = State("UntilEof", 0)
  BY <1>1, <1>4, <1>5
<1> HIDE DEF next
<1> QED BY <1>2, <1>3, <1>6 DEF framing

\* Every decoding step takes an item from the front of the buffer, or none.
LEMMA DecodeKeeps ==
  ASSUME ResponsesAreDescribed, StreamType, Decode
  PROVE  StreamType'
<1>1. /\ buf \in Seq(Atom) /\ Len(buf) \in Nat /\ body_state.remaining \in Nat
      /\ \A m \in Matcher : \A v, w \in session.results[m] : v = w
      /\ \A v, w \in session.results["Content-Length"] : v = w
      /\ arrived \in 0..Len(response.atoms) /\ Len(response.atoms) \in Nat
  BY ResponseType DEF StreamType, Matcher
<1> DEFINE r == body_state.remaining
           k == Min2(r, Len(buf))
<1>2. k \in 0..Len(buf) /\ r - k \in Nat
  <2>1. k \in 0..Len(buf) /\ k <= r BY <1>1, MinType
  <2> HIDE DEF k
  <2> QED BY <1>1, <2>1
<1> HIDE DEF k
<1>3. Headers.remaining \in Nat /\ Done.remaining \in Nat /\ ExpectSize.remaining \in Nat
      /\ \A x, n : State(x, n).remaining = n
  BY DEF Headers, Done, ExpectSize, State
<1>4. CASE DecodeError \/ DecodeNothing \/ Complete
  <2>1. UNCHANGED <<response, taken, buf, emitted, session, arrived>> /\ body_state' \in {body_state, Done}
    BY <1>4 DEF DecodeError, DecodeNothing, Complete, socketVars
  <2> QED BY <1>1, <1>3, <2>1, StillKeeps
<1>5. CASE DecodeEndOfHeaders
  <2> DEFINE framing == BodyFraming(session)
  <2>1. framing.len \in Nat BY <1>1, FramingType
  <2>2. /\ Yield(1, body_state') /\ session' = session /\ CrlfAt(1)
        /\ body_state' \in {Done, ExpectSize, State("UntilEof", 0), State("FixedLength", framing.len)}
    BY <1>1, <1>5, HeadersEnd
  <2> HIDE DEF framing
  <2>3. body_state'.remaining \in Nat BY <1>3, <2>1, <2>2
  <2>4. 1 \in 0..Len(buf) BY <1>1, <2>2 DEF CrlfAt
  <2> QED BY <1>1, <2>2, <2>3, <2>4, YieldKeeps
<1>6. CASE DecodeFixed \/ DecodeData
  <2>1. PICK next : /\ Yield(k, next) /\ session' = session
                    /\ next \in {Done, State("ExpectDataCrlf", 0), State("FixedLength", r - k),
                                 State("Data", r - k)}
    BY <1>6 DEF DecodeFixed, DecodeData, k
  <2>2. next.remaining \in Nat BY <1>2, <1>3, <2>1
  <2> QED BY <1>1, <1>2, <2>1, <2>2, YieldKeeps
<1>7. CASE DecodeDataCrlf \/ DecodeUntilEof
  <2>1. PICK n \in {1, Len(buf)}, next \in {ExpectSize, Done, body_state} :
          Yield(n, next) /\ session' = session /\ buf # <<>>
    BY <1>7 DEF DecodeDataCrlf, DecodeUntilEof
  <2>2. n \in 0..Len(buf) BY <1>1, <2>1
  <2>3. next.remaining \in Nat BY <1>1, <1>3, <2>1
  <2> QED BY <1>1, <2>1, <2>2, <2>3, YieldKeeps
<1>8. CASE \E i \in 1..Len(buf) : DecodeHeaderLine(i) \/ DecodeSize(i) \/ DecodeTrailer(i)
  <2>1. PICK i \in 1..Len(buf) : DecodeHeaderLine(i) \/ DecodeSize(i) \/ DecodeTrailer(i) BY <1>8
  <2>2. i \in 0..Len(buf) BY <1>1, <2>1
  <2>3. CASE DecodeHeaderLine(i)
    <3>1. Yield(i, Headers) /\ \E line : session' = Feed(session, line) BY <2>3 DEF DecodeHeaderLine
    <3>2. \A m \in Matcher : \A v, w \in session'.results[m] : v = w BY <1>1, <3>1, FeedSingle
    <3> QED BY <1>3, <2>2, <3>1, <3>2, YieldKeeps
  <2>4. CASE DecodeSize(i)
    <3> DEFINE v == buf[1].value
               next == IF ParsedLength(v) = 0 THEN State("TrailerOrEnd", 0) ELSE State("Data", ParsedLength(v))
    <3>1. Parses(v) /\ Yield(i, next) /\ session' = session BY <2>4 DEF DecodeSize
    <3>2. ParsedLength(v) \in Nat BY <3>1, LengthType
    <3>3. next.remaining \in Nat BY <1>3, <3>2
    <3> HIDE DEF next
    <3> QED BY <1>1, <2>2, <3>1, <3>3, YieldKeeps
  <2>5. CASE DecodeTrailer(i)
    <3>1. PICK next \in {Done, body_state} : Yield(i, next) /\ session' = session BY <2>5 DEF DecodeTrailer
    <3>2. next.remaining \in Nat BY <1>1, <1>3, <3>1
    <3> QED BY <1>1, <2>2, <3>1, <3>2, YieldKeeps
  <2> QED BY <2>1, <2>3, <2>4, <2>5
<1> QED BY <1>4, <1>5, <1>6, <1>7, <1>8 DEF Decode

\* Nothing is read at first.
LEMMA StreamTypeInit ==
  ASSUME ResponsesAreDescribed, Init
  PROVE  StreamType
<1>1. /\ response \in Responses /\ arrived = 0 /\ taken = 0 /\ buf = <<>> /\ emitted = <<>> /\ body_state = Headers
      /\ session = NewSession
  BY DEF Init
<1>2. response.atoms \in Seq(Atom) /\ Len(response.atoms) \in Nat BY <1>1 DEF ResponsesAreDescribed
<1>3. <<>> \in Seq(Atom) OBVIOUS
<1>4. SubSeq(response.atoms, 1, 0) = <<>> BY <1>2
<1>5. emitted \o buf = <<>> BY <1>1
<1>6. \A m \in Matcher : session.results[m] = {} BY <1>1 DEF NewSession
<1>7. body_state.remaining = 0 BY <1>1 DEF Headers, State
<1> QED BY <1>1, <1>2, <1>3, <1>4, <1>5, <1>6, <1>7 DEF StreamType, BytesKept

\* Every step keeps the bytes.
LEMMA StreamTypeNext ==
  ASSUME ResponsesAreDescribed, StreamType, [Next]_vars
  PROVE  StreamType'
<1>1. /\ arrived \in 0..Len(response.atoms) /\ Len(response.atoms) \in Nat /\ body_state.remaining \in Nat
      /\ taken \in 0..arrived
  BY ResponseType DEF StreamType
<1>2. CASE StreamStep
  <2>1. CASE Decode BY <2>1, DecodeKeeps
  <2>2. CASE ReadEof
    <3>1. UNCHANGED <<response, taken, buf, emitted, session, arrived, body_state>> BY <2>2 DEF ReadEof, socketVars
    <3> QED BY <1>1, <3>1, StillKeeps
  <2>3. CASE \E n \in 1..(arrived - taken) : Read(n)
    <3>1. PICK n \in 1..(arrived - taken) : Read(n) BY <2>3
    <3>2. n \in Nat BY <1>1
    <3> QED BY <3>1, <3>2, ReadKeeps
  <2> QED BY <1>2, <2>1, <2>2, <2>3 DEF StreamStep
<1>3. CASE ServerStep
  <2>1. PICK n \in 1..Len(response.atoms) : Arrive(n) BY <1>3 DEF ServerStep
  <2>2. /\ UNCHANGED <<response, taken, buf, emitted, session, body_state>> /\ arrived' = arrived + n
        /\ arrived + n <= Len(response.atoms)
    BY <2>1 DEF Arrive
  <2>3. arrived' \in arrived..Len(response.atoms) BY <1>1, <2>1, <2>2
  <2> QED BY <1>1, <2>2, <2>3, StillKeeps
<1>4. CASE Close \/ UNCHANGED vars
  <2>1. UNCHANGED <<response, taken, buf, emitted, session, arrived, body_state>> BY <1>4 DEF Close, vars
  <2> QED BY <1>1, <2>1, StillKeeps
<1> QED BY <1>2, <1>3, <1>4 DEF Next

\* The items that ResponseFrameStream yields carry the server's bytes unchanged and
\* in order: whatever the server sends, well-formed or not, and however the socket
\* cuts it, what was yielded and what is buffered is what was read.
THEOREM BytesAreKept == Spec => []BytesKept
<1>1. Init => StreamType BY ResponseAssumption, StreamTypeInit
<1>2. StreamType /\ [Next]_vars => StreamType' BY ResponseAssumption, StreamTypeNext
<1>3. StreamType => BytesKept BY DEF StreamType
<1> QED BY <1>1, <1>2, <1>3, PTL DEF Spec

-----------------------------------------------------------------------------
(* The end of the response *)

\* What is buffered comes behind what was yielded, in the response.
LEMMA InPlace ==
  ASSUME ResponsesAreDescribed, StreamType
  PROVE  /\ Len(emitted) \in Nat /\ Len(buf) \in Nat /\ Len(response.atoms) \in Nat
         /\ Len(emitted) + Len(buf) <= Len(response.atoms)
         /\ \A i \in 1..Len(buf) : buf[i] = response.atoms[Len(emitted) + i]
<1> DEFINE s == response.atoms
           c == emitted \o buf
           p == Len(emitted)
           b == Len(buf)
<1>1. s \in Seq(Atom) /\ Len(s) \in Nat BY ResponseType
<1>2. /\ arrived \in 0..Len(s) /\ taken \in 0..arrived /\ buf \in Seq(Atom) /\ emitted \in Seq(Atom)
      /\ c = SubSeq(s, 1, taken)
  BY DEF StreamType, BytesKept
<1> HIDE DEF s
<1>3. taken \in 0..Len(s) BY <1>1, <1>2
<1>4. Len(SubSeq(s, 1, taken)) = taken /\ \A i \in 1..taken : SubSeq(s, 1, taken)[i] = s[i] BY <1>1, <1>3, CutAt
<1>5. p \in Nat /\ b \in Nat /\ Len(c) = p + b /\ \A i \in 1..b : c[p + i] = buf[i] BY <1>2
<1> HIDE DEF c, p, b
<1>6. p + b = taken BY <1>2, <1>4, <1>5
<1>7. \A i \in 1..b : p + i \in 1..taken BY <1>5, <1>6
<1>8. \A i \in 1..b : buf[i] = s[p + i] BY <1>2, <1>4, <1>5, <1>7
<1> QED BY <1>1, <1>3, <1>5, <1>6, <1>8 DEF s, p, b

\* Where the first line of the buffer ends.
LEMMA LineEnd ==
  ASSUME ResponsesAreDescribed, StreamType, NEW i, CrlfAt(i)
  PROVE  LET s == response.atoms
             p == Len(emitted)
         IN /\ i \in Nat /\ 1 <= i /\ i <= Len(buf) /\ p + i <= Len(s) /\ s[p + i].t = "nl"
            /\ buf[1] = s[p + 1]
            /\ \A j \in 1..(i - 1) : s[p + j].t # "nl"
<1> DEFINE s == response.atoms
           p == Len(emitted)
           b == Len(buf)
<1>1. p \in Nat /\ b \in Nat /\ Len(s) \in Nat /\ p + b <= Len(s) /\ \A j \in 1..b : buf[j] = s[p + j] BY InPlace
<1>2. i \in 1..b /\ buf[i].t = "nl" /\ \A j \in 1..(i - 1) : buf[j].t # "nl" BY DEF CrlfAt
<1> HIDE DEF s, p, b
<1>3. 1 \in 1..b /\ \A j \in 1..(i - 1) : j \in 1..b BY <1>1, <1>2
<1>4. i \in Nat /\ 1 <= i /\ i <= b /\ p + i <= Len(s) /\ s[p + i].t = "nl" BY <1>1, <1>2
<1>5. buf[1] = s[p + 1] /\ \A j \in 1..(i - 1) : s[p + j].t # "nl" BY <1>1, <1>2, <1>3
<1> QED BY <1>4, <1>5 DEF s, p, b

\* What an item leaves alone.
LEMMA YieldMoves ==
  ASSUME StreamType, NEW n \in 0..Len(buf), NEW next, Yield(n, next)
  PROVE  /\ response' = response /\ closed' = closed /\ eof' = eof /\ outcome' = outcome /\ body_state' = next
         /\ Len(emitted') = Len(emitted) + n
<1>1. buf \in Seq(Atom) /\ emitted \in Seq(Atom) BY DEF StreamType
<1> QED BY <1>1, YieldCuts DEF Yield, socketVars

\* decode_fixed_length counts down to the end.
LEMMA FixedInStep ==
  ASSUME ResponsesAreDescribed, StreamType, NEW h, NEW starts, InStep(h, starts), DecodeFixed
  PROVE  InStep(h, starts)'
<1> DEFINE p == Len(emitted)
           r == body_state.remaining
           b == Len(buf)
           k == Min2(r, b)
           next == IF k = r THEN Done ELSE State("FixedLength", r - k)
<1>1. p \in Nat /\ b \in Nat /\ buf \in Seq(Atom) BY InPlace DEF StreamType
<1>2. body_state.s = "FixedLength" /\ buf # <<>> /\ Yield(k, next) BY DEF DecodeFixed
<1>3. r \in Nat /\ r > 0 /\ p + r = response.len BY <1>2 DEF InStep
<1>4. b > 0 BY <1>1, <1>2
<1>5. k \in 0..b /\ k <= r /\ k > 0 BY <1>1, <1>3, <1>4, MinType
<1> HIDE DEF k, next
<1>6. response' = response /\ closed' = closed /\ body_state' = next /\ Len(emitted') = p + k
  BY <1>2, <1>5, YieldMoves DEF b
<1> HIDE DEF p, r, b
<1>7. CASE k = r
  <2>1. body_state'.s = "Done" BY <1>6, <1>7 DEF next, Done, State
  <2>2. Len(emitted') = response'.len /\ Len(emitted') <= response'.len BY <1>1, <1>3, <1>6, <1>7
  <2> QED BY <2>1, <2>2 DEF InStep
<1>8. CASE k # r
  <2>1. body_state'.s = "FixedLength" /\ body_state'.remaining = r - k BY <1>6, <1>8 DEF next, State
  <2>2. /\ r - k \in Nat \ {0} /\ Len(emitted') + (r - k) = response'.len /\ Len(emitted') <= response'.len
    BY <1>1, <1>3, <1>5, <1>6, <1>8
  <2> QED BY <2>1, <2>2 DEF InStep
<1> QED BY <1>7, <1>8

\* The body of a message that is not over.
LEMMA ChunkedBody ==
  ASSUME NEW h, NEW starts, Framed(h, starts), HeadFraming(response.atoms, h).mode = "Chunked"
  PROVE  /\ starts \subseteq h..response.len /\ h \in starts
         /\ \A p \in starts : ChunkAt(response.atoms, p, starts, response.len)
BY DEF Framed

\* decode_chunked counts down to the end of a chunk.
LEMMA DataInStep ==
  ASSUME ResponsesAreDescribed, StreamType, NEW h \in Nat, NEW starts, Framed(h, starts), InStep(h, starts), DecodeData
  PROVE  InStep(h, starts)'
<1> DEFINE p == Len(emitted)
           r == body_state.remaining
           b == Len(buf)
           k == Min2(r, b)
           next == IF k = r THEN State("ExpectDataCrlf", 0) ELSE State("Data", r - k)
           chunked == HeadFraming(response.atoms, h).mode = "Chunked"
<1>1. p \in Nat /\ b \in Nat /\ buf \in Seq(Atom) /\ response.len \in Nat BY InPlace, ResponseType DEF StreamType
<1>2. body_state.s = "Data" /\ buf # <<>> /\ Yield(k, next) BY DEF DecodeData
<1>3. chunked /\ r \in Nat /\ r > 0 /\ p + r + 1 \in starts BY <1>2 DEF InStep
<1>4. b > 0 BY <1>1, <1>2
<1>5. k \in 0..b /\ k <= r /\ k > 0 BY <1>1, <1>3, <1>4, MinType
<1>6. starts \subseteq h..response.len BY <1>3, ChunkedBody
<1> HIDE DEF k, next
<1>7. response' = response /\ closed' = closed /\ body_state' = next /\ Len(emitted') = p + k
  BY <1>2, <1>5, YieldMoves DEF b
<1> HIDE DEF p, r, b
<1>8. Len(emitted') <= response'.len
  <2>1. p + r + 1 \in h..response.len BY <1>3, <1>6
  <2> QED BY <1>1, <1>3, <1>5, <1>7, <2>1
<1>9. CASE k = r
  <2>1. body_state'.s = "ExpectDataCrlf" BY <1>7, <1>9 DEF next, State
  <2>2. Len(emitted') + 1 \in starts BY <1>3, <1>7, <1>9
  <2> QED BY <1>3, <1>7, <1>8, <2>1, <2>2 DEF InStep
<1>10. CASE k # r
  <2>1. body_state'.s = "Data" /\ body_state'.remaining = r - k BY <1>7, <1>10 DEF next, State
  <2>2. r - k \in Nat \ {0} /\ Len(emitted') + (r - k) + 1 = p + r + 1
    BY <1>1, <1>3, <1>5, <1>7, <1>10
  <2>3. Len(emitted') + (r - k) + 1 \in starts BY <1>3, <2>2
  <2> QED BY <1>3, <1>7, <1>8, <2>1, <2>2, <2>3 DEF InStep
<1> QED BY <1>9, <1>10

\* decode_chunked goes from the end of a chunk to the next size.
LEMMA CrlfInStep ==
  ASSUME ResponsesAreDescribed, StreamType, NEW h \in Nat, NEW starts, Framed(h, starts), InStep(h, starts),
         DecodeDataCrlf
  PROVE  InStep(h, starts)'
<1> DEFINE p == Len(emitted)
           chunked == HeadFraming(response.atoms, h).mode = "Chunked"
<1>1. p \in Nat /\ Len(buf) \in Nat /\ buf \in Seq(Atom) /\ response.len \in Nat BY InPlace, ResponseType DEF StreamType
<1>2. body_state.s = "ExpectDataCrlf" /\ buf # <<>> /\ Yield(1, ExpectSize) BY DEF DecodeDataCrlf
<1>3. chunked /\ p + 1 \in starts BY <1>2 DEF InStep
<1>4. 1 \in 0..Len(buf) BY <1>1, <1>2
<1>5. p + 1 <= response.len
  <2>1. starts \subseteq h..response.len BY <1>3, ChunkedBody
  <2> QED BY <1>1, <1>3, <2>1
<1>6. response' = response /\ closed' = closed /\ body_state' = ExpectSize /\ Len(emitted') = p + 1
  BY <1>2, <1>4, YieldMoves
<1>7. body_state'.s = "ExpectSize" BY <1>6 DEF ExpectSize, State
<1> HIDE DEF p
<1> QED BY <1>3, <1>5, <1>6, <1>7 DEF InStep

\* decode_chunked reads the size of a chunk, or of the last one.
LEMMA SizeInStep ==
  ASSUME ResponsesAreDescribed, StreamType, NEW h \in Nat, NEW starts, Framed(h, starts), InStep(h, starts),
         NEW i, DecodeSize(i)
  PROVE  InStep(h, starts)'
<1> DEFINE s == response.atoms
           len == response.len
           p == Len(emitted)
           v == buf[1].value
           n == ParsedLength(v)
           next == IF n = 0 THEN State("TrailerOrEnd", 0) ELSE State("Data", n)
           chunked == HeadFraming(response.atoms, h).mode = "Chunked"
<1>1. p \in Nat /\ Len(buf) \in Nat /\ len \in Nat BY InPlace, ResponseType
<1>2. body_state.s = "ExpectSize" /\ i > 1 /\ CrlfAt(i) /\ Parses(v) /\ Yield(i, next)
  BY DEF DecodeSize, ExpectSize, State
<1>3. chunked /\ p \in starts BY <1>2 DEF InStep
<1>4. n \in Nat BY <1>2, LengthType
<1>5. ChunkAt(s, p, starts, len) BY <1>3, ChunkedBody
<1>6. /\ i \in Nat /\ 1 <= i /\ i <= Len(buf) /\ buf[1] = s[p + 1]
      /\ \A j \in 1..(i - 1) : s[p + j].t # "nl"
  BY <1>2, LineEnd
<1>7. n = ParsedLength(s[p + 1].value) BY <1>6
<1>8. i \in 0..Len(buf) BY <1>1, <1>6
<1> HIDE DEF n, next, v
<1>9. /\ p + 3 <= len /\ s[p + 2].t = "nl"
      /\ n > 0 => p + n + 3 \in starts
      /\ n = 0 => /\ s[len - 1].t = "nl" /\ s[len].t = "nl"
                  /\ \A j \in (p + 2)..(len - 2) : s[j].t = "nl" => s[j + 1].t # "nl"
  BY <1>5, <1>7 DEF ChunkAt
<1>10. response' = response /\ closed' = closed /\ body_state' = next /\ Len(emitted') = p + i
  BY <1>2, <1>8, YieldMoves
<1> HIDE DEF p, s, len
<1>11. i = 2
  <2>1. ~(2 \in 1..(i - 1)) BY <1>6, <1>9
  <2> QED BY <1>2, <1>6, <2>1
<1>12. Len(emitted') = p + 2 /\ Len(emitted') <= response'.len BY <1>1, <1>9, <1>10, <1>11 DEF len
<1>13. CASE n = 0
  <2>1. body_state'.s = "TrailerOrEnd" BY <1>10, <1>13 DEF next, State
  <2>2. 1 <= p + 2 /\ p + 2 < len BY <1>1, <1>9
  <2>3. response'.atoms = s /\ response'.len = len BY <1>10 DEF s, len
  <2>4. InTrailers(Len(emitted))' BY <1>9, <1>12, <1>13, <2>2, <2>3 DEF InTrailers
  <2> QED BY <1>12, <2>1, <2>4 DEF InStep
<1>14. CASE n # 0
  <2>1. body_state'.s = "Data" /\ body_state'.remaining = n BY <1>10, <1>14 DEF next, State
  <2>2. n \in Nat \ {0} /\ p + n + 3 \in starts /\ Len(emitted') + n + 1 = p + n + 3 BY <1>1, <1>4, <1>9, <1>12, <1>14
  <2>3. Len(emitted') + n + 1 \in starts BY <2>2
  <2> QED BY <1>3, <1>10, <1>12, <2>1, <2>2, <2>3 DEF InStep
<1> QED BY <1>13, <1>14

\* decode_chunked passes trailers on, to the empty line.
LEMMA TrailerInStep ==
  ASSUME ResponsesAreDescribed, StreamType, NEW h, NEW starts, InStep(h, starts), NEW i, DecodeTrailer(i)
  PROVE  InStep(h, starts)'
<1> DEFINE s == response.atoms
           len == response.len
           p == Len(emitted)
           next == IF i = 1 THEN Done ELSE body_state
<1>1. p \in Nat /\ Len(buf) \in Nat /\ len \in Nat BY InPlace, ResponseType
<1>2. body_state.s = "TrailerOrEnd" /\ CrlfAt(i) /\ Yield(i, next) BY DEF DecodeTrailer
<1>3. InTrailers(p) BY <1>2 DEF InStep
<1>4. /\ 1 <= p /\ p < len /\ s[p].t = "nl" /\ s[len - 1].t = "nl" /\ s[len].t = "nl"
      /\ \A j \in p..(len - 2) : s[j].t = "nl" => s[j + 1].t # "nl"
  BY <1>3 DEF InTrailers
<1>5. /\ i \in Nat /\ 1 <= i /\ i <= Len(buf) /\ s[p + i].t = "nl" /\ buf[1] = s[p + 1]
      /\ \A j \in 1..(i - 1) : s[p + j].t # "nl"
  BY <1>2, LineEnd
<1>6. i \in 0..Len(buf) BY <1>1, <1>5
<1> HIDE DEF next
<1>7. response' = response /\ closed' = closed /\ body_state' = next /\ Len(emitted') = p + i
  BY <1>2, <1>6, YieldMoves
<1> HIDE DEF p, s, len
<1>8. CASE i = 1
  <2>1. ~(p \in p..(len - 2)) BY <1>4, <1>5, <1>8
  <2>2. p + 1 = len BY <1>1, <1>4, <2>1
  <2>3. body_state'.s = "Done" BY <1>7, <1>8 DEF next, Done, State
  <2>4. Len(emitted') = response'.len /\ Len(emitted') <= response'.len BY <1>1, <1>7, <1>8, <2>2 DEF len
  <2> QED BY <2>3, <2>4 DEF InStep
<1>9. CASE i # 1
  <2>1. body_state'.s = "TrailerOrEnd" BY <1>2, <1>7, <1>9 DEF next
  <2>2. s[p + 1].t # "nl"
    <3>1. 1 \in 1..(i - 1) BY <1>5, <1>9
    <3> QED BY <1>5, <3>1
  <2>3. p + 1 # len BY <1>4, <2>2
  <2>4. ~((len - 1) - p \in 1..(i - 1))
    <3>1. (len - 1) - p \in 1..(i - 1) => s[p + ((len - 1) - p)].t # "nl" BY <1>5
    <3>2. p + ((len - 1) - p) = len - 1 BY <1>1
    <3> QED BY <1>4, <3>1, <3>2
  <2>5. p + i < len BY <1>1, <1>4, <1>5, <2>3, <2>4
  <2>6. \A j \in (p + i)..(len - 2) : j \in p..(len - 2) BY <1>1, <1>5
  <2>7. 1 <= p + i BY <1>1, <1>5
  <2>8. response'.atoms = s /\ response'.len = len BY <1>7 DEF s, len
  <2>9. InTrailers(Len(emitted))' BY <1>4, <1>5, <1>7, <2>5, <2>6, <2>7, <2>8 DEF InTrailers
  <2>10. Len(emitted') <= response'.len BY <1>1, <1>5, <1>7, <2>5 DEF len
  <2> QED BY <2>1, <2>9, <2>10 DEF InStep
<1> QED BY <1>8, <1>9

\* A body without a length ends with the connection.
LEMMA UntilEofInStep ==
  ASSUME ResponsesAreDescribed, StreamType, NEW h, NEW starts, InStep(h, starts), eof => closed, DecodeUntilEof
  PROVE  InStep(h, starts)'
<1> DEFINE p == Len(emitted)
           b == Len(buf)
           next == IF eof THEN Done ELSE body_state
<1>1. p \in Nat /\ b \in Nat /\ Len(response.atoms) \in Nat /\ p + b <= Len(response.atoms) BY InPlace
<1>2. body_state.s = "UntilEof" /\ Yield(b, next) BY DEF DecodeUntilEof
<1>3. response.len = Len(response.atoms) BY <1>2 DEF InStep
<1>4. b \in 0..b BY <1>1
<1> HIDE DEF next
<1>5. response' = response /\ closed' = closed /\ body_state' = next /\ Len(emitted') = p + b
  BY <1>2, <1>4, YieldMoves
<1> HIDE DEF p, b
<1>6. Len(emitted') <= response'.len BY <1>1, <1>3, <1>5
<1>7. CASE eof
  <2>1. body_state'.s = "Done" /\ closed' BY <1>5, <1>7 DEF next, Done, State
  <2> QED BY <1>6, <2>1 DEF InStep
<1>8. CASE ~eof
  <2>1. body_state'.s = "UntilEof" /\ response'.len = Len(response'.atoms) BY <1>2, <1>3, <1>5, <1>8 DEF next
  <2> QED BY <1>6, <2>1 DEF InStep
<1> QED BY <1>7, <1>8

\* The line of a matcher that starts behind p, if any.
LineAt(s, p, m) == IF (IF m = "RequestLineVersion" THEN p = 0 ELSE p > 0 /\ s[p + 1].name = m) THEN {p + 1} ELSE {}

\* The lines up to p, and perhaps one behind p.
OneMore(p, places, more) == places \subseteq 1..p /\ more \subseteq {p + 1}

\* Behind p comes a line of i atoms.
LineBehind(s, p, i) == i > 1 /\ (p = 0 \/ s[p].t = "nl") /\ \A j \in 1..(i - 1) : s[p + j].t # "nl"

\* What decode_headers feeds for the line behind p.
LineFrom(line, s, p) ==
  line.phase = (IF p = 0 THEN "RequestLine" ELSE "Header") /\ line.name = s[p + 1].name /\ line.value = s[p + 1].value

\* A value that is kept once it is there.
Kept(old, new) == IF old = {} THEN new ELSE old

\* The first line stays the first when a later one comes.
LEMMA FirstGrows ==
  ASSUME NEW s, NEW p \in Nat, NEW places, NEW more, OneMore(p, places, more)
  PROVE  FirstOf(s, places \cup more) = Kept(FirstOf(s, places), FirstOf(s, more))
<1>0. places \subseteq 1..p /\ more \subseteq {p + 1} BY DEF OneMore
<1>1. CASE places = {}
  <2>1. FirstOf(s, places) = {} /\ places \cup more = more BY <1>1 DEF FirstOf
  <2> QED BY <2>1 DEF Kept
<1>2. CASE places # {}
  <2>1. places \in SUBSET Nat BY <1>0
  <2>2. PICK m \in places : \A k \in places : m <= k BY <1>2, <2>1, Least
  <2>3. m \in {j \in places : \A k \in places : j <= k} BY <2>2
  <2>4. s[m].value \in FirstOf(s, places) BY <2>3 DEF FirstOf
  <2>5. {j \in places \cup more : \A k \in places \cup more : j <= k} = {j \in places : \A k \in places : j <= k}
    <3>1. \A j \in places, k \in more : j <= k /\ ~(k <= j) BY <1>0
    <3>2. ASSUME NEW j \in places \cup more, \A k \in places \cup more : j <= k
          PROVE  j \in places /\ \A k \in places : j <= k
      BY <2>2, <3>1, <3>2
    <3>3. ASSUME NEW j \in places, \A k \in places : j <= k PROVE \A k \in places \cup more : j <= k
      BY <3>1, <3>3
    <3> QED BY <3>2, <3>3
  <2>6. FirstOf(s, places \cup more) = FirstOf(s, places) BY <2>5 DEF FirstOf
  <2> QED BY <2>4, <2>6 DEF Kept
<1> QED BY <1>1, <1>2

\* A line more of the head is one line more for the matcher of its name.
LEMMA LinesGrow ==
  ASSUME NEW s, NEW p \in Nat, NEW i \in Nat, NEW m, LineBehind(s, p, i)
  PROVE  /\ OneMore(p, LinesOf(s, p, m), LineAt(s, p, m))
         /\ LinesOf(s, p + i, m) = LinesOf(s, p, m) \cup LineAt(s, p, m)
<1>0. i > 1 /\ (p = 0 \/ s[p].t = "nl") /\ \A j \in 1..(i - 1) : s[p + j].t # "nl" BY DEF LineBehind
<1>1. CASE m = "RequestLineVersion"
  <2>1. /\ LinesOf(s, p, m) = {1} \cap 1..p /\ LinesOf(s, p + i, m) = {1} \cap 1..(p + i)
        /\ LineAt(s, p, m) = IF p = 0 THEN {p + 1} ELSE {}
    BY <1>1 DEF LinesOf, LineAt
  <2>2. {1} \cap 1..(p + i) = {1} BY <1>0
  <2>3. {1} \cap 1..p = IF p = 0 THEN {} ELSE {1} OBVIOUS
  <2> QED BY <2>1, <2>2, <2>3 DEF OneMore
<1>2. CASE m # "RequestLineVersion"
  <2> DEFINE L(n) == {k \in 2..n : s[k - 1].t = "nl" /\ s[k].name = m}
             more == IF p > 0 /\ s[p + 1].name = m THEN {p + 1} ELSE {}
  <2>1. LinesOf(s, p, m) = L(p) /\ LinesOf(s, p + i, m) = L(p + i) /\ LineAt(s, p, m) = more
    BY <1>2 DEF LinesOf, LineAt
  <2>2. L(p) \subseteq 1..p /\ more \subseteq {p + 1} OBVIOUS
  <2>3. \A k : k \in L(p + i) => k \in L(p) \cup more
    <3>1. SUFFICES ASSUME NEW k, k \in L(p + i), k \notin L(p) PROVE k \in more OBVIOUS
    <3>2. k \in Nat /\ k > p /\ k >= 2 /\ k <= p + i /\ s[k - 1].t = "nl" /\ s[k].name = m BY <3>1
    <3>3. ~((k - 1) - p \in 1..(i - 1))
      <4>1. (k - 1) - p \in 1..(i - 1) => s[p + ((k - 1) - p)].t # "nl" BY <1>0
      <4>2. p + ((k - 1) - p) = k - 1 BY <3>2
      <4> QED BY <3>2, <4>1, <4>2
    <3>4. k = p + 1 BY <1>0, <3>2, <3>3
    <3>5. p > 0 /\ s[p + 1].name = m BY <3>2, <3>4
    <3> QED BY <3>4, <3>5
  <2>4. \A k : k \in L(p) => k \in L(p + i) BY <1>0
  <2>5. more \subseteq L(p + i)
    <3>1. CASE p > 0 /\ s[p + 1].name = m
      <4>1. p + 1 \in 2..(p + i) /\ (p + 1) - 1 = p /\ s[p].t = "nl" BY <1>0, <3>1
      <4>2. s[(p + 1) - 1].t = "nl" BY <4>1
      <4> QED BY <3>1, <4>1, <4>2
    <3>2. CASE ~(p > 0 /\ s[p + 1].name = m) BY <3>2
    <3> QED BY <3>1, <3>2
  <2> HIDE DEF L, more
  <2>6. L(p + i) = L(p) \cup more BY <2>3, <2>4, <2>5
  <2> QED BY <2>1, <2>2, <2>6 DEF OneMore
<1> QED BY <1>1, <1>2

\* A matcher finds a line if it is one of its lines.
LEMMA HitAt ==
  ASSUME NEW s, NEW p \in Nat, NEW m, NEW line, line.phase = (IF p = 0 THEN "RequestLine" ELSE "Header"),
         line.name = s[p + 1].name, line.value = s[p + 1].value
  PROVE  Hit(m, line) = FirstOf(s, LineAt(s, p, m))
<1> DEFINE found == IF m = "RequestLineVersion" THEN p = 0 ELSE p > 0 /\ s[p + 1].name = m
<1>1. Hit(m, line) = IF found THEN {s[p + 1].value} ELSE {}
  <2>1. CASE m = "RequestLineVersion" BY <2>1 DEF Hit, MatcherPhase, TryMatch
  <2>2. CASE m # "RequestLineVersion" BY <2>2 DEF Hit, MatcherPhase, TryMatch
  <2> QED BY <2>1, <2>2
<1>2. LineAt(s, p, m) = IF found THEN {p + 1} ELSE {} BY DEF LineAt
<1> HIDE DEF found
<1>3. FirstOf(s, {p + 1}) = {s[p + 1].value}
  <2>1. {j \in {p + 1} : \A k \in {p + 1} : j <= k} = {p + 1} OBVIOUS
  <2> QED BY <2>1 DEF FirstOf
<1>4. FirstOf(s, {}) = {} BY DEF FirstOf
<1> QED BY <1>1, <1>2, <1>3, <1>4

\* feed learns from a line what the lines so far say.
LEMMA LineFed ==
  ASSUME NEW s, NEW p \in Nat, NEW i \in Nat, NEW old, NEW line,
         LineBehind(s, p, i), Learnt(old, s, p), LineFrom(line, s, p)
  PROVE  Learnt(Feed(old, line), s, p + i)
<1> SUFFICES ASSUME NEW m \in Matcher PROVE Feed(old, line).results[m] = FirstValue(s, p + i, m)
  BY DEF Learnt
<1> DEFINE places == LinesOf(s, p, m)
           more == LineAt(s, p, m)
<1>1. Feed(old, line).results[m] = Kept(old.results[m], Hit(m, line)) BY FeedAt DEF Kept
<1>2. OneMore(p, places, more) /\ LinesOf(s, p + i, m) = places \cup more BY LinesGrow
<1>3. Hit(m, line) = FirstOf(s, more) BY HitAt DEF LineFrom
<1>4. old.results[m] = FirstOf(s, places) /\ FirstValue(s, p + i, m) = FirstOf(s, places \cup more)
  BY <1>2 DEF Learnt, FirstValue
<1> HIDE DEF places, more
<1>5. FirstOf(s, places \cup more) = Kept(FirstOf(s, places), FirstOf(s, more)) BY <1>2, FirstGrows
<1> QED BY <1>1, <1>3, <1>4, <1>5

\* What a described head says of a position between two lines.
LEMMA InTheHead ==
  ASSUME NEW h, NEW starts, Framed(h, starts), InStep(h, starts), body_state.s = "Headers"
  PROVE  LET s == response.atoms
             p == Len(emitted)
         IN /\ h \in 3..Len(s) /\ h <= response.len /\ s[1].t = "status" /\ s[h - 1].t = "nl" /\ s[h].t = "nl"
            /\ \A i \in 1..(h - 2) : s[i].t = "nl" => s[i + 1].t \notin {"nl", "ws"}
            /\ p < h /\ (p = 0 \/ s[p].t = "nl") /\ (first_line <=> p = 0)
            /\ Learnt(session, s, p)
BY DEF Framed, HeadEnds, InStep, InHead

\* decode_headers reads a line and stays in the head.
LEMMA LineInStep ==
  ASSUME ResponsesAreDescribed, StreamType, NEW h, NEW starts, Framed(h, starts), InStep(h, starts),
         NEW i, DecodeHeaderLine(i)
  PROVE  InStep(h, starts)'
<1> DEFINE s == response.atoms
           p == Len(emitted)
           line == [phase |-> IF first_line THEN "RequestLine" ELSE "Header",
                    name |-> buf[1].name, value |-> buf[1].value]
<1>1. p \in Nat /\ Len(buf) \in Nat /\ response.len \in Nat /\ Len(s) \in Nat BY InPlace, ResponseType
<1>2. /\ body_state.s = "Headers" /\ i > 1 /\ CrlfAt(i) /\ Yield(i, Headers) /\ first_line' = FALSE
      /\ session' = Feed(session, line)
  BY DEF DecodeHeaderLine, Headers, State
<1>3. /\ h \in 3..Len(s) /\ h <= response.len /\ s[h - 1].t = "nl" /\ s[h].t = "nl"
      /\ p < h /\ (p = 0 \/ s[p].t = "nl") /\ (first_line <=> p = 0)
      /\ Learnt(session, s, p)
  BY <1>2, InTheHead
<1>4. /\ i \in Nat /\ i <= Len(buf) /\ s[p + i].t = "nl" /\ buf[1] = s[p + 1]
      /\ \A j \in 1..(i - 1) : s[p + j].t # "nl"
  BY <1>2, LineEnd
<1>5. LineBehind(s, p, i) BY <1>2, <1>3, <1>4 DEF LineBehind
<1>6. LineFrom(line, s, p) BY <1>3, <1>4 DEF LineFrom
<1>7. i \in 0..Len(buf) BY <1>1, <1>4
<1>8. response' = response /\ body_state' = Headers /\ Len(emitted') = p + i BY <1>2, <1>7, YieldMoves
<1> HIDE DEF s, p, line
<1>9. Learnt(session', s, p + i) BY <1>1, <1>2, <1>3, <1>4, <1>5, <1>6, LineFed
<1>10. p + i < h
  <2>1. 1 \in 1..(i - 1) BY <1>2, <1>4
  <2>2. p + 1 # h BY <1>3, <1>4, <2>1
  <2>3. ~((h - 1) - p \in 1..(i - 1))
    <3>1. (h - 1) - p \in 1..(i - 1) => s[p + ((h - 1) - p)].t # "nl" BY <1>4
    <3>2. p + ((h - 1) - p) = h - 1 BY <1>1, <1>3
    <3> QED BY <1>3, <3>1, <3>2
  <2> QED BY <1>1, <1>2, <1>3, <1>4, <2>2, <2>3
<1>11. p + i # 0 /\ p + i <= response.len BY <1>1, <1>3, <1>4, <1>10, <1>2
<1>12. response'.atoms = s BY <1>8 DEF s
<1>13. InHead(h, Len(emitted))' BY <1>2, <1>4, <1>8, <1>9, <1>10, <1>11, <1>12 DEF InHead
<1>14. body_state'.s = "Headers" BY <1>8 DEF Headers, State
<1>15. Len(emitted') <= response'.len BY <1>8, <1>11
<1> QED BY <1>13, <1>14, <1>15 DEF InStep

\* The empty line that decode_headers stops at is the end of the head, where the
\* session knows all of it.
LEMMA EndInStep ==
  ASSUME ResponsesAreDescribed, StreamType, NEW h, NEW starts, Framed(h, starts), InStep(h, starts), DecodeEndOfHeaders
  PROVE  InStep(h, starts)'
<1> DEFINE s == response.atoms
           p == Len(emitted)
           f == BodyFraming(session)
<1>1. p \in Nat /\ Len(buf) \in Nat /\ response.len \in Nat /\ Len(s) \in Nat BY InPlace, ResponseType
<1>2. \A v, w \in session.results["Content-Length"] : v = w BY DEF StreamType, Matcher
<1>3. body_state.s = "Headers" BY DEF DecodeEndOfHeaders, Headers, State
<1>4. /\ h \in 3..Len(s) /\ h <= response.len /\ s[1].t = "status"
      /\ \A i \in 1..(h - 2) : s[i].t = "nl" => s[i + 1].t \notin {"nl", "ws"}
      /\ p < h /\ (p = 0 \/ s[p].t = "nl")
      /\ Learnt(session, s, p)
  BY <1>3, InTheHead
<1>5. /\ Yield(1, body_state') /\ CrlfAt(1)
      /\ \/ f.mode \in {"None", "Fixed"} /\ f.len = 0 /\ body_state' = Done
         \/ f.mode = "Fixed" /\ f.len > 0 /\ body_state' = State("FixedLength", f.len)
         \/ f.mode = "Chunked" /\ body_state' = ExpectSize
         \/ f.mode \in {"UntilClose", "Invalid"} /\ body_state' = State("UntilEof", 0)
  BY <1>2, HeadersEnd
<1>6. s[p + 1].t = "nl" /\ 1 <= Len(buf) BY <1>5, LineEnd
<1>7. f.len \in Nat BY <1>2, FramingType
<1>8. response' = response /\ closed' = closed /\ Len(emitted') = p + 1
  <2>1. 1 \in 0..Len(buf) BY <1>1, <1>6
  <2> QED BY <1>5, <2>1, YieldMoves
<1> HIDE DEF s, p
<1>9. p + 1 = h
  <2>1. p # 0 BY <1>4, <1>6
  <2>2. ~(p \in 1..(h - 2)) BY <1>4, <1>6, <2>1
  <2> QED BY <1>1, <1>4, <2>1, <2>2
<1>10. p = h - 1 BY <1>1, <1>4, <1>9
<1>11. f = HeadFraming(s, h)
  <2> DEFINE head == [results |-> [m \in Matcher |-> FirstValue(s, h - 1, m)], conflicts |-> {}]
  <2>1. \A m \in Matcher : session.results[m] = head.results[m] BY <1>4, <1>10 DEF Learnt
  <2> HIDE DEF head
  <2>2. /\ session.results["Content-Length"] = head.results["Content-Length"]
        /\ session.results["Transfer-Encoding"] = head.results["Transfer-Encoding"]
        /\ session.results["RequestLineVersion"] = head.results["RequestLineVersion"]
    BY <2>1 DEF Matcher
  <2>3. BodyFraming(session) = BodyFraming(head) BY <2>2 DEF BodyFraming
  <2> QED BY <2>3 DEF HeadFraming, head
<1> HIDE DEF f
<1>12. /\ f.mode \in {"None", "Fixed"} => response.len = h + f.len
       /\ f.mode = "Chunked" => h \in starts
       /\ f.mode \in {"UntilClose", "Invalid"} => response.len = Len(s)
  BY <1>11 DEF Framed, s
<1>13. response'.atoms = s /\ response'.len = response.len /\ Len(emitted') = h BY <1>8, <1>9 DEF s
<1>14. Len(emitted') <= response'.len BY <1>4, <1>13
<1>15. CASE f.mode \in {"None", "Fixed"} /\ f.len = 0 /\ body_state' = Done
  <2>1. body_state'.s = "Done" BY <1>15 DEF Done, State
  <2>2. Len(emitted') = response'.len BY <1>4, <1>12, <1>13, <1>15
  <2> QED BY <1>14, <2>1, <2>2 DEF InStep
<1>16. CASE f.mode = "Fixed" /\ f.len > 0 /\ body_state' = State("FixedLength", f.len)
  <2>1. body_state'.s = "FixedLength" /\ body_state'.remaining = f.len BY <1>16 DEF State
  <2>2. f.len \in Nat \ {0} /\ Len(emitted') + f.len = response'.len BY <1>7, <1>12, <1>13, <1>16
  <2> QED BY <1>14, <2>1, <2>2 DEF InStep
<1>17. CASE f.mode = "Chunked" /\ body_state' = ExpectSize
  <2>1. body_state'.s = "ExpectSize" BY <1>17 DEF ExpectSize, State
  <2>2. HeadFraming(response'.atoms, h).mode = "Chunked" /\ Len(emitted') \in starts BY <1>11, <1>12, <1>13, <1>17
  <2> QED BY <1>14, <2>1, <2>2 DEF InStep
<1>18. CASE f.mode \in {"UntilClose", "Invalid"} /\ body_state' = State("UntilEof", 0)
  <2>1. body_state'.s = "UntilEof" BY <1>18 DEF State
  <2>2. response'.len = Len(response'.atoms) BY <1>12, <1>13, <1>18
  <2> QED BY <1>14, <2>1, <2>2 DEF InStep
<1> QED BY <1>5, <1>15, <1>16, <1>17, <1>18

\* The codec refuses no part of a well-formed message.
LEMMA NothingRefused ==
  ASSUME ResponsesAreDescribed, StreamType, NEW h, NEW starts, Framed(h, starts), InStep(h, starts), DecodeError
  PROVE  FALSE
<1> DEFINE s == response.atoms
           p == Len(emitted)
           b == Len(buf)
<1>1. p \in Nat /\ b \in Nat /\ Len(s) \in Nat /\ \A i \in 1..b : buf[i] = s[p + i] BY InPlace
<1>2. HasLine BY DEF DecodeError
<1>3. 1 \in 1..b BY <1>1, <1>2 DEF HasLine
<1> HIDE DEF b
<1>4. buf[1] = s[p + 1] BY <1>1, <1>3
<1>5. CASE body_state = Headers /\ ~first_line /\ buf[1].t = "ws"
  <2>1. body_state.s = "Headers" BY <1>5 DEF Headers, State
  <2>2. /\ h \in 3..Len(s) /\ s[h].t = "nl"
        /\ \A i \in 1..(h - 2) : s[i].t = "nl" => s[i + 1].t \notin {"nl", "ws"}
        /\ p < h /\ (p = 0 \/ s[p].t = "nl") /\ (first_line <=> p = 0)
    BY <2>1, InTheHead
  <2> HIDE DEF s, p
  <2>3. s[p + 1].t = "ws" /\ p # 0 BY <1>4, <1>5, <2>2
  <2>4. ~(p \in 1..(h - 2)) BY <2>2, <2>3
  <2>5. p + 1 = h BY <1>1, <2>2, <2>3, <2>4
  <2> QED BY <2>2, <2>3, <2>5
<1>6. CASE body_state = ExpectSize /\ (CrlfAt(1) \/ ~Parses(buf[1].value))
  <2>1. body_state.s = "ExpectSize" BY <1>6 DEF ExpectSize, State
  <2>2. HeadFraming(s, h).mode = "Chunked" /\ p \in starts BY <2>1 DEF InStep
  <2>3. ChunkAt(s, p, starts, response.len) BY <2>2, ChunkedBody
  <2>4. s[p + 1].t = "size" /\ Parses(s[p + 1].value) BY <2>3 DEF ChunkAt
  <2> HIDE DEF s, p
  <2> QED BY <1>4, <1>6, <2>4 DEF CrlfAt
<1> QED BY <1>5, <1>6 DEF DecodeError

\* A message has a head, and chunks if the head says so.
LEMMA MessageFramed ==
  ASSUME ResponsesAreDescribed, StreamType, ~response.malformed
  PROVE  \E h \in 1..response.len, starts \in SUBSET (0..response.len) : Framed(h, starts)
<1> DEFINE s == response.atoms
           len == response.len
<1>1. Message(s, len) /\ len \in Nat BY ResponseType
<1>2. PICK h \in 1..len :
        /\ HeadEnds(s, h)
        /\ LET framing == HeadFraming(s, h)
           IN CASE framing.mode \in {"None", "Fixed"} -> len = h + framing.len
                [] framing.mode = "Chunked" ->
                     \E starts \in SUBSET (h..len) : h \in starts /\ \A p \in starts : ChunkAt(s, p, starts, len)
                [] framing.mode \in {"UntilClose", "Invalid"} -> len = Len(s)
  BY <1>1 DEF Message
<1> DEFINE mode == HeadFraming(s, h).mode
<1>3. h <= len /\ h \in Nat BY <1>1
<1>4. CASE mode = "Chunked"
  <2>1. PICK starts \in SUBSET (h..len) : h \in starts /\ \A p \in starts : ChunkAt(s, p, starts, len) BY <1>2, <1>4
  <2>2. starts \in SUBSET (0..len) BY <1>1, <1>3
  <2>3. Framed(h, starts) BY <1>2, <1>3, <1>4, <2>1 DEF Framed
  <2> QED BY <2>2, <2>3
<1>5. CASE mode # "Chunked"
  <2>1. mode \in {"None", "Fixed"} => len = h + HeadFraming(s, h).len BY <1>2
  <2>2. mode \in {"UntilClose", "Invalid"} => len = Len(s) BY <1>2
  <2>3. Framed(h, {}) BY <1>2, <1>3, <1>5, <2>1, <2>2 DEF Framed
  <2> QED BY <2>3
<1> QED BY <1>4, <1>5

\* The message stays what it is.
LEMMA FramedStays ==
  ASSUME NEW h, NEW starts, Framed(h, starts), response' = response
  PROVE  Framed(h, starts)'
BY DEF Framed

\* The codec stays in step when it yields nothing.
LEMMA InStepStays ==
  ASSUME NEW h, NEW starts, InStep(h, starts), UNCHANGED <<response, first_line, session, emitted>>, closed => closed',
         body_state' = body_state \/ (body_state'.s = "Done" /\ closed')
  PROVE  InStep(h, starts)'
<1>1. CASE body_state' = body_state BY <1>1 DEF InStep, InHead, InTrailers
<1>2. CASE body_state'.s = "Done" /\ closed'
  <2>1. Len(emitted') <= response'.len BY DEF InStep
  <2> QED BY <1>2, <2>1 DEF InStep
<1> QED BY <1>1, <1>2

\* At the start nothing is yielded of the head.
LEMMA MessageInvInit ==
  ASSUME ResponsesAreDescribed, Init
  PROVE  MessageInv
<1> SUFFICES ASSUME ~response.malformed PROVE MessageInv BY DEF MessageInv
<1>1. /\ response \in Responses /\ emitted = <<>> /\ body_state = Headers /\ first_line = TRUE /\ session = NewSession
      /\ eof = FALSE /\ outcome = "open"
  BY DEF Init
<1>2. StreamType BY StreamTypeInit
<1>3. PICK h \in 1..response.len, starts \in SUBSET (0..response.len) : Framed(h, starts) BY <1>2, MessageFramed
<1>4. Len(emitted) = 0 /\ 0 < h /\ response.len \in Nat BY <1>1, <1>2, ResponseType
<1>5. body_state.s = "Headers" BY <1>1 DEF Headers, State
<1>6. Learnt(session, response.atoms, 0)
  <2>1. \A m \in Matcher : session.results[m] = {} BY <1>1 DEF NewSession
  <2>2. \A m : LinesOf(response.atoms, 0, m) = {} BY DEF LinesOf
  <2>3. \A m : FirstValue(response.atoms, 0, m) = {} BY <2>2 DEF FirstValue, FirstOf
  <2> QED BY <2>1, <2>3 DEF Learnt
<1>7. InHead(h, Len(emitted)) BY <1>1, <1>4, <1>6 DEF InHead
<1>8. InStep(h, starts) BY <1>4, <1>5, <1>7 DEF InStep
<1> QED BY <1>1, <1>3, <1>8 DEF MessageInv

\* A step of the codec.
LEMMA MessageDecode ==
  ASSUME ResponsesAreDescribed, StreamType, NEW h \in Nat, NEW starts, Framed(h, starts), InStep(h, starts),
         eof => closed, outcome # "err", outcome = "none" => closed \/ Len(emitted) = response.len, Decode
  PROVE  /\ response' = response /\ InStep(h, starts)' /\ (eof' => closed') /\ outcome' # "err"
         /\ outcome' = "none" => closed' \/ Len(emitted') = response'.len
<1>1. ~DecodeError BY NothingRefused
<1>2. CASE DecodeNothing \/ Complete
  <2>1. UNCHANGED <<response, first_line, session, emitted, closed, eof>>
    BY <1>2 DEF DecodeNothing, Complete, socketVars
  <2>2. body_state' = body_state \/ (body_state'.s = "Done" /\ closed')
    BY <1>2, <2>1 DEF DecodeNothing, Complete, Done, State
  <2>3. InStep(h, starts)' BY <2>1, <2>2, InStepStays
  <2>4. outcome' # "err" BY <1>2 DEF DecodeNothing, Complete
  <2>5. outcome' = "none" => closed' \/ Len(emitted') = response'.len
    <3>1. CASE DecodeNothing BY <2>1, <3>1 DEF DecodeNothing
    <3>2. CASE Complete
      <4>1. body_state.s = "Done" BY <3>2 DEF Complete, Done, State
      <4> QED BY <2>1, <4>1 DEF InStep
    <3> QED BY <1>2, <3>1, <3>2
  <2> QED BY <2>1, <2>3, <2>4, <2>5
<1>3. CASE ~(DecodeNothing \/ Complete)
  <2>1. InStep(h, starts)'
    <3>1. CASE DecodeEndOfHeaders BY <3>1, EndInStep
    <3>2. CASE DecodeFixed BY <3>2, FixedInStep
    <3>3. CASE DecodeData BY <3>3, DataInStep
    <3>4. CASE DecodeDataCrlf BY <3>4, CrlfInStep
    <3>5. CASE DecodeUntilEof BY <3>5, UntilEofInStep
    <3>6. CASE \E i \in 1..Len(buf) : DecodeHeaderLine(i) \/ DecodeSize(i) \/ DecodeTrailer(i)
      BY <3>6, LineInStep, SizeInStep, TrailerInStep
    <3> QED BY <1>1, <1>3, <3>1, <3>2, <3>3, <3>4, <3>5, <3>6 DEF Decode
  <2>2. Decoding /\ \E n, next : Yield(n, next)
    <3>1. CASE \E i \in 1..Len(buf) : DecodeHeaderLine(i) \/ DecodeSize(i) \/ DecodeTrailer(i)
      BY <3>1 DEF DecodeHeaderLine, DecodeSize, DecodeTrailer
    <3>2. CASE DecodeEndOfHeaders BY <3>2 DEF DecodeEndOfHeaders
    <3>3. CASE DecodeFixed \/ DecodeData BY <3>3 DEF DecodeFixed, DecodeData
    <3>4. CASE DecodeDataCrlf \/ DecodeUntilEof BY <3>4 DEF DecodeDataCrlf, DecodeUntilEof
    <3> QED BY <1>1, <1>3, <3>1, <3>2, <3>3, <3>4 DEF Decode
  <2>3. response' = response /\ eof' = eof /\ closed' = closed /\ outcome' = outcome /\ outcome = "open"
    BY <2>2 DEF Yield, socketVars, Decoding
  <2> QED BY <2>1, <2>3
<1> QED BY <1>2, <1>3

\* Every step stays in step with the message.
LEMMA MessageInvNext ==
  ASSUME ResponsesAreDescribed, StreamType, MessageInv, [Next]_vars
  PROVE  MessageInv'
<1>1. response' = response
  <2>1. CASE Decode
    <3>1. response' = response \/ \E n, next : Yield(n, next)
      BY <2>1 DEF Decode, DecodeHeaderLine, DecodeSize, DecodeTrailer, DecodeEndOfHeaders, DecodeFixed, DecodeData,
                  DecodeDataCrlf, DecodeUntilEof, DecodeError, DecodeNothing, Complete, socketVars
    <3> QED BY <3>1 DEF Yield, socketVars
  <2>2. CASE ~Decode
    BY <2>2 DEF Next, StreamStep, ServerStep, Read, ReadEof, Arrive, Close, vars, socketVars
  <2> QED BY <2>1, <2>2
<1> SUFFICES ASSUME ~response.malformed PROVE MessageInv' BY <1>1 DEF MessageInv
<1>2. /\ eof => closed
      /\ outcome # "err"
      /\ outcome = "none" => closed \/ Len(emitted) = response.len
  BY DEF MessageInv
<1>3. PICK h \in 1..response.len, starts \in SUBSET (0..response.len) : Framed(h, starts) /\ InStep(h, starts)
  BY DEF MessageInv
<1>4. h \in Nat BY ResponseType
<1>5. Framed(h, starts)' BY <1>1, <1>3, FramedStays
<1> SUFFICES /\ InStep(h, starts)' /\ (eof' => closed') /\ outcome' # "err"
             /\ outcome' = "none" => closed' \/ Len(emitted') = response'.len
  BY <1>1, <1>3, <1>5 DEF MessageInv
<1>6. CASE Decode BY <1>2, <1>3, <1>4, <1>6, MessageDecode
<1>7. CASE ~Decode
  <2>1. /\ UNCHANGED <<response, first_line, session, emitted, body_state, outcome>> /\ (closed => closed')
        /\ eof' => eof \/ closed'
    BY <1>7 DEF Next, StreamStep, ServerStep, Read, ReadEof, Arrive, Close, vars, socketVars
  <2>2. InStep(h, starts)' BY <1>3, <2>1, InStepStays
  <2> QED BY <1>2, <2>1, <2>2
<1> QED BY <1>6, <1>7

\* ResponseCodec refuses no well-formed response, yields no byte after its end, and
\* a stream that ends on an open connection has yielded it to its last byte: for
\* heads of any number of lines, bodies of any length in any number of chunks, and
\* pieces of any size.
THEOREM MessageEndsAtTheEnd == Spec => []EndsAtTheEnd
<1>1. Init => StreamType /\ MessageInv BY ResponseAssumption, StreamTypeInit, MessageInvInit
<1>2. StreamType /\ MessageInv /\ [Next]_vars => (StreamType /\ MessageInv)'
  BY ResponseAssumption, StreamTypeNext, MessageInvNext
<1>3. StreamType /\ MessageInv => EndsAtTheEnd
  <2> SUFFICES ASSUME StreamType, MessageInv, ~response.malformed PROVE EndsAtTheEnd BY DEF EndsAtTheEnd
  <2>1. outcome # "err" /\ (outcome = "none" => closed \/ Len(emitted) = response.len) BY DEF MessageInv
  <2>2. Len(emitted) <= response.len BY DEF MessageInv, InStep
  <2> QED BY <2>1, <2>2 DEF EndsAtTheEnd
<1> QED BY <1>1, <1>2, <1>3, PTL DEF Spec
================================================================================
