----------------------------- MODULE ResponseStream -----------------------------
(***************************************************************************)
(* How an upstream server's bytes become one response: ResponseCodec       *)
(* (carriage/src/http/response_codec.rs) inside tokio-util's FramedRead,   *)
(* inside ResponseFrameStream (carriage/src/http/response_parser.rs).      *)
(*                                                                         *)
(* Bytes are abstracted to atoms: a CRLF, the text of a line with what the *)
(* codec reads from it, leading white space, or a byte of the body. The    *)
(* socket hands them over in pieces of any size.                           *)
(***************************************************************************)
EXTENDS HttpDerive

CONSTANT
  Responses   \* what servers send: the atoms, and where the response ends

Atom == [t : {"nl", "ws", "status", "header", "size", "d"}, name : STRING, value : Seq(STRING)]

\* The first h atoms are a status line, headers, none of them folded, and the
\* first empty line.
HeadEnds(s, h) ==
  /\ h \in 3..Len(s) /\ s[1].t = "status" /\ s[h - 1].t = "nl" /\ s[h].t = "nl"
  /\ \A i \in 1..(h - 2) : s[i].t = "nl" => s[i + 1].t \notin {"nl", "ws"}

\* What the first n atoms say to a matcher: its first line, if any.
LinesOf(s, n, m) == IF m = "RequestLineVersion" THEN {1} \cap 1..n
                    ELSE {i \in 2..n : s[i - 1].t = "nl" /\ s[i].name = m}
FirstOf(s, lines) == {s[i].value : i \in {j \in lines : \A k \in lines : j <= k}}
FirstValue(s, n, m) == FirstOf(s, LinesOf(s, n, m))

HeadFraming(s, h) ==
  BodyFraming([results |-> [m \in Matcher |-> FirstValue(s, h - 1, m)], conflicts |-> {}])

\* Behind p comes a chunk, and then another one, or the last one with its
\* trailers, which end with the first empty line, at the end of the response.
ChunkAt(s, p, starts, len) ==
  LET n == ParsedLength(s[p + 1].value)
  IN /\ p + 3 <= len /\ s[p + 1].t = "size" /\ Parses(s[p + 1].value) /\ s[p + 2].t = "nl"
     /\ n > 0 => p + n + 3 \in starts
     /\ n = 0 => /\ s[len - 1].t = "nl" /\ s[len].t = "nl"
                 /\ \A i \in (p + 2)..(len - 2) : s[i].t = "nl" => s[i + 1].t # "nl"

\* The response ends where its head says.
Message(s, len) ==
  \E h \in 1..len :
    /\ HeadEnds(s, h)
    /\ LET framing == HeadFraming(s, h)
       IN CASE framing.mode \in {"None", "Fixed"} -> len = h + framing.len
            [] framing.mode = "Chunked" ->
                 \E starts \in SUBSET (h..len) : h \in starts /\ \A p \in starts : ChunkAt(s, p, starts, len)
            [] framing.mode \in {"UntilClose", "Invalid"} -> len = Len(s)

ResponsesAreDescribed ==
  \A r \in Responses :
    /\ r.atoms \in Seq(Atom) /\ r.len \in 0..Len(r.atoms) /\ r.malformed \in BOOLEAN
    /\ ~r.malformed => Message(r.atoms, r.len)

ASSUME ResponseAssumption == ResponsesAreDescribed

VARIABLES
  response,               \* the member of Responses this connection carries
  arrived, closed,        \* the socket: atoms that can be read, the server has closed
  taken,                  \* atoms FramedRead has taken from the socket
  buf, readable, eof,     \* FramedRead
  body_state, first_line, session,   \* ResponseCodec
  emitted,                \* history: the bytes of the items yielded
  outcome                 \* of the stream: "open", "none" or "err"

socketVars == <<response, arrived, closed>>
vars == <<response, arrived, closed, taken, buf, readable, eof, body_state, first_line, session, emitted,
          outcome>>

State(s, remaining) == [s |-> s, remaining |-> remaining]
Headers == State("Headers", 0)
Done == State("Done", 0)
ExpectSize == State("ExpectSize", 0)

CrlfAt(i) == i \in 1..Len(buf) /\ buf[i].t = "nl" /\ \A j \in 1..(i - 1) : buf[j].t # "nl"
HasLine == \E i \in 1..Len(buf) : buf[i].t = "nl"

Min2(a, b) == IF a < b THEN a ELSE b

-----------------------------------------------------------------------------
Init ==
  /\ response \in Responses
  /\ arrived = 0 /\ closed = FALSE /\ taken = 0
  /\ buf = <<>> /\ readable = FALSE /\ eof = FALSE
  /\ body_state = Headers /\ first_line = TRUE /\ session = NewSession
  /\ emitted = <<>>
  /\ outcome = "open"

(* The server *)

Arrive(n) ==
  /\ ~closed /\ arrived + n <= Len(response.atoms)
  /\ arrived' = arrived + n
  /\ UNCHANGED <<response, closed, taken, buf, readable, eof, body_state, first_line, session, emitted, outcome>>

Close ==
  /\ ~closed
  /\ closed' = TRUE
  /\ UNCHANGED <<response, arrived, taken, buf, readable, eof, body_state, first_line, session, emitted, outcome>>

(* FramedRead *)

Read(n) ==
  /\ outcome = "open" /\ body_state # Done /\ ~readable
  /\ taken + n <= arrived
  /\ buf' = buf \o SubSeq(response.atoms, taken + 1, taken + n)
  /\ taken' = taken + n
  /\ readable' = TRUE /\ eof' = FALSE
  /\ UNCHANGED <<socketVars, body_state, first_line, session, emitted, outcome>>

ReadEof ==
  /\ outcome = "open" /\ body_state # Done /\ ~readable /\ ~eof
  /\ closed /\ taken = arrived
  /\ readable' = TRUE /\ eof' = TRUE
  /\ UNCHANGED <<socketVars, taken, buf, body_state, first_line, session, emitted, outcome>>

Decoding == outcome = "open" /\ readable

\* An item with the first n atoms of the buffer.
Yield(n, next) ==
  /\ emitted' = emitted \o SubSeq(buf, 1, n)
  /\ buf' = SubSeq(buf, n + 1, Len(buf))
  /\ body_state' = next
  /\ UNCHANGED <<socketVars, taken, readable, eof, outcome>>

\* A variant that waits for the bytes of an empty body.
DecodeEndOfHeadersWaits ==
  LET framing == BodyFraming(session)
  IN /\ Decoding /\ body_state = Headers
     /\ CrlfAt(1)
     /\ Yield(1, CASE framing.mode = "None" -> Done
                   [] framing.mode = "Fixed" -> State("FixedLength", framing.len)
                   [] framing.mode = "Chunked" -> ExpectSize
                   [] framing.mode \in {"UntilClose", "Invalid"} -> State("UntilEof", 0))
     /\ UNCHANGED <<first_line, session>>

\* decode_headers, the empty line: the headers decide how the body is framed.
DecodeEndOfHeaders ==
  LET framing == BodyFraming(session)
  IN /\ Decoding /\ body_state = Headers
     /\ CrlfAt(1)
     /\ Yield(1, CASE framing.mode = "None" \/ framing = Framing("Fixed", 0) -> Done
                   [] framing.mode = "Fixed" /\ framing.len > 0 -> State("FixedLength", framing.len)
                   [] framing.mode = "Chunked" -> ExpectSize
                   [] framing.mode \in {"UntilClose", "Invalid"} -> State("UntilEof", 0))
     /\ UNCHANGED <<first_line, session>>

\* decode_headers, a line: the version of the status line is fed to the session
\* as that of a request line.
DecodeHeaderLine(i) ==
  /\ Decoding /\ body_state = Headers
  /\ i > 1 /\ CrlfAt(i)
  /\ first_line \/ buf[1].t # "ws"
  /\ first_line' = FALSE
  /\ session' = Feed(session, [phase |-> IF first_line THEN "RequestLine" ELSE "Header",
                               name |-> buf[1].name, value |-> buf[1].value])
  /\ Yield(i, Headers)

\* decode_headers rejects a folded header, decode_chunked a size that is not a
\* hexadecimal number.
DecodeError ==
  /\ Decoding
  /\ \/ /\ body_state = Headers /\ ~first_line
        /\ HasLine /\ ~CrlfAt(1) /\ buf[1].t = "ws"
     \/ /\ body_state = ExpectSize
        /\ HasLine /\ (CrlfAt(1) \/ ~Parses(buf[1].value))
  /\ outcome' = "err"
  /\ UNCHANGED <<socketVars, taken, buf, readable, eof, body_state, first_line, session, emitted>>

\* A variant that takes all that is buffered.
DecodeFixedAll ==
  /\ Decoding /\ body_state.s = "FixedLength" /\ buf # <<>>
  /\ Yield(Len(buf), IF Len(buf) >= body_state.remaining THEN Done
                     ELSE State("FixedLength", body_state.remaining - Len(buf)))
  /\ UNCHANGED <<first_line, session>>

\* decode_fixed_length
DecodeFixed ==
  LET n == Min2(body_state.remaining, Len(buf))
  IN /\ Decoding /\ body_state.s = "FixedLength" /\ buf # <<>>
     /\ Yield(n, IF n = body_state.remaining THEN Done
                 ELSE State("FixedLength", body_state.remaining - n))
     /\ UNCHANGED <<first_line, session>>

\* A variant that does not pass the size line on.
DecodeSizeSilently(i) ==
  /\ Decoding /\ body_state = ExpectSize
  /\ i > 1 /\ CrlfAt(i) /\ Parses(buf[1].value)
  /\ buf' = SubSeq(buf, i + 1, Len(buf))
  /\ body_state' = IF ParsedLength(buf[1].value) = 0 THEN State("TrailerOrEnd", 0)
                   ELSE State("Data", ParsedLength(buf[1].value))
  /\ UNCHANGED <<socketVars, taken, readable, eof, first_line, session, emitted, outcome>>

\* decode_chunked, ExpectSize
DecodeSize(i) ==
  /\ Decoding /\ body_state = ExpectSize
  /\ i > 1 /\ CrlfAt(i) /\ Parses(buf[1].value)
  /\ Yield(i, IF ParsedLength(buf[1].value) = 0 THEN State("TrailerOrEnd", 0)
              ELSE State("Data", ParsedLength(buf[1].value)))
  /\ UNCHANGED <<first_line, session>>

\* decode_chunked, Data
DecodeData ==
  LET n == Min2(body_state.remaining, Len(buf))
  IN /\ Decoding /\ body_state.s = "Data" /\ buf # <<>>
     /\ Yield(n, IF n = body_state.remaining THEN State("ExpectDataCrlf", 0)
                 ELSE State("Data", body_state.remaining - n))
     /\ UNCHANGED <<first_line, session>>

\* decode_chunked, ExpectDataCrlf: two bytes, whatever they are.
DecodeDataCrlf ==
  /\ Decoding /\ body_state.s = "ExpectDataCrlf" /\ buf # <<>>
  /\ Yield(1, ExpectSize)
  /\ UNCHANGED <<first_line, session>>

\* decode_chunked, TrailerOrEnd: a trailer, or the empty line that ends it all.
DecodeTrailer(i) ==
  /\ Decoding /\ body_state.s = "TrailerOrEnd"
  /\ CrlfAt(i)
  /\ Yield(i, IF i = 1 THEN Done ELSE body_state)
  /\ UNCHANGED <<first_line, session>>

\* UntilEof, in decode and in decode_eof: all there is.
DecodeUntilEof ==
  /\ Decoding /\ body_state.s = "UntilEof" /\ buf # <<>>
  /\ Yield(Len(buf), IF eof THEN Done ELSE body_state)
  /\ UNCHANGED <<first_line, session>>

NeedsMore ==
  CASE body_state.s \in {"Headers", "ExpectSize", "TrailerOrEnd"} -> ~HasLine
    [] body_state.s = "Done" -> FALSE
    [] OTHER -> buf = <<>>

\* decode has no item: read more, or at the end of the input None. An answer
\* that the server broke off ends like one that is complete.
DecodeNothing ==
  /\ Decoding /\ NeedsMore
  /\ readable' = FALSE
  /\ outcome' = IF eof THEN "none" ELSE "open"
  /\ body_state' = IF eof /\ body_state.s = "UntilEof" THEN Done ELSE body_state
  /\ UNCHANGED <<socketVars, taken, buf, eof, first_line, session, emitted>>

\* is_response_complete: the stream yields None from now on.
Complete ==
  /\ outcome = "open" /\ body_state = Done
  /\ outcome' = "none"
  /\ UNCHANGED <<socketVars, taken, buf, readable, eof, body_state, first_line, session, emitted>>

Decode ==
  \/ DecodeEndOfHeaders \/ DecodeError \/ DecodeFixed \/ DecodeData \/ DecodeDataCrlf
  \/ DecodeUntilEof \/ DecodeNothing \/ Complete
  \/ \E i \in 1..Len(buf) : DecodeHeaderLine(i) \/ DecodeSize(i) \/ DecodeTrailer(i)

StreamStep == Decode \/ ReadEof \/ \E n \in 1..(arrived - taken) : Read(n)
ServerStep == \E n \in 1..Len(response.atoms) : Arrive(n)

Next == StreamStep \/ ServerStep \/ Close

\* The relay loop polls the stream until it ends, and the server sends its
\* response to the end. It need not close the connection.
Fairness == WF_vars(StreamStep) /\ WF_vars(ServerStep)

Spec == Init /\ [][Next]_vars
FairSpec == Spec /\ Fairness

-----------------------------------------------------------------------------
(* Properties *)

\* The items carry the server's bytes unchanged and in order: what was yielded
\* and what is buffered is what was read.
BytesKept == emitted \o buf = SubSeq(response.atoms, 1, taken)

\* A well-formed response is never refused, the stream never yields a byte after
\* its end, and when it ends on an open connection it has yielded the response to
\* its last byte, however the socket cut it.
EndsAtTheEnd ==
  ~response.malformed =>
     /\ outcome # "err"
     /\ Len(emitted) <= response.len
     /\ outcome = "none" /\ ~closed => Len(emitted) = response.len

\* The stream ends once the response is there, without waiting for the server
\* to close the connection.
EndsWithoutClose ==
  ~response.untilClose ~> (outcome # "open" \/ closed)
=================================================================================
