--------------------------- MODULE HttpRequestStream ---------------------------
(***************************************************************************)
(* How a client's bytes become requests: HttpStreamingCodec                *)
(* (carriage/src/http/codec.rs) inside tokio-util's FramedRead, inside     *)
(* HttpFrameStream (carriage/src/http/parser.rs), read by                  *)
(* Pipeline::do_connection.                                                *)
(*                                                                         *)
(* Bytes are abstracted to atoms: "nl" is a CRLF, the others stand for the *)
(* text of a request line, of a header, of a header that a matcher         *)
(* rewrites, for leading white space and for body bytes. The socket hands  *)
(* the atoms over in pieces of any size.                                   *)
(***************************************************************************)
EXTENDS Naturals, Sequences, SequencesExt

\* What clients may do: the requests they send, each a sequence of atoms, and
\* whether they send the next one before the answer to the last.
CONSTANT Clients

Atom == {"rl", "h", "m", "ws", "b", "nl"}
Rewritten == "M"   \* a header with the value a matcher put there

ASSUME StreamAssumption ==
  \A c \in Clients : c.script \in Seq(Seq(Atom)) /\ c.pipelined \in BOOLEAN

VARIABLES
  sent, net, closed,                \* client and socket
  buf, readable, eof, errored,      \* FramedRead
  done, first_line,                 \* HttpStreamingCodec
  headers_done, yielded_none,       \* HttpFrameStream
  polling,                          \* the branch of poll_next that waits for FramedRead
  phase, cur, forwarded,            \* do_connection
  client                            \* the client; it never changes

clientVars == <<sent, net, closed, client>>
framedVars == <<buf, readable, eof, errored>>
codecVars == <<done, first_line>>
streamVars == <<headers_done, yielded_none>>
vars == <<sent, net, closed, buf, readable, eof, errored, done, first_line,
          headers_done, yielded_none, polling, phase, cur, forwarded, client>>

Script == client.script
Pipelined == client.pipelined
Input == FlattenSeq(Script)

\* Atoms the client may have sent by now.
Allowed ==
  LET begun == Len(forwarded) + IF phase = "busy" THEN 0 ELSE 1
  IN IF Pipelined \/ begun > Len(Script)
       THEN Len(Input)
       ELSE Len(FlattenSeq(SubSeq(Script, 1, begun)))

-----------------------------------------------------------------------------
(* What do_connection does with an item of the stream *)

Idle == polling' = "idle"

Keep(bytes, routing) ==
  /\ Idle
  /\ cur' = cur \o bytes
  /\ phase' = IF routing THEN "post" ELSE phase
  /\ UNCHANGED forwarded

\* None or an error: before the routing key the connection ends, after it the
\* request goes to the server as it is.
Stop ==
  /\ Idle
  /\ phase' = IF phase = "pre" THEN "ended" ELSE "busy"
  /\ forwarded' = IF phase = "pre" THEN forwarded ELSE Append(forwarded, cur)
  /\ cur' = IF phase = "pre" THEN cur ELSE <<>>

-----------------------------------------------------------------------------
Init ==
  /\ sent = 0 /\ net = <<>> /\ closed = FALSE
  /\ buf = <<>> /\ readable = FALSE /\ eof = FALSE /\ errored = FALSE
  /\ done = FALSE /\ first_line = TRUE
  /\ headers_done = FALSE /\ yielded_none = FALSE
  /\ polling = "idle"
  /\ phase = "pre" /\ cur = <<>> /\ forwarded = <<>>
  /\ client \in Clients

(* The client *)

Send(n) ==
  /\ ~closed /\ sent + n <= Allowed
  /\ net' = net \o SubSeq(Input, sent + 1, sent + n)
  /\ sent' = sent + n
  /\ UNCHANGED <<closed, client, framedVars, codecVars, streamVars, polling, phase, cur, forwarded>>

Close ==
  /\ ~closed
  /\ closed' = TRUE
  /\ UNCHANGED <<sent, net, client, framedVars, codecVars, streamVars, polling, phase, cur, forwarded>>

(* HttpFrameStream::poll_next *)

Polled == polling = "idle" /\ phase \in {"pre", "post"}

PollHeaders ==
  /\ Polled /\ ~headers_done
  /\ polling' = "normal"
  /\ UNCHANGED <<clientVars, framedVars, codecVars, streamVars, phase, cur, forwarded>>

\* After the headers drain_buffer looks for more of the body. It never finds any
\* (BodyNeverDrained), so None marks the end of the request.
PollEnd ==
  /\ Polled /\ headers_done /\ buf = <<>> /\ ~yielded_none
  /\ yielded_none' = TRUE
  /\ Stop
  /\ UNCHANGED <<clientVars, framedVars, codecVars, headers_done>>

\* A variant that does not reset the codec.
PollResetKeepsCodec ==
  /\ Polled /\ headers_done /\ buf = <<>> /\ yielded_none
  /\ headers_done' = FALSE /\ yielded_none' = FALSE
  /\ polling' = "reset"
  /\ UNCHANGED <<clientVars, framedVars, codecVars, phase, cur, forwarded>>

\* The next cycle: reset the codec and poll FramedRead at once.
PollReset ==
  /\ Polled /\ headers_done /\ buf = <<>> /\ yielded_none
  /\ headers_done' = FALSE /\ yielded_none' = FALSE
  /\ done' = FALSE /\ first_line' = TRUE
  /\ polling' = "reset"
  /\ UNCHANGED <<clientVars, framedVars, phase, cur, forwarded>>

(* FramedRead::poll_next with the codec's decode and decode_eof *)

Inner == polling # "idle"

AfterError ==
  /\ Inner /\ errored
  /\ errored' = FALSE /\ readable' = FALSE
  /\ Stop
  /\ UNCHANGED <<clientVars, buf, eof, codecVars, streamVars>>

HasLine == ~done /\ \E i \in 1..Len(buf) : buf[i] = "nl"

\* find_crlf: the position of the first CRLF.
FindCrlf == CHOOSE i \in 1..Len(buf) : buf[i] = "nl" /\ \A j \in 1..(i - 1) : buf[j] # "nl"

\* Variants that lose the empty line, or the body that came with it.
DecodeEndOfHeadersAs(bytes) ==
  /\ Inner /\ readable /\ ~errored
  /\ HasLine /\ FindCrlf = 1
  /\ done' = TRUE /\ headers_done' = TRUE
  /\ buf' = <<>>
  /\ Keep(bytes, FALSE)
  /\ UNCHANGED <<clientVars, readable, eof, errored, first_line, yielded_none>>
DecodeEndOfHeadersNoSeparator == DecodeEndOfHeadersAs(Tail(buf))
DecodeEndOfHeadersNoBody == DecodeEndOfHeadersAs(<<"nl">>)

\* An empty line. In the normal branch the body that is already there follows
\* as one piece; after a reset the frame is passed on as any other.
DecodeEndOfHeaders ==
  /\ Inner /\ readable /\ ~errored
  /\ HasLine /\ FindCrlf = 1
  /\ done' = TRUE
  /\ IF polling = "normal"
       THEN headers_done' = TRUE /\ buf' = <<>> /\ Keep(buf, FALSE)
       ELSE UNCHANGED headers_done /\ buf' = Tail(buf) /\ Keep(<<"nl">>, FALSE)
  /\ UNCHANGED <<clientVars, readable, eof, errored, first_line, yielded_none>>

Rewrite(line) == [i \in 1..Len(line) |-> IF line[i] = "m" THEN Rewritten ELSE line[i]]

\* A line with text: the request line (it carries the routing key) or a header.
DecodeLine ==
  LET line == SubSeq(buf, 1, FindCrlf)
  IN /\ Inner /\ readable /\ ~errored
     /\ HasLine /\ FindCrlf > 1
     /\ first_line \/ buf[1] # "ws"
     /\ first_line' = FALSE
     /\ buf' = SubSeq(buf, FindCrlf + 1, Len(buf))
     /\ IF first_line THEN Keep(line, TRUE) ELSE Keep(Rewrite(line), FALSE)
     /\ UNCHANGED <<clientVars, readable, eof, errored, done, streamVars>>

\* A folded header is an error; the line stays in the buffer.
DecodeFold ==
  /\ Inner /\ readable /\ ~errored
  /\ HasLine /\ FindCrlf > 1 /\ ~first_line /\ buf[1] = "ws"
  /\ errored' = TRUE
  /\ Stop
  /\ UNCHANGED <<clientVars, buf, readable, eof, codecVars, streamVars>>

\* No frame yet: read again, or None at the end of the input.
DecodeNothing ==
  /\ Inner /\ readable /\ ~errored /\ ~HasLine
  /\ readable' = FALSE
  /\ IF eof THEN Stop ELSE UNCHANGED <<polling, phase, cur, forwarded>>
  /\ UNCHANGED <<clientVars, buf, eof, errored, codecVars, streamVars>>

Read(n) ==
  /\ Inner /\ ~readable /\ ~errored
  /\ n <= Len(net)
  /\ buf' = buf \o SubSeq(net, 1, n)
  /\ net' = SubSeq(net, n + 1, Len(net))
  /\ readable' = TRUE /\ eof' = FALSE
  /\ UNCHANGED <<sent, closed, client, errored, codecVars, streamVars, polling, phase, cur, forwarded>>

\* Nothing to read: poll_next returns Pending, and the next call comes through
\* the normal branch.
Pending ==
  /\ polling = "reset" /\ ~readable /\ ~errored
  /\ net = <<>> /\ ~closed
  /\ polling' = "normal"
  /\ UNCHANGED <<clientVars, framedVars, codecVars, streamVars, phase, cur, forwarded>>

ReadEof ==
  /\ Inner /\ ~readable /\ ~errored
  /\ net = <<>> /\ closed
  /\ IF eof
       THEN Stop /\ UNCHANGED <<readable, eof>>
       ELSE readable' = TRUE /\ eof' = TRUE /\ UNCHANGED <<polling, phase, cur, forwarded>>
  /\ UNCHANGED <<clientVars, buf, errored, codecVars, streamVars>>

\* The response has been relayed; do_connection starts the next cycle.
NextCycle ==
  /\ phase = "busy"
  /\ phase' = "pre"
  /\ UNCHANGED <<clientVars, framedVars, codecVars, streamVars, polling, cur, forwarded>>

StreamStep ==
  \/ PollHeaders \/ PollEnd \/ PollReset
  \/ AfterError \/ DecodeEndOfHeaders \/ DecodeLine \/ DecodeFold \/ DecodeNothing
  \/ \E n \in 1..Len(net) : Read(n)
  \/ Pending \/ ReadEof

ClientStep == \E n \in 1..Len(Input) : Send(n)

Next == StreamStep \/ NextCycle \/ ClientStep \/ Close

\* The connection task is polled whenever there is something to do, the server
\* answers, and the client sends what it has begun.
Fairness == WF_vars(StreamStep) /\ WF_vars(NextCycle) /\ WF_vars(ClientStep)

Spec == Init /\ [][Next]_vars
FairSpec == Spec /\ Fairness

-----------------------------------------------------------------------------
(* Properties *)

\* No byte is lost, repeated or moved between the socket and the upstream
\* server: what was forwarded, what is collected for the current request, what
\* FramedRead holds and what the socket holds is, in this order, what the
\* client sent. Only the header values of the matchers differ.
Original(s) == [i \in 1..Len(s) |-> IF s[i] = Rewritten THEN "m" ELSE s[i]]
Conservation ==
  Original(FlattenSeq(forwarded) \o cur) \o buf \o net = SubSeq(Input, 1, sent)

\* Each request is forwarded whole, and no part of another one with it, however
\* the socket cuts the bytes: the None of the stream is where the request ends.
WholeRequests ==
  ~closed => \A i \in 1..Len(forwarded) :
                i <= Len(Script) /\ forwarded[i] = Rewrite(Script[i])

\* A request line, headers none of which is folded, and an empty line at the end
\* and nowhere else.
WellFormed(r) ==
  LET n == Len(r)
  IN /\ n >= 3 /\ r[1] = "rl" /\ r[2] = "nl" /\ r[n - 1] = "nl" /\ r[n] = "nl"
     /\ \A i \in 1..(n - 2) : r[i] = "nl" => r[i + 1] \notin {"nl", "ws"}

\* The client waits for each answer and sends well-formed requests with no body.
Plain == ~Pipelined /\ \A i \in 1..Len(Script) : WellFormed(Script[i])

\* WholeRequests holds for such clients.
WholeWithoutBody == Plain => WholeRequests

\* Every request of such a client reaches the server unless the client closes.
AllForwarded == Plain => <>(Len(forwarded) >= Len(Script) \/ closed)
================================================================================
