------------------------------- MODULE Pipeline -------------------------------
(***************************************************************************)
(* One Pipeline (train_track/src/core/service.rs): every client connection *)
(* is a task that runs handle_connection / do_connection, and the tasks    *)
(* share upstream connections through the pool. One pass of do_connection's*)
(* loop is a cycle:                                                        *)
(*                                                                         *)
(*   pre    read frames until one carries the routing key                  *)
(*   join   get an upstream connection while reading the rest of the       *)
(*          request (tokio::join! of the two)                              *)
(*   write  write the request                                              *)
(*   relay  copy the response to the client, then close or go to pre       *)
(*                                                                         *)
(* The parser is abstracted to the items its stream yields: frames of size *)
(* one (with a routing key or not), an error, or None. The pool is used    *)
(* through the contract DestLifecycle, which Stabling implements. Clients  *)
(* and upstream servers are the environment: a client sends its next       *)
(* request when the last one has been answered in full.                    *)
(***************************************************************************)
EXTENDS Integers, Sequences, FiniteSets

CONSTANTS
  Conn, Key, Dest, NoKey, NoDest,
  MaxPre, MaxPost,   \* BufferLimits, in frames
  MaxReq,            \* bound: requests per client
  Flows,             \* the pipelines considered, see flow
  Env                \* what clients, routers and servers may do besides the regular things

\* What a builder fills in, see flow.
Wiring == [parser : {"http", "tls"}, hook : BOOLEAN, responder : BOOLEAN,
           response_parser : BOOLEAN, stabling : BOOLEAN]

ASSUME PipelineAssumption ==
  /\ NoKey \notin Key /\ NoDest \notin Dest
  /\ MaxPre \in Nat /\ MaxPost \in Nat /\ MaxReq \in Nat
  /\ Flows \subseteq Wiring
  /\ Env \subseteq {"client_close", "bad_request", "invalid_request", "request_close",
                    "route_failure", "server_close", "truncated", "surplus", "bad_response",
                    "response_close"}

VARIABLES
  pc, first_cycle, pre, post, key, verdict, should_close,  \* locals of do_connection
  route, postDone, dest, batch,
  broken,    \* the request was cut short, by an error of the request stream or the end
             \* of the client's input; the next item of the stream is None
  reqNo,     \* requests of the client that were read to their end, or as far as they came
  gone,      \* the client has closed its connection and all it sent has been read
  out,       \* what was written to the client
  routed,    \* ConnectionResult.routed, accumulated over the cycles
  upstreams, \* RecorderHandle.upstreams
  parked, bound,   \* the pool: see DestLifecycle
  tcp,       \* upstream connection: "none", "open", "fin" (server closed), "rst"
  asked,     \* requests the server has received and not answered
  wire,      \* response pieces on their way to the proxy
  flow       \* how the pipeline was built; it never changes

vars == <<pc, first_cycle, pre, post, key, verdict, should_close, route, postDone, dest, batch,
          broken, reqNo, gone, out, routed, upstreams, parked, bound, tcp, asked, wire, flow>>

(* How the repository's flows build their Pipeline: parser_factory, whether *)
(* there are a hook_factory, an error_responder, a response_parser_factory  *)
(* and a stabling_config. All HTTP flows are wired alike.                   *)
ConductorTcp == [parser |-> "http", hook |-> TRUE, responder |-> TRUE,
                 response_parser |-> TRUE, stabling |-> TRUE]
ConductorSock == ConductorTcp
ForwardHttp == ConductorTcp
ForwardHttps == ConductorTcp
ForwardHttpsToHttp == ConductorTcp
ForwardHttpToHttps == ConductorTcp

ForwardTls == [parser |-> "tls", hook |-> FALSE, responder |-> FALSE,
               response_parser |-> FALSE, stabling |-> FALSE]

\* The proxies of the test harness, one of them for a single request on each
\* connection, and a pipeline whose StablingConfig is not enabled.
TestProxy == [parser |-> "http", hook |-> FALSE, responder |-> TRUE,
              response_parser |-> FALSE, stabling |-> FALSE]
TestProxyKeepAlive == ConductorTcp
Unpooled == [ConductorTcp EXCEPT !.stabling = FALSE]

AllFlows == {ConductorTcp, ConductorSock, ForwardHttp, ForwardHttps, ForwardHttpsToHttp,
             ForwardHttpToHttps, ForwardTls, TestProxy, TestProxyKeepAlive, Unpooled}

\* Without a response parser the response is copied until the server closes. A
\* request stream yields None after each request, but that of TlsParser only
\* when the client closes.
ResponseParser == flow.response_parser
MarksEndOfRequest == flow.parser = "http"

ErrorResponse == [kind |-> "error"]

-----------------------------------------------------------------------------
(* Helpers *)

Unowned(d) == tcp[d] = "none"
Ends(s) == Cardinality({i \in 1..Len(s) : s[i].kind = "end"})

\* The client has received a full answer to all it sent.
Satisfied(c) == Ends(out[c]) = reqNo[c]
ClientSends(c) == ~gone[c] /\ ~broken[c] /\ Satisfied(c) /\ reqNo[c] < MaxReq

\* Dropping the destination closes the socket.
DropDest(c) ==
  /\ dest' = [dest EXCEPT ![c] = NoDest]
  /\ tcp' = [d \in Dest |-> IF d = dest[c] THEN "none" ELSE tcp[d]]
  /\ asked' = [d \in Dest |-> IF d = dest[c] THEN <<>> ELSE asked[d]]
  /\ wire' = [d \in Dest |-> IF d = dest[c] THEN <<>> ELSE wire[d]]

\* do_connection returns and handle_connection finishes; toClient is what is
\* still written to the client before. total is the accumulated `routed`.
End(c, toClient, total) ==
  /\ pc' = [pc EXCEPT ![c] = "ended"]
  /\ out' = [out EXCEPT ![c] = @ \o toClient]
  /\ upstreams' = IF total THEN upstreams - 1 ELSE upstreams
  /\ DropDest(c)
  /\ UNCHANGED <<first_cycle, pre, post, key, verdict, should_close, route, postDone, batch, routed,
                 reqNo, broken, gone, parked, bound, flow>>

\* A variant that counts every failed connection as routed.
FailAsRouted(c) == End(c, IF flow.responder THEN <<ErrorResponse>> ELSE <<>>, TRUE)

\* write_error_response, then return Err.
Fail(c) == End(c, IF flow.responder THEN <<ErrorResponse>> ELSE <<>>, routed[c])

-----------------------------------------------------------------------------
Init ==
  /\ pc = [c \in Conn |-> "pre"]
  /\ first_cycle = [c \in Conn |-> TRUE]
  /\ pre = [c \in Conn |-> 0] /\ post = [c \in Conn |-> 0]
  /\ key = [c \in Conn |-> NoKey]
  /\ verdict = [c \in Conn |-> "valid"]
  /\ should_close = [c \in Conn |-> FALSE]
  /\ route = [c \in Conn |-> "none"]
  /\ postDone = [c \in Conn |-> FALSE]
  /\ dest = [c \in Conn |-> NoDest]
  /\ batch = [c \in Conn |-> <<>>]
  /\ broken = [c \in Conn |-> FALSE]
  /\ reqNo = [c \in Conn |-> 0]
  /\ gone = [c \in Conn |-> FALSE]
  /\ out = [c \in Conn |-> <<>>]
  /\ routed = [c \in Conn |-> FALSE]
  /\ upstreams = 0
  /\ parked = [d \in Dest |-> {}]
  /\ \E k \in Key : bound = [d \in Dest |-> k]   \* a placeholder: none is open
  /\ tcp = [d \in Dest |-> "none"]
  /\ asked = [d \in Dest |-> <<>>]
  /\ wire = [d \in Dest |-> <<>>]
  /\ flow \in Flows

\* A variant that checks the limit before it adds the frame.
PreFrameLateLimit(c) ==
  /\ pc[c] = "pre" /\ ClientSends(c)
  /\ "bad_request" \in Env
  /\ IF pre[c] > MaxPre
       THEN Fail(c)
       ELSE /\ pre' = [pre EXCEPT ![c] = @ + 1]
            /\ UNCHANGED <<pc, first_cycle, post, key, verdict, should_close, route, postDone, dest,
                           batch, reqNo, broken, gone, out, routed, upstreams, parked, bound, tcp,
                           asked, wire, flow>>

\* Pre-route loop: a frame without a routing key (or passthrough bytes).
PreFrame(c) ==
  /\ pc[c] = "pre" /\ ClientSends(c)
  /\ "bad_request" \in Env
  /\ IF pre[c] + 1 > MaxPre
       THEN Fail(c)
       ELSE /\ pre' = [pre EXCEPT ![c] = @ + 1]
            /\ UNCHANGED <<pc, first_cycle, post, key, verdict, should_close, route, postDone, dest,
                           batch, reqNo, broken, gone, out, routed, upstreams, parked, bound, tcp,
                           asked, wire, flow>>

\* Pre-route loop: the frame with the routing key; then stabling.acquire.
RoutingFrame(c, k) ==
  /\ pc[c] = "pre" /\ ClientSends(c)
  /\ IF pre[c] + 1 > MaxPre
       THEN Fail(c)
       ELSE /\ pc' = [pc EXCEPT ![c] = "join"]
            /\ pre' = [pre EXCEPT ![c] = @ + 1]
            /\ key' = [key EXCEPT ![c] = k]
            /\ LET available == {d \in Dest : k \in parked[d]}
               IN \/ /\ available = {}
                     /\ route' = [route EXCEPT ![c] = "pending"]
                     /\ UNCHANGED <<dest, parked>>
                  \/ \E d \in available :
                       /\ dest' = [dest EXCEPT ![c] = d]
                       /\ parked' = [parked EXCEPT ![d] = {}]
                       /\ route' = [route EXCEPT ![c] = "pooled"]
            /\ UNCHANGED <<first_cycle, post, verdict, should_close, postDone, batch, reqNo, broken,
                           gone, out, routed, upstreams, bound, tcp, asked, wire, flow>>

\* Pre-route loop: the parser reports an error, or reading from the client fails.
PreError(c) ==
  /\ pc[c] = "pre"
  /\ gone[c] \/ (ClientSends(c) /\ "bad_request" \in Env)
  /\ Fail(c)

\* Pre-route loop: None, because the client closed or after an error in the
\* last cycle. Between two requests that is the normal end; otherwise no
\* routing frame came.
PreEnd(c) ==
  /\ pc[c] = "pre" /\ (gone[c] \/ broken[c])
  /\ IF ~first_cycle[c] /\ pre[c] = 0 THEN End(c, <<>>, routed[c]) ELSE Fail(c)

\* A variant that routes for the key of an earlier cycle.
RouteOkStaleKey(c, d) ==
  /\ pc[c] = "join" /\ route[c] = "pending"
  /\ Unowned(d)
  /\ route' = [route EXCEPT ![c] = "new"]
  /\ dest' = [dest EXCEPT ![c] = d]
  /\ tcp' = [tcp EXCEPT ![d] = "open"]
  /\ UNCHANGED <<pc, first_cycle, pre, post, key, verdict, should_close, postDone, batch, reqNo,
                 broken, gone, out, routed, upstreams, parked, bound, asked, wire, flow>>

\* join, first branch: router.route.
RouteOk(c, d) ==
  /\ pc[c] = "join" /\ route[c] = "pending"
  /\ Unowned(d)
  /\ route' = [route EXCEPT ![c] = "new"]
  /\ dest' = [dest EXCEPT ![c] = d]
  /\ bound' = [bound EXCEPT ![d] = key[c]]
  /\ tcp' = [tcp EXCEPT ![d] = "open"]
  /\ UNCHANGED <<pc, first_cycle, pre, post, key, verdict, should_close, postDone, batch, reqNo,
                 broken, gone, out, routed, upstreams, parked, asked, wire, flow>>

RouteFail(c) ==
  /\ pc[c] = "join" /\ route[c] = "pending"
  /\ "route_failure" \in Env
  /\ route' = [route EXCEPT ![c] = "failed"]
  /\ UNCHANGED <<pc, first_cycle, pre, post, key, verdict, should_close, postDone, dest, batch, reqNo,
                 broken, gone, out, routed, upstreams, parked, bound, tcp, asked, wire, flow>>

\* join, second branch: a frame after the routing frame. Beyond the limit the
\* loop stops before the hook sees it.
PostFrame(c) ==
  /\ pc[c] = "join" /\ ~postDone[c] /\ ~gone[c]
  /\ post' = [post EXCEPT ![c] = @ + 1]
  /\ IF post[c] + 1 > MaxPost
       THEN /\ postDone' = [postDone EXCEPT ![c] = TRUE]
            /\ UNCHANGED <<verdict, should_close>>
       ELSE /\ UNCHANGED postDone
            /\ \/ UNCHANGED <<verdict, should_close>>
               \/ /\ flow.hook /\ "invalid_request" \in Env
                  /\ verdict' = [verdict EXCEPT ![c] = "invalid"]
                  /\ UNCHANGED should_close
               \/ /\ flow.hook /\ "request_close" \in Env
                  /\ should_close' = [should_close EXCEPT ![c] = TRUE]
                  /\ UNCHANGED verdict
  /\ UNCHANGED <<pc, first_cycle, pre, key, route, dest, batch, reqNo, broken, gone, out, routed,
                 upstreams, parked, bound, tcp, asked, wire, flow>>

\* join, second branch: None, as the parser has found the end of the request.
PostEnd(c) ==
  /\ pc[c] = "join" /\ ~postDone[c] /\ ~gone[c]
  /\ MarksEndOfRequest
  /\ postDone' = [postDone EXCEPT ![c] = TRUE]
  /\ reqNo' = [reqNo EXCEPT ![c] = @ + 1]
  /\ UNCHANGED <<pc, first_cycle, pre, post, key, verdict, should_close, route, dest, batch, broken,
                 gone, out, routed, upstreams, parked, bound, tcp, asked, wire, flow>>

\* A variant that takes None for the end only after another frame.
PostEofAfterFrame(c) ==
  /\ pc[c] = "join" /\ ~postDone[c] /\ gone[c] /\ post[c] > 0
  /\ postDone' = [postDone EXCEPT ![c] = TRUE]
  /\ reqNo' = [reqNo EXCEPT ![c] = @ + 1]
  /\ broken' = [broken EXCEPT ![c] = MarksEndOfRequest]
  /\ UNCHANGED <<pc, first_cycle, pre, post, key, verdict, should_close, route, dest, batch,
                 gone, out, routed, upstreams, parked, bound, tcp, asked, wire, flow>>

\* join, second branch: None, as the client closed before the end of its
\* request. do_connection sees no difference to PostEnd, so the part that came
\* goes out as the request. Of a TLS client this is all there is.
PostEof(c) ==
  /\ pc[c] = "join" /\ ~postDone[c] /\ gone[c]
  /\ postDone' = [postDone EXCEPT ![c] = TRUE]
  /\ reqNo' = [reqNo EXCEPT ![c] = @ + 1]
  /\ broken' = [broken EXCEPT ![c] = MarksEndOfRequest]
  /\ UNCHANGED <<pc, first_cycle, pre, post, key, verdict, should_close, route, dest, batch,
                 gone, out, routed, upstreams, parked, bound, tcp, asked, wire, flow>>

\* join, second branch: a parser error only ends the loop. What was read
\* so far goes out as the request, without its end.
PostError(c) ==
  /\ pc[c] = "join" /\ ~postDone[c] /\ ~gone[c]
  /\ "bad_request" \in Env
  /\ postDone' = [postDone EXCEPT ![c] = TRUE]
  /\ broken' = [broken EXCEPT ![c] = TRUE]
  /\ reqNo' = [reqNo EXCEPT ![c] = @ + 1]
  /\ UNCHANGED <<pc, first_cycle, pre, post, key, verdict, should_close, route, dest, batch,
                 gone, out, routed, upstreams, parked, bound, tcp, asked, wire, flow>>

\* A variant that goes on only with a connection.
JoinedRouted(c) ==
  /\ pc[c] = "join" /\ postDone[c] /\ route[c] \in {"new", "pooled"}
  /\ IF post[c] > MaxPost \/ verdict[c] = "invalid"
       THEN Fail(c)
       ELSE /\ pc' = [pc EXCEPT ![c] = "write"]
            /\ routed' = [routed EXCEPT ![c] = TRUE]
            /\ upstreams' = IF route[c] = "new" THEN upstreams + 1 ELSE upstreams
            /\ UNCHANGED <<first_cycle, pre, post, key, verdict, should_close, route, postDone, dest,
                           batch, reqNo, broken, gone, out, parked, bound, tcp, asked, wire, flow>>

\* Both branches are done: check the limit, validate, and look at the route.
Joined(c) ==
  /\ pc[c] = "join" /\ postDone[c] /\ route[c] # "pending"
  /\ IF post[c] > MaxPost \/ verdict[c] = "invalid" \/ route[c] = "failed"
       THEN Fail(c)
       ELSE /\ pc' = [pc EXCEPT ![c] = "write"]
            /\ routed' = [routed EXCEPT ![c] = TRUE]
            /\ upstreams' = IF route[c] = "new" THEN upstreams + 1 ELSE upstreams
            /\ UNCHANGED <<first_cycle, pre, post, key, verdict, should_close, route, postDone, dest,
                           batch, reqNo, broken, gone, out, parked, bound, tcp, asked, wire, flow>>

\* dest.write. The kernel accepts a write to a connection the server has
\* closed and learns of the reset later; the next write fails. A failed write
\* ends the connection without an error response. The server waits for the
\* rest of a request that was cut short.
Write(c) ==
  LET d == dest[c]
  IN /\ pc[c] = "write"
     /\ IF tcp[d] = "rst"
          THEN End(c, <<>>, TRUE)
          ELSE /\ pc' = [pc EXCEPT ![c] = "relay"]
               /\ IF tcp[d] = "open"
                    THEN /\ asked' = IF broken[c] THEN asked
                                     ELSE [asked EXCEPT ![d] = Append(@, <<c, reqNo[c]>>)]
                         /\ UNCHANGED tcp
                    ELSE tcp' = [tcp EXCEPT ![d] = "rst"] /\ UNCHANGED asked
               /\ UNCHANGED <<first_cycle, pre, post, key, verdict, should_close, route, postDone,
                              dest, batch, reqNo, broken, gone, out, routed, upstreams, parked, bound,
                              wire, flow>>

\* BatchWriter: push_bytes adds to the batch, take empties it.
PushBytes(c, pieces) == [batch EXCEPT ![c] = @ \o pieces]
Take(c) == [batch EXCEPT ![c] = <<>>]

\* Relay loop: one piece of the response goes into the batch; a batch that got
\* large is written to the client. pieces is what has been flushed.
RelayPiece(c) ==
  LET d == dest[c]
      piece == Head(wire[d])
  IN /\ pc[c] = "relay" /\ ResponseParser
     /\ wire[d] # <<>> /\ piece.kind \in {"head", "surplus"}
     /\ wire' = [wire EXCEPT ![d] = Tail(@)]
     /\ \/ /\ batch' = PushBytes(c, <<piece>>)
           /\ UNCHANGED out
        \/ /\ out' = [out EXCEPT ![c] = @ \o PushBytes(c, <<piece>>)[c]]
           /\ batch' = Take(c)
     /\ UNCHANGED <<pc, first_cycle, pre, post, key, verdict, should_close, route, postDone, dest,
                    reqNo, broken, gone, routed, upstreams, parked, bound, tcp, asked, flow>>

\* The response stream ended (last: the pieces read since the last flush):
\* flush, then close, or return the connection to the pool and start over.
\* Bytes after the response are lost as far as the stream has read them into
\* its buffer.
FinishCycle(c, last, close) ==
  LET d == dest[c]
      toClient == PushBytes(c, last)[c]
  IN IF should_close[c] \/ close
       THEN End(c, toClient, TRUE)
       ELSE /\ out' = [out EXCEPT ![c] = @ \o toClient]
            /\ pc' = [pc EXCEPT ![c] = "pre"]
            /\ first_cycle' = [first_cycle EXCEPT ![c] = FALSE]
            /\ pre' = [pre EXCEPT ![c] = 0] /\ post' = [post EXCEPT ![c] = 0]
            /\ key' = [key EXCEPT ![c] = NoKey]
            /\ verdict' = [verdict EXCEPT ![c] = "valid"]
            /\ should_close' = [should_close EXCEPT ![c] = FALSE]
            /\ route' = [route EXCEPT ![c] = "none"]
            /\ postDone' = [postDone EXCEPT ![c] = FALSE]
            /\ batch' = Take(c)
            /\ IF flow.stabling
                 THEN /\ dest' = [dest EXCEPT ![c] = NoDest]
                      /\ parked' = [parked EXCEPT ![d] = {key[c]}]
                      /\ UNCHANGED <<tcp, asked>>
                      /\ \E n \in Len(last)..Len(wire[d]) :
                           wire' = [wire EXCEPT ![d] = SubSeq(@, n + 1, Len(@))]
                 ELSE /\ DropDest(c)
                      /\ UNCHANGED parked
            /\ UNCHANGED <<reqNo, broken, gone, routed, upstreams, bound, flow>>

\* The codec has seen the end of the response.
RelayLast(c) ==
  LET d == dest[c]
  IN /\ pc[c] = "relay" /\ ResponseParser
     /\ wire[d] # <<>> /\ Head(wire[d]).kind = "end"
     /\ FinishCycle(c, <<Head(wire[d])>>, Head(wire[d]).close)

\* The upstream connection is at its end before the response was: the stream
\* yields None like after a complete response.
RelayEof(c) ==
  /\ pc[c] = "relay" /\ ResponseParser
  /\ wire[dest[c]] = <<>> /\ tcp[dest[c]] \in {"fin", "rst"}
  /\ FinishCycle(c, <<>>, FALSE)

\* Variants: an error response after a part of the real one; the cycle goes on
\* as if the response were complete.
RelayFailed(c) ==
  LET d == dest[c]
  IN /\ pc[c] = "relay" /\ ResponseParser
     /\ \/ wire[d] = <<>> /\ tcp[d] = "rst"
        \/ wire[d] # <<>> /\ Head(wire[d]).kind = "bad"
RelayErrorAnswers(c) == RelayFailed(c) /\ End(c, Append(batch[c], ErrorResponse), TRUE)
RelayErrorGoesOn(c) == RelayFailed(c) /\ FinishCycle(c, <<>>, FALSE)

\* Read error or malformed response: flush what there is, return Err.
RelayError(c) ==
  LET d == dest[c]
  IN /\ pc[c] = "relay" /\ ResponseParser
     /\ \/ wire[d] = <<>> /\ tcp[d] = "rst"
        \/ wire[d] # <<>> /\ Head(wire[d]).kind = "bad"
     /\ End(c, batch[c], TRUE)

\* Variants for a failed write to the client: the upstream connection is pooled
\* in the middle of its response, or is never closed.
RelayGivesUp(c, parkedAs) ==
  /\ pc[c] = "relay" /\ gone[c] /\ wire[dest[c]] # <<>>
  /\ pc' = [pc EXCEPT ![c] = "ended"]
  /\ dest' = [dest EXCEPT ![c] = NoDest]
  /\ parked' = [parked EXCEPT ![dest[c]] = parkedAs]
  /\ UNCHANGED <<first_cycle, pre, post, key, verdict, should_close, route, postDone, batch, broken,
                 reqNo, gone, out, routed, upstreams, bound, tcp, asked, wire, flow>>
RelayClientGonePools(c) == RelayGivesUp(c, {key[c]})
RelayClientGoneLeaks(c) == RelayGivesUp(c, {})

\* Writing to a client that is gone may fail; what was batched is lost.
RelayClientGone(c) ==
  /\ pc[c] = "relay" /\ gone[c]
  /\ wire[dest[c]] # <<>> \/ (batch[c] # <<>> /\ tcp[dest[c]] # "open")
  /\ End(c, <<>>, TRUE)

\* Without a response parser: tokio::io::copy until the server closes.
CopyPiece(c) ==
  LET d == dest[c]
  IN /\ pc[c] = "relay" /\ ~ResponseParser
     /\ wire[d] # <<>>
     /\ out' = [out EXCEPT ![c] = Append(@, Head(wire[d]))]
     /\ wire' = [wire EXCEPT ![d] = Tail(@)]
     /\ UNCHANGED <<pc, first_cycle, pre, post, key, verdict, should_close, route, postDone, dest,
                    batch, reqNo, broken, gone, routed, upstreams, parked, bound, tcp, asked, flow>>

CopyEnd(c) ==
  /\ pc[c] = "relay" /\ ~ResponseParser
  /\ wire[dest[c]] = <<>> /\ tcp[dest[c]] \in {"fin", "rst"}
  /\ End(c, <<>>, TRUE)

\* What the task of a connection does on its own, once its input is there. The
\* frames of a request and its end are up to the client.
ProxyStep(c) ==
  \/ PreError(c) \/ PreEnd(c)
  \/ (\E d \in Dest : RouteOk(c, d)) \/ RouteFail(c) \/ PostEof(c)
  \/ Joined(c) \/ Write(c)
  \/ RelayPiece(c) \/ RelayLast(c) \/ RelayEof(c) \/ RelayError(c) \/ RelayClientGone(c)
  \/ CopyPiece(c) \/ CopyEnd(c)

-----------------------------------------------------------------------------
(* The environment *)

ClientClose(c) ==
  /\ "client_close" \in Env
  /\ ~gone[c] /\ pc[c] # "ended"
  /\ gone' = [gone EXCEPT ![c] = TRUE]
  /\ UNCHANGED <<pc, first_cycle, pre, post, key, verdict, should_close, route, postDone, dest, batch,
                 broken, reqNo, out, routed, upstreams, parked, bound, tcp, asked, wire, flow>>

\* The ways an upstream server answers a request; some close the connection.
Answers(r) ==
  LET piece(kind, close) == [kind |-> kind, req |-> r, close |-> close]
      head == piece("head", FALSE)
  IN [keep           |-> <<head, piece("end", FALSE)>>,
      response_close |-> <<head, piece("end", TRUE)>>,
      truncated      |-> <<head>>,
      surplus        |-> <<head, piece("end", FALSE), piece("surplus", FALSE)>>,
      bad_response   |-> <<head, piece("bad", FALSE)>>]

Answer(d, how) ==
  /\ how \in {"keep"} \cup Env
  /\ tcp[d] = "open" /\ asked[d] # <<>>
  /\ wire' = [wire EXCEPT ![d] = @ \o Answers(Head(asked[d]))[how]]
  /\ asked' = [asked EXCEPT ![d] = Tail(@)]
  /\ tcp' = [tcp EXCEPT ![d] = IF how \in {"response_close", "truncated"} THEN "fin" ELSE @]
  /\ UNCHANGED <<pc, first_cycle, pre, post, key, verdict, should_close, route, postDone, dest, batch,
                 broken, reqNo, gone, out, routed, upstreams, parked, bound, flow>>

\* The server closes the connection, its own idle timeout for instance.
ServerClose(d) ==
  /\ "server_close" \in Env
  /\ tcp[d] = "open"
  /\ tcp' = [tcp EXCEPT ![d] = "fin"]
  /\ asked' = [asked EXCEPT ![d] = <<>>]
  /\ UNCHANGED <<pc, first_cycle, pre, post, key, verdict, should_close, route, postDone, dest, batch,
                 broken, reqNo, gone, out, routed, upstreams, parked, bound, wire, flow>>

\* The pool closes a connection: expired, evicted or removed.
PoolClose(d) ==
  /\ parked[d] # {}
  /\ parked' = [parked EXCEPT ![d] = {}]
  /\ tcp' = [tcp EXCEPT ![d] = "none"]
  /\ asked' = [asked EXCEPT ![d] = <<>>]
  /\ wire' = [wire EXCEPT ![d] = <<>>]
  /\ UNCHANGED <<pc, first_cycle, pre, post, key, verdict, should_close, route, postDone, dest, batch,
                 broken, reqNo, gone, out, routed, upstreams, bound, flow>>

Next ==
  \/ \E c \in Conn : \/ PreFrame(c) \/ PreError(c) \/ PreEnd(c)
                     \/ \E k \in Key : RoutingFrame(c, k)
                     \/ \E d \in Dest : RouteOk(c, d)
                     \/ RouteFail(c) \/ PostFrame(c) \/ PostEnd(c) \/ PostEof(c) \/ PostError(c)
                     \/ Joined(c) \/ Write(c)
                     \/ RelayPiece(c) \/ RelayLast(c) \/ RelayEof(c) \/ RelayError(c)
                     \/ RelayClientGone(c) \/ CopyPiece(c) \/ CopyEnd(c)
                     \/ ClientClose(c)
  \/ \E d \in Dest : \/ \E how \in DOMAIN Answers(<<>>) : Answer(d, how)
                     \/ ServerClose(d) \/ PoolClose(d)

\* tokio polls every task that can go on, the reaper closes what expires, and
\* servers answer what they have received in full. Clients owe nothing, and no
\* server closes because a request stays incomplete.
Fairness ==
  /\ \A c \in Conn : WF_vars(ProxyStep(c))
  /\ \A d \in Dest : /\ WF_vars(\E how \in DOMAIN Answers(<<>>) : Answer(d, how))
                     /\ WF_vars(PoolClose(d))

Spec == Init /\ [][Next]_vars
FairSpec == Spec /\ Fairness

-----------------------------------------------------------------------------
(* Properties *)

\* Every piece of a response that reaches a client belongs to the request the
\* client is waiting for: reusing upstream connections never delivers a
\* response, or the rest of one, to another client or another request.
NoCrossTalk ==
  \A c \in Conn : \A i \in 1..Len(out[c]) :
     out[c][i].kind # "error" => out[c][i].req = <<c, 1 + Ends(SubSeq(out[c], 1, i - 1))>>

\* An error response is the last thing a client gets and never follows a part
\* of a real response: write_error_response is only called before the relay.
ErrorLast ==
  \A c \in Conn : \A i \in 1..Len(out[c]) :
     out[c][i].kind = "error" /\ ~gone[c] =>
        i = Len(out[c]) /\ pc[c] = "ended" /\ (i > 1 => out[c][i - 1].kind = "end")

\* A connection in the pool is between two requests: the server owes nothing on
\* it and nothing it sent waits to be read.
QuietWhenPooled ==
  \A d \in Dest : parked[d] # {} => asked[d] = <<>> /\ wire[d] = <<>>

\* An open upstream connection has exactly one owner, a connection task or the
\* pool; no path through do_connection leaks one or keeps a closed one.
OneOwner ==
  \A d \in Dest : Cardinality({c \in Conn : dest[c] = d}) + Cardinality(parked[d])
                    = IF tcp[d] = "none" THEN 0 ELSE 1

\* Without keep-alive the recorder's upstream gauge counts the connections that
\* are between a successful route and their end.
GaugeBalanced ==
  ~ResponseParser => upstreams = Cardinality({c \in Conn : routed[c] /\ pc[c] # "ended"})

\* A request over one of the two limits never reaches a server, and no more than
\* the frame that exceeds a limit is held beyond it: the first loop fails at once,
\* the second lets the router finish, and no cycle inherits the count of another.
WithinLimits ==
  \A c \in Conn : /\ pre[c] <= MaxPre /\ post[c] <= MaxPost + 1
                  /\ pc[c] \in {"write", "relay"} => post[c] <= MaxPost
                  /\ pc[c] = "pre" => post[c] = 0

\* A request that was read in full is answered in full, or its connection is
\* closed so that the client knows.
Answered ==
  \A c \in Conn : ~Satisfied(c) ~> (Satisfied(c) \/ pc[c] = "ended" \/ gone[c])

\* Once the request stream has come to its end, by the end mark or because the
\* client left, the join ends too, however routing goes: the request is written
\* or refused. (A client that neither finishes nor leaves keeps its task there.)
Forwarded ==
  \A c \in Conn : pc[c] = "join" /\ (postDone[c] \/ gone[c]) ~> pc[c] # "join"

\* The task waits, without a timeout, for the answer to a request cut short.
Stranded(c) ==
  /\ pc[c] = "relay" /\ broken[c]
  /\ tcp[dest[c]] = "open" /\ asked[dest[c]] = <<>> /\ wire[dest[c]] = <<>>

\* After a client closed, its task ends and gives up its upstream connection. The
\* one thing that can keep it is a server that waits for the rest of a request
\* the client did not finish; then it has nothing else left to do.
GoneIsCleanedUp ==
  \A c \in Conn : gone[c] ~> (pc[c] = "ended" \/ Stranded(c))

\* The connections of the pipeline live as DestLifecycle says, whatever happens
\* on either side.
Lifecycle == INSTANCE DestLifecycle
  WITH Task <- Conn, holders <- [d \in Dest |-> {c \in Conn : dest[c] = d}]
ImplementsLifecycle == Lifecycle!Spec
===============================================================================
