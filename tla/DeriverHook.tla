------------------------------ MODULE DeriverHook ------------------------------
(***************************************************************************)
(* HttpDeriverHook (carriage/src/http/hook.rs): the session a message's    *)
(* lines are fed to one by one, and the decisions taken from it, compared  *)
(* with definitions over the whole message. Behind the hook every line but  *)
(* the empty one goes through HttpPipeline::process                         *)
(* (carriage/src/http/pipeline.rs), which drops or rewrites it; the         *)
(* receiver decides by what is left.                                        *)
(***************************************************************************)
EXTENDS HttpDerive

CONSTANTS
  Header,    \* the header lines a message may have
  Replaced,  \* names of headers that contain a matcher of the pipeline
  NewValue,  \* what the pipeline replaces their value by
  MaxLines   \* bound: headers per message

ASSUME HookAssumption ==
  /\ MaxLines \in Nat
  /\ \A h \in Header : h \in [phase : {"Header"}, name : STRING, value : Seq(STRING)]
  /\ \A h \in Header : h.name # "RequestLineVersion"   \* no header has this name

VARIABLES
  kind,      \* "request" or "response"
  version,   \* of the message
  lines,     \* history: the lines the hook has seen
  hook,      \* the session of the HttpDeriverHook
  complete,  \* the empty line has been passed on
  receiver   \* what the receiver derives from the lines passed on

hookVars == <<kind, version, lines, hook, complete, receiver>>

StartLine(k, v) ==
  [phase |-> IF k = "request" THEN "RequestLine" ELSE "StatusLine", name |-> "", value |-> v]

-----------------------------------------------------------------------------
(* HttpPipeline::process *)

\* A variant with the list of RFC 2616, Transfer-Encoding included.
IsHopByHopRfc2616(name) ==
  name \in {"Connection", "Keep-Alive", "Proxy-Authenticate", "Proxy-Authorization", "TE",
            "Trailers", "Transfer-Encoding", "Upgrade"}

\* is_hop_by_hop
IsHopByHop(name) ==
  name \in {"Connection", "Keep-Alive", "Proxy-Connection", "Proxy-Authenticate",
            "Proxy-Authorization", "TE", "Upgrade"}

\* What the receiver derives after a header line was processed.
PassHeader(h) ==
  IF IsHopByHop(h.name) THEN receiver
  ELSE Feed(receiver, IF h.name \in Replaced THEN [h EXCEPT !.value = NewValue] ELSE h)

-----------------------------------------------------------------------------
\* A new hook per cycle; the first frame is the request line or status line.
HookInit ==
  /\ kind \in {"request", "response"}
  /\ version \in {<<"HTTP/1.0">>, <<"HTTP/1.1">>}
  /\ lines = <<>> /\ complete = FALSE
  /\ hook = Feed(NewSession, StartLine(kind, version))
  /\ receiver = Feed(NewSession, StartLine(kind, version))

\* on_frame, then process
OnFrame(h) ==
  /\ ~complete
  /\ Len(lines) < MaxLines
  /\ lines' = Append(lines, h)
  /\ hook' = Feed(hook, h)
  /\ receiver' = PassHeader(h)
  /\ UNCHANGED <<kind, version, complete>>

\* The empty line. Of a request the parser yields it as passthrough bytes, which
\* neither the hook nor the pipeline sees; that of a response goes through a
\* keepalive pipeline, which leaves it as it is. So no message gets the
\* "Connection: close" that a pipeline made by HttpPipeline::new adds to an empty
\* line it is shown.
EndOfHeaders ==
  /\ ~complete
  /\ complete' = TRUE
  /\ UNCHANGED <<kind, version, lines, hook, receiver>>

\* reset, or a new hook for the next message.
Reset ==
  /\ lines' = <<>> /\ complete' = FALSE
  /\ kind' \in {"request", "response"}
  /\ version' \in {<<"HTTP/1.0">>, <<"HTTP/1.1">>}
  /\ hook' = Feed(NewSession, StartLine(kind', version'))
  /\ receiver' = Feed(NewSession, StartLine(kind', version'))

HookNext == (\E h \in Header : OnFrame(h)) \/ EndOfHeaders \/ Reset

HookSpec == HookInit /\ [][HookNext]_hookVars

\* validate
Validate == IF ClTeConflict(hook) \/ HasConflicts(hook) THEN "Err" ELSE "Ok"

\* should_close_connection
ShouldClose == ConnectionMode(hook) = "Close"

-----------------------------------------------------------------------------
(* The same decisions, defined on the message as a whole *)

Values(name) == {lines[i].value : i \in {j \in 1..Len(lines) : lines[j].name = name}}

Ambiguous ==
  \/ \E name \in Matcher : \E v, w \in Values(name) : v # w
  \/ Values("Content-Length") # {} /\ Values("Transfer-Encoding") # {}

RequestFraming ==
  CASE \E v \in Values("Transfer-Encoding") : HasToken(v, "chunked") -> Framing("Chunked", 0)
    [] Values("Content-Length") # {} ->
         IF \A v \in Values("Content-Length") : Parses(v)
           THEN Framing("Fixed", ParsedLength(CHOOSE v \in Values("Content-Length") : TRUE))
           ELSE Framing("Invalid", 0)
    [] OTHER -> Framing(IF version = <<"HTTP/1.0">> THEN "UntilClose" ELSE "None", 0)

MustClose ==
  LET tokens == Values("Connection")
  IN \/ \E v \in tokens : HasToken(v, "close")
     \/ version = <<"HTTP/1.0">> /\ ~\E v \in tokens : HasToken(v, "keep_alive")

\* validate rejects a message exactly when two headers that decide framing or
\* keep-alive contradict each other, wherever they stand and however many
\* lines are between them.
RejectsExactlyAmbiguous == Validate = "Err" <=> Ambiguous

\* For a request that is accepted, the framing derived line by line is the one
\* of the whole message, whatever the order of its headers.
FramingOfWholeMessage ==
  kind = "request" /\ Validate = "Ok" => BodyFraming(hook) = RequestFraming

\* For a request that is accepted, the connection is closed after it exactly
\* when the message asks for it.
KeepAliveDecision ==
  kind = "request" /\ Validate = "Ok" => (ShouldClose <=> MustClose)

\* The decisions taken line by line are those of the whole message, whatever the
\* order of its headers and whatever stands between them.
DecidesByWholeMessage == RejectsExactlyAmbiguous /\ FramingOfWholeMessage /\ KeepAliveDecision

\* Dropping and replacing headers never makes the receiver of an accepted
\* message see its body end elsewhere than the proxy does. Whether the connection
\* is to stay open is not passed on: whatever the client asked for and however
\* the pipeline was made, the server goes by the version alone.
ReceiverAgrees ==
  Validate = "Ok" =>
    /\ BodyFraming(receiver) = BodyFraming(hook) /\ receiver.conflicts = {}
    /\ kind = "request" =>
         ConnectionMode(receiver) = IF version = <<"HTTP/1.0">> THEN "Close" ELSE "KeepAlive"
================================================================================
