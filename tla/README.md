# railscale: TLA+ specifications

railscale is a reverse proxy: a generic pipeline (`train_track`), HTTP parsing
and derivation (`carriage`), TLS (`trezorcarriage`), ready-made flows
(`coupler`) and builders (`conductor`). These modules specify the parts that
carry its own logic: the pool of upstream connections, the pipeline that uses
it, the service loop around it with its recorder, the raw TCP relay, TLS
passthrough with the routers, packet capture, and the HTTP parsers and decisions
the pipeline relies on. TLC checks them on small instances, and TLAPS proves
their safety properties for all sizes.

## The system and its parts

| Part (source) | State it keeps | Operations | Correct when |
|---|---|---|---|
| Pool (`train_track/src/core/stabling.rs`) | a DashMap from routing key to a queue of idle upstream connections with the time they were released | `acquire`, `release`, `reap_expired` | one owner per connection, never under another key, newest first, bounded, nothing leaks, nothing fresh is lost |
| Pipeline (`train_track/src/core/service.rs`, `handle_connection`, `do_connection`) | per connection: frames read before and after routing, verdict of the hook, destination, batch; shared: the pool, gauges | read, route, forward, relay, pool, repeat | a response reaches the client that asked for it; every request is answered or its connection closed; no connection leaks |
| Service (`service.rs`, `Service::run`; `trezorcarriage/src/terminator.rs`; sources) | JoinSet of tasks, CancellationToken, drain timer, reaper task | accept, spawn, drain, abort | clients are served until shutdown; shutdown ends; nothing outlives it |
| Request parser (`carriage/src/http/codec.rs`, `parser.rs`) | FramedRead's buffer, codec and stream flags | `decode`, `decode_eof`, `poll_next` | no byte lost; each request is one piece of the stream |
| Response parser (`response_codec.rs`, `response_parser.rs`) | buffer, body state, derivation session | `decode_*`, `poll_next` | the stream ends exactly at the end of the response |
| Derivation, hook, header pipeline (`train_track/src/atom/derive.rs`, `carriage/src/http/derive.rs`, `hook.rs`, `pipeline.rs`) | matched header values, conflicts | `feed`, formulas, `validate`, `should_close_connection`, `process` | decisions depend on the message, not on the order of its lines; the receiver comes to the same framing |
| Recorder (`train_track/src/recorder.rs`) | gauges `active`, `upstreams`; a channel, a writer task with buffer and file | `conn_start/end`, `upstream_open/close`, `log_request`, the task's select | gauges balance; one entry for each connection that ended, on disk in the end |
| Raw TCP forwarder (`coupler/src/flow/tcp.rs`) | a JoinSet; per connection two copies | accept, dial, copy both ways, drain | nothing is cut short; the task ends when both peers have gone |
| TLS passthrough (`trezorcarriage/src/parser.rs`, `frame.rs`) | header and payload buffers | `parse`, `extract_sni` | frames are the client's records; the key is the name in its hello |
| Routers and shunts (`train_track/src/destinations/route.rs`, `carriage/src/tcp/dest/routed.rs`, `trezorcarriage/src/destination.rs`, `client.rs`, `coupler/src/shunt`) | routes or a fixed address | `route`, `connect` | what is dialled is what the key names, with the right certificate; the first route that fits wins |
| Capture (`train_track/src/capture/mod.rs`, `pcap.rs`) | a bounded channel; the background task's file, buffer and count of requests | `send`, `write_event`, `open_file`, `flush` | files hold what was sent, in order; files end between exchanges; nothing is left over at the end |
| Flows and builders (`coupler/src/flow`, `conductor`) | none; they build a Pipeline | `run` | each flow is wired so that the pipeline's properties hold |

How they interact: `Service::run` accepts a connection and spawns
`handle_connection`, which runs `do_connection`. That one polls the request
stream (parser), shows every frame to the hook, asks the pool and, when that has
nothing, the router for an upstream connection while it reads the rest of the
request (`tokio::join!`), writes the request, polls the response stream and
copies it to the client, and then closes or returns the upstream connection to
the pool. The pool is shared by all tasks and by the reaper task. The token
stops the accept loop and the reaper; connection tasks do not see it. Tasks
report to the recorder and to the capture task through channels; nobody joins
either of the two. `ForwardTcp` has an accept loop of its own, of the same form.

What is hard to test here: tasks between the two halves of `acquire`; an
upstream connection that dies while it is in the pool; one branch of the join
failing while the other goes on; where a stream is cut by the socket; the race
of the drain timer with the last tasks; clients that stay silent at any point.
PROJECT.json lists these hazards with their lines and the properties that watch
them.

## Modules

    DestLifecycle   what may happen to an upstream connection
      ^ implemented by Stabling, and by Pipeline
    DrainLoop       what a service promises its connections
      ^ implemented by Service, with TcpRelay
    Service <- TcpRelay             the loop, and in it the tasks of ForwardTcp
    Routers <- TlsRouting           what is dialled, and how a connection gets there
    HttpDerive <- DeriverHook, ResponseStream
    HttpRequestStream, Capture

    Stabling <- StablingProofs
    Pipeline <- PipelineProofs
    TcpRelay <- ServiceProofs
    SequenceLemmas  sequences inside sequences, used by
      Capture <- CaptureProofs, HttpRequestStream <- HttpRequestProofs,
      TlsRouting <- TlsRoutingProofs, TcpRelay <- ServiceProofs,
      DeriverHook, ResponseStream <- HttpDeriveProofs

`MC*.tla` hold symmetry sets and the inputs of the runs. Operators announced as
"a variant" next to an action are deliberately wrong forms of it; they are not
part of any specification, and show which property notices which mistake.

**Stabling.** `idle` and `present` are the DashMap: `present` has the keys with
an entry, whose queue may be empty. One action is one section under the lock of
an entry. `acquire` is `AcquireMiss` (no entry), or `AcquireHit` or
`AcquireDrained` (pop from the back under the lock), followed, when the queue is
empty, by `Remove` in a step of its own, because the code drops the guard before
`idle.remove`. `Release` evicts and pushes under one guard. `reap_expired` is
`ReapTick` and one `ReapEntry` per key, since `retain` locks shard by shard. In
`ReapEntry` the kept positions are given by their increasing enumeration, so
that no recursion is needed. The rest of a task's cycle (`Route`, `RouteFail`,
`Drop`) is reduced to what it does to the connection it owns. `origin` is a
history variable: the key a connection was opened for.

**DestLifecycle** is the abstract specification of the pool and of its users: a
connection is opened for one key, has at most one user, is parked only by its
user and under the key it was opened for, is handed to one user at a time, and
may be closed at any moment. Stabling implements it with the fine-grained
locking, Pipeline with everything `do_connection` does.

**Pipeline.** The variables of the first two lines are the locals of
`do_connection`; `parked` and `bound` are the pool seen through DestLifecycle.
The request stream is abstracted to its items, the response to a head and an
end. `PreFrame`, `RoutingFrame`, `PreError` and `PreEnd` are the first loop,
`RouteOk`, `RouteFail`, `PostFrame`, `PostEnd`, `PostEof` and `PostError` the two
branches of the join in any interleaving, `Joined` the checks after it in the order
of the code (limit, validation, route). When a request ends is up to its client
(`PostEnd`); one that leaves earlier ends the stream all the same (`PostEof`), and
what came of its request is forwarded. `broken` marks a request that was cut short,
by this or by a parser error: no server answers it. `Write` models that the kernel accepts a
first write to a connection the peer has closed. `RelayPiece`, `RelayLast`,
`RelayEof`, `RelayError` and `RelayClientGone` are the relay with its batch;
`CopyPiece` and `CopyEnd` the copy used without a response parser; `PushBytes` and
`Take` are the two operations of BatchWriter that the relay uses. `End` is every
return: the destination is dropped, and `upstream_close` is called when some
cycle had routed. `flow` says how the pipeline was built, as a record of what
its builder fills in: `ConductorTcp` to `ForwardHttpToHttps` are the keep-alive
HTTP flows of `conductor` and `coupler`, which are all wired alike, `ForwardTls`
is TLS passthrough, whose stream ends only with the client's input, `TestProxy`
the harness's HTTP proxy without a response parser, `Unpooled` keep-alive with
the pool not enabled. `Env` lists what clients, routers and servers may do beside
behaving well.

**Service.** A connection goes from the backlog through the handshake (inside
`accept`, for TLS) to a spawned and then a live task. `FailRun` is the `?` after
accept: `run` returns and the JoinSet is dropped. `StartDrain`, `Drained` and
`DrainTimeout` are the shutdown. An aborted task may still reach its end or be
dropped at an await, in which case `conn_end` never runs. `kind` says whose loop
it is: a Pipeline over TCP or TLS, or `ForwardTcp`, which has neither reaper nor
recorder. The recorder is `RecorderStart` (its `File::create` may panic),
`RecorderRecv`, `RecorderTick` and `RecorderClose`; `channel`, `unflushed` and
`disk` are the three places an entry can be. With `WriteErrors` any write to the
file may fail, a full disk being the usual reason: a flush keeps what it did not
write (`FlushFails`), `writeln` then loses its entry, and a writer that is dropped
loses what it holds (`DropWriter`). The code ignores all three; `fault` remembers
that it happened. An entry is on disk when all of its line is; the part of a line
that a failed `writeln` may leave in the buffer is not represented. `HandlesDropped` says that nobody
can send any more; only then does `recv` yield `None`, and only then may the
program end (`RuntimeDrop`), for nobody joins the task.

**DrainLoop** is the abstract specification of such a loop: it takes connections
while it accepts, then lets those it serves finish, and cuts them off only when
it gives up or fails; nothing is served after it has returned.

**TcpRelay** puts the tasks of `ForwardTcp` into that loop: `Dialled`,
`DialFails`, and two copies, each with the steps of `tokio::io::copy` (read,
write, end of file, error), joined by `RelayEnd`. The peers send, shut down one
direction, close and reset as they like; a write to a peer that has gone is
taken by the kernel and answered by a reset, or not.

**TlsRouting** follows a connection from its bytes to its server. `ReadHeader`
and `ReadPayload` read any number of cells up to what the buffer has room for,
`YieldFrame`, `RejectHeader`, `ReadEof` and `ReadError` are the ways `parse`
yields; `ExtractSni` walks the hello. A cell stands for a field of fixed length,
so that a record header is three cells (`HeaderLen`), and a payload at most forty
(`MaxPayload`, for the 16384 bytes of `TLS_MAX_PAYLOAD`). The stages are those of
`do_connection`, whose buffer limits the scripts stay below: the limits are in
Pipeline. A parser error behind the routing frame only ends its loop, as in the code. Connections whose parser yields a key as text start at the router.
**Routers** has what each router and shunt makes of a key, as operators. What a
text key may look like is `IsKey`: a request line with an absolute URI, or with the
authority in front of the path; an authority alone or with a path; or a text that
names no host. It says where the parts are, and not how to find them.

**Capture.** Connections send events without waiting; `Send` drops one when the
channel is full or its reader gone. Handling one event is one step of the
background task: `WriteEvent`, or one of `OpenFails`, `WriteFails` and
`FlushFails`, which leave `write_event` at its three `?`. `RuntimeDrop` is the end of
the program: nobody joins the task.

**HttpRequestStream** and **ResponseStream** take the bytes as atoms (a CRLF,
the text of a line, a byte of a body) which the socket delivers in pieces of any
size. FramedRead's flags (`readable`, `eof`, `errored`) are modelled from how
tokio-util drives a decoder, because the pending branch of `HttpFrameStream`
depends on them: a poll that returns Pending after a reset comes back through
another branch. What ResponseStream may be given is said without the decoder
(`Message`): a head up to its empty line, the framing that the first values of its
headers ask for (`HeadFraming`), and then so many bytes, chunks that follow each
other up to the last and its trailers, or everything. A response that is none of
these is marked `malformed`. A CRLF is one atom: a read that ends between its two
bytes, and the test of `response_codec.rs:178` for both of them, are not represented.
Responses without a body in spite of their headers (to HEAD, or 1xx) are not among
the scripts; the code treats them like any other.

**HttpDerive** has the matchers, the session and the formulas as operators;
values are lists of tokens, with spellings that compare equal only ignoring
case. **DeriverHook** feeds messages line by line and compares the decisions
with definitions over the whole message; every line but the empty one then goes
through `HttpPipeline::process`, and `receiver` is what the other side derives from
the lines that are left. The empty line of a request is passthrough data for
`do_connection`, and never shown to the pipeline (`EndOfHeaders`). Its specification is `HookSpec`, so that one module can extend
it together with ResponseStream.

## Runs

| Run | Instance | Shows |
|---|---|---|
| `stabling` | 3 tasks, 2 keys, 3 connections, limit 2, timeout 2, clock to 3 | `ExclusiveOwnership`, `KeyIntegrity`, `PerHostLimit`, `NoEntryLeak`; `TakesFreshest`: a hit is the newest fresh connection; `FreshLostOnlyToRemove`: a fresh connection leaves the pool only by use, by eviction when full, or by the late `remove` |
| `stabling_live` | 2 tasks, 2 keys, 2 connections, limit 1 | `ExpiredIsReaped`; `ImplementsLifecycle` |
| `pipeline` | 2 clients with 2 requests each, 1 key, 2 connections, limits of 1 frame, the wiring of every flow, every failure but surplus bytes | `WithinLimits`: what exceeds a limit is never forwarded; `NoCrossTalk`, `ErrorLast`, `QuietWhenPooled`, `OneOwner`, `GaugeBalanced` |
| `pipeline_live` | 2 clients, 2 keys, 2 connections, keep-alive | `Answered`; `Forwarded`: once the request stream has ended the join ends, however routing goes; `GoneIsCleanedUp`: the task of a client that left ends, or waits for a server that has only a part of a request; `ImplementsLifecycle` |
| `pipeline_stale` (violation) | 1 client, servers may close | `Answered` fails |
| `service` | 3 clients over TCP or TLS, or one forwarded connection with up to 2 pieces in each direction; accept, and writes of the recorder, may fail | `AccountedFor`: gauge and recorder against what tasks there were; `NoTruncation`; `ImplementsDrainLoop`; `ShutdownCompletes`: `run`, tasks, reaper and recorder all end, and the entries are on disk unless a write failed; `OnlyHandshakeHoldsUp`: a client waits in the backlog for good only behind one whose handshake never ends; `RelayEnds` |
| `routing` | 13 scripts of up to 3 records, cut anywhere; 43 text keys; 10 routers | `RecordsConserved`, `RoutedByHello`, `DialsWhatIsNamed`, `FirstRouteThatFits`, `RecordsComeOut` |
| `capture` | 2 connections, a channel of 2, files of 2 requests, 6 events, file operations may fail | `CapturedInOrder`, `RotationBoundary`, `EventuallyOnDisk` |
| `requests` | a client with three bodyless requests, one with a body, one that pipelines bodies, a folded header and a stray empty line | `Conservation` for all; `WholeWithoutBody` and `AllForwarded` for the first |
| `requests_body` (violation) | a client with a body | `WholeRequests` fails |
| `hook` | all messages of up to 3 of 15 headers, both versions, requests and responses | `DecidesByWholeMessage`: rejection, framing and keep-alive do not depend on the order of the lines; `ReceiverAgrees`: the other side finds the same framing, and goes by the version for the rest |
| `response` | fixed, chunked, header-only, until-close, malformed, with and without surplus bytes | `BytesKept`, `EndsAtTheEnd` (and only a malformed response fails), `EndsWithoutClose` |

Why the bounds are enough. Pool: a queue only grows while tasks hold
connections of its key (a task that finds one takes it), so three tasks and
three connections are what it takes to fill a queue of two and evict from it;
meanwhile one task can be in the gap of `acquire` and another release. The clock
passes the timeout, so connections of one queue differ in age and freshness. The
proofs remove these bounds. Pipeline: two requests make a connection go through
the pool and back to the same or to the other client, and two keys (in
`pipeline_live`) make a mix-up of keys visible; limits of one frame are passed
by the second. Service: three clients are one live, one in its handshake and one
in the backlog. Tasks of `ForwardTcp` share nothing but the loop, so one of them,
beside a loop that accepts, drains, fails or gives up, is enough; two pieces are
one written and one in the copy's buffer. Routing: extensions before and after
the name, a name of another type before the host name, records before the hello,
hellos spread over two records at four places, an empty payload and one that is
too long; keys in every form that one of the routers takes, each given to all of
them. Capture: six events are two
full files, and more than the channel holds. Parsers: every split of the input is tried; a third request
follows the first reset. Hook: two headers contradict each other, a third
stands between them. Symmetry is used only in runs without liveness. Deadlock is
not checked where a system may come to rest (all clients done).

Fairness. `Stabling`: the reaper task is polled and its interval ticks, and a
task between the halves of `acquire` awaits nothing. `Pipeline`: tokio polls a
task that can go on, servers answer what they have received in full, the pool
closes what expires; clients owe nothing, not even the end of a request they have
begun, and no server closes because a request stays incomplete. `Service`: accept loop, timer,
recorder and tasks are polled; neither a handshake nor the end of a connection is
assumed. `TcpRelay`: a dial comes to an end and a copy that can go on is polled;
a write is only assumed to go on when the peer has gone, since one that is there
need not read. `TlsRouting`: what can be read is read, and a whole record is
yielded; neither the client nor the dial owes anything.
`Capture`: the background task is polled. `HttpRequestStream`,
`ResponseStream`: the task is polled, and the peer sends
what it has begun, but need not close.

## Findings

- **A request on a dead connection is never answered** (`pipeline_stale`). The
  server closes an upstream connection; the request is written to it
  nevertheless, the response stream yields `None` at once, which looks like a
  complete response, and the dead connection goes back to the pool.
- **A body that arrives after its headers is not part of its request**
  (`requests_body`). The branch of `poll_next` that would pass it on calls
  `drain_buffer`, which never finds anything.

More differences showed while modelling, and have no run of their own. A failed
TLS handshake ends the service with all its connections: it is the `Fail` step of
DrainLoop (`bogie/tests/tls_integration.rs:92` drops a client in its handshake,
and starts a new proxy to see it served). A recorder that cannot create its file
panics, and logging is off without a word; one whose writes fail goes on and drops
the errors (`recorder.rs:101`, `109`, `131`), so entries go missing. A client that
stalls inside a request keeps its task in the join, for nothing there has a timeout
(`service.rs:517`); one that leaves inside a request has what came of it forwarded,
and the task then waits until the server gives up. `ForwardTcp` does not pass a half-close
on, and a peer that has gone keeps its task as long as the other stays silent;
`RelayEnds` therefore wants both gone. A hello that is spread over two records has
no key: nobody routes it and nobody tells the client. `ForwardTls` is announced as
"SNI-based routing" (`README.md:232`), but its router has a fixed address; the
name is only required to be there. `MatchingRouter` lowers its patterns and not
the keys, so a name in capitals fits nothing; `TcpRouter` adds no port to an
absolute URI without one, and such a request fails at the dial. It also takes any
`://` for the end of a scheme: a request for a path with a URI in it, such as
`/x?next=http://b.c:8080`, is sent to what follows it (`routed.rs:32`); `IsKey`
therefore wants no other URI in a path. A
released connection can vanish: task A empties a queue in `acquire` and drops the
guard, task B releases a connection into the same entry, and A's `idle.remove`
drops it although it is fresh; `FreshLostOnlyToRemove` shows that nothing else
loses one. A capture file has no upper bound: only a response ends it, and
responses copied without a response parser are not captured; with several
connections a file may also end between a request and its response. Further,
with `"surplus"` in `Env`, `NoCrossTalk` fails, because an HTTP/1.1 response with
no length is taken to end with its headers and its body stays on the pooled
connection; with `"bad_request"` in the `Env` of `pipeline_live`, `Answered`
fails, because a parser error after the routing frame only ends the read loop
and the request goes out cut short; with the flow `ForwardTls`
nothing is forwarded before the client closes, since its stream has no other end; and
`max_total_idle` is read nowhere, so that only `PerHostLimit` can hold.
The response hook never sees a version (its phase is `StatusLine`, and the
version matcher wants `RequestLine`), so it takes an HTTP/1.0 response for
keep-alive; `KeepAliveDecision` is therefore stated for requests. An HTTP/1.0
request with `Connection: keep-alive` reaches the server without that header, so
the server closes a connection the proxy means to reuse, as `ReceiverAgrees` shows:
the server goes by the version alone. For the same reason the `Connection: close` of
`HttpPipeline::new` reaches no server with a request: `process` adds it to a frame
for the empty line, and the parser yields that line as passthrough. The inactivity timeout of the builders is stored in the
destination and never read. With
keep-alive the upstream gauge drifts: `upstream_open` is called per new
connection, `upstream_close` at most once per client, so `GaugeBalanced` is
stated for the flows without it.

## Proofs

### The pool

`StablingProofs` proves, for any sets of tasks, keys and connections and any
limits (`StablingAssumption`: the limits are natural numbers, `NoDest` is not a
connection), that the pool always satisfies

    IInv == TypeOK /\ HeldMatchesPc /\ ExclusiveOwnership /\ KeyIntegrity
            /\ OldestInFront /\ NothingFromTheFuture /\ PerHostLimit
            /\ QueueHasEntry /\ NoEntryLeak

and from it the theorems `TypeCorrect`, `OwnershipIsExclusive`, `KeysNeverMix`,
`QueuesAreOrdered`, `PerHostLimitHolds` and `EntriesDoNotLeak`. `TypeOK` and
`OldestInFront` have no run of their own, being parts of what is proved.

The parts need each other. `HeldMatchesPc` says that a task in `acquire` or
`route` holds nothing and one past them something: without it a hit could
overwrite a connection, and `Release` could file "nothing". `KeyIntegrity` needs
ownership, because `Route` rebinds a connection that must not be elsewhere.
`OldestInFront` needs `NothingFromTheFuture`, since `Release` pushes the current
time behind the others. `PerHostLimit` also gives `Release` the bound it starts
from. `NoEntryLeak` needs `QueueHasEntry`, as `Remove` empties a queue and drops
its entry together.

The argument: `acquire`, `remove`, `reap_expired` and eviction leave every queue
a subsequence of what it was (`SubQueue`, with an increasing map of positions as
its witness), and every part about queues survives that (`ShrinkQueues`). Only
`Release` adds a connection, one its task owned, and `ReleaseInv` treats it
alone. `Remove` may drop connections another task just released: safety does not
mind, which is why the loss described above breaks no invariant.

Two action properties follow from the same invariant. In
`AcquireTakesFreshest` only a hit hands out a pooled connection, at the last fresh
position, which is the newest because the queue is ordered. `FreshLossIsTheRace`
follows each fresh position through each step; only `Remove` and the eviction
lose one.

The pool implements DestLifecycle (`PoolImplementsLifecycle`), which is what allows Pipeline to use the pool through
that contract. The invariant, in the state before and after the step, says that a
connection is parked under no key or under the one it was opened for, and not
while it is held: so a step that shrinks queues closes whole connections
(`ShrinkCloses`), a hit is a `Take` that closes what lay behind, `Release` a `Park`
that closes what it evicts.

### The service loop and the relay

`ServiceProofs` is about `Service` with `TcpRelay` in it, for any finite set of
connections and any number of pieces. `NextKinds` sorts the steps by what they do
to connections and to `run`.

- `LoopImplementsContract`: the loop implements DrainLoop. Beyond types
  (`ConnType`) no invariant is needed: each kind of step is a step of the
  contract or invisible to it.
- `ConnectionsAccountedFor`: `AccountedFor` always holds. It is inductive together
  with `LogType` and `RecorderFits`: a recorder that has ended will get nothing
  more, because `HandlesDropped` stays true once it is. Without that a task could
  end after the recorder and miss its entry. Moving entries from channel to
  buffer to file leaves their concatenation as it is, and so does a flush that
  fails half-way; a `writeln` that fails cuts one entry out of it, and a recorder
  that dies or a writer that is dropped leave a front part. So no entry is ever
  there twice, and without a fault or a death none is missing.
- `RelayCutsNothing`: `NoTruncation` always holds. The invariant says when a copy
  is done (all that will ever be sent was handed over, or a socket was reset),
  that only closed peers have reset, and that a task which reached its server
  ends with both copies done.

### The pipeline

`PipelineProofs` is about any sets of clients, keys and connections, any limits,
any subset of the wirings and of what clients, routers and servers may do
(`PipelineAssumption`). It goes in layers, each of which uses those before it.

- `OwnerInv` says when a task holds a connection (`HeldMatchesPc`), that what it
  holds is open, bound to its key and nobody else's (`HeldAlone`), that what is
  parked is open and under its key, and that nothing else is open. It gives
  `OwnersAreUnique`, and step by step `PipelineImplementsLifecycle`: both the pool
  and its user implement the same contract.
- `LimitInv` adds to `WithinLimits` why it holds: the second loop goes on only
  below its limit. It gives `LimitsHold`.
- `GaugeInv` says that without a response parser there is one cycle and no
  pooling, so that the gauge counts the tasks that are routed. It gives
  `GaugeIsExact`; finiteness of that set is part of the invariant.
- `TurnInv` counts: with a response parser a task that relays has written one
  end fewer than its client sent requests, and between two requests as many.
  Hence whoever returns early with an error response stands between two responses,
  and then returns: `ErrorsComeLast`, whatever servers send.
- `AnswerInv` adds what is on the connections: one that no task relays from has
  nothing asked and nothing to read, and during an exchange what was asked, what
  is on the wire and what is in the batch together make at most one answer, to the
  request the task sent last. It gives `NoAnswerGoesAstray` and `PooledIsQuiet`,
  both under the hypothesis that no server sends more than its answer
  (`"surplus" \notin Env`). The hypothesis is needed: see the findings.

### Capture

`CaptureProofs` allows failing file operations, a full channel, any capacity and
any limit for rotation (`CaptureAssumption`: at least one). `CaptureInv` numbers
the events as they were sent: the numbers increase within what is recorded and
within the channel, and from the one to the other; without a fault none is missing
(`InOrder`): `CapturedStaysInOrder`. For `FilesEndWithResponses` the invariant bounds
`request_count` by the requests the open file will hold when it is flushed: a
failed write counts nothing, but a file may have more requests than were counted.

### The request stream

`HttpRequestProofs` takes any clients with any scripts (`StreamAssumption`) and any
way of cutting them into reads. `NoByteIsLost` needs only that all sequences are
typed (`RequestInv`): each step moves a front part of one buffer to the end of the
next. `RequestsComeOutWhole` is stated for clients that are `Plain`: they wait for
each answer, and every request is a request line, headers none of which is folded,
and one empty line at its end (`WellFormed`). `WholeInv` follows such a request
through socket, buffer and `do_connection` (`InFlight`: what is on its way are the
atoms of the current request, up to what was sent), and ties the flags of codec,
stream and cycle together (`InStep`). The second part rules out the branches that
would cut a request: between two cycles the buffer is empty, so the reset codec
meets a request line first; inside a request the codec stands behind a line end,
and the next line is empty only at the end of the request.

### Derivation and hook

`HttpDeriveProofs` allows any headers and any number of lines. The session knows
for each matcher whether there was a value, which came first and whether one
differed (`SessionKnows`); nothing of this depends on the order of different
headers, which gives `HookDecidesByWholeMessage`. `ReceiverKnows` says that the
other side derives the same except for `Connection`, of which it sees nothing:
`ReceiverDecidesTheSame`, if the configured replacements leave
`Content-Length` and `Transfer-Encoding` alone (`FramingUntouched`); a replacement
of those may of course say something else.

### The response stream

`HttpDeriveProofs` also takes any responses, of any length and number of headers,
chunks and trailers, cut into reads anywhere, with any bytes behind them
(`ResponseAssumption`). There are two theorems.

- `BytesAreKept`: every step moves a front part of one buffer to the end of the
  next (`StreamType`).
- `MessageEndsAtTheEnd`: `MessageInv` places the codec in the message. For the head:
  it stands between two lines, and the session knows the first value of every
  header so far (`Learnt`), so that the body state it chooses at the empty line is
  that of `HeadFraming`. For the body: a fixed one has as much left as the message,
  `ExpectSize` stands where a chunk begins, `Data` and `ExpectDataCrlf` so far before
  the next, and `TrailerOrEnd` between two trailers (`InStep`). Each decoding function
  looks at the line in front of it, which the invariant identifies (`LineAt`), even
  when only a part of it has arrived. It follows that a well-formed response
  is never refused, and that the stream ends at its last byte, not before and not
  behind it, unless the server closes first.

### TLS passthrough and routing

`TlsRoutingProofs` takes any scripts of records whose lengths are right, up to
one the parser refuses, cut anywhere, and any text keys in the forms of `IsKey`
(`RoutingAssumption`).

- `RecordsComeOutWhole`: `ParserInv` says which part of the current record the two
  buffers hold.
- `FirstFittingRouteIsDialled`: the positions that `ends_with`, `starts_with` and
  `contains` look at are those of `Fits`; the router's choice is the least route.
- `NamedHostIsDialled`: in every form of key, for any host (a name or a literal
  address), port, scheme and path, `TcpRouter`, `TlsRouter` and `TlsClientRouter` come
  to the host and the port that are in it, or do not dial (`KeyDials`). What
  `split`, `contains` and `trim_start_matches` cut out is described by its place in
  the key (`Part`, `BeforeIs`, `AfterIs`), and a part of a part is a part; two parts
  with the same place are equal. An authority has no slash and does not end in a
  colon, so the first slash behind it is the path's, and no `://` begins in it. A
  literal address has colons of its own: TlsRouter cuts at the last one,
  TlsClientRouter at the first, and the name that is left begins with a bracket,
  which no certificate carries. `DialInv` ties what was dialled to the key.
- `KeyIsOfFirstHello`: the key is the host of the first record for which one is
  given, if those are what `extract_sni` finds (`HostsAreFound`).
- `NamesAreFound` says when that is so, and `KeyOfHellos` puts the two together:
  every record is a hello that names a host among other names and extensions, one
  that names none, a hello cut anywhere before its end, or does not begin like a
  hello (`RecordsAreHellos`). The two loops of `extract_sni` are followed item by
  item (`PassesEach`): each lands on the start of the next item, and stops at the
  right one. Not among these are hellos with wrong lengths inside the extension
  and the second half of a cut hello that happens to begin with the byte 1; the
  run has one of the former.

`SequenceLemmas` has what `FlattenSeq` does when a sequence of sequences grows, is
cut or is read at an offset. Induction over data is out of reach, so these are
proved by contradiction at the least length where the claim fails (`Least`, from
the well-foundedness of the natural numbers); the same argument proves that the
loops of `extract_sni` are well defined.

### Only model-checked

Liveness, which is out of the prover's reach: `ExpiredIsReaped`, `Answered`,
`Forwarded`, `GoneIsCleanedUp`, `ShutdownCompletes`, `OnlyHandshakeHoldsUp`, `RelayEnds`,
`RecordsComeOut`, `EventuallyOnDisk`, `AllForwarded` and `EndsWithoutClose`. Every
invariant and every action property of the runs that pass is a theorem, some under
the hypotheses named above, and so is the safety part of each refinement.

## Not modelled

Text of error responses, logs, metrics, timings and byte counts; the TLS
protocol itself (a handshake finishes, fails or stalls) and the buffers of rustls,
in which the end of a request may stay behind because nothing flushes; the setters
of the builders; the byte format of capture files and connection ids; the rest of
the test harness and its generators. PhasedBuffer, the turnouts, Shuttle,
StreamDeparture, and `with_writer` and `flush_all` of BatchWriter are used by no
flow. Drops inside `Pipeline` by an abort are covered in `Stabling` (`Drop`) and
`Service`.

## Plan

Done: all components of the table modelled; proofs of the pool, of the pipeline,
of the loop and the relay, of capture, of the request and the response stream, of
the hook, and of TLS passthrough with the routers.

Left: liveness, for a prover that can do it; hellos with wrong lengths inside an
extension, in `RecordsAreHellos`.
