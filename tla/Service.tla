-------------------------------- MODULE Service --------------------------------
(***************************************************************************)
(* The accept loop of a service: Service::run of Pipeline                  *)
(* (train_track/src/core/service.rs) with the JoinSet of connection tasks, *)
(* shutdown through the CancellationToken, the drain with its timeout, the *)
(* reaper task that run leaves behind, and the recorder                    *)
(* (train_track/src/recorder.rs) that the tasks report to. What such a task *)
(* does inside is module Pipeline; here it starts, runs and ends.          *)
(* ForwardTcp::run has the same loop without reaper and recorder; its tasks *)
(* are module TcpRelay.                                                    *)
(***************************************************************************)
EXTENDS Integers, Sequences, FiniteSets, SequencesExt

CONSTANTS
  Conn,          \* client connections
  Kinds,         \* the kinds of service considered, see kind
  AcceptErrors,  \* listener.accept may fail (for instance: no file descriptors)
  WriteErrors    \* writes to the recorder's file may fail (for instance: no space)

ASSUME ServiceAssumption ==
  /\ IsFiniteSet(Conn)
  /\ Kinds \subseteq {"tcp", "tls", "forward"} /\ AcceptErrors \in BOOLEAN
  /\ WriteErrors \in BOOLEAN

VARIABLES
  run,        \* where run() is: "accepting", "draining", or what it returned
  cancelled,  \* the CancellationToken
  client,     \* the state of each connection
  timer,      \* the drain timer
  reaper,     \* the reaper task
  active,     \* RecorderHandle.active
  channel,    \* entries on their way to the recorder task
  unflushed,  \* entries in its BufWriter
  disk,       \* entries in its file
  fault,      \* a write to the file has failed, which the recorder ignores
  recorder,   \* the recorder task
  kind        \* "tls": a Pipeline whose accept includes the handshake; "tcp": one
              \* without; "forward": ForwardTcp. It never changes

log == <<channel, unflushed, disk, fault>>
tasks == <<client, active, log>>
vars == <<run, cancelled, client, timer, reaper, active, channel, unflushed, disk, fault, recorder,
          kind>>

InState(S) == {c \in Conn : client[c] \in S}
Spawned == {"spawned", "live"}   \* members of the JoinSet

\* abort_all, or dropping the JoinSet: every task is told to stop.
AbortAll(clients) ==
  [c \in Conn |-> IF clients[c] = "spawned" THEN "dropped"
                  ELSE IF clients[c] = "live" THEN "aborting" ELSE clients[c]]

\* Dropping the accept future drops the connection whose handshake it runs.
DropHandshake(clients) ==
  [c \in Conn |-> IF clients[c] = "handshake" THEN "dropped" ELSE clients[c]]

-----------------------------------------------------------------------------
Init ==
  /\ kind \in Kinds
  /\ run = "accepting"
  /\ cancelled = FALSE
  /\ client = [c \in Conn |-> "new"]
  /\ timer = "off"
  /\ reaper = IF kind = "forward" THEN "none" ELSE "running"
  /\ active = 0
  /\ channel = <<>> /\ unflushed = <<>> /\ disk = <<>> /\ fault = FALSE
  /\ recorder = IF kind = "forward" THEN "none" ELSE "starting"

\* A client connects: the listener's backlog takes it, whatever run() does.
Connect(c) ==
  /\ client[c] = "new"
  /\ client' = [client EXCEPT ![c] = "backlog"]
  /\ UNCHANGED <<run, cancelled, timer, reaper, active, log, recorder, kind>>

\* A variant that serves one connection after the other.
AcceptSequential(c) ==
  /\ run = "accepting"
  /\ InState(Spawned \cup {"handshake"}) = {}
  /\ client[c] = "backlog"
  /\ client' = [client EXCEPT ![c] = IF kind = "tls" THEN "handshake" ELSE "spawned"]
  /\ UNCHANGED <<run, cancelled, timer, reaper, active, log, recorder, kind>>

\* listener.accept; a plain TCP connection is spawned at once. The select is
\* unbiased: this may happen after the token was cancelled.
Accept(c) ==
  /\ run = "accepting"
  /\ InState({"handshake"}) = {}
  /\ client[c] = "backlog"
  /\ client' = [client EXCEPT ![c] = IF kind = "tls" THEN "handshake" ELSE "spawned"]
  /\ UNCHANGED <<run, cancelled, timer, reaper, active, log, recorder, kind>>

\* acceptor.accept finished: the client did its part of the handshake.
Handshake(c) ==
  /\ run = "accepting"
  /\ client[c] = "handshake"
  /\ client' = [client EXCEPT ![c] = "spawned"]
  /\ UNCHANGED <<run, cancelled, timer, reaper, active, log, recorder, kind>>

\* accept() failed: the ? operator returns from run and drops the JoinSet.
FailRun ==
  /\ run' = "err"
  /\ client' = AbortAll(DropHandshake(client))
  /\ UNCHANGED <<cancelled, timer, reaper, active, log, recorder, kind>>

AcceptError == run = "accepting" /\ AcceptErrors /\ FailRun

HandshakeError(c) == run = "accepting" /\ client[c] = "handshake" /\ FailRun

\* The first poll of a task: conn_start in handle_connection.
TaskStart(c) ==
  /\ client[c] = "spawned"
  /\ client' = [client EXCEPT ![c] = "live"]
  /\ active' = IF kind = "forward" THEN active ELSE active + 1
  /\ UNCHANGED <<run, cancelled, timer, reaper, log, recorder, kind>>

\* A variant that reports only what it reports while run() is there.
TaskEndUnlogged(c) ==
  /\ kind # "forward"
  /\ client[c] \in {"live", "aborting"}
  /\ client' = [client EXCEPT ![c] = "done"]
  /\ active' = active - 1
  /\ channel' = IF client[c] = "live" /\ recorder \in {"starting", "running"}
                  THEN Append(channel, c) ELSE channel
  /\ UNCHANGED <<run, cancelled, timer, reaper, unflushed, disk, fault, recorder, kind>>

\* handle_connection runs to its end: conn_end, then log_request, whose send
\* fails silently when the recorder task is gone. A task that was told to abort
\* may still get there when it does not await any more.
TaskEnd(c) ==
  /\ kind # "forward"
  /\ client[c] \in {"live", "aborting"}
  /\ client' = [client EXCEPT ![c] = "done"]
  /\ active' = active - 1
  /\ channel' = IF recorder \in {"starting", "running"} THEN Append(channel, c) ELSE channel
  /\ UNCHANGED <<run, cancelled, timer, reaper, unflushed, disk, fault, recorder, kind>>

\* The runtime drops an aborted task at its await: nothing of it runs any more.
TaskAborted(c) ==
  /\ client[c] = "aborting"
  /\ client' = [client EXCEPT ![c] = "aborted"]
  /\ UNCHANGED <<run, cancelled, timer, reaper, active, log, recorder, kind>>

Cancel ==
  /\ ~cancelled
  /\ cancelled' = TRUE
  /\ UNCHANGED <<run, timer, reaper, tasks, recorder, kind>>

\* A variant that looks at the token only between two accepts.
StartDrainBetweenAccepts ==
  /\ run = "accepting" /\ cancelled
  /\ InState({"handshake"}) = {}
  /\ run' = "draining"
  /\ timer' = "running"
  /\ UNCHANGED <<cancelled, reaper, tasks, recorder, kind>>

\* The accept loop sees the token and breaks; the drain begins.
StartDrain ==
  /\ run = "accepting" /\ cancelled
  /\ run' = "draining"
  /\ client' = DropHandshake(client)
  /\ timer' = "running"
  /\ UNCHANGED <<cancelled, reaper, active, log, recorder, kind>>

\* join_next has returned every task.
Drained ==
  /\ run = "draining"
  /\ InState(Spawned) = {}
  /\ run' = "ok"
  /\ timer' = "off"
  /\ UNCHANGED <<cancelled, reaper, tasks, recorder, kind>>

\* A variant that returns and leaves the tasks running.
DrainTimeoutDetaches ==
  /\ run = "draining"
  /\ run' = "ok"
  /\ timer' = "fired"
  /\ UNCHANGED <<cancelled, reaper, tasks, recorder, kind>>

DrainTimeout ==
  /\ run = "draining"
  /\ run' = "ok"
  /\ timer' = "fired"
  /\ client' = AbortAll(client)
  /\ UNCHANGED <<cancelled, reaper, active, log, recorder, kind>>

\* The reaper's select takes the cancelled branch.
ReaperStop ==
  /\ reaper = "running" /\ cancelled
  /\ reaper' = "stopped"
  /\ UNCHANGED <<run, cancelled, timer, tasks, recorder, kind>>

-----------------------------------------------------------------------------
(* The recorder task. Of its file only the entries of requests are kept; the *)
(* lines it writes at each tick are measurements.                            *)

\* run() has returned, so that the Pipeline with its handle is dropped, and so
\* have the tasks with theirs.
HandlesDropped == run \in {"ok", "err"} /\ InState(Spawned \cup {"aborting"}) = {}

\* File::create, whose expect ends the task and with it the channel, and the
\* pause before the loop.
RecorderStart ==
  /\ recorder = "starting"
  /\ \/ recorder' = "running" /\ UNCHANGED channel
     \/ recorder' = "panicked" /\ channel' = <<>>
  /\ UNCHANGED <<run, cancelled, timer, reaper, client, active, unflushed, disk, fault, kind>>

\* BufWriter::flush, called by writeln when the buffer is full: what was held is
\* in the file. Or it fails after the first n entries and keeps the others.
Flushed == disk' = disk \o unflushed /\ unflushed' = <<>> /\ UNCHANGED fault

FlushFails ==
  /\ WriteErrors /\ fault' = TRUE
  /\ \E n \in 0..Len(unflushed) : /\ disk' = disk \o SubSeq(unflushed, 1, n)
                                  /\ unflushed' = SubSeq(unflushed, n + 1, Len(unflushed))

\* rx.recv yields an entry; writeln leaves it in the BufWriter, maybe after it
\* pushed out what is in there. If that fails, the entry is not written, or not
\* all of it, and the result of writeln is dropped.
RecorderRecv ==
  /\ recorder = "running" /\ channel # <<>>
  /\ channel' = Tail(channel)
  /\ \/ unflushed' = Append(unflushed, Head(channel)) /\ UNCHANGED <<disk, fault>>
     \/ unflushed' = <<Head(channel)>> /\ disk' = disk \o unflushed /\ UNCHANGED fault
     \/ FlushFails
  /\ UNCHANGED <<run, cancelled, timer, reaper, client, active, recorder, kind>>

\* ticker.tick: the gauges are sampled and everything is flushed.
RecorderTick ==
  /\ recorder = "running"
  /\ Flushed \/ FlushFails
  /\ UNCHANGED <<run, cancelled, timer, reaper, client, active, channel, recorder, kind>>

\* The BufWriter is dropped: it writes what it still holds, or what it can of it.
DropWriter ==
  /\ unflushed' = <<>>
  /\ \/ disk' = disk \o unflushed /\ UNCHANGED fault
     \/ /\ WriteErrors /\ fault' = TRUE
        /\ \E n \in 0..Len(unflushed) : disk' = disk \o SubSeq(unflushed, 1, n)

\* rx.recv yields None: the channel is empty and nobody can send any more. The
\* task flushes, whatever comes of it, and returns.
RecorderClose ==
  /\ recorder = "running" /\ channel = <<>> /\ HandlesDropped
  /\ recorder' = "done"
  /\ DropWriter
  /\ UNCHANGED <<run, cancelled, timer, reaper, client, active, channel, kind>>

\* Nobody joins the task: when run() has returned, the program may end, with the
\* BufWriter dropped. What is in the channel is lost.
RuntimeDrop ==
  /\ recorder \in {"starting", "running"} /\ HandlesDropped
  /\ recorder' = "killed"
  /\ DropWriter
  /\ channel' = <<>>
  /\ UNCHANGED <<run, cancelled, timer, reaper, client, active, kind>>

-----------------------------------------------------------------------------
\* The steps of a connection up to its task, which Next adds.
Arrive(c) == Connect(c) \/ Accept(c) \/ Handshake(c) \/ HandshakeError(c) \/ TaskStart(c)
Loop == AcceptError \/ Cancel \/ StartDrain \/ Drained \/ DrainTimeout \/ ReaperStop
Recorder == RecorderStart \/ RecorderRecv \/ RecorderTick \/ RecorderClose \/ RuntimeDrop

\* The accept loop, the timer, the recorder and tasks that can go on are polled;
\* clients owe nothing, so neither a handshake nor the end of a connection is
\* assumed.
ServiceFairness ==
  /\ WF_vars(StartDrain) /\ WF_vars(DrainTimeout) /\ WF_vars(ReaperStop)
  /\ WF_vars(RecorderStart) /\ WF_vars(RecorderRecv) /\ WF_vars(RecorderClose)
  /\ \A c \in Conn : WF_vars(Accept(c)) /\ WF_vars(TaskStart(c)) /\ WF_vars(TaskAborted(c))

-----------------------------------------------------------------------------
(* Properties *)

\* All the recorder was sent and has not lost.
Entries == disk \o unflushed \o channel

\* Every connection is accounted for: the gauge counts a task from its start to
\* its end, and those that were aborted for ever, as conn_end never runs; the
\* recorder has one entry for each task that came to its end and for no other,
\* unless it died or a write of it failed. Even then it has none twice: what a
\* failed flush has written is not written again by the next.
AccountedFor ==
  /\ kind # "forward" => active = Cardinality(InState({"live", "aborting", "aborted"}))
  /\ IsInjective(Entries)
  /\ \A c \in ToSet(Entries) : client[c] = "done"
  /\ recorder \notin {"panicked", "killed", "none"} /\ ~fault
       => InState({"done"}) \subseteq ToSet(Entries)

\* How the loop and a connection look to DrainLoop.
LoopState == IF run \in {"ok", "err"} THEN "returned" ELSE run
ConnState ==
  [c \in Conn |-> IF client[c] \in {"new", "backlog", "handshake"} THEN "waiting"
                  ELSE IF client[c] \in Spawned THEN "served"
                  ELSE IF client[c] = "done" THEN "over" ELSE "cut"]
Contract == INSTANCE DrainLoop WITH loop <- LoopState, conn <- ConnState

\* The loop implements what DrainLoop promises: nothing is taken after it
\* stopped accepting, a connection that is served is cut off only when the
\* drain times out or run() fails, and nothing it spawned is served once run()
\* has returned.
ImplementsDrainLoop == Contract!Spec

\* Once the token is cancelled run() returns, even if clients stay idle or stop
\* in the middle of a handshake; then every task is over, the reaper stopped,
\* and the recorder has written and flushed all it was sent, unless it could not
\* open its file, a write failed, or the program ended before it.
ShutdownCompletes ==
  cancelled ~> /\ run \in {"ok", "err"}
               /\ InState(Spawned \cup {"aborting", "handshake"}) = {}
               /\ reaper # "running"
               /\ \/ recorder \in {"none", "panicked", "killed"}
                  \/ recorder = "done" /\ (fault \/ ToSet(disk) = InState({"done"}))

\* While the service accepts, no client stays in the backlog because of what
\* connected clients do, except for one thing: accept runs the TLS handshake, and
\* a single client that never finishes it keeps all others out for good.
OnlyHandshakeHoldsUp ==
  \A c \in Conn :
    client[c] = "backlog" ~> \/ client[c] # "backlog" \/ run # "accepting"
                             \/ \E h \in Conn : [](client[h] = "handshake" /\ run = "accepting")
================================================================================
