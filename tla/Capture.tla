-------------------------------- MODULE Capture --------------------------------
(***************************************************************************)
(* Packet capture (train_track/src/capture/mod.rs and pcap.rs): connection *)
(* tasks send what they forward and relay into a bounded channel without   *)
(* waiting; one background task writes the events to files and starts a    *)
(* new file from time to time. Service::run spawns the background task and *)
(* never joins it.                                                         *)
(*                                                                         *)
(* An event is its direction and its number in the order of the calls of   *)
(* CaptureHandle::send. Bytes, time stamps and connection ids are left out. *)
(* Files are opened, written and flushed by the one background task, so    *)
(* handling one event is one step.                                         *)
(***************************************************************************)
EXTENDS Naturals, Sequences, SequencesExt, FiniteSets

CONSTANTS
  Conn,        \* client connections
  Capacity,    \* size of the channel (4096)
  RotateAt,    \* requests before the next response ends a file (10)
  MaxSent,     \* bound: calls of send
  IoErrors     \* opening, writing or flushing a file may fail

ASSUME CaptureAssumption ==
  /\ Capacity \in Nat \ {0} /\ RotateAt \in Nat \ {0} /\ MaxSent \in Nat
  /\ IoErrors \in BOOLEAN

VARIABLES
  conn,           \* "new", "idle", "asked" (its request was sent), "ended"
  handle,         \* run()'s CaptureHandle: "held" or "dropped"
  sent,           \* calls of send so far
  queue,          \* the channel
  task,           \* the background task: "running", "done" or "killed"
  writer,         \* PcapDestination.writer is Some
  request_count,
  buffer,         \* events in the BufWriter that did not reach the file
  files,          \* the events in each file; the last one is the current one
  fault           \* the channel was full or gone, or a file operation failed

senders == <<conn, handle, sent>>
pcap == <<writer, request_count, buffer, files>>
vars == <<conn, handle, sent, queue, task, writer, request_count, buffer, files, fault>>

\* All senders are dropped: recv yields None once the channel is empty.
Closed == handle = "dropped" /\ \A c \in Conn : conn[c] \in {"new", "ended"}

-----------------------------------------------------------------------------
Init ==
  /\ conn = [c \in Conn |-> "new"]
  /\ handle = "held"
  /\ sent = 0
  /\ queue = <<>>
  /\ task = "running"
  /\ writer = FALSE /\ request_count = 0 /\ buffer = <<>> /\ files = <<>>
  /\ fault = FALSE

\* run() accepts a connection and gives it a clone of the handle.
Accept(c) ==
  /\ conn[c] = "new" /\ handle = "held"
  /\ conn' = [conn EXCEPT ![c] = "idle"]
  /\ UNCHANGED <<handle, sent, queue, task, pcap, fault>>

\* CaptureHandle::send: try_send, and nothing happens if that fails.
Send(dir) ==
  /\ sent < MaxSent
  /\ sent' = sent + 1
  /\ IF task = "running" /\ Len(queue) < Capacity
       THEN /\ queue' = Append(queue, [dir |-> dir, n |-> sent'])
            /\ UNCHANGED fault
       ELSE fault' = TRUE /\ UNCHANGED queue

\* do_connection captures a request before it writes it to the destination, and
\* the response in one or several batches, or not at all: an empty or failed
\* response, and one that is copied without a response parser.
SendRequest(c) ==
  /\ conn[c] \in {"idle", "asked"}
  /\ Send("req")
  /\ conn' = [conn EXCEPT ![c] = "asked"]
  /\ UNCHANGED <<handle, task, pcap>>

SendResponse(c) ==
  /\ conn[c] = "asked"
  /\ Send("resp")
  /\ \E next \in {"asked", "idle"} : conn' = [conn EXCEPT ![c] = next]
  /\ UNCHANGED <<handle, task, pcap>>

\* The connection task ends or is aborted and drops its clone.
End(c) ==
  /\ conn[c] \in {"idle", "asked"}
  /\ conn' = [conn EXCEPT ![c] = "ended"]
  /\ UNCHANGED <<handle, sent, queue, task, pcap, fault>>

\* run() returns.
Return ==
  /\ handle = "held"
  /\ handle' = "dropped"
  /\ UNCHANGED <<conn, sent, queue, task, pcap, fault>>

-----------------------------------------------------------------------------
(* The background task *)

\* write_event needs a file first; a new one is the next in the sequence.
Opened == IF writer THEN files ELSE Append(files, <<>>)
AddTo(events) == [Opened EXCEPT ![Len(Opened)] = @ \o buffer \o events]
Counted(event) == request_count + (IF event.dir = "req" THEN 1 ELSE 0)

\* Variants: the file ends at the request that reaches the limit; an event whose
\* flush failed is written again although it is still buffered.
WriteEventRotatesAtRequest ==
  LET event == Head(queue)
      full == Counted(event) >= RotateAt
  IN /\ task = "running" /\ queue # <<>>
     /\ queue' = Tail(queue)
     /\ files' = AddTo(<<event>>)
     /\ buffer' = <<>>
     /\ writer' = ~full
     /\ request_count' = IF full THEN 0 ELSE Counted(event)
     /\ UNCHANGED <<senders, task, fault>>

FlushFailsRetries ==
  LET event == Head(queue)
  IN /\ task = "running" /\ queue # <<>> /\ IoErrors
     /\ files' = Opened
     /\ writer' = TRUE
     /\ request_count' = Counted(event)
     /\ buffer' = Append(buffer, event)
     /\ fault' = TRUE
     /\ UNCHANGED <<senders, queue, task>>

\* write_event succeeds: the event and what was buffered is flushed, and a
\* response ends the file once enough requests are in it.
WriteEvent ==
  LET event == Head(queue)
      full == event.dir = "resp" /\ request_count >= RotateAt
  IN /\ task = "running" /\ queue # <<>>
     /\ queue' = Tail(queue)
     /\ files' = AddTo(<<event>>)
     /\ buffer' = <<>>
     /\ writer' = ~full
     /\ request_count' = IF full THEN 0 ELSE Counted(event)
     /\ UNCHANGED <<senders, task, fault>>

\* open_file fails: its number is used up and the event is lost.
OpenFails ==
  /\ task = "running" /\ queue # <<>> /\ IoErrors
  /\ ~writer
  /\ queue' = Tail(queue)
  /\ files' = Opened
  /\ fault' = TRUE
  /\ UNCHANGED <<senders, task, writer, request_count, buffer>>

\* write_epb fails (a large event goes past the buffer): the event is lost, the
\* request not counted. What part of it is in the file is not modelled.
WriteFails ==
  /\ task = "running" /\ queue # <<>> /\ IoErrors
  /\ queue' = Tail(queue)
  /\ files' = Opened
  /\ writer' = TRUE
  /\ fault' = TRUE
  /\ UNCHANGED <<senders, task, request_count, buffer>>

\* w.flush fails: the event stays in the BufWriter for the next flush; the
\* request is counted, but write_event returns before it looks at the limit.
FlushFails ==
  LET event == Head(queue)
  IN /\ task = "running" /\ queue # <<>> /\ IoErrors
     /\ queue' = Tail(queue)
     /\ files' = Opened
     /\ writer' = TRUE
     /\ request_count' = Counted(event)
     /\ buffer' = Append(buffer, event)
     /\ fault' = TRUE
     /\ UNCHANGED <<senders, task>>

\* The last flush, by the task or by dropping the BufWriter, may fail too.
LastFlush ==
  \/ /\ files' = IF writer THEN AddTo(<<>>) ELSE files
     /\ buffer' = <<>>
  \/ IoErrors /\ UNCHANGED <<files, buffer>>

\* A variant that ends with run() and leaves the rest of the channel.
FinishEarly ==
  /\ task = "running" /\ handle = "dropped"
  /\ task' = "done"
  /\ LastFlush
  /\ UNCHANGED <<senders, queue, writer, request_count, fault>>

\* recv yields None: flush and end.
Finish ==
  /\ task = "running" /\ queue = <<>> /\ Closed
  /\ task' = "done"
  /\ LastFlush
  /\ UNCHANGED <<senders, queue, writer, request_count, fault>>

\* Nobody joins the task: when run() has returned, the program may end and drop
\* the runtime, and with it the task at its recv.
RuntimeDrop ==
  /\ task = "running" /\ handle = "dropped"
  /\ task' = "killed"
  /\ LastFlush
  /\ UNCHANGED <<senders, queue, writer, request_count, fault>>

Next ==
  \/ \E c \in Conn : Accept(c) \/ SendRequest(c) \/ SendResponse(c) \/ End(c)
  \/ Return
  \/ WriteEvent \/ OpenFails \/ WriteFails \/ FlushFails \/ Finish \/ RuntimeDrop

\* The background task is polled; nothing is assumed of the connections.
BackgroundTask == WriteEvent \/ OpenFails \/ WriteFails \/ FlushFails \/ Finish
Spec == Init /\ [][Next]_vars
FairSpec == Spec /\ WF_vars(BackgroundTask)

-----------------------------------------------------------------------------
(* Properties *)

Recorded == FlattenSeq(files) \o buffer
Requests(events) == Cardinality({i \in 1..Len(events) : events[i].dir = "req"})

\* Reading the files in their order gives the events in the order they were
\* sent in, none twice, whatever was dropped, failed or retried; those on their
\* way follow. As long as nothing failed, none is missing.
CapturedInOrder ==
  LET events == Recorded \o queue
  IN /\ \A i \in 1..(Len(events) - 1) : events[i].n < events[i + 1].n
     /\ ~fault => Len(events) = sent

\* A file that was ended is one that got all its requests and then a response:
\* write_event never cuts between a request that reaches the limit and the
\* response, and a failed flush neither loses requests nor ends a file early.
RotationBoundary ==
  \A i \in 1..Len(files) :
     files[i] # <<>> /\ (i < Len(files) \/ ~writer) =>
        Requests(files[i]) >= RotateAt /\ Last(files[i]).dir = "resp"

\* When run() has returned and the last connection is over, the background task
\* empties the channel, writes all of it if no file operation fails, and ends,
\* unless the program ends before it.
EventuallyOnDisk ==
  Closed ~> \/ task = "killed"
            \/ task = "done" /\ queue = <<>> /\ (~fault => Len(FlattenSeq(files)) = sent)
================================================================================
