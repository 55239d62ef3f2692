-------------------------------- MODULE TcpRelay --------------------------------
(***************************************************************************)
(* The service loop of module Service with the tasks of ForwardTcp::run    *)
(* (coupler/src/flow/tcp.rs) in it: each dials the upstream server and     *)
(* then joins two copies, client to server ("up") and server to client     *)
(* ("down"). The two peers send, half-close, go away and reset as they     *)
(* like. The sockets are external: they are modelled from what the copies  *)
(* see of them.                                                            *)
(***************************************************************************)
EXTENDS Service

CONSTANTS
  Forwarded,   \* bound: the connections a ForwardTcp gets
  MaxPieces    \* bound: the pieces a peer sends over one connection

ASSUME RelayAssumption == Forwarded \subseteq Conn /\ MaxPieces \in Nat

VARIABLES
  peer,    \* of each connection, its client and its server: "absent" (not dialled),
           \* "open", "shut" (finished sending, still reads), "closed"
  reset,   \* the sockets <<connection, peer>> that were reset
  sent,    \* pieces the sender of each direction sent
  taken,   \* pieces the copy of each direction read
  got,     \* pieces it handed to the socket of the other peer
  copy     \* "copying" or "done"

relay == <<peer, reset, sent, taken, got, copy>>
all == <<vars, relay>>

Peer == {"client", "server"}
Direction == {"up", "down"}
From(d) == IF d = "up" THEN "client" ELSE "server"
To(d) == IF d = "up" THEN "server" ELSE "client"

RelayInit ==
  /\ Init
  /\ peer = [c \in Conn |-> [s \in Peer |-> IF s = "client" THEN "open" ELSE "absent"]]
  /\ reset = {}
  /\ sent = [c \in Conn |-> [d \in Direction |-> 0]]
  /\ taken = sent /\ got = sent
  /\ copy = [c \in Conn |-> [d \in Direction |-> "copying"]]

\* A task is dropped at an await once it is told to abort; until then it goes on.
Relaying(c) == kind = "forward" /\ client[c] \in {"live", "aborting"}

-----------------------------------------------------------------------------
(* The peers. *)

Present(c, s) ==
  /\ kind = "forward" /\ client[c] \in {"backlog", "spawned", "live", "aborting"}
  /\ peer[c][s] # "absent"

PeerSends(c, d) ==
  /\ Present(c, From(d)) /\ peer[c][From(d)] = "open"
  /\ sent[c][d] < MaxPieces
  /\ sent' = [sent EXCEPT ![c][d] = @ + 1]
  /\ UNCHANGED <<vars, peer, reset, taken, got, copy>>

PeerShuts(c, s) ==
  /\ Present(c, s) /\ peer[c][s] = "open"
  /\ peer' = [peer EXCEPT ![c][s] = "shut"]
  /\ UNCHANGED <<vars, reset, sent, taken, got, copy>>

\* A peer that goes away with data unread resets the connection.
PeerCloses(c, s) ==
  /\ Present(c, s) /\ peer[c][s] \in {"open", "shut"}
  /\ peer' = [peer EXCEPT ![c][s] = "closed"]
  /\ reset' \in {reset, reset \cup {<<c, s>>}}
  /\ UNCHANGED <<vars, sent, taken, got, copy>>

-----------------------------------------------------------------------------
(* The task. *)

\* TcpStream::connect succeeds.
Dialled(c) ==
  /\ Relaying(c) /\ peer[c]["server"] = "absent"
  /\ peer' = [peer EXCEPT ![c]["server"] = "open"]
  /\ UNCHANGED <<vars, reset, sent, taken, got, copy>>

\* The task returns: its sockets are dropped. Nothing is recorded.
Return(c) ==
  /\ client' = [client EXCEPT ![c] = "done"]
  /\ UNCHANGED <<run, cancelled, timer, reaper, active, log, recorder, kind, relay>>

\* It fails, and if let skips the relay.
DialFails(c) == Relaying(c) /\ peer[c]["server"] = "absent" /\ Return(c)

Copying(c, d) == Relaying(c) /\ peer[c]["server"] # "absent" /\ copy[c][d] = "copying"

\* tokio::io::copy reads a piece,
CopyRead(c, d) ==
  /\ Copying(c, d)
  /\ <<c, From(d)>> \notin reset
  /\ taken[c][d] < sent[c][d]
  /\ taken' = [taken EXCEPT ![c][d] = @ + 1]
  /\ UNCHANGED <<vars, peer, reset, sent, got, copy>>

\* and writes it. The socket of a peer that has gone takes it too, and a reset
\* comes back, later.
CopyWrite(c, d) ==
  /\ Copying(c, d)
  /\ <<c, To(d)>> \notin reset
  /\ got[c][d] < taken[c][d]
  /\ got' = [got EXCEPT ![c][d] = @ + 1]
  /\ \/ UNCHANGED reset
     \/ peer[c][To(d)] = "closed" /\ reset' = reset \cup {<<c, To(d)>>}
  /\ UNCHANGED <<vars, peer, sent, taken, copy>>

CopyDone(c, d) ==
  /\ copy' = [copy EXCEPT ![c][d] = "done"]
  /\ UNCHANGED <<vars, peer, reset, sent, taken, got>>

\* A read of 0 bytes after all was written: copy flushes and returns. It does not
\* shut the writer down, so the other peer does not learn of it.
CopyEof(c, d) ==
  /\ Copying(c, d)
  /\ peer[c][From(d)] \in {"shut", "closed"} /\ <<c, From(d)>> \notin reset
  /\ got[c][d] = sent[c][d]
  /\ CopyDone(c, d)

\* A variant that tries a failed write again.
CopyFailsOnRead(c, d) ==
  /\ Copying(c, d)
  /\ <<c, From(d)>> \in reset
  /\ CopyDone(c, d)

\* A read of, or a write to, a socket that was reset is an error.
CopyFails(c, d) ==
  /\ Copying(c, d)
  /\ \/ <<c, From(d)>> \in reset
     \/ <<c, To(d)>> \in reset /\ got[c][d] < taken[c][d]
  /\ CopyDone(c, d)

\* A variant that selects on the copies where the code joins them.
RelayEndEither(c) ==
  /\ Relaying(c) /\ \E d \in Direction : copy[c][d] = "done"
  /\ Return(c)

\* join!: both copies have returned, with a result that is dropped.
RelayEnd(c) ==
  /\ Relaying(c) /\ \A d \in Direction : copy[c][d] = "done"
  /\ Return(c)

-----------------------------------------------------------------------------
Clients == IF kind = "forward" THEN Forwarded ELSE Conn

Peers(c) ==
  \/ \E d \in Direction : PeerSends(c, d)
  \/ \E s \in Peer : PeerShuts(c, s) \/ PeerCloses(c, s)

Relay(c) ==
  \/ Dialled(c) \/ DialFails(c) \/ RelayEnd(c)
  \/ \E d \in Direction : CopyRead(c, d) \/ CopyWrite(c, d) \/ CopyEof(c, d) \/ CopyFails(c, d)

Next ==
  \/ /\ Loop \/ Recorder \/ \E c \in Clients : Arrive(c) \/ TaskEnd(c) \/ TaskAborted(c)
     /\ UNCHANGED relay
  \/ \E c \in Clients : Peers(c) \/ Relay(c)

\* A dial comes to an end. A copy is polled when it can go on; a write can as
\* long as the peer reads, which is not assumed, or has gone.
RelayFairness ==
  \A c \in Conn :
    /\ WF_all(Dialled(c) \/ DialFails(c)) /\ WF_all(RelayEnd(c))
    /\ \A d \in Direction :
         /\ WF_all(CopyRead(c, d)) /\ WF_all(CopyEof(c, d)) /\ WF_all(CopyFails(c, d))
         /\ WF_all(peer[c][To(d)] = "closed" /\ CopyWrite(c, d))

Spec == RelayInit /\ [][Next]_all /\ ServiceFairness /\ RelayFairness

-----------------------------------------------------------------------------
(* Properties *)

\* Nothing is cut short: when a relay has come to its end by itself, all a peer
\* sent was handed to the other, however the two directions ended, unless that
\* one has gone or the sender's own connection was reset.
NoTruncation ==
  \A c \in Conn, d \in Direction :
    kind = "forward" /\ client[c] = "done" /\ peer[c]["server"] # "absent"
      /\ peer[c][To(d)] # "closed" /\ <<c, From(d)>> \notin reset
    => got[c][d] = sent[c][d]

\* The two copies do not keep each other: once both peers have gone, in whichever
\* order and whatever was under way, the task ends. (One that has gone is not
\* enough: its end is not passed on, and a silent other keeps the task.)
RelayEnds ==
  \A c \in Conn :
    (\A s \in Peer : peer[c][s] = "closed") ~> client[c] \in {"done", "aborted"}
================================================================================
