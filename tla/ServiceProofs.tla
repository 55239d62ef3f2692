----------------------------- MODULE ServiceProofs -----------------------------
(***************************************************************************)
(* Proofs about the service loop with its recorder and about ForwardTcp's  *)
(* relay, for any number of connections and of pieces: the loop implements *)
(* DrainLoop, every connection is accounted for, and a relay that ends by  *)
(* itself has cut nothing short.                                           *)
(***************************************************************************)
EXTENDS TcpRelay, SequenceLemmas, FiniteSetTheorems

ClientState == {"new", "backlog", "handshake", "spawned", "live", "done",
                "aborting", "aborted", "dropped"}

\* The types of the relay's variables.
RelayType ==
  /\ peer \in [Conn -> [Peer -> {"absent", "open", "shut", "closed"}]]
  /\ reset \subseteq Conn \X Peer
  /\ sent \in [Conn -> [Direction -> Nat]]
  /\ taken \in [Conn -> [Direction -> Nat]]
  /\ got \in [Conn -> [Direction -> Nat]]
  /\ copy \in [Conn -> [Direction -> {"copying", "done"}]]

-----------------------------------------------------------------------------
(* The steps, told apart by what they do to the connections. *)

\* Steps after which every connection is where it was.
Quiet == UNCHANGED client

\* One connection goes on.
Moves(c, from, to) ==
  /\ client[c] \in from
  /\ client' = [client EXCEPT ![c] = to]

\* What a step does to the connections and to run.
StepKinds ==
  \/ Quiet /\ UNCHANGED run
  \/ \E c \in Conn : Moves(c, {"new"}, "backlog") /\ UNCHANGED run
  \/ \E c \in Conn : run = "accepting" /\ Moves(c, {"backlog"}, "handshake") /\ UNCHANGED run
  \/ \E c \in Conn : run = "accepting" /\ Moves(c, {"backlog", "handshake"}, "spawned") /\ UNCHANGED run
  \/ \E c \in Conn : Moves(c, {"spawned"}, "live") /\ UNCHANGED run
  \/ \E c \in Conn : Moves(c, {"live", "aborting"}, "done") /\ UNCHANGED run
  \/ \E c \in Conn : Moves(c, {"aborting"}, "aborted") /\ UNCHANGED run
  \/ run = "accepting" /\ run' = "err" /\ client' = AbortAll(DropHandshake(client))
  \/ run = "accepting" /\ run' = "draining" /\ client' = DropHandshake(client)
  \/ run = "draining" /\ run' = "ok" /\ InState(Spawned) = {} /\ Quiet
  \/ run = "draining" /\ run' = "ok" /\ client' = AbortAll(client)

\* Every step of the specification is one of these.
LEMMA NextKinds == RelayAssumption /\ [Next]_all => StepKinds
<1> SUFFICES ASSUME RelayAssumption, [Next]_all PROVE StepKinds
  OBVIOUS
<1> USE DEF StepKinds, Quiet, Moves
<1>1. CASE UNCHANGED all
  BY <1>1 DEF all, vars
<1>2. CASE Loop
  BY <1>2 DEF Loop, AcceptError, FailRun, Cancel, StartDrain, Drained, DrainTimeout, ReaperStop, tasks
<1>3. CASE Recorder
  BY <1>3 DEF Recorder, RecorderStart, RecorderRecv, RecorderTick, RecorderClose, RuntimeDrop
<1>4. ASSUME NEW c \in Conn, Arrive(c) \/ TaskEnd(c) \/ TaskAborted(c)
      PROVE  StepKinds
  <2>1. CASE Connect(c) BY <2>1 DEF Connect
  <2>2. CASE Accept(c) BY <2>2 DEF Accept
  <2>3. CASE Handshake(c) BY <2>3 DEF Handshake
  <2>4. CASE HandshakeError(c) BY <2>4 DEF HandshakeError, FailRun
  <2>5. CASE TaskStart(c) BY <2>5 DEF TaskStart
  <2>6. CASE TaskEnd(c) BY <2>6 DEF TaskEnd
  <2>7. CASE TaskAborted(c) BY <2>7 DEF TaskAborted
  <2> QED BY <1>4, <2>1, <2>2, <2>3, <2>4, <2>5, <2>6, <2>7 DEF Arrive
<1>5. ASSUME NEW c \in Conn, Peers(c)
      PROVE  StepKinds
  BY <1>5 DEF Peers, PeerSends, PeerShuts, PeerCloses, vars
<1>6. ASSUME NEW c \in Conn, Relay(c)
      PROVE  StepKinds
  <2>1. CASE Dialled(c) BY <2>1 DEF Dialled, vars
  <2>2. CASE DialFails(c) \/ RelayEnd(c)
    BY <2>2 DEF DialFails, RelayEnd, Return, Relaying
  <2>3. CASE \E d \in Direction : CopyRead(c, d) \/ CopyWrite(c, d) \/ CopyEof(c, d) \/ CopyFails(c, d)
    BY <2>3 DEF CopyRead, CopyWrite, CopyEof, CopyFails, CopyDone, vars
  <2> QED BY <1>6, <2>1, <2>2, <2>3 DEF Relay
<1> QED
  BY <1>1, <1>2, <1>3, <1>4, <1>5, <1>6 DEF Next, Clients, RelayAssumption

-----------------------------------------------------------------------------
(* The loop implements DrainLoop. *)

\* The connections and run keep their types.
ConnType == client \in [Conn -> ClientState] /\ run \in {"accepting", "draining", "ok", "err"}

\* Every step keeps them.
LEMMA ConnTypeStep == ConnType /\ StepKinds => ConnType'
BY DEF ConnType, StepKinds, Quiet, Moves, ClientState, AbortAll, DropHandshake

\* What DrainLoop sees of a connection, by where it is.
LEMMA ConnStateValues ==
  ASSUME ConnType, NEW c \in Conn
  PROVE  /\ ConnState[c] \in {"waiting", "served", "over", "cut"}
         /\ ConnState[c] = "waiting" <=> client[c] \in {"new", "backlog", "handshake"}
         /\ ConnState[c] = "served" <=> client[c] \in {"spawned", "live"}
         /\ ConnState[c] = "over" <=> client[c] = "done"
         /\ ConnState[c] = "cut" <=> client[c] \in {"aborting", "aborted", "dropped"}
BY DEF ConnType, ClientState, ConnState, Spawned

\* The same after a step.
LEMMA ConnStateValuesNext ==
  ASSUME ConnType', NEW c \in Conn
  PROVE  /\ ConnState'[c] \in {"waiting", "served", "over", "cut"}
         /\ ConnState'[c] = "waiting" <=> client'[c] \in {"new", "backlog", "handshake"}
         /\ ConnState'[c] = "served" <=> client'[c] \in {"spawned", "live"}
         /\ ConnState'[c] = "over" <=> client'[c] = "done"
         /\ ConnState'[c] = "cut" <=> client'[c] \in {"aborting", "aborted", "dropped"}
BY DEF ConnType, ClientState, ConnState, Spawned

\* When one connection moves, the others look to DrainLoop as they did.
LEMMA MoveSeen ==
  ASSUME ConnType, ConnType', NEW c \in Conn, NEW from, NEW to, Moves(c, from, to)
  PROVE  ConnState' = [ConnState EXCEPT ![c] = ConnState'[c]]
<1>1. \A e \in Conn : e # c => client'[e] = client[e]
  BY DEF Moves, ConnType
<1>2. \A e \in Conn : e # c => ConnState'[e] = ConnState[e]
  BY <1>1 DEF ConnState
<1>3. ConnState = [e \in Conn |-> ConnState[e]] /\ ConnState' = [e \in Conn |-> ConnState'[e]]
  BY DEF ConnState
<1> QED BY <1>2, <1>3

\* Each kind of step is one of DrainLoop, or leaves it alone.
LEMMA DrainStep ==
  ASSUME ConnType, ConnType', StepKinds
  PROVE  [Contract!Next]_(Contract!loopVars)
<1> USE DEF Contract!loopVars, Contract!Next
<1>0. \A e \in Conn : client[e] = client'[e] => ConnState[e] = ConnState'[e]
  BY DEF ConnState
<1>f. /\ ConnState = [e \in Conn |-> ConnState[e]]
      /\ ConnState' = [e \in Conn |-> ConnState'[e]]
  BY DEF ConnState
<1>q. Quiet => ConnState' = ConnState
  BY DEF Quiet, ConnState
<1>r. run' = run => LoopState' = LoopState
  BY DEF LoopState
<1>1. CASE Quiet /\ UNCHANGED run
  BY <1>1, <1>q, <1>r
<1>2. ASSUME NEW c \in Conn, UNCHANGED run,
             Moves(c, {"new"}, "backlog") \/ Moves(c, {"backlog"}, "handshake")
               \/ Moves(c, {"spawned"}, "live") \/ Moves(c, {"aborting"}, "aborted")
      PROVE  UNCHANGED Contract!loopVars
  <2>1. \A e \in Conn : ConnState'[e] = ConnState[e]
    BY <1>2, <1>0, ConnStateValues, ConnStateValuesNext DEF Moves, ConnType
  <2> QED BY <2>1, <1>2, <1>f, <1>r
<1>3. ASSUME NEW c \in Conn, UNCHANGED run, run = "accepting",
             Moves(c, {"backlog", "handshake"}, "spawned")
      PROVE  Contract!Take(c)
  <2>1. ConnState[c] = "waiting" /\ ConnState'[c] = "served"
    BY <1>3, ConnStateValues, ConnStateValuesNext DEF Moves, ConnType
  <2> QED BY <2>1, <1>3, <1>r, MoveSeen DEF Contract!Take, LoopState
<1>4. ASSUME NEW c \in Conn, UNCHANGED run, Moves(c, {"live", "aborting"}, "done")
      PROVE  Contract!Finish(c)
  <2>1. ConnState[c] \in {"served", "cut"} /\ ConnState'[c] = "over"
    BY <1>4, ConnStateValues, ConnStateValuesNext DEF Moves, ConnType
  <2> QED BY <2>1, <1>4, <1>r, MoveSeen DEF Contract!Finish
<1>5. CASE run = "accepting" /\ run' = "err" /\ client' = AbortAll(DropHandshake(client))
  <2>1. \A e \in Conn : /\ ConnState[e] = "served" => ConnState'[e] = "cut"
                        /\ ConnState[e] # "served" /\ ConnState'[e] # ConnState[e]
                              => ConnState[e] = "waiting" /\ ConnState'[e] = "cut"
    BY <1>5, <1>0, ConnStateValues, ConnStateValuesNext DEF AbortAll, DropHandshake, ConnType
  <2>2. Contract!CutOff
    BY <2>1 DEF Contract!CutOff, Contract!Served
  <2>3. LoopState = "accepting" /\ LoopState' = "returned"
    BY <1>5 DEF LoopState
  <2>4. Contract!Fail
    BY <2>2, <2>3 DEF Contract!Fail
  <2> QED BY <2>4
<1>6. CASE run = "accepting" /\ run' = "draining" /\ client' = DropHandshake(client)
  <2>1. \A e \in Conn : ConnState'[e] # ConnState[e]
                         => ConnState[e] = "waiting" /\ ConnState'[e] = "cut"
    BY <1>6, <1>0, ConnStateValues, ConnStateValuesNext DEF DropHandshake, ConnType
  <2>2. Contract!Stop
    BY <2>1, <1>6 DEF Contract!Stop, Contract!TurnAway, LoopState
  <2> QED BY <2>2
<1>7. CASE run = "draining" /\ run' = "ok" /\ InState(Spawned) = {} /\ Quiet
  <2>1. \A e \in Conn : ConnState[e] # "served"
    BY <1>7, ConnStateValues DEF InState, Spawned
  <2>2. Contract!Return
    BY <2>1, <1>7, <1>q DEF Contract!Return, Contract!Served, LoopState
  <2> QED BY <2>2
<1>8. CASE run = "draining" /\ run' = "ok" /\ client' = AbortAll(client)
  <2>1. \A e \in Conn : /\ ConnState[e] = "served" => ConnState'[e] = "cut"
                        /\ ConnState[e] # "served" => ConnState'[e] = ConnState[e]
    BY <1>8, <1>0, ConnStateValues, ConnStateValuesNext DEF AbortAll, ConnType
  <2>2. Contract!CutOff
    BY <2>1 DEF Contract!CutOff, Contract!Served
  <2>3. LoopState = "draining" /\ LoopState' = "returned"
    BY <1>8 DEF LoopState
  <2>4. Contract!GiveUp
    BY <2>2, <2>3 DEF Contract!GiveUp
  <2> QED BY <2>4
<1> QED
  BY <1>1, <1>2, <1>3, <1>4, <1>5, <1>6, <1>7, <1>8 DEF StepKinds, Moves

\* The service loop, with the tasks of a Pipeline or of ForwardTcp, implements
\* DrainLoop: whatever connects, fails or stalls, run() takes nothing once it
\* drains and leaves nothing it serves when it returns.
THEOREM LoopImplementsContract == Spec => ImplementsDrainLoop
<1>1. Init => ConnType /\ Contract!Init
  <2> SUFFICES ASSUME Init PROVE ConnType /\ Contract!Init
    OBVIOUS
  <2>1. ConnType BY DEF Init, ConnType, ClientState
  <2>2. \A c \in Conn : ConnState[c] = "waiting"
    BY <2>1, ConnStateValues DEF Init
  <2>3. ConnState = [c \in Conn |-> "waiting"]
    BY <2>2 DEF ConnState
  <2> QED BY <2>1, <2>3 DEF Contract!Init, Init, LoopState
<1>2. ConnType /\ [Next]_all => ConnType' /\ [Contract!Next]_(Contract!loopVars)
  BY NextKinds, ConnTypeStep, DrainStep, RelayAssumption
<1>3. RelayInit => Init
  BY DEF RelayInit
<1> QED BY <1>1, <1>2, <1>3, PTL DEF Spec, ImplementsDrainLoop, Contract!Spec

-----------------------------------------------------------------------------
(* The relay cuts nothing short. *)

\* Only a peer that has gone has reset its socket.
ResetIsClosed == \A c \in Conn, s \in Peer : <<c, s>> \in reset => peer[c][s] = "closed"

\* A copy is done when all that will ever be sent was handed over, or when one
\* of its sockets was reset.
DoneIsWhole ==
  \A c \in Conn, d \in Direction :
    copy[c][d] = "done" =>
      \/ got[c][d] = sent[c][d] /\ peer[c][From(d)] \in {"shut", "closed"}
      \/ <<c, From(d)>> \in reset
      \/ <<c, To(d)>> \in reset

\* A task that reached its server ends when both copies have.
EndedIsDone ==
  \A c \in Conn, d \in Direction :
    kind = "forward" /\ client[c] = "done" /\ peer[c]["server"] # "absent" => copy[c][d] = "done"

RelayInv == RelayType /\ ResetIsClosed /\ DoneIsWhole /\ EndedIsDone

\* The two ends of a direction are different peers.
LEMMA Ends == \A d \in Direction : From(d) \in Peer /\ To(d) \in Peer /\ From(d) # To(d)
BY DEF Direction, From, To, Peer

\* No copy has begun.
LEMMA RelayInvInit == RelayInit => RelayInv
BY DEF RelayInit, Init, RelayInv, RelayType, ResetIsClosed, DoneIsWhole, EndedIsDone, Peer, Direction

\* The steps that leave the relays alone: none of them ends a forwarded task.
LEMMA RelayInvOther ==
  ASSUME RelayInv, ConnType, UNCHANGED <<relay, kind>>,
         \A c \in Conn : client'[c] = "done" => client[c] = "done" \/ kind # "forward"
  PROVE  RelayInv'
BY DEF RelayInv, RelayType, ResetIsClosed, DoneIsWhole, EndedIsDone, relay

\* The steps of the peers.
LEMMA RelayInvPeers ==
  ASSUME RelayInv, NEW c \in Conn, Peers(c)
  PROVE  RelayInv'
<1> USE Ends DEF RelayInv, RelayType
<1>1. ASSUME NEW d \in Direction, PeerSends(c, d) PROVE RelayInv'
  <2>1. DoneIsWhole'
    BY <1>1 DEF PeerSends, DoneIsWhole
  <2> QED BY <1>1, <2>1 DEF PeerSends, ResetIsClosed, EndedIsDone, vars
<1>2. ASSUME NEW s \in Peer, PeerShuts(c, s) PROVE RelayInv'
  <2>1. ResetIsClosed' BY <1>2 DEF PeerShuts, ResetIsClosed
  <2>2. DoneIsWhole' BY <1>2 DEF PeerShuts, DoneIsWhole
  <2>3. EndedIsDone' BY <1>2 DEF PeerShuts, Present, EndedIsDone, vars
  <2> QED BY <1>2, <2>1, <2>2, <2>3 DEF PeerShuts
<1>3. ASSUME NEW s \in Peer, PeerCloses(c, s) PROVE RelayInv'
  <2>1. ResetIsClosed' BY <1>3 DEF PeerCloses, ResetIsClosed
  <2>2. DoneIsWhole' BY <1>3 DEF PeerCloses, DoneIsWhole
  <2>3. EndedIsDone' BY <1>3 DEF PeerCloses, Present, EndedIsDone, vars
  <2>4. RelayType' BY <1>3 DEF PeerCloses
  <2> QED BY <2>1, <2>2, <2>3, <2>4
<1> QED BY <1>1, <1>2, <1>3 DEF Peers

\* The steps of a task.
LEMMA RelayInvTask ==
  ASSUME RelayInv, ConnType, NEW c \in Conn, Relay(c)
  PROVE  RelayInv'
<1> USE Ends DEF RelayInv, RelayType
<1>1. CASE Dialled(c)
  <2>1. ResetIsClosed' BY <1>1 DEF Dialled, ResetIsClosed, Peer
  <2>2. DoneIsWhole' BY <1>1 DEF Dialled, DoneIsWhole, Peer
  <2>3. EndedIsDone' BY <1>1 DEF Dialled, Relaying, EndedIsDone, vars, Peer
  <2> QED BY <1>1, <2>1, <2>2, <2>3 DEF Dialled, Peer
<1>2. CASE DialFails(c) \/ RelayEnd(c)
  <2>1. EndedIsDone'
    BY <1>2 DEF DialFails, RelayEnd, Return, EndedIsDone, ConnType, relay
  <2> QED BY <1>2, <2>1 DEF DialFails, RelayEnd, Return, relay, ResetIsClosed, DoneIsWhole
<1>3. ASSUME NEW d \in Direction, CopyRead(c, d) PROVE RelayInv'
  BY <1>3 DEF CopyRead, ResetIsClosed, DoneIsWhole, EndedIsDone, vars
<1>4. ASSUME NEW d \in Direction, CopyWrite(c, d) PROVE RelayInv'
  <2>1. RelayType' BY <1>4 DEF CopyWrite
  <2>2. ResetIsClosed' BY <1>4 DEF CopyWrite, ResetIsClosed
  <2>3. DoneIsWhole' BY <1>4 DEF CopyWrite, Copying, DoneIsWhole
  <2>4. EndedIsDone' BY <1>4 DEF CopyWrite, EndedIsDone, vars
  <2> QED BY <2>1, <2>2, <2>3, <2>4
<1>5. ASSUME NEW d \in Direction, CopyEof(c, d) \/ CopyFails(c, d) PROVE RelayInv'
  <2>1. /\ copy' = [copy EXCEPT ![c][d] = "done"]
        /\ UNCHANGED <<vars, peer, reset, sent, taken, got>>
    BY <1>5 DEF CopyEof, CopyFails, CopyDone
  <2>2. \/ got[c][d] = sent[c][d] /\ peer[c][From(d)] \in {"shut", "closed"}
        \/ <<c, From(d)>> \in reset
        \/ <<c, To(d)>> \in reset
    BY <1>5 DEF CopyEof, CopyFails
  <2>3. RelayType' BY <2>1
  <2>4. ResetIsClosed' BY <2>1 DEF ResetIsClosed
  <2>5. DoneIsWhole' BY <2>1, <2>2 DEF DoneIsWhole
  <2>6. EndedIsDone' BY <2>1 DEF EndedIsDone, vars
  <2> QED BY <2>3, <2>4, <2>5, <2>6
<1> QED BY <1>1, <1>2, <1>3, <1>4, <1>5 DEF Relay

\* The steps of the loop, of the recorder and of connections on their way leave
\* the relays alone.
LEMMA LoopLeavesRelay ==
  ASSUME ConnType,
         \/ Loop \/ Recorder
         \/ \E c \in Conn : Arrive(c) \/ TaskEnd(c) \/ TaskAborted(c)
  PROVE  /\ kind' = kind
         /\ \A e \in Conn : client'[e] = "done" => client[e] = "done" \/ kind # "forward"
<1> USE DEF ConnType
<1>1. CASE Loop
  <2>1. CASE AcceptError
    BY <2>1 DEF AcceptError, FailRun, AbortAll, DropHandshake
  <2>2. CASE Cancel \/ StartDrain \/ Drained \/ DrainTimeout \/ ReaperStop
    BY <2>2 DEF Cancel, StartDrain, Drained, DrainTimeout, ReaperStop, tasks, AbortAll, DropHandshake
  <2> QED BY <1>1, <2>1, <2>2 DEF Loop
<1>2. CASE Recorder
  BY <1>2 DEF Recorder, RecorderStart, RecorderRecv, RecorderTick, RecorderClose, RuntimeDrop
<1>3. CASE \E c \in Conn : Connect(c) \/ Accept(c) \/ Handshake(c)
  BY <1>3 DEF Connect, Accept, Handshake
<1>4. CASE \E c \in Conn : HandshakeError(c)
  BY <1>4 DEF HandshakeError, FailRun, AbortAll, DropHandshake
<1>5. CASE \E c \in Conn : TaskStart(c) \/ TaskAborted(c)
  BY <1>5 DEF TaskStart, TaskAborted
<1>6. CASE \E c \in Conn : TaskEnd(c)
  BY <1>6 DEF TaskEnd
<1> QED BY <1>1, <1>2, <1>3, <1>4, <1>5, <1>6 DEF Arrive

\* Every step preserves the invariant of the relay.
LEMMA RelayInvStep == ConnType /\ RelayInv /\ [Next]_all => RelayInv'
<1> SUFFICES ASSUME ConnType, RelayInv, [Next]_all PROVE RelayInv'
  OBVIOUS
<1>1. CASE UNCHANGED all
  BY <1>1, RelayInvOther DEF all, vars
<1>2. CASE /\ UNCHANGED relay
           /\ Loop \/ Recorder \/ \E c \in Conn : Arrive(c) \/ TaskEnd(c) \/ TaskAborted(c)
  BY <1>2, LoopLeavesRelay, RelayInvOther
<1>3. CASE \E c \in Conn : Peers(c) \/ Relay(c)
  BY <1>3, RelayInvPeers, RelayInvTask
<1> QED BY <1>1, <1>2, <1>3, RelayAssumption DEF Next, Clients, RelayAssumption

\* ForwardTcp joins its copies: when the task comes to its end by itself, all
\* that a peer sent was handed to the other, unless that one has gone or the
\* sender's connection was reset, for any number of connections and pieces.
THEOREM RelayCutsNothing == Spec => []NoTruncation
<1>1. RelayInit => ConnType /\ RelayInv
  BY RelayInvInit DEF RelayInit, Init, ConnType, ClientState
<1>2. ConnType /\ RelayInv /\ [Next]_all => (ConnType /\ RelayInv)'
  BY RelayInvStep, NextKinds, ConnTypeStep, RelayAssumption
<1>3. RelayInv => NoTruncation
  BY Ends DEF RelayInv, ResetIsClosed, DoneIsWhole, EndedIsDone, NoTruncation
<1> QED BY <1>1, <1>2, <1>3, PTL DEF Spec

-----------------------------------------------------------------------------
(* Sequences of entries. *)

\* An entry that was not there keeps entries distinct.
LEMMA AppendDistinct ==
  ASSUME NEW S, NEW s \in Seq(S), NEW c \in S, c \notin ToSet(s), IsInjective(s)
  PROVE  IsInjective(Append(s, c)) /\ ToSet(Append(s, c)) = ToSet(s) \cup {c}
<1>1. /\ Append(s, c) \in Seq(S) /\ Len(Append(s, c)) = Len(s) + 1
      /\ \A i \in 1..Len(s) : Append(s, c)[i] = s[i]
      /\ Append(s, c)[Len(s) + 1] = c
  BY AppendProperties
<1>2. DOMAIN s = 1..Len(s) /\ DOMAIN Append(s, c) = 1..(Len(s) + 1) /\ Len(s) \in Nat
  BY <1>1, LenProperties
<1>3. \A i \in 1..Len(s) : s[i] # c
  BY <1>2 DEF ToSet
<1>4. IsInjective(Append(s, c))
  <2> SUFFICES ASSUME NEW i \in 1..(Len(s) + 1), NEW j \in 1..(Len(s) + 1),
                      Append(s, c)[i] = Append(s, c)[j]
               PROVE  i = j
    BY <1>2 DEF IsInjective
  <2>1. CASE i = Len(s) + 1 \/ j = Len(s) + 1
    BY <1>1, <1>2, <1>3, <2>1
  <2>2. CASE i # Len(s) + 1 /\ j # Len(s) + 1
    <3>1. i \in 1..Len(s) /\ j \in 1..Len(s) BY <1>2, <2>2
    <3> QED BY <1>1, <1>2, <3>1 DEF IsInjective
  <2> QED BY <2>1, <2>2
<1>5. ToSet(s) \cup {c} \subseteq ToSet(Append(s, c))
  <2>1. \A i \in 1..Len(s) : i \in 1..(Len(s) + 1) BY <1>2
  <2>2. Len(s) + 1 \in 1..(Len(s) + 1) BY <1>2
  <2> QED BY <1>1, <1>2, <2>1, <2>2 DEF ToSet
<1>6. ToSet(Append(s, c)) \subseteq ToSet(s) \cup {c}
  <2>1. \A i \in 1..(Len(s) + 1) : i \in 1..Len(s) \/ i = Len(s) + 1 BY <1>2
  <2> QED BY <1>1, <1>2, <2>1 DEF ToSet
<1> QED BY <1>4, <1>5, <1>6

\* What is left of distinct entries when some are cut out is distinct.
LEMMA CutDistinct ==
  ASSUME NEW S, NEW s \in Seq(S), NEW t \in Seq(S), NEW u \in Seq(S), IsInjective((s \o t) \o u)
  PROVE  IsInjective(s \o u) /\ ToSet(s \o u) \subseteq ToSet((s \o t) \o u)
<1> DEFINE n == Len(s)
           m == Len(t)
           k == Len(u)
           whole == (s \o t) \o u
           left == s \o u
           at(i) == IF i <= n THEN i ELSE i + m
<1>1. n \in Nat /\ m \in Nat /\ k \in Nat
  BY LenProperties
<1>2. s \o t \in Seq(S) /\ Len(s \o t) = n + m
  BY CatType
<1>3. DOMAIN whole = 1..((n + m) + k) /\ DOMAIN left = 1..(n + k)
  <2>1. whole \in Seq(S) /\ Len(whole) = (n + m) + k /\ left \in Seq(S) /\ Len(left) = n + k
    BY <1>2, CatType
  <2> QED BY <2>1, LenProperties
<1>4. \A i \in 1..(n + k) : at(i) \in 1..((n + m) + k)
  BY <1>1
<1>5. \A i \in 1..(n + k) : left[i] = whole[at(i)]
  <2> SUFFICES ASSUME NEW i \in 1..(n + k) PROVE left[i] = whole[at(i)]
    OBVIOUS
  <2>1. left[i] = IF i <= n THEN s[i] ELSE u[i - n]
    BY ConcatProperties
  <2>2. at(i) \in 1..(Len(s \o t) + Len(u))
    BY <1>2, <1>4
  <2>3. whole[at(i)] = IF at(i) <= Len(s \o t) THEN (s \o t)[at(i)] ELSE u[at(i) - Len(s \o t)]
    BY <1>2, <2>2, ConcatProperties
  <2>4. CASE i <= n
    <3>1. at(i) = i /\ i \in 1..(n + m) BY <1>1, <2>4
    <3>2. (s \o t)[i] = s[i] BY <2>4, <3>1, ConcatProperties
    <3> QED BY <1>1, <1>2, <2>1, <2>3, <2>4, <3>1, <3>2
  <2>5. CASE ~(i <= n)
    <3>1. at(i) = i + m /\ ~(i + m <= n + m) /\ (i + m) - (n + m) = i - n BY <1>1, <2>5
    <3> QED BY <1>2, <2>1, <2>3, <2>5, <3>1
  <2> QED BY <2>4, <2>5
<1>6. \A i, j \in 1..(n + k) : at(i) = at(j) => i = j
  BY <1>1
<1> HIDE DEF whole, left, at, n, m, k
<1>7. IsInjective(left)
  <2> SUFFICES ASSUME NEW i \in 1..(n + k), NEW j \in 1..(n + k), left[i] = left[j]
               PROVE  i = j
    BY <1>3 DEF IsInjective
  <2>1. whole[at(i)] = whole[at(j)] BY <1>5
  <2>2. IsInjective(whole) BY DEF whole
  <2>3. at(i) = at(j) BY <1>3, <1>4, <2>1, <2>2 DEF IsInjective
  <2> QED BY <1>6, <2>3
<1>8. ToSet(left) \subseteq ToSet(whole)
  BY <1>3, <1>4, <1>5 DEF ToSet
<1> QED BY <1>7, <1>8 DEF left, whole

\* What is sent comes last.
LEMMA SentEntry ==
  ASSUME NEW S, NEW s \in Seq(S), NEW h \in Seq(S), NEW c \in S
  PROVE  s \o Append(h, c) = Append(s \o h, c)
<1>1. Append(h, c) = h \o <<c>> /\ s \o h \in Seq(S) /\ <<c>> \in Seq(S)
  BY AppendIsConcat, ConcatProperties
<1>2. Append(s \o h, c) = (s \o h) \o <<c>>
  BY <1>1, AppendIsConcat
<1>3. (s \o h) \o <<c>> = s \o (h \o <<c>>)
  BY <1>1, ConcatAssociative
<1> QED BY <1>1, <1>2, <1>3

-----------------------------------------------------------------------------
(* Every connection is accounted for. *)

\* The types of the gauge and of the recorder's entries.
LogType ==
  /\ active \in Int /\ fault \in BOOLEAN
  /\ channel \in Seq(Conn) /\ unflushed \in Seq(Conn) /\ disk \in Seq(Conn)

\* ForwardTcp has no recorder, and a recorder that has ended will get nothing
\* more: there is nobody left to send.
RecorderFits ==
  /\ recorder \in {"none", "starting", "running", "panicked", "done", "killed"}
  /\ kind = "forward" => recorder = "none"
  /\ recorder = "done" => HandlesDropped

AccountInv == ConnType /\ LogType /\ RecorderFits /\ AccountedFor

Counted == InState({"live", "aborting", "aborted"})

\* There are finitely many connections to count.
LEMMA CountedFinite == IsFiniteSet(Counted)
BY ServiceAssumption, FS_Subset DEF ServiceAssumption, Counted, InState

\* Steps that start or end no task and lose no entry.
LEMMA SameAccount ==
  ASSUME AccountedFor, kind' = kind, active' = active, Entries' = Entries, fault' = fault,
         \A c \in Conn : client'[c] = "done" <=> client[c] = "done",
         \A c \in Conn : client'[c] \in {"live", "aborting", "aborted"}
                             <=> client[c] \in {"live", "aborting", "aborted"},
         ToSet(Entries) \subseteq Conn,
         recorder' \notin {"panicked", "killed", "none"} => recorder \notin {"panicked", "killed", "none"}
  PROVE  AccountedFor'
<1>1. InState({"done"})' = InState({"done"}) /\ Counted' = Counted
  BY DEF InState, Counted
<1>2. ToSet(Entries)' = ToSet(Entries) /\ IsInjective(Entries)' = IsInjective(Entries)
  OBVIOUS
<1> QED BY <1>1, <1>2 DEF AccountedFor, Counted

\* Steps that lose entries: the recorder is dead or a write of it failed.
LEMMA LosesEntries ==
  ASSUME AccountedFor, kind' = kind, active' = active, client' = client,
         recorder' \in {"panicked", "killed"} \/ fault',
         IsInjective(Entries'), ToSet(Entries') \subseteq ToSet(Entries)
  PROVE  AccountedFor'
<1>1. InState({"live", "aborting", "aborted"})' = InState({"live", "aborting", "aborted"})
  BY DEF InState
<1> QED BY <1>1 DEF AccountedFor

\* Entries are connections.
LEMMA EntriesType == LogType => Entries \in Seq(Conn) /\ ToSet(Entries) \subseteq Conn
<1>1. ASSUME NEW s \in Seq(Conn) PROVE ToSet(s) \subseteq Conn
  BY LenProperties, ElementOfSeq DEF ToSet
<1>2. ASSUME LogType PROVE Entries \in Seq(Conn)
  <2>1. disk \o unflushed \in Seq(Conn) BY <1>2, ConcatProperties DEF LogType
  <2> QED BY <1>2, <2>1, ConcatProperties DEF LogType, Entries
<1> QED BY <1>1, <1>2

\* conn_start counts the task.
LEMMA StartAccount ==
  ASSUME AccountInv, NEW c \in Conn, TaskStart(c)
  PROVE  AccountedFor'
<1>1. Counted' = Counted \cup {c} /\ c \notin Counted
  BY DEF AccountInv, ConnType, TaskStart, Counted, InState
<1>2. Cardinality(Counted') = Cardinality(Counted) + 1
  BY <1>1, CountedFinite, FS_AddElement
<1>3. InState({"done"})' = InState({"done"})
  BY DEF AccountInv, ConnType, TaskStart, InState
<1>4. Entries' = Entries /\ fault' = fault
  BY DEF TaskStart, log, Entries
<1>5. \A e \in ToSet(Entries) : client'[e] = "done"
  BY EntriesType DEF AccountInv, AccountedFor, TaskStart, ConnType
<1>6. kind # "forward" => active' = Cardinality(Counted')
  BY <1>2 DEF AccountInv, AccountedFor, TaskStart, Counted
<1> QED BY <1>3, <1>4, <1>5, <1>6 DEF AccountInv, AccountedFor, TaskStart, Counted

\* conn_end takes the task off the gauge, and log_request adds its entry.
LEMMA EndAccount ==
  ASSUME AccountInv, NEW c \in Conn, TaskEnd(c)
  PROVE  AccountedFor'
<1> USE DEF AccountInv
<1>1. Counted' = Counted \ {c} /\ c \in Counted
  BY DEF ConnType, TaskEnd, Counted, InState
<1>2. Cardinality(Counted') = Cardinality(Counted) - 1
  BY <1>1, CountedFinite, FS_RemoveElement
<1>3. InState({"done"})' = InState({"done"}) \cup {c}
  BY DEF ConnType, TaskEnd, InState
<1>4. kind' # "forward" => active' = Cardinality(Counted')
  BY <1>2 DEF AccountedFor, TaskEnd, Counted
<1>5. c \notin ToSet(Entries)
  BY DEF AccountedFor, TaskEnd
<1>6. recorder # "done"
  BY DEF RecorderFits, HandlesDropped, InState, TaskEnd, Spawned
<1>7. \A e \in ToSet(Entries) \cup {c} : client'[e] = "done"
  BY EntriesType DEF AccountedFor, TaskEnd, ConnType
<1>8. CASE recorder \in {"starting", "running"}
  <2>1. Entries' = Append(Entries, c)
    <3>1. disk \o unflushed \in Seq(Conn) BY ConcatProperties DEF LogType
    <3> QED BY <1>8, <3>1, SentEntry DEF TaskEnd, Entries, LogType
  <2>2. IsInjective(Entries') /\ ToSet(Entries') = ToSet(Entries) \cup {c}
    BY <1>5, <2>1, EntriesType, AppendDistinct DEF AccountedFor
  <2>3. recorder' = recorder /\ fault' = fault BY DEF TaskEnd
  <2>4. ~fault => InState({"done"}) \subseteq ToSet(Entries)
    BY <1>8 DEF AccountedFor
  <2> QED BY <1>3, <1>4, <1>7, <2>2, <2>3, <2>4 DEF AccountedFor, Counted
<1>9. CASE recorder \notin {"starting", "running"}
  <2>1. Entries' = Entries /\ recorder' = recorder
    BY <1>9 DEF TaskEnd, Entries
  <2>2. recorder \in {"panicked", "killed", "none"}
    BY <1>6, <1>9 DEF RecorderFits
  <2> QED BY <1>4, <1>7, <2>1, <2>2 DEF AccountedFor, Counted
<1> QED BY <1>8, <1>9

\* A forwarded task ends without a trace in gauge and recorder.
LEMMA ReturnAccount ==
  ASSUME AccountInv, NEW c \in Conn, kind = "forward", Return(c)
  PROVE  AccountedFor'
<1>1. Entries' = Entries /\ kind' = kind /\ recorder' = recorder
  BY DEF Return, log, Entries
<1>2. \A e \in ToSet(Entries) : client'[e] = "done"
  BY EntriesType DEF AccountInv, AccountedFor, Return, ConnType
<1> QED BY <1>1, <1>2 DEF AccountInv, AccountedFor, RecorderFits

\* What the steps of the recorder that do not fail make of its entries.
LEMMA EntriesMove ==
  ASSUME LogType
  PROVE  /\ disk \o unflushed \in Seq(Conn)
         /\ (disk \o unflushed) \o <<>> = disk \o unflushed
         /\ channel # <<>> =>
              /\ Tail(channel) \in Seq(Conn) /\ <<Head(channel)>> \in Seq(Conn)
              /\ Append(unflushed, Head(channel)) \in Seq(Conn)
              /\ disk \o Append(unflushed, Head(channel)) \o Tail(channel) = disk \o unflushed \o channel
              /\ (disk \o unflushed) \o <<Head(channel)>> \o Tail(channel) = disk \o unflushed \o channel
<1>s. disk \in Seq(Conn) /\ unflushed \in Seq(Conn) /\ channel \in Seq(Conn)
  BY DEF LogType
<1>1. disk \o unflushed \in Seq(Conn) BY <1>s, ConcatProperties
<1>2. (disk \o unflushed) \o <<>> = disk \o unflushed BY <1>1, ConcatEmptySeq
<1>3. ASSUME channel # <<>>
      PROVE  /\ Tail(channel) \in Seq(Conn) /\ <<Head(channel)>> \in Seq(Conn)
             /\ Append(unflushed, Head(channel)) \in Seq(Conn)
             /\ disk \o Append(unflushed, Head(channel)) \o Tail(channel) = disk \o unflushed \o channel
             /\ (disk \o unflushed) \o <<Head(channel)>> \o Tail(channel) = disk \o unflushed \o channel
  <2>2. Head(channel) \in Conn /\ Tail(channel) \in Seq(Conn) /\ <<Head(channel)>> \in Seq(Conn)
    BY <1>3, <1>s, HeadTailProperties
  <2>3. <<Head(channel)>> \o Tail(channel) = channel
    BY <1>3, <1>s, <2>2
  <2>4. Append(unflushed, Head(channel)) = unflushed \o <<Head(channel)>>
    BY <1>s, <2>2, AppendIsConcat
  <2>5. disk \o (unflushed \o <<Head(channel)>>) = (disk \o unflushed) \o <<Head(channel)>>
    BY <1>s, <2>2, ConcatAssociative
  <2>6. ((disk \o unflushed) \o <<Head(channel)>>) \o Tail(channel)
          = (disk \o unflushed) \o (<<Head(channel)>> \o Tail(channel))
    BY <1>1, <2>2, ConcatAssociative
  <2>7. Append(unflushed, Head(channel)) \in Seq(Conn)
    BY <1>s, <2>2, AppendProperties
  <2> QED BY <2>2, <2>3, <2>4, <2>5, <2>6, <2>7
<1> QED BY <1>1, <1>2, <1>3

\* What remains of its entries when a flush stops after n of those in the buffer:
\* those on disk and in the buffer stay what they were, and a front is left if
\* the rest of the buffer goes too.
LEMMA EntriesLeft ==
  ASSUME AccountInv, NEW n \in 0..Len(unflushed)
  PROVE  LET pushed == disk \o SubSeq(unflushed, 1, n)
             kept == SubSeq(unflushed, n + 1, Len(unflushed))
         IN /\ pushed \in Seq(Conn) /\ kept \in Seq(Conn)
            /\ pushed \o kept = disk \o unflushed
            /\ IsInjective(pushed) /\ ToSet(pushed) \subseteq ToSet(Entries)
            /\ channel # <<>> => /\ IsInjective(pushed \o kept \o Tail(channel))
                                 /\ ToSet(pushed \o kept \o Tail(channel)) \subseteq ToSet(Entries)
<1> DEFINE front == SubSeq(unflushed, 1, n)
           kept == SubSeq(unflushed, n + 1, Len(unflushed))
           pushed == disk \o front
<1>s. disk \in Seq(Conn) /\ unflushed \in Seq(Conn) /\ channel \in Seq(Conn) /\ LogType
  BY DEF AccountInv, LogType
<1>1. front \in Seq(Conn) /\ kept \in Seq(Conn) /\ front \o kept = unflushed
  BY <1>s, CutAt
<1>a. \A a, b, c \in Seq(Conn) : a \o (b \o c) = (a \o b) \o c BY CatAssociative
<1>i. IsInjective(Entries) /\ Entries = (disk \o unflushed) \o channel
  BY DEF AccountInv, AccountedFor, Entries
<1> HIDE DEF front, kept
<1>2. pushed \in Seq(Conn) BY <1>s, <1>1, CatType
<1>3. pushed \o kept = disk \o unflushed
  <2>1. disk \o (front \o kept) = (disk \o front) \o kept BY <1>s, <1>1, <1>a, Zenon
  <2> QED BY <1>1, <2>1
<1>4. IsInjective(pushed) /\ ToSet(pushed) \subseteq ToSet(Entries)
  <2>1. kept \o channel \in Seq(Conn) /\ <<>> \in Seq(Conn) BY <1>s, <1>1, CatType, EmptySeq
  <2>2. (pushed \o (kept \o channel)) \o <<>> = Entries
    <3>1. pushed \o (kept \o channel) = (pushed \o kept) \o channel BY <1>s, <1>1, <1>2, <1>a, Zenon
    <3>2. (disk \o unflushed) \o channel \in Seq(Conn) BY <1>s, CatType
    <3> QED BY <1>3, <1>i, <3>1, <3>2, ConcatEmptySeq
  <2>3. IsInjective((pushed \o (kept \o channel)) \o <<>>) BY <1>i, <2>2
  <2>4. IsInjective(pushed \o <<>>) /\ ToSet(pushed \o <<>>) \subseteq ToSet((pushed \o (kept \o channel)) \o <<>>)
    BY <1>2, <2>1, <2>3, CutDistinct
  <2>5. pushed \o <<>> = pushed BY <1>2, ConcatEmptySeq
  <2> QED BY <2>2, <2>4, <2>5
<1>5. ASSUME channel # <<>>
      PROVE  /\ IsInjective(pushed \o kept \o Tail(channel))
             /\ ToSet(pushed \o kept \o Tail(channel)) \subseteq ToSet(Entries)
  <2>1. /\ Tail(channel) \in Seq(Conn) /\ <<Head(channel)>> \in Seq(Conn) /\ disk \o unflushed \in Seq(Conn)
        /\ (disk \o unflushed) \o <<Head(channel)>> \o Tail(channel) = Entries
    BY <1>s, <1>5, <1>i, EntriesMove
  <2>2. IsInjective(((disk \o unflushed) \o <<Head(channel)>>) \o Tail(channel)) BY <1>i, <2>1
  <2>3. /\ IsInjective((disk \o unflushed) \o Tail(channel))
        /\ ToSet((disk \o unflushed) \o Tail(channel))
             \subseteq ToSet(((disk \o unflushed) \o <<Head(channel)>>) \o Tail(channel))
    BY <2>1, <2>2, CutDistinct
  <2> QED BY <1>3, <2>1, <2>3
<1> QED BY <1>1, <1>2, <1>3, <1>4, <1>5 DEF front, kept

\* A flush loses nothing, whether it fails or not.
LEMMA FlushAccount ==
  ASSUME AccountInv, Flushed \/ FlushFails
  PROVE  /\ fault' \in BOOLEAN /\ (fault => fault')
         /\ disk' \in Seq(Conn) /\ unflushed' \in Seq(Conn) /\ disk' \o unflushed' = disk \o unflushed
<1>s. LogType BY DEF AccountInv
<1>1. CASE Flushed
  BY <1>s, <1>1, EntriesMove, EmptySeq DEF Flushed, LogType
<1>2. CASE FlushFails
  <2>1. PICK n \in 0..Len(unflushed) : /\ disk' = disk \o SubSeq(unflushed, 1, n)
                                       /\ unflushed' = SubSeq(unflushed, n + 1, Len(unflushed))
    BY <1>2 DEF FlushFails
  <2>2. fault' = TRUE BY <1>2 DEF FlushFails
  <2> QED BY <2>1, <2>2, EntriesLeft
<1> QED BY <1>1, <1>2

\* What the BufWriter leaves when it is dropped.
LEMMA DropAccount ==
  ASSUME AccountInv, DropWriter
  PROVE  /\ fault' \in BOOLEAN /\ disk' \in Seq(Conn) /\ unflushed' = <<>>
         /\ \/ fault' = fault /\ disk' = disk \o unflushed
            \/ fault'
         /\ IsInjective(disk') /\ ToSet(disk') \subseteq ToSet(Entries)
<1>s. LogType /\ Len(unflushed) \in 0..Len(unflushed)
  BY LenProperties DEF AccountInv, LogType
<1>1. CASE disk' = disk \o unflushed /\ UNCHANGED fault
  <2>1. SubSeq(unflushed, 1, Len(unflushed)) = unflushed BY <1>s, SubSeqFull DEF LogType
  <2>2. disk' = disk \o SubSeq(unflushed, 1, Len(unflushed)) BY <1>1, <2>1
  <2>3. disk' \in Seq(Conn) /\ IsInjective(disk') /\ ToSet(disk') \subseteq ToSet(Entries)
    BY <1>s, <2>2, EntriesLeft
  <2> QED BY <1>s, <1>1, <2>3 DEF DropWriter, LogType
<1>2. CASE fault' = TRUE /\ \E n \in 0..Len(unflushed) : disk' = disk \o SubSeq(unflushed, 1, n)
  <2>1. PICK n \in 0..Len(unflushed) : disk' = disk \o SubSeq(unflushed, 1, n)
    BY <1>2
  <2>2. disk' \in Seq(Conn) /\ IsInjective(disk') /\ ToSet(disk') \subseteq ToSet(Entries)
    BY <2>1, EntriesLeft
  <2> QED BY <1>2, <2>2 DEF DropWriter
<1> QED BY <1>1, <1>2 DEF DropWriter

\* The recorder task moves entries, and loses some only when it dies or fails to
\* write.
LEMMA RecorderAccount ==
  ASSUME AccountInv, Recorder
  PROVE  LogType' /\ AccountedFor'
<1> USE DEF AccountInv
<1>s. disk \in Seq(Conn) /\ unflushed \in Seq(Conn) /\ channel \in Seq(Conn) /\ <<>> \in Seq(Conn)
  BY EmptySeq DEF LogType
<1>0. ToSet(Entries) \subseteq Conn
  BY EntriesType
<1>e. Len(unflushed) \in 0..Len(unflushed) /\ SubSeq(unflushed, 1, Len(unflushed)) = unflushed
  BY <1>s, LenProperties, SubSeqFull
<1>f. IsInjective(disk \o unflushed) /\ ToSet(disk \o unflushed) \subseteq ToSet(Entries)
  <2>1. /\ IsInjective(disk \o SubSeq(unflushed, 1, Len(unflushed)))
        /\ ToSet(disk \o SubSeq(unflushed, 1, Len(unflushed))) \subseteq ToSet(Entries)
    BY <1>e, EntriesLeft
  <2> QED BY <1>e, <2>1
<1>1. CASE RecorderStart
  <2>1. CASE recorder' = "running" /\ UNCHANGED channel
    <3>1. Entries' = Entries BY <1>1, <2>1 DEF RecorderStart, Entries
    <3>2. AccountedFor' BY <1>0, <1>1, <2>1, <3>1, SameAccount DEF RecorderStart
    <3> QED BY <1>1, <2>1, <3>2 DEF RecorderStart, LogType
  <2>2. CASE recorder' = "panicked" /\ channel' = <<>>
    <3>1. Entries' = disk \o unflushed BY <1>1, <2>2, EntriesMove DEF RecorderStart, Entries
    <3>2. AccountedFor' BY <1>1, <1>f, <2>2, <3>1, LosesEntries DEF RecorderStart
    <3> QED BY <1>1, <1>s, <2>2, <3>2 DEF RecorderStart, LogType
  <2> QED BY <1>1, <2>1, <2>2 DEF RecorderStart
<1>2. CASE RecorderRecv
  <2>0. channel # <<>> /\ channel' = Tail(channel) BY <1>2 DEF RecorderRecv
  <2>1. CASE unflushed' = Append(unflushed, Head(channel)) /\ UNCHANGED <<disk, fault>>
    <3>1. Entries' = Entries BY <2>0, <2>1, EntriesMove DEF Entries
    <3>2. AccountedFor' BY <1>0, <1>2, <2>1, <3>1, SameAccount DEF RecorderRecv
    <3>3. LogType' BY <1>2, <2>0, <2>1, EntriesMove DEF RecorderRecv, LogType
    <3> QED BY <3>2, <3>3
  <2>2. CASE unflushed' = <<Head(channel)>> /\ disk' = disk \o unflushed /\ UNCHANGED fault
    <3>1. Entries' = Entries BY <2>0, <2>2, EntriesMove DEF Entries
    <3>2. AccountedFor' BY <1>0, <1>2, <2>2, <3>1, SameAccount DEF RecorderRecv
    <3>3. LogType' BY <1>2, <2>0, <2>2, EntriesMove DEF RecorderRecv, LogType
    <3> QED BY <3>2, <3>3
  <2>3. CASE FlushFails
    <3>1. PICK n \in 0..Len(unflushed) : /\ disk' = disk \o SubSeq(unflushed, 1, n)
                                         /\ unflushed' = SubSeq(unflushed, n + 1, Len(unflushed))
      BY <2>3 DEF FlushFails
    <3>2. IsInjective(Entries') /\ ToSet(Entries') \subseteq ToSet(Entries)
      BY <2>0, <3>1, EntriesLeft DEF Entries
    <3>3. fault' = TRUE BY <2>3 DEF FlushFails
    <3>4. AccountedFor' BY <1>2, <3>2, <3>3, LosesEntries DEF RecorderRecv
    <3>5. LogType' BY <1>2, <2>0, <2>3, <3>3, FlushAccount, EntriesMove DEF RecorderRecv, LogType
    <3> QED BY <3>4, <3>5
  <2> QED BY <1>2, <2>1, <2>2, <2>3 DEF RecorderRecv
<1>3. CASE RecorderTick
  <2>1. Entries' = Entries
    BY <1>3, FlushAccount DEF RecorderTick, Entries
  <2>2. LogType' BY <1>3, FlushAccount DEF RecorderTick, LogType
  <2>3. CASE fault' = fault
    BY <1>0, <1>3, <2>1, <2>2, <2>3, SameAccount DEF RecorderTick
  <2>4. CASE fault' # fault
    <3>1. fault' = TRUE BY <1>3, <2>4, FlushAccount DEF RecorderTick, LogType
    <3>2. IsInjective(Entries') /\ ToSet(Entries') \subseteq ToSet(Entries) BY <2>1 DEF AccountedFor
    <3> QED BY <1>3, <2>2, <3>1, <3>2, LosesEntries DEF RecorderTick
  <2> QED BY <2>3, <2>4
<1>4. CASE RecorderClose
  <2>0. channel = <<>> /\ channel' = <<>> /\ DropWriter BY <1>4 DEF RecorderClose
  <2>1. Entries' = disk'
    BY <2>0, DropAccount, ConcatEmptySeq DEF Entries
  <2>2. LogType' BY <1>4, <1>s, <2>0, DropAccount DEF RecorderClose, LogType
  <2>3. CASE fault' = fault /\ disk' = disk \o unflushed
    <3>1. Entries' = Entries BY <2>0, <2>1, <2>3, EntriesMove DEF Entries
    <3> QED BY <1>0, <1>4, <2>2, <2>3, <3>1, SameAccount DEF RecorderClose
  <2>4. CASE fault'
    BY <1>4, <2>0, <2>1, <2>2, <2>4, DropAccount, LosesEntries DEF RecorderClose
  <2> QED BY <2>0, <2>3, <2>4, DropAccount
<1>5. CASE RuntimeDrop
  <2>0. channel' = <<>> /\ DropWriter BY <1>5 DEF RuntimeDrop
  <2>1. Entries' = disk'
    BY <2>0, DropAccount, ConcatEmptySeq DEF Entries
  <2>2. AccountedFor' BY <1>5, <2>0, <2>1, DropAccount, LosesEntries DEF RuntimeDrop
  <2>3. LogType' BY <1>5, <1>s, <2>0, DropAccount DEF RuntimeDrop, LogType
  <2> QED BY <2>2, <2>3
<1> QED BY <1>1, <1>2, <1>3, <1>4, <1>5 DEF Recorder

\* Once run() has returned and its tasks are over, it stays so.
LEMMA DroppedForGood == ConnType /\ HandlesDropped /\ StepKinds => HandlesDropped'
<1> SUFFICES ASSUME ConnType, HandlesDropped, StepKinds PROVE HandlesDropped'
  OBVIOUS
<1>1. run \in {"ok", "err"} /\ \A c \in Conn : client[c] \notin {"spawned", "live", "aborting"}
  BY DEF HandlesDropped, InState, Spawned
<1>2. run' = run /\ \A c \in Conn : client'[c] \notin {"spawned", "live", "aborting"}
  BY <1>1 DEF StepKinds, Quiet, Moves, ConnType
<1> QED BY <1>1, <1>2 DEF HandlesDropped, InState, Spawned

\* The task of a forwarded connection leaves the rest of the service alone.
LEMMA RelayLeavesLoop ==
  ASSUME NEW c \in Conn, Relay(c)
  PROVE  kind' = kind /\ recorder' = recorder
<1>1. CASE Dialled(c) BY <1>1 DEF Dialled, vars
<1>2. CASE DialFails(c) \/ RelayEnd(c) BY <1>2 DEF DialFails, RelayEnd, Return
<1>3. ASSUME NEW d \in Direction, CopyRead(c, d) \/ CopyWrite(c, d) \/ CopyEof(c, d) \/ CopyFails(c, d)
      PROVE  kind' = kind /\ recorder' = recorder
  BY <1>3 DEF CopyRead, CopyWrite, CopyEof, CopyFails, CopyDone, vars
<1> QED BY <1>1, <1>2, <1>3 DEF Relay

\* The recorder ends only when nobody can send any more.
LEMMA FitsStep ==
  ASSUME AccountInv, [Next]_all
  PROVE  RecorderFits'
<1> USE DEF AccountInv
<1>1. kind' = kind
  <2>1. CASE \E c \in Conn : Peers(c)
    BY <2>1 DEF Peers, PeerSends, PeerShuts, PeerCloses, vars
  <2>2. CASE \E c \in Conn : Relay(c)
    BY <2>2, RelayLeavesLoop
  <2> QED BY <2>1, <2>2, LoopLeavesRelay, RelayAssumption DEF Next, Clients, RelayAssumption, all, vars
<1>2. recorder' = recorder \/ Recorder
  <2>1. CASE \E c \in Conn : Peers(c)
    BY <2>1 DEF Peers, PeerSends, PeerShuts, PeerCloses, vars
  <2>2. CASE \E c \in Conn : Relay(c)
    BY <2>2, RelayLeavesLoop
  <2>3. CASE Loop
    BY <2>3 DEF Loop, AcceptError, FailRun, Cancel, StartDrain, Drained, DrainTimeout, ReaperStop
  <2>4. CASE \E c \in Conn : Arrive(c) \/ TaskEnd(c) \/ TaskAborted(c)
    BY <2>4 DEF Arrive, Connect, Accept, Handshake, HandshakeError, FailRun, TaskStart, TaskEnd, TaskAborted
  <2> QED BY <2>1, <2>2, <2>3, <2>4, RelayAssumption DEF Next, Clients, RelayAssumption, all, vars
<1>3. HandlesDropped => HandlesDropped'
  BY NextKinds, DroppedForGood, RelayAssumption
<1>4. CASE recorder' = recorder
  BY <1>1, <1>3, <1>4 DEF RecorderFits
<1>5. CASE Recorder
  <2>1. recorder \in {"starting", "running"} /\ recorder' \in {"running", "panicked", "done", "killed"}
    BY <1>5 DEF Recorder, RecorderStart, RecorderRecv, RecorderTick, RecorderClose, RuntimeDrop
  <2>2. recorder' = "done" => HandlesDropped
    BY <1>5 DEF Recorder, RecorderStart, RecorderRecv, RecorderTick, RecorderClose, RuntimeDrop
  <2> QED BY <1>1, <1>3, <2>1, <2>2 DEF RecorderFits
<1> QED BY <1>2, <1>4, <1>5

\* The steps that move connections and neither start nor end a task.
LEMMA MovesAccount ==
  ASSUME AccountInv,
         \/ UNCHANGED vars \/ Loop
         \/ \E c \in Conn : Connect(c) \/ Accept(c) \/ Handshake(c) \/ HandshakeError(c) \/ TaskAborted(c)
  PROVE  LogType' /\ AccountedFor'
<1> USE DEF AccountInv
<1>1. UNCHANGED <<active, channel, unflushed, disk, fault, recorder, kind>>
  <2>1. CASE Loop
    BY <2>1 DEF Loop, AcceptError, FailRun, Cancel, StartDrain, Drained, DrainTimeout, ReaperStop, tasks, log
  <2>2. CASE \E c \in Conn : Connect(c) \/ Accept(c) \/ Handshake(c) \/ HandshakeError(c) \/ TaskAborted(c)
    BY <2>2 DEF Connect, Accept, Handshake, HandshakeError, FailRun, TaskAborted, log
  <2> QED BY <2>1, <2>2 DEF vars
<1>2. \A c \in Conn :
        /\ client'[c] = "done" <=> client[c] = "done"
        /\ client'[c] \in {"live", "aborting", "aborted"} <=> client[c] \in {"live", "aborting", "aborted"}
  <2>1. CASE Loop
    BY <2>1 DEF Loop, AcceptError, FailRun, Cancel, StartDrain, Drained, DrainTimeout, ReaperStop,
                tasks, AbortAll, DropHandshake, ConnType
  <2>2. CASE \E c \in Conn : Connect(c) \/ Accept(c) \/ Handshake(c) \/ TaskAborted(c)
    BY <2>2 DEF Connect, Accept, Handshake, TaskAborted, ConnType
  <2>3. CASE \E c \in Conn : HandshakeError(c)
    BY <2>3 DEF HandshakeError, FailRun, AbortAll, DropHandshake, ConnType
  <2> QED BY <2>1, <2>2, <2>3 DEF vars
<1>3. Entries' = Entries
  BY <1>1 DEF Entries
<1>4. AccountedFor'
  BY <1>1, <1>2, <1>3, EntriesType, SameAccount
<1> QED BY <1>1, <1>4 DEF LogType

\* Every step keeps the account.
LEMMA AccountStep == AccountInv /\ [Next]_all => AccountInv'
<1> SUFFICES ASSUME AccountInv, [Next]_all PROVE AccountInv'
  OBVIOUS
<1>1. ConnType'
  BY NextKinds, ConnTypeStep, RelayAssumption DEF AccountInv
<1>2. RecorderFits'
  BY FitsStep
<1>3. LogType' /\ AccountedFor'
  <2>1. CASE Recorder
    BY <2>1, RecorderAccount
  <2>2. CASE UNCHANGED vars \/ Loop
    BY <2>2, MovesAccount
  <2>3. ASSUME NEW c \in Conn, Arrive(c) \/ TaskEnd(c) \/ TaskAborted(c)
        PROVE  LogType' /\ AccountedFor'
    <3>1. CASE TaskStart(c)
      <4>1. LogType' BY <3>1 DEF TaskStart, log, AccountInv, LogType
      <4> QED BY <3>1, <4>1, StartAccount
    <3>2. CASE TaskEnd(c)
      <4>1. LogType' BY <3>2, AppendProperties DEF TaskEnd, AccountInv, LogType
      <4> QED BY <3>2, <4>1, EndAccount
    <3>3. CASE Connect(c) \/ Accept(c) \/ Handshake(c) \/ HandshakeError(c) \/ TaskAborted(c)
      BY <3>3, MovesAccount
    <3> QED BY <2>3, <3>1, <3>2, <3>3 DEF Arrive
  <2>4. ASSUME NEW c \in Conn, Peers(c) \/ Relay(c)
        PROVE  LogType' /\ AccountedFor'
    <3>1. CASE DialFails(c) \/ RelayEnd(c)
      <4>1. kind = "forward" /\ Return(c) BY <3>1 DEF DialFails, RelayEnd, Relaying
      <4>2. LogType' BY <4>1 DEF Return, log, AccountInv, LogType
      <4> QED BY <4>1, <4>2, ReturnAccount
    <3>2. CASE UNCHANGED vars
      BY <3>2, MovesAccount
    <3>3. Peers(c) => UNCHANGED vars
      BY DEF Peers, PeerSends, PeerShuts, PeerCloses
    <3>4. Relay(c) => UNCHANGED vars \/ DialFails(c) \/ RelayEnd(c)
      BY DEF Relay, Dialled, CopyRead, CopyWrite, CopyEof, CopyFails, CopyDone
    <3> QED BY <2>4, <3>1, <3>2, <3>3, <3>4
  <2> QED BY <2>1, <2>2, <2>3, <2>4, RelayAssumption DEF Next, Clients, RelayAssumption, all
<1> QED BY <1>1, <1>2, <1>3 DEF AccountInv

\* conn_start, conn_end and log_request against the steps of run(), of its drain
\* and of the recorder task: the gauge is exact up to aborted tasks, and no
\* connection that ended is logged twice or, while the recorder lives and none of
\* its writes failed, missing.
THEOREM ConnectionsAccountedFor == Spec => []AccountedFor
<1>1. RelayInit => AccountInv
  <2> SUFFICES ASSUME RelayInit PROVE AccountInv
    OBVIOUS
  <2>1. ConnType BY DEF RelayInit, Init, ConnType, ClientState
  <2>2. LogType
    <3>1. fault \in BOOLEAN BY Zenon DEF RelayInit, Init
    <3> QED BY <3>1, EmptySeq DEF RelayInit, Init, LogType
  <2>3. RecorderFits BY DEF RelayInit, Init, RecorderFits
  <2>4. Counted = {} /\ InState({"done"}) = {}
    BY DEF RelayInit, Init, Counted, InState
  <2>5. Entries = <<>>
    BY EmptySeq, ConcatEmptySeq DEF RelayInit, Init, Entries
  <2>6. DOMAIN Entries = {}
    BY <2>5
  <2>7. IsInjective(Entries) /\ ToSet(Entries) = {}
    BY <2>6 DEF IsInjective, ToSet
  <2>8. Cardinality(Counted) = 0 BY <2>4, FS_EmptySet
  <2> QED BY <2>1, <2>2, <2>3, <2>4, <2>7, <2>8 DEF AccountInv, AccountedFor, Counted, RelayInit, Init
<1>2. AccountInv => AccountedFor
  BY DEF AccountInv
<1> QED BY <1>1, <1>2, AccountStep, PTL DEF Spec

================================================================================
