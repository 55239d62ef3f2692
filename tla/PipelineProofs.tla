---------------------------- MODULE PipelineProofs ----------------------------
(***************************************************************************)
(* Proofs about the pipeline, for any sets of client connections, routing  *)
(* keys and upstream connections, any limits, any way of wiring and all    *)
(* that clients and servers may do: who owns an upstream connection, the   *)
(* buffer limits, the upstream gauge, when error responses are written,    *)
(* and, as long as no server sends more than its answer, that answers      *)
(* reach the request they belong to.                                       *)
(***************************************************************************)
EXTENDS Pipeline, FiniteSetTheorems, SequenceTheorems, TLAPS

-----------------------------------------------------------------------------
(* Ownership *)

Held(c) == dest[c] # NoDest

OwnerType ==
  /\ pc \in [Conn -> {"pre", "join", "write", "relay", "ended"}]
  /\ key \in [Conn -> Key \cup {NoKey}]
  /\ route \in [Conn -> {"none", "pending", "pooled", "new", "failed"}]
  /\ dest \in [Conn -> Dest \cup {NoDest}]
  /\ parked \in [Dest -> SUBSET Key]
  /\ bound \in [Dest -> Key]
  /\ tcp \in [Dest -> {"none", "open", "fin", "rst"}]

\* When a task holds an upstream connection, and since when it has a key.
HeldMatchesPc ==
  \A c \in Conn :
    /\ Held(c) <=> \/ pc[c] \in {"write", "relay"}
                   \/ pc[c] = "join" /\ route[c] \in {"new", "pooled"}
    /\ pc[c] = "join" => route[c] # "none"
    /\ pc[c] \in {"join", "write", "relay"} => key[c] \in Key

\* A connection that is held is open, was opened for the key of its task, and
\* nobody else has it.
HeldAlone ==
  \A c \in Conn : Held(c) =>
    /\ tcp[dest[c]] # "none" /\ parked[dest[c]] = {} /\ bound[dest[c]] = key[c]
    /\ \A e \in Conn : dest[e] = dest[c] => e = c

\* A connection in the pool is open and filed under the key it was opened for.
ParkedRight ==
  \A d \in Dest : parked[d] # {} => parked[d] = {bound[d]} /\ tcp[d] # "none"

\* An open connection is held or in the pool.
NothingLeaks ==
  \A d \in Dest : tcp[d] # "none" => parked[d] # {} \/ \E c \in Conn : dest[c] = d

OwnerInv == OwnerType /\ HeldMatchesPc /\ HeldAlone /\ ParkedRight /\ NothingLeaks

\* No connection is held or open at the start.
LEMMA OwnerInit == Init => OwnerInv
BY PipelineAssumption DEF Init, PipelineAssumption, OwnerInv, OwnerType, HeldMatchesPc, Held, HeldAlone,
   ParkedRight, NothingLeaks

\* A step that changes none of the owner's variables.
OwnersSame == UNCHANGED <<pc, key, route, dest, parked, bound, tcp>>

\* Such a step keeps the invariant.
LEMMA OwnerSame == OwnerInv /\ OwnersSame => OwnerInv'
BY DEF OwnerInv, OwnersSame, OwnerType, HeldMatchesPc, Held, HeldAlone, ParkedRight, NothingLeaks

\* Ending a connection closes what it holds.
LEMMA OwnerEnd ==
  ASSUME OwnerInv, NEW c \in Conn, NEW toClient, NEW total, End(c, toClient, total)
  PROVE  OwnerInv'
<1> USE PipelineAssumption DEF PipelineAssumption, OwnerInv
<1>1. /\ pc' = [pc EXCEPT ![c] = "ended"]
      /\ dest' = [dest EXCEPT ![c] = NoDest]
      /\ tcp' = [d \in Dest |-> IF d = dest[c] THEN "none" ELSE tcp[d]]
      /\ UNCHANGED <<key, route, parked, bound>>
  BY DEF End, DropDest
<1>2. OwnerType' BY <1>1 DEF OwnerType
<1>3. HeldMatchesPc' BY <1>1 DEF OwnerType, HeldMatchesPc, Held
<1>4. HeldAlone' BY <1>1 DEF OwnerType, HeldAlone, Held
<1>5. ParkedRight' BY <1>1 DEF OwnerType, ParkedRight, HeldAlone, Held
<1>6. NothingLeaks' BY <1>1 DEF OwnerType, NothingLeaks, HeldAlone, Held
<1> QED BY <1>2, <1>3, <1>4, <1>5, <1>6

\* The end of a cycle returns the connection to the pool or closes it.
LEMMA OwnerFinish ==
  ASSUME OwnerInv, NEW c \in Conn, NEW last, NEW close, pc[c] = "relay", FinishCycle(c, last, close)
  PROVE  OwnerInv'
<1> USE PipelineAssumption DEF PipelineAssumption, OwnerInv
<1>1. CASE should_close[c] \/ close
  BY <1>1, OwnerEnd DEF FinishCycle
<1>2. CASE ~(should_close[c] \/ close) /\ flow.stabling
  <2>1. /\ pc' = [pc EXCEPT ![c] = "pre"]
        /\ key' = [key EXCEPT ![c] = NoKey]
        /\ route' = [route EXCEPT ![c] = "none"]
        /\ dest' = [dest EXCEPT ![c] = NoDest]
        /\ parked' = [parked EXCEPT ![dest[c]] = {key[c]}]
        /\ UNCHANGED <<tcp, bound>>
    BY <1>2 DEF FinishCycle
  <2>2. dest[c] \in Dest /\ key[c] \in Key /\ bound[dest[c]] = key[c] /\ tcp[dest[c]] # "none"
        /\ \A e \in Conn : dest[e] = dest[c] => e = c
    BY DEF OwnerType, HeldMatchesPc, HeldAlone, Held
  <2>3. OwnerType' BY <2>1, <2>2 DEF OwnerType
  <2>4. HeldMatchesPc' BY <2>1 DEF OwnerType, HeldMatchesPc, Held
  <2>5. HeldAlone' BY <2>1, <2>2 DEF OwnerType, HeldAlone, Held
  <2>6. ParkedRight' BY <2>1, <2>2 DEF OwnerType, ParkedRight
  <2>7. NothingLeaks' BY <2>1, <2>2, SMTT(30) DEF OwnerType, NothingLeaks
  <2> QED BY <2>3, <2>4, <2>5, <2>6, <2>7
<1>3. CASE ~(should_close[c] \/ close) /\ ~flow.stabling
  <2>1. /\ pc' = [pc EXCEPT ![c] = "pre"]
        /\ key' = [key EXCEPT ![c] = NoKey]
        /\ route' = [route EXCEPT ![c] = "none"]
        /\ dest' = [dest EXCEPT ![c] = NoDest]
        /\ tcp' = [d \in Dest |-> IF d = dest[c] THEN "none" ELSE tcp[d]]
        /\ UNCHANGED <<parked, bound>>
    BY <1>3 DEF FinishCycle, DropDest
  <2>3. OwnerType' BY <2>1 DEF OwnerType
  <2>4. HeldMatchesPc' BY <2>1 DEF OwnerType, HeldMatchesPc, Held
  <2>5. HeldAlone' BY <2>1 DEF OwnerType, HeldAlone, Held
  <2>6. ParkedRight' BY <2>1 DEF OwnerType, ParkedRight, HeldAlone, Held, HeldMatchesPc
  <2>7. NothingLeaks' BY <2>1 DEF OwnerType, NothingLeaks
  <2> QED BY <2>3, <2>4, <2>5, <2>6, <2>7
<1> QED BY <1>1, <1>2, <1>3

\* Taking a connection from the pool, or none.
LEMMA OwnerRouting ==
  ASSUME OwnerInv, NEW c \in Conn, NEW k \in Key, RoutingFrame(c, k)
  PROVE  OwnerInv'
<1> USE PipelineAssumption DEF PipelineAssumption, OwnerInv
<1>1. CASE pre[c] + 1 > MaxPre
  BY <1>1, OwnerEnd DEF RoutingFrame, Fail
<1>2. CASE ~(pre[c] + 1 > MaxPre)
  <2>1. /\ pc[c] = "pre"
        /\ pc' = [pc EXCEPT ![c] = "join"]
        /\ key' = [key EXCEPT ![c] = k]
        /\ UNCHANGED <<bound, tcp>>
    BY <1>2 DEF RoutingFrame
  <2>2. dest[c] = NoDest
    BY <2>1 DEF OwnerType, HeldMatchesPc, Held
  <2>3. CASE route' = [route EXCEPT ![c] = "pending"] /\ UNCHANGED <<dest, parked>>
    <3>1. OwnerType' BY <2>1, <2>3 DEF OwnerType
    <3>2. HeldMatchesPc' BY <2>1, <2>2, <2>3 DEF OwnerType, HeldMatchesPc, Held
    <3>3. HeldAlone' BY <2>1, <2>2, <2>3 DEF OwnerType, HeldAlone, Held
    <3>4. ParkedRight' /\ NothingLeaks' BY <2>1, <2>3 DEF ParkedRight, NothingLeaks
    <3> QED BY <3>1, <3>2, <3>3, <3>4
  <2>4. ASSUME NEW d \in Dest, k \in parked[d],
               dest' = [dest EXCEPT ![c] = d],
               parked' = [parked EXCEPT ![d] = {}],
               route' = [route EXCEPT ![c] = "pooled"]
        PROVE  OwnerInv'
    <3>1. bound[d] = k /\ tcp[d] # "none" /\ \A e \in Conn : dest[e] # d
      BY <2>4 DEF OwnerType, ParkedRight, HeldAlone, Held
    <3>2. OwnerType' BY <2>1, <2>4 DEF OwnerType
    <3>3. HeldMatchesPc' BY <2>1, <2>4 DEF OwnerType, HeldMatchesPc, Held
    <3>4. HeldAlone' BY <2>1, <2>2, <2>4, <3>1 DEF OwnerType, HeldAlone, Held
    <3>5. ParkedRight' BY <2>1, <2>4 DEF OwnerType, ParkedRight
    <3>6. NothingLeaks' BY <2>1, <2>2, <2>4 DEF OwnerType, NothingLeaks
    <3> QED BY <3>2, <3>3, <3>4, <3>5, <3>6
  <2> QED BY <1>2, <2>3, <2>4 DEF RoutingFrame
<1> QED BY <1>1, <1>2

\* Opening a connection, for the key of this cycle.
LEMMA OwnerRoute ==
  ASSUME OwnerInv, NEW c \in Conn, NEW d \in Dest, RouteOk(c, d)
  PROVE  OwnerInv'
<1> USE PipelineAssumption DEF PipelineAssumption, OwnerInv
<1>1. /\ pc[c] = "join" /\ route[c] = "pending" /\ tcp[d] = "none"
      /\ route' = [route EXCEPT ![c] = "new"]
      /\ dest' = [dest EXCEPT ![c] = d]
      /\ bound' = [bound EXCEPT ![d] = key[c]]
      /\ tcp' = [tcp EXCEPT ![d] = "open"]
      /\ UNCHANGED <<pc, key, parked>>
  BY DEF RouteOk, Unowned
<1>2. dest[c] = NoDest /\ key[c] \in Key
  BY <1>1 DEF OwnerType, HeldMatchesPc, Held
<1>3. parked[d] = {} /\ \A e \in Conn : dest[e] # d
  BY <1>1 DEF OwnerType, ParkedRight, HeldAlone, Held
<1>4. OwnerType' BY <1>1, <1>2 DEF OwnerType
<1>5. HeldMatchesPc' BY <1>1, <1>2 DEF OwnerType, HeldMatchesPc, Held
<1>6. HeldAlone' BY <1>1, <1>2, <1>3 DEF OwnerType, HeldAlone, Held
<1>7. ParkedRight' BY <1>1, <1>3 DEF OwnerType, ParkedRight
<1>8. NothingLeaks' BY <1>1, <1>2 DEF OwnerType, NothingLeaks
<1> QED BY <1>4, <1>5, <1>6, <1>7, <1>8

\* The pool closes a connection.
LEMMA OwnerPoolClose ==
  ASSUME OwnerInv, NEW d \in Dest, PoolClose(d)
  PROVE  OwnerInv'
<1> USE PipelineAssumption DEF PipelineAssumption, OwnerInv
<1>1. /\ parked[d] # {}
      /\ parked' = [parked EXCEPT ![d] = {}]
      /\ tcp' = [tcp EXCEPT ![d] = "none"]
      /\ UNCHANGED <<pc, key, route, dest, bound>>
  BY DEF PoolClose
<1>2. OwnerType' BY <1>1 DEF OwnerType
<1>3. HeldMatchesPc' BY <1>1 DEF HeldMatchesPc, Held
<1>4. HeldAlone' BY <1>1 DEF OwnerType, HeldAlone, Held
<1>5. ParkedRight' /\ NothingLeaks' BY <1>1 DEF OwnerType, ParkedRight, NothingLeaks
<1> QED BY <1>2, <1>3, <1>4, <1>5

\* A task that goes on with what it holds; tcp may go from open to fin or rst.
LEMMA OwnerKeeps ==
  ASSUME OwnerInv, UNCHANGED <<key, dest, parked, bound>>, OwnerType', HeldMatchesPc',
         \A d \in Dest : tcp[d] = "none" <=> tcp'[d] = "none"
  PROVE  OwnerInv'
<1> USE PipelineAssumption DEF PipelineAssumption, OwnerInv
<1>1. HeldAlone' BY DEF OwnerType, HeldAlone, Held
<1>2. ParkedRight' /\ NothingLeaks' BY DEF ParkedRight, NothingLeaks
<1> QED BY <1>1, <1>2

\* Every step keeps ownership.
LEMMA OwnerStep == OwnerInv /\ [Next]_vars => OwnerInv'
<1> SUFFICES ASSUME OwnerInv, [Next]_vars PROVE OwnerInv'
  OBVIOUS
<1>1. CASE UNCHANGED vars
  BY <1>1, OwnerSame DEF vars, OwnersSame
<1>2. ASSUME NEW c \in Conn, PreFrame(c) \/ PreError(c) \/ PreEnd(c) PROVE OwnerInv'
  BY <1>2, OwnerEnd, OwnerSame DEF PreFrame, PreError, PreEnd, Fail, OwnersSame
<1>3. ASSUME NEW c \in Conn, RouteFail(c) \/ Joined(c) \/ Write(c) PROVE OwnerInv'
  <2>1. CASE RouteFail(c)
    <3>1. OwnerType' /\ HeldMatchesPc'
      BY <2>1 DEF RouteFail, OwnerInv, OwnerType, HeldMatchesPc, Held
    <3> QED BY <2>1, <3>1, OwnerKeeps DEF RouteFail
  <2>2. CASE Joined(c)
    <3>1. CASE post[c] > MaxPost \/ verdict[c] = "invalid" \/ route[c] = "failed"
      BY <2>2, <3>1, OwnerEnd DEF Joined, Fail
    <3>2. CASE ~(post[c] > MaxPost \/ verdict[c] = "invalid" \/ route[c] = "failed")
      <4>1. OwnerType' /\ HeldMatchesPc'
        BY <2>2, <3>2 DEF Joined, OwnerInv, OwnerType, HeldMatchesPc, Held
      <4> QED BY <2>2, <3>2, <4>1, OwnerKeeps DEF Joined
    <3> QED BY <3>1, <3>2
  <2>3. CASE Write(c)
    <3>1. CASE tcp[dest[c]] = "rst"
      BY <2>3, <3>1, OwnerEnd DEF Write
    <3>2. CASE tcp[dest[c]] # "rst"
      <4>1. pc[c] = "write" /\ pc' = [pc EXCEPT ![c] = "relay"] /\ UNCHANGED <<key, route, dest, parked, bound>>
        BY <2>3, <3>2 DEF Write
      <4>2. dest[c] \in Dest /\ tcp[dest[c]] # "none"
        BY <4>1 DEF OwnerInv, OwnerType, HeldMatchesPc, HeldAlone, Held
      <4>3. tcp' = tcp \/ tcp' = [tcp EXCEPT ![dest[c]] = "rst"]
        BY <2>3, <3>2 DEF Write
      <4>4. OwnerType' /\ HeldMatchesPc' /\ \A d \in Dest : tcp[d] = "none" <=> tcp'[d] = "none"
        BY <4>1, <4>2, <4>3 DEF OwnerInv, OwnerType, HeldMatchesPc, Held
      <4> QED BY <4>1, <4>4, OwnerKeeps
    <3> QED BY <3>1, <3>2
  <2> QED BY <1>3, <2>1, <2>2, <2>3
<1>4. ASSUME NEW c \in Conn, PostFrame(c) \/ PostEnd(c) \/ PostEof(c) \/ PostError(c) \/ ClientClose(c) PROVE OwnerInv'
  BY <1>4, OwnerSame DEF PostFrame, PostEnd, PostEof, PostError, ClientClose, OwnersSame
<1>5. ASSUME NEW c \in Conn, RelayPiece(c) \/ CopyPiece(c) PROVE OwnerInv'
  BY <1>5, OwnerSame DEF RelayPiece, CopyPiece, OwnersSame
<1>6. ASSUME NEW c \in Conn, RelayLast(c) \/ RelayEof(c) PROVE OwnerInv'
  BY <1>6, OwnerFinish DEF RelayLast, RelayEof
<1>7. ASSUME NEW c \in Conn, RelayError(c) \/ RelayClientGone(c) \/ CopyEnd(c) PROVE OwnerInv'
  BY <1>7, OwnerEnd DEF RelayError, RelayClientGone, CopyEnd
<1>8. ASSUME NEW d \in Dest, ServerClose(d) \/ \E how \in DOMAIN Answers(<<>>) : Answer(d, how) PROVE OwnerInv'
  <2>1. /\ tcp[d] = "open" /\ UNCHANGED <<pc, key, route, dest, parked, bound>>
        /\ tcp' = [tcp EXCEPT ![d] = "fin"] \/ tcp' = [tcp EXCEPT ![d] = @]
    BY <1>8 DEF ServerClose, Answer
  <2>2. OwnerType' /\ HeldMatchesPc' /\ \A e \in Dest : tcp[e] = "none" <=> tcp'[e] = "none"
    BY <2>1 DEF OwnerInv, OwnerType, HeldMatchesPc, Held
  <2> QED BY <2>1, <2>2, OwnerKeeps
<1> QED BY <1>1, <1>2, <1>3, <1>4, <1>5, <1>6, <1>7, <1>8, OwnerRouting, OwnerRoute, OwnerPoolClose DEF Next

\* The invariant behind the theorems about ownership.
LEMMA OwnerAlways == Spec => []OwnerInv
BY OwnerInit, OwnerStep, PTL DEF Spec

\* An open upstream connection has exactly one owner, a task or the pool: no path
\* through do_connection, whatever fails on either side, leaks a connection,
\* shares it or keeps one that is closed.
THEOREM OwnersAreUnique == Spec => []OneOwner
<1>1. ASSUME OwnerInv PROVE OneOwner
  <2> SUFFICES ASSUME NEW d \in Dest
               PROVE  Cardinality({c \in Conn : dest[c] = d}) + Cardinality(parked[d])
                        = IF tcp[d] = "none" THEN 0 ELSE 1
    BY DEF OneOwner
  <2> USE <1>1, PipelineAssumption DEF PipelineAssumption, OwnerInv
  <2>1. CASE tcp[d] = "none"
    <3>1. {c \in Conn : dest[c] = d} = {} /\ parked[d] = {}
      BY <2>1 DEF OwnerType, HeldAlone, ParkedRight, Held
    <3> QED BY <2>1, <3>1, FS_EmptySet
  <2>2. CASE parked[d] # {}
    <3>1. {c \in Conn : dest[c] = d} = {} /\ parked[d] = {bound[d]} /\ tcp[d] # "none"
      BY <2>2 DEF OwnerType, HeldAlone, ParkedRight, Held
    <3>2. Cardinality({bound[d]}) = 1 /\ Cardinality({}) = 0
      BY FS_EmptySet, FS_Singleton
    <3> QED BY <3>1, <3>2
  <2>3. CASE tcp[d] # "none" /\ parked[d] = {}
    <3>1. PICK c \in Conn : dest[c] = d
      BY <2>3 DEF NothingLeaks
    <3>2. {e \in Conn : dest[e] = d} = {c}
      BY <3>1 DEF OwnerType, HeldAlone, Held
    <3>3. Cardinality({c}) = 1 /\ Cardinality({}) = 0
      BY FS_EmptySet, FS_Singleton
    <3> QED BY <2>3, <3>2, <3>3
  <2> QED BY <2>1, <2>2, <2>3
<1> QED BY <1>1, OwnerAlways, PTL

-----------------------------------------------------------------------------
(* The life cycle of a connection *)

\* The tasks that hold a connection, as the refinement maps them.
Holders == [d \in Dest |-> {c \in Conn : dest[c] = d}]

\* A task that gives its connection up closes it.
LEMMA GivesUpCloses ==
  ASSUME OwnerInv, NEW c \in Conn, dest' = [dest EXCEPT ![c] = NoDest], UNCHANGED <<parked, bound>>
  PROVE  [Lifecycle!Next]_(Lifecycle!lifeVars)
<1> USE PipelineAssumption DEF PipelineAssumption, OwnerInv
<1> DEFINE S == {d \in Dest : d = dest[c]}
<1>1. \A d \in Dest : Holders'[d] = IF d \in S THEN {} ELSE Holders[d]
  BY DEF Holders, OwnerType, HeldAlone, Held
<1>2. Holders' = [d \in Dest |-> IF d \in S THEN {} ELSE Holders[d]]
  BY <1>1 DEF Holders
<1>3. parked' = [d \in Dest |-> IF d \in S THEN {} ELSE parked[d]]
  BY DEF OwnerType, HeldAlone, Held
<1>4. Lifecycle!Close(S)
  BY <1>2, <1>3 DEF Lifecycle!Close, Holders
<1>5. \E T \in SUBSET Dest : Lifecycle!Close(T)
  BY <1>4 DEF Lifecycle!Close
<1> QED BY <1>5 DEF Lifecycle!Next

\* The steps that change who holds what.
LEMMA RoutingTakes ==
  ASSUME OwnerInv, NEW c \in Conn, NEW d \in Dest, NEW k \in parked[d], pc[c] = "pre",
         dest' = [dest EXCEPT ![c] = d], parked' = [parked EXCEPT ![d] = {}], UNCHANGED bound
  PROVE  Lifecycle!Take(d, c, {})
<1> USE PipelineAssumption DEF PipelineAssumption, OwnerInv
<1>1. dest[c] = NoDest BY DEF OwnerType, HeldMatchesPc, Held
<1>2. parked[d] = {bound[d]} /\ \A e \in Conn : dest[e] # d
  BY DEF OwnerType, ParkedRight, HeldAlone, Held
<1>3. Holders[d] = {} BY <1>2 DEF Holders
<1>4. \A e \in Dest : Holders'[e] = [Holders EXCEPT ![d] = {c}][e]
  BY <1>1, <1>2 DEF Holders, OwnerType
<1>5. Holders' = [Holders EXCEPT ![d] = {c}]
  BY <1>4 DEF Holders
<1>6. parked' = [e \in Dest |-> IF e = d \/ e \in {} THEN {} ELSE parked[e]]
  BY DEF OwnerType
<1> QED BY <1>2, <1>3, <1>5, <1>6 DEF Lifecycle!Take, Holders

\* The router opens a connection for the key of the cycle.
LEMMA RouteOpens ==
  ASSUME OwnerInv, NEW c \in Conn, NEW d \in Dest, RouteOk(c, d)
  PROVE  key[c] \in Key /\ Lifecycle!Open(d, c, key[c])
<1> USE PipelineAssumption DEF PipelineAssumption, OwnerInv
<1>1. /\ pc[c] = "join" /\ route[c] = "pending" /\ tcp[d] = "none"
      /\ dest' = [dest EXCEPT ![c] = d]
      /\ bound' = [bound EXCEPT ![d] = key[c]]
      /\ UNCHANGED parked
  BY DEF RouteOk, Unowned
<1>2. dest[c] = NoDest /\ key[c] \in Key
  BY <1>1 DEF OwnerType, HeldMatchesPc, Held
<1>3. parked[d] = {} /\ \A e \in Conn : dest[e] # d
  BY <1>1 DEF OwnerType, ParkedRight, HeldAlone, Held
<1>4. Holders[d] = {} BY <1>3 DEF Holders
<1>5. \A e \in Dest : Holders'[e] = [Holders EXCEPT ![d] = {c}][e]
  BY <1>1, <1>2, <1>3 DEF Holders, OwnerType
<1>6. Holders' = [Holders EXCEPT ![d] = {c}]
  BY <1>5 DEF Holders
<1> QED BY <1>1, <1>2, <1>3, <1>4, <1>6 DEF Lifecycle!Open, Holders

\* The end of a cycle parks the connection under that key.
LEMMA FinishParks ==
  ASSUME OwnerInv, NEW c \in Conn, pc[c] = "relay",
         dest' = [dest EXCEPT ![c] = NoDest], parked' = [parked EXCEPT ![dest[c]] = {key[c]}],
         UNCHANGED bound
  PROVE  dest[c] \in Dest /\ Lifecycle!Park(dest[c], c, {})
<1> USE PipelineAssumption DEF PipelineAssumption, OwnerInv
<1>1. dest[c] \in Dest /\ bound[dest[c]] = key[c] /\ parked[dest[c]] = {}
      /\ \A e \in Conn : dest[e] = dest[c] => e = c
  BY DEF OwnerType, HeldMatchesPc, HeldAlone, Held
<1>2. Holders[dest[c]] = {c} BY <1>1 DEF Holders
<1>3. \A e \in Dest : Holders'[e] = [Holders EXCEPT ![dest[c]] = {}][e]
  BY <1>1 DEF Holders, OwnerType
<1>4. Holders' = [Holders EXCEPT ![dest[c]] = {}]
  BY <1>3 DEF Holders
<1>5. parked' = [e \in Dest |-> IF e = dest[c] THEN {bound[dest[c]]} ELSE IF e \in {} THEN {} ELSE parked[e]]
  BY <1>1 DEF OwnerType
<1> QED BY <1>1, <1>2, <1>4, <1>5 DEF Lifecycle!Park, Holders

\* The pool closes a connection nobody holds.
LEMMA PoolCloses ==
  ASSUME OwnerInv, NEW d \in Dest, PoolClose(d)
  PROVE  Lifecycle!Close({d})
<1> USE PipelineAssumption DEF PipelineAssumption, OwnerInv
<1>1. \A c \in Conn : dest[c] # d
  BY DEF PoolClose, OwnerType, HeldAlone, Held
<1>2. Holders' = Holders /\ Holders[d] = {}
  BY <1>1 DEF PoolClose, Holders
<1>3. Holders' = [e \in Dest |-> IF e \in {d} THEN {} ELSE Holders[e]]
  BY <1>2 DEF Holders
<1>4. parked' = [e \in Dest |-> IF e \in {d} THEN {} ELSE parked[e]] /\ UNCHANGED bound
  BY DEF PoolClose, OwnerType
<1> QED BY <1>3, <1>4 DEF Lifecycle!Close, Holders

\* Every step of the pipeline is a step of the life cycle or leaves it alone.
LEMMA LifecycleStep ==
  ASSUME OwnerInv, [Next]_vars
  PROVE  [Lifecycle!Next]_(Lifecycle!lifeVars)
<1> DEFINE Goal == [Lifecycle!Next]_(Lifecycle!lifeVars)
<1>0. ASSUME UNCHANGED <<dest, parked, bound>> PROVE Goal
  BY <1>0 DEF Lifecycle!lifeVars
<1>1. ASSUME NEW c \in Conn, NEW toClient, NEW total, End(c, toClient, total) PROVE Goal
  BY <1>1, GivesUpCloses DEF End, DropDest
<1>2. CASE UNCHANGED vars
  BY <1>0, <1>2 DEF vars
<1>3. ASSUME NEW c \in Conn, PreFrame(c) \/ PreError(c) \/ PreEnd(c) PROVE Goal
  BY <1>0, <1>1, <1>3 DEF PreFrame, PreError, PreEnd, Fail
<1>4. ASSUME NEW c \in Conn, NEW k \in Key, RoutingFrame(c, k) PROVE Goal
  <2>1. CASE pre[c] + 1 > MaxPre
    BY <1>1, <1>4, <2>1 DEF RoutingFrame, Fail
  <2>2. CASE ~(pre[c] + 1 > MaxPre)
    <3>1. pc[c] = "pre" /\ UNCHANGED bound BY <1>4, <2>2 DEF RoutingFrame
    <3>2. ASSUME NEW d \in Dest, k \in parked[d], dest' = [dest EXCEPT ![c] = d],
                 parked' = [parked EXCEPT ![d] = {}]
          PROVE  Goal
      BY <3>1, <3>2, RoutingTakes DEF Lifecycle!Next
    <3> QED BY <1>0, <1>4, <2>2, <3>1, <3>2 DEF RoutingFrame
  <2> QED BY <2>1, <2>2
<1>5. ASSUME NEW c \in Conn, NEW d \in Dest, RouteOk(c, d) PROVE Goal
  <2>1. key[c] \in Key /\ Lifecycle!Open(d, c, key[c])
    BY <1>5, RouteOpens
  <2>2. \E e \in Dest, t \in Conn, k \in Key : Lifecycle!Open(e, t, k)
    BY <2>1 DEF Lifecycle!Open
  <2> QED BY <2>2 DEF Lifecycle!Next
<1>6. ASSUME NEW c \in Conn, RouteFail(c) \/ PostFrame(c) \/ PostEnd(c) \/ PostEof(c) \/ PostError(c)
                               \/ RelayPiece(c) \/ CopyPiece(c) \/ ClientClose(c)
      PROVE  Goal
  BY <1>0, <1>6 DEF RouteFail, PostFrame, PostEnd, PostEof, PostError, RelayPiece, CopyPiece, ClientClose
<1>7. ASSUME NEW c \in Conn, Joined(c) \/ Write(c) PROVE Goal
  BY <1>0, <1>1, <1>7 DEF Joined, Write, Fail
<1>8. ASSUME NEW c \in Conn, NEW last, NEW close, pc[c] = "relay", FinishCycle(c, last, close) PROVE Goal
  <2>1. CASE should_close[c] \/ close
    BY <1>1, <1>8, <2>1 DEF FinishCycle
  <2>2. CASE ~(should_close[c] \/ close) /\ flow.stabling
    <3>1. dest[c] \in Dest /\ Lifecycle!Park(dest[c], c, {})
      BY <1>8, <2>2, FinishParks DEF FinishCycle
    <3> QED BY <3>1 DEF Lifecycle!Next
  <2>3. CASE ~(should_close[c] \/ close) /\ ~flow.stabling
    BY <1>8, <2>3, GivesUpCloses DEF FinishCycle, DropDest
  <2> QED BY <2>1, <2>2, <2>3
<1>9. ASSUME NEW c \in Conn, RelayLast(c) \/ RelayEof(c) PROVE Goal
  BY <1>8, <1>9 DEF RelayLast, RelayEof
<1>10. ASSUME NEW c \in Conn, RelayError(c) \/ RelayClientGone(c) \/ CopyEnd(c) PROVE Goal
  BY <1>1, <1>10 DEF RelayError, RelayClientGone, CopyEnd
<1>11. ASSUME NEW d \in Dest, ServerClose(d) \/ \E how \in DOMAIN Answers(<<>>) : Answer(d, how) PROVE Goal
  BY <1>0, <1>11 DEF ServerClose, Answer
<1>12. ASSUME NEW d \in Dest, PoolClose(d) PROVE Goal
  BY <1>12, PoolCloses DEF Lifecycle!Next
<1> QED BY <1>2, <1>3, <1>4, <1>5, <1>6, <1>7, <1>9, <1>10, <1>11, <1>12 DEF Next

\* do_connection uses upstream connections as the contract of the pool says:
\* it takes, opens and parks them only in the ways of DestLifecycle, a parked
\* one under the key it was opened for.
THEOREM PipelineImplementsLifecycle == Spec => ImplementsLifecycle
<1>1. Init => Lifecycle!Init
  <2> SUFFICES ASSUME Init PROVE Lifecycle!Init
    OBVIOUS
  <2>1. \A d \in Dest : {c \in Conn : dest[c] = d} = {}
    BY PipelineAssumption DEF Init, PipelineAssumption
  <2> QED BY <2>1 DEF Init, Lifecycle!Init
<1>2. OwnerInv /\ [Next]_vars => [Lifecycle!Next]_(Lifecycle!lifeVars)
  BY LifecycleStep
<1> QED BY <1>1, <1>2, OwnerAlways, PTL DEF Spec, ImplementsLifecycle, Lifecycle!Spec

-----------------------------------------------------------------------------
(* The limits *)

\* WithinLimits, with the reason: the second loop goes on only below its limit.
LimitInv ==
  /\ pc \in [Conn -> {"pre", "join", "write", "relay", "ended"}]
  /\ pre \in [Conn -> Nat] /\ post \in [Conn -> Nat]
  /\ postDone \in [Conn -> BOOLEAN]
  /\ WithinLimits
  /\ \A c \in Conn : /\ ~postDone[c] => post[c] <= MaxPost
                     /\ pc[c] = "pre" => ~postDone[c]

\* A step that leaves the counters alone and goes neither to the relay nor back
\* to the first loop.
LEMMA LimitEnd ==
  ASSUME LimitInv, NEW c \in Conn, NEW toClient, NEW total, End(c, toClient, total)
  PROVE  LimitInv'
BY DEF LimitInv, WithinLimits, End

\* Every step keeps to the limits.
LEMMA LimitStep == LimitInv /\ [Next]_vars => LimitInv'
<1> SUFFICES ASSUME LimitInv, [Next]_vars PROVE LimitInv'
  OBVIOUS
<1> USE PipelineAssumption DEF PipelineAssumption
<1>0. ASSUME UNCHANGED <<pc, pre, post, postDone>> PROVE LimitInv'
  BY <1>0 DEF LimitInv, WithinLimits
<1>1. CASE UNCHANGED vars
  BY <1>0, <1>1 DEF vars
<1>2. ASSUME NEW c \in Conn, PreError(c) \/ PreEnd(c) PROVE LimitInv'
  BY <1>2, LimitEnd DEF PreError, PreEnd, Fail
<1>3. ASSUME NEW c \in Conn, PreFrame(c) PROVE LimitInv'
  <2>1. CASE pre[c] + 1 > MaxPre
    BY <1>3, <2>1, LimitEnd DEF PreFrame, Fail
  <2>2. CASE ~(pre[c] + 1 > MaxPre)
    BY <1>3, <2>2 DEF PreFrame, LimitInv, WithinLimits
  <2> QED BY <2>1, <2>2
<1>4. ASSUME NEW c \in Conn, NEW k \in Key, RoutingFrame(c, k) PROVE LimitInv'
  <2>1. CASE pre[c] + 1 > MaxPre
    BY <1>4, <2>1, LimitEnd DEF RoutingFrame, Fail
  <2>2. CASE ~(pre[c] + 1 > MaxPre)
    <3>1. /\ pc' = [pc EXCEPT ![c] = "join"] /\ pre' = [pre EXCEPT ![c] = @ + 1]
          /\ UNCHANGED <<post, postDone>>
      BY <1>4, <2>2 DEF RoutingFrame
    <3> QED BY <2>2, <3>1 DEF LimitInv, WithinLimits
  <2> QED BY <2>1, <2>2
<1>5. ASSUME NEW c \in Conn, PostFrame(c) PROVE LimitInv'
  <2>1. /\ pc[c] = "join" /\ ~postDone[c] /\ UNCHANGED <<pc, pre>>
        /\ post' = [post EXCEPT ![c] = @ + 1]
        /\ IF post[c] + 1 > MaxPost THEN postDone' = [postDone EXCEPT ![c] = TRUE] ELSE UNCHANGED postDone
    BY <1>5 DEF PostFrame
  <2>2. post[c] \in Nat /\ post[c] <= MaxPost
    BY <2>1 DEF LimitInv
  <2>3. CASE post[c] + 1 > MaxPost
    <3>1. /\ postDone' \in [Conn -> BOOLEAN] /\ postDone'[c]
          /\ \A e \in Conn \ {c} : postDone'[e] = postDone[e]
      BY <2>1, <2>3 DEF LimitInv
    <3>2. /\ post' \in [Conn -> Nat] /\ post'[c] = post[c] + 1
          /\ \A e \in Conn \ {c} : post'[e] = post[e]
      BY <2>1, <2>2 DEF LimitInv
    <3> QED BY <2>1, <2>2, <3>1, <3>2 DEF LimitInv, WithinLimits
  <2>4. CASE ~(post[c] + 1 > MaxPost)
    BY <2>1, <2>2, <2>4 DEF LimitInv, WithinLimits
  <2> QED BY <2>3, <2>4
<1>6. ASSUME NEW c \in Conn, PostEnd(c) \/ PostEof(c) \/ PostError(c) PROVE LimitInv'
  BY <1>6 DEF PostEnd, PostEof, PostError, LimitInv, WithinLimits
<1>7. ASSUME NEW c \in Conn, Joined(c) \/ Write(c) PROVE LimitInv'
  <2>1. CASE Joined(c)
    <3>1. CASE post[c] > MaxPost \/ verdict[c] = "invalid" \/ route[c] = "failed"
      BY <2>1, <3>1, LimitEnd DEF Joined, Fail
    <3>2. CASE ~(post[c] > MaxPost \/ verdict[c] = "invalid" \/ route[c] = "failed")
      BY <2>1, <3>2 DEF Joined, LimitInv, WithinLimits
    <3> QED BY <3>1, <3>2
  <2>2. CASE Write(c)
    <3>1. CASE tcp[dest[c]] = "rst"
      BY <2>2, <3>1, LimitEnd DEF Write
    <3>2. CASE tcp[dest[c]] # "rst"
      <4>1. pc[c] = "write" /\ pc' = [pc EXCEPT ![c] = "relay"] /\ UNCHANGED <<pre, post, postDone>>
        BY <2>2, <3>2 DEF Write
      <4> QED BY <4>1 DEF LimitInv, WithinLimits
    <3> QED BY <3>1, <3>2
  <2> QED BY <1>7, <2>1, <2>2
<1>8. ASSUME NEW c \in Conn, NEW last, NEW close, FinishCycle(c, last, close) PROVE LimitInv'
  <2>1. CASE should_close[c] \/ close
    BY <1>8, <2>1, LimitEnd DEF FinishCycle
  <2>2. CASE ~(should_close[c] \/ close)
    <3>1. /\ pc' = [pc EXCEPT ![c] = "pre"]
          /\ pre' = [pre EXCEPT ![c] = 0] /\ post' = [post EXCEPT ![c] = 0]
          /\ postDone' = [postDone EXCEPT ![c] = FALSE]
      BY <1>8, <2>2 DEF FinishCycle
    <3> QED BY <3>1 DEF LimitInv, WithinLimits
  <2> QED BY <2>1, <2>2
<1>9. ASSUME NEW c \in Conn, RelayLast(c) \/ RelayEof(c) PROVE LimitInv'
  BY <1>8, <1>9 DEF RelayLast, RelayEof
<1>10. ASSUME NEW c \in Conn, RelayError(c) \/ RelayClientGone(c) \/ CopyEnd(c) PROVE LimitInv'
  BY <1>10, LimitEnd DEF RelayError, RelayClientGone, CopyEnd
<1>11. ASSUME NEW c \in Conn, RouteFail(c) \/ RelayPiece(c) \/ CopyPiece(c) \/ ClientClose(c)
                                \/ \E d \in Dest : RouteOk(c, d)
       PROVE  LimitInv'
  BY <1>0, <1>11 DEF RouteFail, RouteOk, RelayPiece, CopyPiece, ClientClose
<1>12. ASSUME NEW d \in Dest, ServerClose(d) \/ PoolClose(d) \/ \E how \in DOMAIN Answers(<<>>) : Answer(d, how)
       PROVE  LimitInv'
  BY <1>0, <1>12 DEF ServerClose, PoolClose, Answer
<1> QED BY <1>1, <1>2, <1>3, <1>4, <1>5, <1>6, <1>7, <1>9, <1>10, <1>11, <1>12 DEF Next

\* Whatever the limits are, a request beyond one of them never reaches a server,
\* and no more than the frame that exceeds a limit is held beyond it.
THEOREM LimitsHold == Spec => []WithinLimits
<1>1. Init => LimitInv
  BY PipelineAssumption DEF PipelineAssumption, Init, LimitInv, WithinLimits
<1>2. LimitInv => WithinLimits
  BY DEF LimitInv
<1> QED BY <1>1, <1>2, LimitStep, PTL DEF Spec

-----------------------------------------------------------------------------
(* The upstream gauge *)

\* The connections that are between a successful route and their end.
Routed == {c \in Conn : routed[c] /\ pc[c] # "ended"}

\* Without a response parser there is one cycle and nothing goes to the pool: a
\* connection is routed from its first successful join on.
GaugeInv ==
  /\ pc \in [Conn -> {"pre", "join", "write", "relay", "ended"}]
  /\ routed \in [Conn -> BOOLEAN]
  /\ ~ResponseParser =>
       /\ \A d \in Dest : parked[d] = {}
       /\ \A c \in Conn : /\ route[c] # "pooled"
                          /\ pc[c] \in {"pre", "join"} => ~routed[c]
                          /\ pc[c] \in {"write", "relay"} => routed[c]
       /\ IsFiniteSet(Routed) /\ upstreams = Cardinality(Routed)

\* The variables the gauge depends on.
GaugeSame == UNCHANGED <<pc, routed, route, parked, upstreams, flow>>

\* What End does to the gauge when the connection was routed.
EndsRouted(c) ==
  /\ pc' = [pc EXCEPT ![c] = "ended"] /\ upstreams' = upstreams - 1
  /\ UNCHANGED <<routed, route, parked, flow>>

\* The end of a connection, which counts if it was routed.
LEMMA GaugeEnd ==
  ASSUME GaugeInv, NEW c \in Conn, pc[c] # "ended", pc' = [pc EXCEPT ![c] = "ended"],
         UNCHANGED <<routed, route, parked, flow>>,
         ~ResponseParser => upstreams' = IF routed[c] THEN upstreams - 1 ELSE upstreams
  PROVE  GaugeInv'
<1>2. ResponseParser' = ResponseParser BY DEF ResponseParser
<1>3. CASE ResponseParser
  BY <1>2, <1>3 DEF GaugeInv
<1>4. CASE ~ResponseParser
  <2>1. Routed' = Routed \ {c} /\ (routed[c] <=> c \in Routed)
    BY DEF Routed, GaugeInv
  <2>2. IsFiniteSet(Routed) /\ upstreams = Cardinality(Routed)
    BY <1>4 DEF GaugeInv
  <2>3. IsFiniteSet(Routed') /\ upstreams' = Cardinality(Routed')
    <3>1. Cardinality(Routed) \in Nat BY <2>2, FS_CardinalityType
    <3> QED BY <1>4, <2>1, <2>2, <3>1, FS_RemoveElement
  <2> QED BY <1>2, <1>4, <2>3 DEF GaugeInv
<1> QED BY <1>3, <1>4

\* Every step keeps the gauge.
LEMMA GaugeStep == OwnerInv /\ GaugeInv /\ [Next]_vars => GaugeInv'
<1> SUFFICES ASSUME OwnerInv, GaugeInv, [Next]_vars PROVE GaugeInv'
  OBVIOUS
<1>0. ASSUME GaugeSame PROVE GaugeInv'
  BY <1>0 DEF GaugeSame, GaugeInv, Routed, ResponseParser
<1>1. CASE UNCHANGED vars
  BY <1>0, <1>1 DEF vars, GaugeSame
<1>2. ASSUME NEW c \in Conn, NEW toClient, pc[c] # "ended", End(c, toClient, routed[c]) PROVE GaugeInv'
  BY <1>2, GaugeEnd DEF End
<1>3. ASSUME NEW c \in Conn, pc[c] \in {"write", "relay"}, EndsRouted(c) PROVE GaugeInv'
  <2>1. ~ResponseParser => routed[c]
    BY <1>3 DEF GaugeInv
  <2> QED BY <1>3, <2>1, GaugeEnd DEF EndsRouted
<1>4. ASSUME NEW c \in Conn, PreFrame(c) \/ PreError(c) \/ PreEnd(c) PROVE GaugeInv'
  BY <1>0, <1>2, <1>4 DEF PreFrame, PreError, PreEnd, Fail, GaugeSame
<1>5. ASSUME NEW c \in Conn, NEW k \in Key, RoutingFrame(c, k) PROVE GaugeInv'
  <2>1. CASE pre[c] + 1 > MaxPre
    BY <1>2, <1>5, <2>1 DEF RoutingFrame, Fail
  <2>2. CASE ~(pre[c] + 1 > MaxPre)
    <3>1. pc[c] = "pre" /\ pc' = [pc EXCEPT ![c] = "join"] /\ UNCHANGED <<routed, upstreams, flow>>
      BY <1>5, <2>2 DEF RoutingFrame
    <3>2. ResponseParser' = ResponseParser /\ Routed' = Routed
      BY <3>1 DEF ResponseParser, Routed, GaugeInv
    <3>3. ASSUME ~ResponseParser PROVE UNCHANGED parked /\ \A e \in Conn : route'[e] # "pooled"
      <4>1. UNCHANGED parked /\ route' = [route EXCEPT ![c] = "pending"]
        BY <1>5, <2>2, <3>3 DEF RoutingFrame, GaugeInv
      <4> QED BY <3>3, <4>1 DEF GaugeInv
    <3> QED BY <3>1, <3>2, <3>3 DEF GaugeInv
  <2> QED BY <2>1, <2>2
<1>6. ASSUME NEW c \in Conn, RouteFail(c) \/ \E d \in Dest : RouteOk(c, d) PROVE GaugeInv'
  <2>1. /\ UNCHANGED <<pc, routed, parked, upstreams, flow>>
        /\ route' = [route EXCEPT ![c] = "failed"] \/ route' = [route EXCEPT ![c] = "new"]
    BY <1>6 DEF RouteFail, RouteOk
  <2>2. ResponseParser' = ResponseParser /\ Routed' = Routed
    BY <2>1 DEF ResponseParser, Routed
  <2> QED BY <2>1, <2>2 DEF GaugeInv, OwnerInv, OwnerType
<1>7. ASSUME NEW c \in Conn, Joined(c) PROVE GaugeInv'
  <2>1. CASE post[c] > MaxPost \/ verdict[c] = "invalid" \/ route[c] = "failed"
    BY <1>2, <1>7, <2>1 DEF Joined, Fail
  <2>2. CASE ~(post[c] > MaxPost \/ verdict[c] = "invalid" \/ route[c] = "failed")
    <3>1. /\ pc[c] = "join" /\ route[c] # "pending" /\ pc' = [pc EXCEPT ![c] = "write"]
          /\ routed' = [routed EXCEPT ![c] = TRUE]
          /\ upstreams' = IF route[c] = "new" THEN upstreams + 1 ELSE upstreams
          /\ UNCHANGED <<route, parked, flow>>
      BY <1>7, <2>2 DEF Joined
    <3>2. ResponseParser' = ResponseParser BY <3>1 DEF ResponseParser
    <3>3. CASE ResponseParser BY <3>1, <3>2, <3>3 DEF GaugeInv
    <3>4. CASE ~ResponseParser
      <4>1. c \notin Routed /\ Routed' = Routed \cup {c}
        BY <3>1, <3>4 DEF GaugeInv, Routed
      <4>2. IsFiniteSet(Routed) /\ upstreams = Cardinality(Routed)
        BY <3>4 DEF GaugeInv
      <4>3. route[c] = "new"
        BY <2>2, <3>1, <3>4 DEF GaugeInv, OwnerInv, OwnerType, HeldMatchesPc
      <4>4. IsFiniteSet(Routed') /\ upstreams' = Cardinality(Routed')
        BY <3>1, <4>1, <4>2, <4>3, FS_AddElement
      <4> QED BY <3>1, <3>2, <3>4, <4>4 DEF GaugeInv
    <3> QED BY <3>3, <3>4
  <2> QED BY <2>1, <2>2
<1>8. ASSUME NEW c \in Conn, Write(c) PROVE GaugeInv'
  <2>1. CASE tcp[dest[c]] = "rst"
    BY <1>3, <1>8, <2>1 DEF Write, End, EndsRouted
  <2>2. CASE tcp[dest[c]] # "rst"
    <3>1. pc[c] = "write" /\ pc' = [pc EXCEPT ![c] = "relay"] /\ UNCHANGED <<routed, route, parked, upstreams, flow>>
      BY <1>8, <2>2 DEF Write
    <3>2. ResponseParser' = ResponseParser /\ Routed' = Routed
      BY <3>1 DEF ResponseParser, Routed, GaugeInv
    <3> QED BY <3>1, <3>2 DEF GaugeInv
  <2> QED BY <2>1, <2>2
<1>9. ASSUME NEW c \in Conn, NEW last, NEW close, pc[c] = "relay", ResponseParser, FinishCycle(c, last, close)
      PROVE  GaugeInv'
  <2>1. CASE should_close[c] \/ close
    BY <1>3, <1>9, <2>1 DEF FinishCycle, End, EndsRouted
  <2>2. CASE ~(should_close[c] \/ close)
    <3>1. pc' = [pc EXCEPT ![c] = "pre"] /\ UNCHANGED <<routed, flow>>
      BY <1>9, <2>2 DEF FinishCycle
    <3> QED BY <1>9, <3>1 DEF GaugeInv, ResponseParser
  <2> QED BY <2>1, <2>2
<1>10. ASSUME NEW c \in Conn, RelayLast(c) \/ RelayEof(c) PROVE GaugeInv'
  BY <1>9, <1>10 DEF RelayLast, RelayEof
<1>11. ASSUME NEW c \in Conn, RelayError(c) \/ RelayClientGone(c) \/ CopyEnd(c) PROVE GaugeInv'
  BY <1>3, <1>11 DEF RelayError, RelayClientGone, CopyEnd, End, EndsRouted
<1>12. ASSUME NEW c \in Conn, PostFrame(c) \/ PostEnd(c) \/ PostEof(c) \/ PostError(c) \/ RelayPiece(c) \/ CopyPiece(c)
                                \/ ClientClose(c)
       PROVE  GaugeInv'
  BY <1>0, <1>12 DEF PostFrame, PostEnd, PostEof, PostError, RelayPiece, CopyPiece, ClientClose, GaugeSame
<1>13. ASSUME NEW d \in Dest, ServerClose(d) \/ \E how \in DOMAIN Answers(<<>>) : Answer(d, how) PROVE GaugeInv'
  BY <1>0, <1>13 DEF ServerClose, Answer, GaugeSame
<1>14. ASSUME NEW d \in Dest, PoolClose(d) PROVE GaugeInv'
  <2>1. parked[d] # {} /\ UNCHANGED <<pc, routed, flow>>
    BY <1>14 DEF PoolClose
  <2> QED BY <2>1 DEF GaugeInv, ResponseParser
<1> QED BY <1>1, <1>4, <1>5, <1>6, <1>7, <1>8, <1>10, <1>11, <1>12, <1>13, <1>14 DEF Next

\* Without keep-alive the recorder's gauge of upstream connections is the number
\* of connections between a successful route and their end: every increment has
\* its decrement on whatever path the connection ends.
THEOREM GaugeIsExact == Spec => []GaugeBalanced
<1>1. Init => GaugeInv
  <2> SUFFICES ASSUME Init PROVE GaugeInv
    OBVIOUS
  <2>1. Routed = {} BY DEF Init, Routed
  <2> QED BY <2>1, FS_EmptySet DEF Init, GaugeInv
<1>2. GaugeInv => GaugeBalanced
  BY DEF GaugeInv, GaugeBalanced, Routed
<1> QED BY <1>1, <1>2, OwnerAlways, GaugeStep, PTL DEF Spec

-----------------------------------------------------------------------------
(* Answers *)

Piece == [kind : {"head", "end", "bad", "surplus"}, req : Conn \X Nat, close : BOOLEAN]
Item == Piece \cup {ErrorResponse}

AnswerType ==
  /\ first_cycle \in [Conn -> BOOLEAN] /\ broken \in [Conn -> BOOLEAN] /\ gone \in [Conn -> BOOLEAN]
  /\ reqNo \in [Conn -> Nat]
  /\ batch \in [Conn -> Seq(Piece)]
  /\ out \in [Conn -> Seq(Item)]
  /\ wire \in [Dest -> Seq(Piece)] /\ asked \in [Dest -> Seq(Conn \X Nat)]

\* Pieces of the answer to request r: the end, if it is there, comes last.
Belongs(pieces, r) ==
  \A i \in 1..Len(pieces) : /\ pieces[i].req = r /\ pieces[i].kind # "surplus"
                            /\ pieces[i].kind = "end" => i = Len(pieces)
NoEnd(pieces) == \A i \in 1..Len(pieces) : pieces[i].kind # "end"

\* Between a client and a server there is something on its way only while the
\* task relays, and it is the request the client waits for, or its answer.
QuietElsewhere ==
  \A d \in Dest : asked[d] # <<>> \/ wire[d] # <<>> => \E c \in Conn : pc[c] = "relay" /\ dest[c] = d

Exchange(c) ==
  LET d == dest[c]
      r == <<c, reqNo[c]>>
  IN /\ asked[d] # <<>> => asked[d] = <<r>> /\ wire[d] = <<>> /\ tcp[d] = "open"
     /\ Belongs(wire[d], r)
     /\ Belongs(batch[c], r) /\ NoEnd(batch[c])
     /\ \/ Ends(out[c]) + 1 = reqNo[c]
        \/ ~ResponseParser /\ asked[d] = <<>> /\ wire[d] = <<>>

\* The last thing the client got is the end of an answer.
EndedWell(s) == s = <<>> \/ s[Len(s)].kind = "end"

\* Where a client stands: satisfied until its next request is complete.
Standing(c) ==
  /\ pc[c] \in {"pre", "join", "write"} => batch[c] = <<>>
  /\ pc[c] = "pre" /\ Satisfied(c) => EndedWell(out[c])
  /\ pc[c] = "pre" /\ broken[c] => ~first_cycle[c] /\ pre[c] = 0
  /\ pc[c] \in {"join", "write"} => EndedWell(out[c])
  /\ pc[c] = "join" /\ ~postDone[c] => Satisfied(c)
  /\ pc[c] = "join" /\ postDone[c] /\ post[c] <= MaxPost => Ends(out[c]) + 1 = reqNo[c]
  /\ pc[c] = "write" => Ends(out[c]) + 1 = reqNo[c]

\* The pieces in s are those of the requests of c, one answer after the other.
RightAnswers(c, s) ==
  \A i \in 1..Len(s) : s[i].kind # "error" => s[i].req = <<c, 1 + Ends(SubSeq(s, 1, i - 1))>>

\* An error response is the last thing and follows a whole answer, unless the
\* client is gone.
ErrorAtEnd(c) ==
  \A i \in 1..Len(out[c]) : out[c][i].kind = "error" =>
     /\ i = Len(out[c]) /\ pc[c] = "ended"
     /\ gone[c] \/ i = 1 \/ out[c][i - 1].kind = "end"

Answering(c) ==
  /\ pc[c] = "relay" => Exchange(c)
  /\ Standing(c) /\ RightAnswers(c, out[c]) /\ ErrorAtEnd(c)

AnswerInv == AnswerType /\ QuietElsewhere /\ \A c \in Conn : Answering(c)

-----------------------------------------------------------------------------
(* Counting the answers in what was written *)

\* Ends is a number, and it depends on the kinds alone.
LEMMA EndsType ==
  ASSUME NEW S, NEW s \in Seq(S)
  PROVE  /\ Ends(s) \in Nat
         /\ IsFiniteSet({i \in 1..Len(s) : s[i].kind = "end"})
<1>1. Len(s) \in Nat OBVIOUS
<1>2. IsFiniteSet(1..Len(s)) BY <1>1, FS_Interval
<1>3. {i \in 1..Len(s) : s[i].kind = "end"} \in SUBSET (1..Len(s)) OBVIOUS
<1>4. IsFiniteSet({i \in 1..Len(s) : s[i].kind = "end"})
  BY <1>2, <1>3, FS_Subset
<1> QED BY <1>4, FS_CardinalityType DEF Ends

\* The places of the ends in a sequence.
EndPlaces(s) == {i \in 1..Len(s) : s[i].kind = "end"}

\* Adding pieces without an end, and pieces of which the last is one.
LEMMA EndsConcat ==
  ASSUME NEW S, NEW s \in Seq(S), NEW t \in Seq(S),
         \A i \in 1..Len(t) : t[i].kind = "end" => i = Len(t)
  PROVE  /\ t # <<>> /\ t[Len(t)].kind = "end" => Ends(s \o t) = Ends(s) + 1
         /\ t = <<>> \/ t[Len(t)].kind # "end" => Ends(s \o t) = Ends(s)
<1>1. s \o t \in Seq(S) /\ Len(s \o t) = Len(s) + Len(t) /\ Len(s) \in Nat /\ Len(t) \in Nat
  OBVIOUS
<1>2. \A i \in 1..Len(s) : (s \o t)[i] = s[i]
  OBVIOUS
<1>3. \A i \in (Len(s) + 1)..(Len(s) + Len(t)) : (s \o t)[i] = t[i - Len(s)] /\ i - Len(s) \in 1..Len(t)
  OBVIOUS
<1>4. IsFiniteSet(EndPlaces(s)) /\ Ends(s) = Cardinality(EndPlaces(s)) /\ Ends(s \o t) = Cardinality(EndPlaces(s \o t))
  BY EndsType DEF EndPlaces, Ends
<1>5. ASSUME t # <<>>, t[Len(t)].kind = "end" PROVE Ends(s \o t) = Ends(s) + 1
  <2>1. Len(t) \in 1..Len(t) BY <1>5
  <2>2. Len(s) + Len(t) \notin EndPlaces(s) BY <1>1, <2>1 DEF EndPlaces
  <2>3. \A i : i \in EndPlaces(s \o t) <=> i \in EndPlaces(s) \/ i = Len(s) + Len(t)
    <3>1. ASSUME NEW i \in 1..Len(s) PROVE i \in EndPlaces(s \o t) <=> i \in EndPlaces(s)
      BY <1>1, <1>2, <3>1 DEF EndPlaces
    <3>2. ASSUME NEW i \in (Len(s) + 1)..(Len(s) + Len(t)) PROVE i \in EndPlaces(s \o t) <=> i = Len(s) + Len(t)
      <4>1. (s \o t)[i] = t[i - Len(s)] /\ i - Len(s) \in 1..Len(t) BY <1>3
      <4>2. t[i - Len(s)].kind = "end" <=> i - Len(s) = Len(t)
        BY <1>5, <4>1
      <4>3. i - Len(s) = Len(t) <=> i = Len(s) + Len(t) BY <1>1
      <4>4. i \in 1..Len(s \o t) BY <1>1
      <4> QED BY <4>1, <4>2, <4>3, <4>4 DEF EndPlaces
    <3>3. \A i : i \in EndPlaces(s \o t) \/ i \in EndPlaces(s) \/ i = Len(s) + Len(t)
             => i \in 1..Len(s) \/ i \in (Len(s) + 1)..(Len(s) + Len(t))
      BY <1>1, <2>1 DEF EndPlaces
    <3>4. \A i \in (Len(s) + 1)..(Len(s) + Len(t)) : i \notin EndPlaces(s)
      BY <1>1 DEF EndPlaces
    <3>5. \A i \in 1..Len(s) : i # Len(s) + Len(t)
      BY <1>1, <2>1
    <3> QED BY <3>1, <3>2, <3>3, <3>4, <3>5
  <2>4. EndPlaces(s \o t) = EndPlaces(s) \cup {Len(s) + Len(t)}
    BY <2>3
  <2>5. Cardinality(EndPlaces(s) \cup {Len(s) + Len(t)}) = Cardinality(EndPlaces(s)) + 1
    BY <1>4, <2>2, FS_AddElement
  <2> QED BY <1>4, <2>4, <2>5
<1>6. ASSUME t = <<>> \/ t[Len(t)].kind # "end" PROVE Ends(s \o t) = Ends(s)
  <2>1. \A i \in 1..Len(t) : t[i].kind # "end" BY <1>6
  <2>2. EndPlaces(s \o t) = EndPlaces(s)
    BY <1>1, <1>2, <1>3, <2>1 DEF EndPlaces
  <2> QED BY <1>4, <2>2
<1> QED BY <1>5, <1>6

\* The first part of what was written keeps its count.
LEMMA PrefixOfConcat ==
  ASSUME NEW S, NEW s \in Seq(S), NEW t \in Seq(S), NEW n \in 0..Len(s)
  PROVE  SubSeq(s \o t, 1, n) = SubSeq(s, 1, n)
<1>1. Len(SubSeq(s \o t, 1, n)) = n /\ Len(SubSeq(s, 1, n)) = n
  OBVIOUS
<1>2. \A i \in 1..n : SubSeq(s \o t, 1, n)[i] = SubSeq(s, 1, n)[i]
  OBVIOUS
<1>3. SubSeq(s \o t, 1, n) \in Seq(S) /\ SubSeq(s, 1, n) \in Seq(S)
  OBVIOUS
<1> QED BY <1>1, <1>2, <1>3, SeqEqual

\* Within the pieces of one answer, the count is that of what came before.
LEMMA EndsWithin ==
  ASSUME NEW S, NEW s \in Seq(S), NEW t \in Seq(S), NEW n \in 0..(Len(t) - 1),
         \A i \in 1..Len(t) : t[i].kind = "end" => i = Len(t)
  PROVE  Ends(SubSeq(s \o t, 1, Len(s) + n)) = Ends(s)
<1> DEFINE u == SubSeq(t, 1, n)
<1>1. u \in Seq(S) /\ Len(u) = n /\ \A i \in 1..n : u[i] = t[i]
  OBVIOUS
<1>2. SubSeq(s \o t, 1, Len(s) + n) = s \o u
  <2>1. SubSeq(s \o t, 1, Len(s) + n) \in Seq(S) /\ Len(SubSeq(s \o t, 1, Len(s) + n)) = Len(s) + n
    OBVIOUS
  <2>2. s \o u \in Seq(S) /\ Len(s \o u) = Len(s) + n
    BY <1>1
  <2>3. \A i \in 1..(Len(s) + n) : SubSeq(s \o t, 1, Len(s) + n)[i] = (s \o u)[i]
    BY <1>1
  <2> QED BY <2>1, <2>2, <2>3, SeqEqual
<1>3. \A i \in 1..Len(u) : u[i].kind # "end"
  BY <1>1
<1> HIDE DEF u
<1>4. u = <<>> \/ u[Len(u)].kind # "end"
  <2>1. CASE Len(u) = 0 BY <1>1, <2>1
  <2>2. CASE Len(u) # 0 BY <1>1, <1>3, <2>2
  <2> QED BY <2>1, <2>2
<1>5. Ends(s \o u) = Ends(s) BY <1>1, <1>3, <1>4, EndsConcat
<1> QED BY <1>2, <1>5

-----------------------------------------------------------------------------
(* What is added to what was written *)

NoError(s) == \A i \in 1..Len(s) : s[i].kind # "error"

\* No piece of a response is an error response.
LEMMA PiecesAreItems ==
  /\ Seq(Piece) \subseteq Seq(Item)
  /\ \A s \in Seq(Piece) : NoError(s)
  /\ ErrorResponse \in Item /\ ErrorResponse.kind = "error"
<1>1. Piece \subseteq Item BY DEF Item
<1>2. ASSUME NEW s \in Seq(Piece) PROVE s \in Seq(Item) /\ NoError(s)
  <2>1. \A i \in 1..Len(s) : s[i] \in Piece OBVIOUS
  <2>2. \A p \in Piece : p.kind # "error" BY DEF Piece
  <2> QED BY <1>1, <2>1, <2>2 DEF NoError
<1> QED BY <1>2 DEF Item, ErrorResponse

\* Pieces of the answer the client waits for, after a number of whole answers.
LEMMA AddPieces ==
  ASSUME NEW c \in Conn, NEW s \in Seq(Item), NEW t \in Seq(Piece), NEW n \in Nat,
         RightAnswers(c, s), NoError(s), Belongs(t, <<c, n>>), Ends(s) + 1 = n
  PROVE  /\ s \o t \in Seq(Item) /\ RightAnswers(c, s \o t) /\ NoError(s \o t)
         /\ NoEnd(t) => Ends(s \o t) = Ends(s)
         /\ t # <<>> /\ ~NoEnd(t) => Ends(s \o t) = n /\ EndedWell(s \o t)
         /\ t = <<>> => s \o t = s
<1>1. t \in Seq(Item) /\ NoError(t) BY PiecesAreItems
<1>2. \A i \in 1..Len(t) : t[i].kind = "end" => i = Len(t) BY DEF Belongs
<1>3. s \o t \in Seq(Item) /\ Len(s \o t) = Len(s) + Len(t) /\ Len(s) \in Nat /\ Len(t) \in Nat BY <1>1
<1>4. \A i \in 1..Len(s) : (s \o t)[i] = s[i] BY <1>1
<1>5. \A i \in (Len(s) + 1)..(Len(s) + Len(t)) : (s \o t)[i] = t[i - Len(s)] /\ i - Len(s) \in 1..Len(t) BY <1>1
<1>6. RightAnswers(c, s \o t)
  <2> SUFFICES ASSUME NEW i \in 1..Len(s \o t), (s \o t)[i].kind # "error"
               PROVE  (s \o t)[i].req = <<c, 1 + Ends(SubSeq(s \o t, 1, i - 1))>>
    BY DEF RightAnswers
  <2>1. CASE i \in 1..Len(s)
    <3>1. i - 1 \in 0..Len(s) BY <1>3, <2>1
    <3>2. SubSeq(s \o t, 1, i - 1) = SubSeq(s, 1, i - 1) BY <1>1, <3>1, PrefixOfConcat
    <3>3. s[i].kind # "error" => s[i].req = <<c, 1 + Ends(SubSeq(s, 1, i - 1))>>
      BY <2>1 DEF RightAnswers
    <3> QED BY <1>4, <2>1, <3>2, <3>3
  <2>2. CASE i \in (Len(s) + 1)..(Len(s) + Len(t))
    <3> DEFINE j == i - Len(s) - 1
    <3>1. j \in 0..(Len(t) - 1) /\ i - 1 = Len(s) + j BY <1>3, <2>2
    <3>2. Ends(SubSeq(s \o t, 1, Len(s) + j)) = Ends(s)
      BY <1>1, <1>2, <3>1, EndsWithin
    <3>3. t[i - Len(s)].req = <<c, n>> BY <1>5, <2>2 DEF Belongs
    <3>4. Ends(s) \in Nat BY EndsType
    <3>5. 1 + Ends(s) = n BY <3>4
    <3> QED BY <1>5, <2>2, <3>1, <3>2, <3>3, <3>5
  <2> QED BY <1>3, <2>1, <2>2
<1>7. NoError(s \o t)
  BY <1>1, <1>3, <1>4, <1>5 DEF NoError
<1>8. ASSUME NoEnd(t) PROVE Ends(s \o t) = Ends(s)
  <2>1. t = <<>> \/ t[Len(t)].kind # "end"
    <3>1. CASE Len(t) = 0 BY <3>1
    <3>2. CASE Len(t) # 0 BY <1>3, <1>8, <3>2 DEF NoEnd
    <3> QED BY <3>1, <3>2
  <2> QED BY <1>1, <1>2, <2>1, EndsConcat
<1>9. ASSUME t # <<>>, ~NoEnd(t) PROVE Ends(s \o t) = n /\ EndedWell(s \o t)
  <2>1. Len(t) \in 1..Len(t) /\ t[Len(t)].kind = "end" BY <1>2, <1>9 DEF NoEnd
  <2>2. Ends(s \o t) = Ends(s) + 1 BY <1>1, <1>2, <1>9, <2>1, EndsConcat
  <2>3. (s \o t)[Len(s \o t)] = t[Len(t)] BY <1>3, <2>1
  <2> QED BY <2>1, <2>2, <2>3 DEF EndedWell
<1> QED BY <1>3, <1>6, <1>7, <1>8, <1>9

\* The error response.
LEMMA AddError ==
  ASSUME NEW c \in Conn, NEW s \in Seq(Item), RightAnswers(c, s), NoError(s)
  PROVE  LET t == s \o <<ErrorResponse>>
         IN /\ t \in Seq(Item) /\ RightAnswers(c, t) /\ Len(t) = Len(s) + 1
            /\ \A i \in 1..Len(s) : t[i] = s[i]
            /\ \A i \in 1..Len(t) : t[i].kind = "error" => i = Len(t)
<1> DEFINE t == s \o <<ErrorResponse>>
<1>1. ErrorResponse \in Item /\ ErrorResponse.kind = "error" BY PiecesAreItems
<1>2. t \in Seq(Item) /\ Len(t) = Len(s) + 1 /\ Len(s) \in Nat /\ t[Len(s) + 1] = ErrorResponse BY <1>1
<1>3. \A i \in 1..Len(s) : t[i] = s[i] BY <1>1
<1>4. ASSUME NEW i \in 1..Len(t), t[i].kind # "error"
      PROVE  t[i].req = <<c, 1 + Ends(SubSeq(t, 1, i - 1))>>
  <2>1. i \in 1..Len(s) BY <1>1, <1>2, <1>4
  <2>2. i - 1 \in 0..Len(s) /\ <<ErrorResponse>> \in Seq(Item) BY <1>1, <2>1
  <2>3. SubSeq(t, 1, i - 1) = SubSeq(s, 1, i - 1) BY <2>2, PrefixOfConcat
  <2>4. s[i].kind # "error" => s[i].req = <<c, 1 + Ends(SubSeq(s, 1, i - 1))>> BY <2>1 DEF RightAnswers
  <2> QED BY <1>3, <1>4, <2>1, <2>3, <2>4
<1>5. RightAnswers(c, t) BY <1>4 DEF RightAnswers
<1>6. \A i \in 1..Len(t) : t[i].kind = "error" => i = Len(t) BY <1>2, <1>3 DEF NoError
<1> QED BY <1>2, <1>3, <1>5, <1>6

-----------------------------------------------------------------------------
(* Whose turn it is: what is known of a client whatever servers send *)

\* With a response parser only the end of a response adds an end, so that a client
\* which has got as many as it sent requests has got no part of another answer.
Turn(c) ==
  /\ pc[c] = "relay" /\ ResponseParser => Ends(out[c]) + 1 = reqNo[c] /\ NoEnd(batch[c])
  /\ Standing(c) /\ ErrorAtEnd(c)

TurnInv == AnswerType /\ \A c \in Conn : Turn(c)

\* What a task holds while it relays, nobody else relays from.
LEMMA OthersRelayElsewhere ==
  ASSUME OwnerInv, NEW c \in Conn
  PROVE  /\ pc[c] = "relay" => dest[c] \in Dest
         /\ \A e \in Conn : e # c /\ pc[e] = "relay" => dest[e] \in Dest /\ dest[e] # dest[c]
BY PipelineAssumption DEF PipelineAssumption, OwnerInv, OwnerType, HeldMatchesPc, HeldAlone, Held

\* A step of connection c before it relays, where nothing is written.
Before(c) ==
  /\ pc[c] \in {"pre", "join"} /\ pc'[c] \in {"pre", "join", "write"}
  /\ UNCHANGED <<first_cycle, batch, out, asked, wire, flow, gone>>
  /\ broken' \in [Conn -> BOOLEAN] /\ reqNo' \in [Conn -> Nat]
  /\ \A e \in Conn \ {c} : /\ pc'[e] = pc[e] /\ dest'[e] = dest[e] /\ pre'[e] = pre[e] /\ post'[e] = post[e]
                            /\ postDone'[e] = postDone[e] /\ broken'[e] = broken[e] /\ reqNo'[e] = reqNo[e]
  /\ \A d \in Dest : tcp[d] # "none" => tcp'[d] = tcp[d]

\* What a step before the relay does: it moves on, or ends the connection, with an
\* error response where the client is between two answers or gone, or without.
BeforeRelay(c) ==
  \/ Before(c) /\ Standing(c)'
  \/ pc[c] # "ended" /\ (gone[c] \/ EndedWell(out[c])) /\ Fail(c)
  \/ pc[c] # "ended" /\ End(c, <<>>, routed[c])

\* A client that sends is between two answers.
LEMMA SendsBetweenAnswers ==
  ASSUME TurnInv, NEW c \in Conn, pc[c] = "pre", ClientSends(c)
  PROVE  batch[c] = <<>> /\ EndedWell(out[c]) /\ Satisfied(c) /\ ~broken[c]
BY DEF TurnInv, Turn, Standing, ClientSends

\* The steps of the pre-route loop are of this form.
LEMMA PreKinds ==
  ASSUME OwnerInv, LimitInv, TurnInv, NEW c \in Conn,
         PreFrame(c) \/ PreError(c) \/ PreEnd(c) \/ \E k \in Key : RoutingFrame(c, k)
  PROVE  BeforeRelay(c)
<1>1. CASE PreFrame(c)
  <2>1. pc[c] = "pre" /\ ClientSends(c) BY <1>1 DEF PreFrame
  <2>2. CASE pre[c] + 1 > MaxPre
    <3>1. Fail(c) BY <1>1, <2>2 DEF PreFrame
    <3> QED BY <2>1, <3>1, SendsBetweenAnswers DEF BeforeRelay
  <2>3. CASE ~(pre[c] + 1 > MaxPre)
    <3>1. /\ pre' = [pre EXCEPT ![c] = @ + 1]
          /\ UNCHANGED <<pc, first_cycle, post, postDone, dest, batch, reqNo, broken, gone, out, tcp, asked, wire, flow>>
      BY <1>1, <2>3 DEF PreFrame
    <3>2. Before(c) BY <2>1, <3>1 DEF Before, TurnInv, AnswerType, LimitInv
    <3>3. Standing(c)' BY <2>1, <3>1, SendsBetweenAnswers DEF Standing, Satisfied
    <3> QED BY <3>2, <3>3 DEF BeforeRelay
  <2> QED BY <2>2, <2>3
<1>2. CASE PreError(c)
  BY <1>2, SendsBetweenAnswers DEF PreError, BeforeRelay
<1>3. CASE PreEnd(c)
  <2>1. CASE ~first_cycle[c] /\ pre[c] = 0
    <3>1. pc[c] = "pre" /\ End(c, <<>>, routed[c]) BY <1>3, <2>1 DEF PreEnd
    <3> QED BY <3>1 DEF BeforeRelay
  <2>2. CASE ~(~first_cycle[c] /\ pre[c] = 0)
    <3>1. pc[c] = "pre" /\ Fail(c) /\ (gone[c] \/ broken[c]) BY <1>3, <2>2 DEF PreEnd
    <3>2. gone[c] BY <2>2, <3>1 DEF TurnInv, Turn, Standing
    <3> QED BY <3>1, <3>2 DEF BeforeRelay
  <2> QED BY <2>1, <2>2
<1>4. ASSUME NEW k \in Key, RoutingFrame(c, k) PROVE BeforeRelay(c)
  <2>1. pc[c] = "pre" /\ ClientSends(c) BY <1>4 DEF RoutingFrame
  <2>2. CASE pre[c] + 1 > MaxPre
    <3>1. Fail(c) BY <1>4, <2>2 DEF RoutingFrame
    <3> QED BY <2>1, <3>1, SendsBetweenAnswers DEF BeforeRelay
  <2>3. CASE ~(pre[c] + 1 > MaxPre)
    <3>1. /\ pc' = [pc EXCEPT ![c] = "join"] /\ pre' = [pre EXCEPT ![c] = @ + 1]
          /\ UNCHANGED <<first_cycle, post, postDone, batch, reqNo, broken, gone, out, tcp, asked, wire, flow>>
          /\ dest' = dest \/ \E d \in Dest : dest' = [dest EXCEPT ![c] = d]
      BY <1>4, <2>3 DEF RoutingFrame
    <3>2. pc'[c] = "join" /\ ~postDone'[c] BY <2>1, <3>1 DEF LimitInv
    <3>3. Before(c) BY <2>1, <3>1, <3>2 DEF Before, TurnInv, AnswerType, LimitInv, OwnerInv, OwnerType
    <3>4. Standing(c)' BY <2>1, <3>1, <3>2, SendsBetweenAnswers DEF Standing, Satisfied
    <3> QED BY <3>3, <3>4 DEF BeforeRelay
  <2> QED BY <2>2, <2>3
<1> QED BY <1>1, <1>2, <1>3, <1>4

\* The steps of the join are of this form.
LEMMA JoinKinds ==
  ASSUME OwnerInv, LimitInv, TurnInv, NEW c \in Conn,
         \/ \E d \in Dest : RouteOk(c, d)
         \/ RouteFail(c) \/ PostFrame(c) \/ PostEnd(c) \/ PostEof(c) \/ PostError(c) \/ Joined(c)
  PROVE  BeforeRelay(c)
<1> USE PipelineAssumption DEF PipelineAssumption
<1>1. pc[c] = "join" /\ batch[c] = <<>> /\ EndedWell(out[c]) /\ post[c] \in Nat /\ reqNo[c] \in Nat
  BY DEF RouteOk, RouteFail, PostFrame, PostEnd, PostEof, PostError, Joined, TurnInv, AnswerType, Turn, Standing, LimitInv
<1>2. /\ ~postDone[c] => Ends(out[c]) = reqNo[c]
      /\ postDone[c] /\ post[c] <= MaxPost => Ends(out[c]) + 1 = reqNo[c]
  BY <1>1 DEF TurnInv, Turn, Standing, Satisfied
<1>3. CASE RouteFail(c) \/ \E d \in Dest : RouteOk(c, d)
  <2>1. /\ UNCHANGED <<pc, first_cycle, pre, post, postDone, batch, reqNo, broken, gone, out, asked, wire, flow>>
        /\ dest' = dest \/ \E d \in Dest : dest' = [dest EXCEPT ![c] = d]
        /\ \A d \in Dest : tcp[d] # "none" => tcp'[d] = tcp[d]
    BY <1>3 DEF RouteFail, RouteOk, Unowned, OwnerInv, OwnerType
  <2>2. Before(c) BY <1>1, <2>1 DEF Before, TurnInv, AnswerType, OwnerInv, OwnerType
  <2>3. Standing(c)' BY <1>1, <1>2, <2>1 DEF Standing, Satisfied
  <2> QED BY <2>2, <2>3 DEF BeforeRelay
<1>4. CASE PostFrame(c)
  <2>1. /\ ~postDone[c] /\ post' = [post EXCEPT ![c] = @ + 1]
        /\ IF post[c] + 1 > MaxPost THEN postDone' = [postDone EXCEPT ![c] = TRUE] ELSE UNCHANGED postDone
        /\ UNCHANGED <<pc, first_cycle, pre, dest, batch, reqNo, broken, gone, out, tcp, asked, wire, flow>>
    BY <1>4 DEF PostFrame
  <2>2. /\ post'[c] = post[c] + 1 /\ (post'[c] <= MaxPost => ~postDone'[c])
        /\ \A e \in Conn \ {c} : post'[e] = post[e] /\ postDone'[e] = postDone[e]
    BY <1>1, <2>1 DEF LimitInv
  <2>3. Before(c) BY <1>1, <2>1, <2>2 DEF Before, TurnInv, AnswerType
  <2>4. Standing(c)' BY <1>1, <1>2, <2>1, <2>2 DEF Standing, Satisfied
  <2> QED BY <2>3, <2>4 DEF BeforeRelay
<1>5. CASE PostEnd(c) \/ PostEof(c) \/ PostError(c)
  <2>1. /\ ~postDone[c] /\ postDone' = [postDone EXCEPT ![c] = TRUE]
        /\ reqNo' = [reqNo EXCEPT ![c] = @ + 1]
        /\ broken' = broken \/ \E b \in BOOLEAN : broken' = [broken EXCEPT ![c] = b]
        /\ UNCHANGED <<pc, first_cycle, pre, post, dest, batch, gone, out, tcp, asked, wire, flow>>
    BY <1>5 DEF PostEnd, PostEof, PostError, MarksEndOfRequest
  <2>2. /\ reqNo'[c] = reqNo[c] + 1 /\ reqNo' \in [Conn -> Nat] /\ postDone'[c]
        /\ broken' \in [Conn -> BOOLEAN]
        /\ \A e \in Conn \ {c} : reqNo'[e] = reqNo[e] /\ postDone'[e] = postDone[e] /\ broken'[e] = broken[e]
    <3>1. /\ reqNo'[c] = reqNo[c] + 1 /\ reqNo' \in [Conn -> Nat]
          /\ \A e \in Conn \ {c} : reqNo'[e] = reqNo[e]
      BY <1>1, <2>1 DEF TurnInv, AnswerType
    <3>2. postDone'[c] /\ \A e \in Conn \ {c} : postDone'[e] = postDone[e]
      BY <2>1 DEF LimitInv
    <3>3. broken' \in [Conn -> BOOLEAN] /\ \A e \in Conn \ {c} : broken'[e] = broken[e]
      BY <2>1 DEF TurnInv, AnswerType
    <3> QED BY <3>1, <3>2, <3>3
  <2>3. Before(c) BY <1>1, <2>1, <2>2 DEF Before, TurnInv, AnswerType
  <2>4. Standing(c)' BY <1>1, <1>2, <2>1, <2>2 DEF Standing, Satisfied
  <2> QED BY <2>3, <2>4 DEF BeforeRelay
<1>6. CASE Joined(c)
  <2>1. CASE post[c] > MaxPost \/ verdict[c] = "invalid" \/ route[c] = "failed"
    <3>1. Fail(c) BY <1>6, <2>1 DEF Joined
    <3> QED BY <1>1, <3>1 DEF BeforeRelay
  <2>2. CASE ~(post[c] > MaxPost \/ verdict[c] = "invalid" \/ route[c] = "failed")
    <3>1. /\ postDone[c] /\ pc' = [pc EXCEPT ![c] = "write"]
          /\ UNCHANGED <<first_cycle, pre, post, postDone, dest, batch, reqNo, broken, gone, out, tcp, asked, wire, flow>>
      BY <1>6, <2>2 DEF Joined
    <3>2. pc'[c] = "write" /\ Ends(out[c]) + 1 = reqNo[c] BY <1>1, <1>2, <2>2, <3>1 DEF LimitInv
    <3>3. Before(c) BY <1>1, <3>1, <3>2 DEF Before, TurnInv, AnswerType, LimitInv
    <3>4. Standing(c)' BY <1>1, <3>1, <3>2 DEF Standing
    <3> QED BY <3>3, <3>4 DEF BeforeRelay
  <2> QED BY <2>1, <2>2
<1> QED BY <1>3, <1>4, <1>5, <1>6

\* A step that leaves connection e as it is.
Still(e) ==
  /\ flow' = flow /\ pc'[e] = pc[e] /\ first_cycle'[e] = first_cycle[e]
  /\ pre'[e] = pre[e] /\ post'[e] = post[e] /\ postDone'[e] = postDone[e] /\ broken'[e] = broken[e]
  /\ reqNo'[e] = reqNo[e] /\ (gone[e] => gone'[e]) /\ out'[e] = out[e] /\ batch'[e] = batch[e]

\* Such a step leaves it its turn.
LEMMA StillKeeps ==
  ASSUME NEW e \in Conn, Turn(e), Still(e)
  PROVE  Turn(e)'
<1>1. (pc[e] = "relay" /\ ResponseParser => Ends(out[e]) + 1 = reqNo[e] /\ NoEnd(batch[e]))'
  BY DEF Turn, Still, ResponseParser, NoEnd
<1>2. Standing(e)' BY DEF Turn, Still, Standing, Satisfied, EndedWell
<1>3. ErrorAtEnd(e)' BY DEF Turn, Still, ErrorAtEnd
<1> QED BY <1>1, <1>2, <1>3 DEF Turn

\* What a step has to show of the one connection it concerns, while it runs.
LEMMA TurnNow ==
  ASSUME NEW c \in Conn, pc'[c] # "ended", NoError(out'[c]), Standing(c)',
         pc'[c] = "relay" /\ ResponseParser' => Ends(out'[c]) + 1 = reqNo'[c] /\ NoEnd(batch'[c])
  PROVE  Turn(c)'
BY DEF Turn, ErrorAtEnd, NoError

\* Pieces of responses, of whatever request.
LEMMA AddAnyPieces ==
  ASSUME NEW s \in Seq(Item), NEW t \in Seq(Piece), NoError(s)
  PROVE  /\ s \o t \in Seq(Item) /\ NoError(s \o t)
         /\ NoEnd(t) => Ends(s \o t) = Ends(s)
         /\ t # <<>> /\ t[Len(t)].kind = "end" => EndedWell(s \o t)
<1>1. t \in Seq(Item) /\ NoError(t) BY PiecesAreItems
<1>2. s \o t \in Seq(Item) /\ Len(s \o t) = Len(s) + Len(t) /\ Len(s) \in Nat /\ Len(t) \in Nat BY <1>1
<1>3. \A i \in 1..Len(s) : (s \o t)[i] = s[i] BY <1>1
<1>4. \A i \in (Len(s) + 1)..(Len(s) + Len(t)) : (s \o t)[i] = t[i - Len(s)] /\ i - Len(s) \in 1..Len(t) BY <1>1
<1>5. NoError(s \o t) BY <1>1, <1>2, <1>3, <1>4 DEF NoError
<1>6. ASSUME NoEnd(t) PROVE Ends(s \o t) = Ends(s)
  <2>1. t = <<>> \/ t[Len(t)].kind # "end"
    <3>1. CASE Len(t) = 0 BY <3>1
    <3>2. CASE Len(t) # 0 BY <1>2, <1>6, <3>2 DEF NoEnd
    <3> QED BY <3>1, <3>2
  <2>2. \A i \in 1..Len(t) : t[i].kind = "end" => i = Len(t) BY <1>6 DEF NoEnd
  <2> QED BY <1>1, <2>1, <2>2, EndsConcat
<1>7. ASSUME t # <<>>, t[Len(t)].kind = "end" PROVE EndedWell(s \o t)
  <2>1. Len(t) \in 1..Len(t) BY <1>7
  <2>2. (s \o t)[Len(s \o t)] = t[Len(t)] BY <1>2, <2>1
  <2> QED BY <1>7, <2>2 DEF EndedWell
<1> QED BY <1>2, <1>5, <1>6, <1>7

\* The end of a connection, with pieces or an error response in the right place.
LEMMA TurnEnd ==
  ASSUME OwnerInv, TurnInv, NEW c \in Conn, NEW toClient, NEW total, End(c, toClient, total),
         out[c] \o toClient \in Seq(Item),
         \A i \in 1..Len(out[c] \o toClient) : (out[c] \o toClient)[i].kind = "error" =>
            /\ i = Len(out[c] \o toClient)
            /\ gone[c] \/ i = 1 \/ (out[c] \o toClient)[i - 1].kind = "end"
  PROVE  TurnInv'
<1>1. /\ pc' = [pc EXCEPT ![c] = "ended"]
      /\ out' = [out EXCEPT ![c] = out[c] \o toClient]
      /\ asked' = [d \in Dest |-> IF d = dest[c] THEN <<>> ELSE asked[d]]
      /\ wire' = [d \in Dest |-> IF d = dest[c] THEN <<>> ELSE wire[d]]
      /\ UNCHANGED <<first_cycle, pre, post, postDone, batch, reqNo, broken, gone, flow>>
  BY DEF End, DropDest
<1> HIDE DEF End
<1>2. AnswerType' BY <1>1 DEF TurnInv, AnswerType
<1>3. pc'[c] = "ended" /\ out'[c] = out[c] \o toClient /\ gone'[c] = gone[c]
  BY <1>1 DEF OwnerInv, OwnerType, TurnInv, AnswerType
<1>4. Turn(c)'
  <2>1. Standing(c)' BY <1>3 DEF Standing
  <2>2. ErrorAtEnd(c)' BY <1>3 DEF ErrorAtEnd
  <2> QED BY <1>3, <2>1, <2>2 DEF Turn
<1>5. ASSUME NEW e \in Conn, e # c PROVE Turn(e)'
  <2>1. Still(e) BY <1>1, <1>5 DEF Still, OwnerInv, OwnerType, TurnInv, AnswerType
  <2> QED BY <2>1, StillKeeps DEF TurnInv
<1> QED BY <1>2, <1>4, <1>5 DEF TurnInv

\* Until its end no client has got an error response.
LEMMA NoErrorBefore ==
  ASSUME TurnInv, NEW c \in Conn, pc[c] # "ended"
  PROVE  NoError(out[c]) /\ out[c] \in Seq(Item)
BY DEF TurnInv, AnswerType, Turn, ErrorAtEnd, NoError

\* The end with what is batched, or with nothing.
LEMMA TurnEndPieces ==
  ASSUME OwnerInv, TurnInv, NEW c \in Conn, pc[c] # "ended", NEW t \in Seq(Piece), NEW total, End(c, t, total)
  PROVE  TurnInv'
<1>1. out[c] \in Seq(Item) /\ NoError(out[c]) BY NoErrorBefore
<1>2. out[c] \o t \in Seq(Item) /\ NoError(out[c] \o t) BY <1>1, AddAnyPieces
<1> QED BY <1>2, TurnEnd DEF NoError

\* The end with an error response.
LEMMA TurnFail ==
  ASSUME OwnerInv, TurnInv, NEW c \in Conn, pc[c] # "ended", gone[c] \/ EndedWell(out[c]), Fail(c)
  PROVE  TurnInv'
<1> DEFINE s == out[c]
           t == s \o <<ErrorResponse>>
<1>1. s \in Seq(Item) /\ NoError(s) BY NoErrorBefore
<1>2. CASE ~flow.responder
  <2>1. End(c, <<>>, routed[c]) BY <1>2 DEF Fail
  <2>2. <<>> \in Seq(Piece) OBVIOUS
  <2> QED BY <2>1, <2>2, TurnEndPieces
<1>3. CASE flow.responder
  <2>1. End(c, <<ErrorResponse>>, routed[c]) BY <1>3 DEF Fail
  <2>2. ErrorResponse \in Item /\ ErrorResponse.kind = "error" BY PiecesAreItems
  <2>3. t \in Seq(Item) /\ Len(t) = Len(s) + 1 /\ Len(s) \in Nat BY <1>1, <2>2
  <2>4. \A i \in 1..Len(s) : t[i] = s[i] BY <1>1, <2>2
  <2>5. \A i \in 1..Len(t) : t[i].kind = "error" =>
          i = Len(t) /\ (gone[c] \/ i = 1 \/ t[i - 1].kind = "end")
    <3> SUFFICES ASSUME NEW i \in 1..Len(t), t[i].kind = "error"
                 PROVE  i = Len(t) /\ (gone[c] \/ i = 1 \/ t[i - 1].kind = "end")
      OBVIOUS
    <3> HIDE DEF t, s
    <3>1. i \notin 1..Len(s) BY <1>1, <2>4 DEF NoError
    <3>2. i = Len(s) + 1 BY <2>3, <3>1
    <3>3. Len(s) # 0 => Len(s) \in 1..Len(s) /\ s # <<>> BY <1>1, <2>3
    <3>4. i # 1 => i - 1 = Len(s) /\ Len(s) # 0 BY <2>3, <3>2
    <3>5. i # 1 /\ ~gone[c] => t[i - 1].kind = "end" BY <2>4, <3>3, <3>4 DEF EndedWell, s
    <3> QED BY <2>3, <3>2, <3>5
  <2> QED BY <2>1, <2>3, <2>5, TurnEnd
<1> QED BY <1>2, <1>3

\* The steps before the relay.
LEMMA TurnEarly ==
  ASSUME OwnerInv, TurnInv, NEW c \in Conn, BeforeRelay(c)
  PROVE  TurnInv'
<1>1. CASE Before(c) /\ Standing(c)'
  <2>1. AnswerType' BY <1>1 DEF TurnInv, AnswerType, Before
  <2>2. Turn(c)'
    <3>1. NoError(out[c]) BY <1>1, NoErrorBefore DEF Before
    <3> QED BY <1>1, <3>1, TurnNow DEF Before
  <2>3. ASSUME NEW e \in Conn, e # c PROVE Turn(e)'
    <3>1. Still(e) BY <1>1, <2>3 DEF Before, Still
    <3> QED BY <3>1, StillKeeps DEF TurnInv
  <2> QED BY <2>1, <2>2, <2>3 DEF TurnInv
<1>2. CASE pc[c] # "ended" /\ (gone[c] \/ EndedWell(out[c])) /\ Fail(c) BY <1>2, TurnFail
<1>3. CASE pc[c] # "ended" /\ End(c, <<>>, routed[c])
  <2>1. <<>> \in Seq(Piece) OBVIOUS
  <2> QED BY <1>3, <2>1, TurnEndPieces
<1> QED BY <1>1, <1>2, <1>3 DEF BeforeRelay

\* The relay: pieces of whatever request go to the batch or to the client.
LEMMA TurnRelayPiece ==
  ASSUME OwnerInv, TurnInv, NEW c \in Conn, RelayPiece(c) \/ CopyPiece(c)
  PROVE  TurnInv'
<1> DEFINE d == dest[c]
           x == Head(wire[d])
           b == batch[c] \o <<x>>
<1>1. /\ pc[c] = "relay" /\ wire[d] # <<>> /\ wire' = [wire EXCEPT ![d] = Tail(wire[d])]
      /\ UNCHANGED <<pc, first_cycle, pre, post, postDone, dest, reqNo, broken, gone, tcp, asked, flow>>
  BY DEF RelayPiece, CopyPiece
<1>2. d \in Dest /\ wire[d] \in Seq(Piece) /\ batch[c] \in Seq(Piece)
  BY <1>1, OthersRelayElsewhere DEF TurnInv, AnswerType
<1>3. out[c] \in Seq(Item) /\ NoError(out[c]) BY <1>1, NoErrorBefore
<1>4. x \in Piece /\ Tail(wire[d]) \in Seq(Piece) BY <1>1, <1>2
<1>5. Standing(c)' BY <1>1 DEF Standing
<1>6. wire' \in [Dest -> Seq(Piece)] BY <1>1, <1>4 DEF TurnInv, AnswerType
<1>7. CASE RelayPiece(c)
  <2>1. /\ ResponseParser /\ x.kind \in {"head", "surplus"}
        /\ \/ batch' = [batch EXCEPT ![c] = b] /\ UNCHANGED out
           \/ out' = [out EXCEPT ![c] = out[c] \o [batch EXCEPT ![c] = b][c]] /\ batch' = [batch EXCEPT ![c] = <<>>]
    BY <1>7 DEF RelayPiece, PushBytes, Take
  <2>2. Ends(out[c]) + 1 = reqNo[c] /\ NoEnd(batch[c]) BY <1>1, <2>1 DEF TurnInv, Turn
  <2>3. b \in Seq(Piece) /\ NoEnd(b)
    <3>1. b \in Seq(Piece) /\ Len(b) = Len(batch[c]) + 1 /\ Len(batch[c]) \in Nat BY <1>2, <1>4
    <3>2. \A i \in 1..Len(batch[c]) : b[i] = batch[c][i] BY <1>2, <1>4
    <3>3. b[Len(batch[c]) + 1] = x BY <1>2, <1>4
    <3>4. \A i \in 1..Len(b) : i \in 1..Len(batch[c]) \/ i = Len(batch[c]) + 1 BY <3>1
    <3> HIDE DEF b, x
    <3>5. \A i \in 1..Len(b) : b[i].kind # "end" BY <2>1, <2>2, <3>2, <3>3, <3>4 DEF NoEnd
    <3> QED BY <3>1, <3>5 DEF NoEnd
  <2>4. out[c] \o b \in Seq(Item) /\ NoError(out[c] \o b) /\ Ends(out[c] \o b) = Ends(out[c])
    BY <1>3, <2>3, AddAnyPieces
  <2> HIDE DEF b, x
  <2>5. \/ batch' = [batch EXCEPT ![c] = b] /\ out' = out
        \/ batch' = [batch EXCEPT ![c] = <<>>] /\ out' = [out EXCEPT ![c] = out[c] \o b]
    BY <2>1 DEF TurnInv, AnswerType
  <2>6. AnswerType'
    <3>1. <<>> \in Seq(Piece) OBVIOUS
    <3>2. batch' \in [Conn -> Seq(Piece)] BY <2>3, <2>5, <3>1 DEF TurnInv, AnswerType
    <3>3. out' \in [Conn -> Seq(Item)] BY <2>4, <2>5 DEF TurnInv, AnswerType
    <3> QED BY <1>1, <1>6, <3>2, <3>3 DEF TurnInv, AnswerType
  <2>7. /\ out'[c] \in {out[c], out[c] \o b} /\ batch'[c] \in {b, <<>>}
        /\ \A e \in Conn \ {c} : out'[e] = out[e] /\ batch'[e] = batch[e]
    BY <2>5 DEF TurnInv, AnswerType
  <2>8. NoEnd(batch'[c]) BY <2>3, <2>7 DEF NoEnd
  <2>9. NoError(out'[c]) /\ Ends(out'[c]) + 1 = reqNo'[c] BY <1>1, <1>3, <2>2, <2>4, <2>7
  <2>10. Turn(c)' BY <1>1, <1>5, <2>8, <2>9, TurnNow
  <2>11. ASSUME NEW e \in Conn, e # c PROVE Turn(e)'
    <3>1. Still(e) BY <1>1, <2>7, <2>11 DEF Still
    <3> QED BY <3>1, StillKeeps DEF TurnInv
  <2> QED BY <2>6, <2>10, <2>11 DEF TurnInv
<1>8. CASE CopyPiece(c)
  <2>1. /\ ~ResponseParser /\ out' = [out EXCEPT ![c] = Append(out[c], x)] /\ batch' = batch
    BY <1>8 DEF CopyPiece
  <2> HIDE DEF x
  <2>2. <<x>> \in Seq(Piece) BY <1>4
  <2>3. Append(out[c], x) = out[c] \o <<x>> BY <1>3, <1>4, PiecesAreItems, AppendIsConcat DEF Item
  <2>4. Append(out[c], x) \in Seq(Item) /\ NoError(Append(out[c], x)) BY <1>3, <2>2, <2>3, AddAnyPieces
  <2>5. AnswerType' BY <1>1, <1>6, <2>1, <2>4 DEF TurnInv, AnswerType
  <2>6. out'[c] = Append(out[c], x) /\ \A e \in Conn \ {c} : out'[e] = out[e]
    BY <2>1 DEF TurnInv, AnswerType
  <2>7. ~ResponseParser' BY <1>1, <2>1 DEF ResponseParser
  <2>8. Turn(c)' BY <1>1, <1>5, <2>4, <2>6, <2>7, TurnNow
  <2>9. ASSUME NEW e \in Conn, e # c PROVE Turn(e)'
    <3>1. Still(e) BY <1>1, <2>1, <2>6, <2>9 DEF Still
    <3> QED BY <3>1, StillKeeps DEF TurnInv
  <2> QED BY <2>5, <2>8, <2>9 DEF TurnInv
<1> QED BY <1>7, <1>8

\* The end of a cycle.
LEMMA TurnFinish ==
  ASSUME OwnerInv, LimitInv, TurnInv, NEW c \in Conn, NEW last \in Seq(Piece), NEW close,
         pc[c] = "relay", ResponseParser, FinishCycle(c, last, close),
         last = <<>> \/ last[Len(last)].kind = "end"
  PROVE  TurnInv'
<1> DEFINE d == dest[c]
           b == batch[c] \o last
<1>1. d \in Dest /\ wire[d] \in Seq(Piece) /\ batch[c] \in Seq(Piece) /\ reqNo[c] \in Nat
  BY OthersRelayElsewhere DEF TurnInv, AnswerType
<1>2. out[c] \in Seq(Item) /\ NoError(out[c]) BY NoErrorBefore
<1>3. Ends(out[c]) + 1 = reqNo[c] /\ NoEnd(batch[c]) /\ Ends(out[c]) \in Nat
  BY <1>2, EndsType DEF TurnInv, Turn
<1>4. b \in Seq(Piece) BY <1>1
<1>5. /\ out[c] \o b \in Seq(Item) /\ NoError(out[c] \o b)
      /\ Ends(out[c] \o b) = reqNo[c] => EndedWell(out[c] \o b)
  <2>1. CASE last = <<>>
    <3>1. b = batch[c] BY <1>1, <2>1
    <3>2. NoEnd(b) BY <1>3, <3>1
    <3> HIDE DEF b
    <3>3. /\ out[c] \o b \in Seq(Item) /\ NoError(out[c] \o b) /\ Ends(out[c] \o b) = Ends(out[c])
      BY <1>2, <1>4, <3>2, AddAnyPieces
    <3> QED BY <1>1, <1>3, <3>3
  <2>2. CASE last # <<>>
    <3>1. Len(last) \in 1..Len(last) BY <2>2
    <3>2. Len(b) = Len(batch[c]) + Len(last) /\ b[Len(b)] = last[Len(last)] BY <1>1, <3>1
    <3>3. b # <<>> /\ b[Len(b)].kind = "end" BY <1>1, <1>4, <2>2, <3>1, <3>2
    <3> HIDE DEF b
    <3> QED BY <1>2, <1>4, <3>3, AddAnyPieces
  <2> QED BY <2>1, <2>2
<1>6. [batch EXCEPT ![c] = @ \o last][c] = b BY DEF TurnInv, AnswerType
<1>7. CASE should_close[c] \/ close
  <2>1. End(c, b, TRUE) BY <1>6, <1>7 DEF FinishCycle, PushBytes
  <2> HIDE DEF b
  <2> QED BY <1>4, <2>1, TurnEndPieces
<1>8. CASE ~(should_close[c] \/ close)
  <2>1. /\ out' = [out EXCEPT ![c] = out[c] \o b]
        /\ pc' = [pc EXCEPT ![c] = "pre"]
        /\ first_cycle' = [first_cycle EXCEPT ![c] = FALSE]
        /\ pre' = [pre EXCEPT ![c] = 0] /\ post' = [post EXCEPT ![c] = 0]
        /\ postDone' = [postDone EXCEPT ![c] = FALSE]
        /\ batch' = [batch EXCEPT ![c] = <<>>]
        /\ UNCHANGED <<reqNo, broken, gone, flow>>
    BY <1>6, <1>8 DEF FinishCycle, PushBytes, Take, DropDest
  <2>2. /\ asked' \in {asked, [e \in Dest |-> IF e = d THEN <<>> ELSE asked[e]]}
        /\ \/ wire' = [e \in Dest |-> IF e = d THEN <<>> ELSE wire[e]]
           \/ \E n \in Len(last)..Len(wire[d]) : wire' = [wire EXCEPT ![d] = SubSeq(wire[d], n + 1, Len(wire[d]))]
    BY <1>8 DEF FinishCycle, DropDest
  <2>3. \A n \in Len(last)..Len(wire[d]) : SubSeq(wire[d], n + 1, Len(wire[d])) \in Seq(Piece)
    BY <1>1
  <2>4. wire' \in [Dest -> Seq(Piece)] /\ asked' \in [Dest -> Seq(Conn \X Nat)]
    <3>1. wire \in [Dest -> Seq(Piece)] /\ asked \in [Dest -> Seq(Conn \X Nat)]
      BY DEF TurnInv, AnswerType
    <3>2. <<>> \in Seq(Piece) OBVIOUS
    <3>3. <<>> \in Seq(Conn \X Nat) OBVIOUS
    <3>4. asked' \in [Dest -> Seq(Conn \X Nat)] BY <2>2, <3>1, <3>3
    <3>5. CASE wire' = [e \in Dest |-> IF e = d THEN <<>> ELSE wire[e]] BY <3>1, <3>2, <3>4, <3>5
    <3>6. ASSUME NEW n \in Len(last)..Len(wire[d]),
                 wire' = [wire EXCEPT ![d] = SubSeq(wire[d], n + 1, Len(wire[d]))]
          PROVE  wire' \in [Dest -> Seq(Piece)]
      <4> DEFINE w == SubSeq(wire[d], n + 1, Len(wire[d]))
      <4>1. w \in Seq(Piece) BY <2>3
      <4>2. wire' = [wire EXCEPT ![d] = w] BY <3>6
      <4> HIDE DEF w
      <4> QED BY <3>1, <4>1, <4>2
    <3> QED BY <2>2, <3>4, <3>5, <3>6
  <2> HIDE DEF b
  <2>5. AnswerType' BY <1>5, <2>1, <2>4 DEF TurnInv, AnswerType
  <2>6. /\ pc'[c] = "pre" /\ first_cycle'[c] = FALSE /\ batch'[c] = <<>> /\ out'[c] = out[c] \o b
        /\ reqNo'[c] = reqNo[c]
    BY <2>1 DEF OwnerInv, OwnerType, TurnInv, AnswerType
  <2>7. pre'[c] = 0 BY <2>1 DEF LimitInv
  <2>8. Standing(c)' BY <1>5, <2>6, <2>7 DEF Standing, Satisfied
  <2>9. Turn(c)' BY <1>5, <2>6, <2>8, TurnNow
  <2>10. ASSUME NEW e \in Conn, e # c PROVE Turn(e)'
    <3>1. Still(e)
      BY <2>1, <2>10 DEF Still, OwnerInv, OwnerType, LimitInv, TurnInv, AnswerType
    <3> QED BY <3>1, StillKeeps DEF TurnInv
  <2> QED BY <2>5, <2>9, <2>10 DEF TurnInv
<1> QED BY <1>7, <1>8

\* The ends of the relay.
LEMMA TurnRelayEnds ==
  ASSUME OwnerInv, LimitInv, TurnInv, NEW c \in Conn,
         RelayLast(c) \/ RelayEof(c) \/ RelayError(c) \/ RelayClientGone(c) \/ CopyEnd(c)
  PROVE  TurnInv'
<1> DEFINE d == dest[c]
<1>1. pc[c] = "relay" BY DEF RelayLast, RelayEof, RelayError, RelayClientGone, CopyEnd
<1>2. d \in Dest /\ wire[d] \in Seq(Piece) /\ batch[c] \in Seq(Piece)
  BY <1>1, OthersRelayElsewhere DEF TurnInv, AnswerType
<1>3. <<>> \in Seq(Piece) OBVIOUS
<1>4. CASE RelayLast(c)
  <2> DEFINE x == Head(wire[d])
  <2>1. ResponseParser /\ wire[d] # <<>> /\ x.kind = "end" /\ FinishCycle(c, <<x>>, x.close)
    BY <1>4 DEF RelayLast
  <2>2. x \in Piece BY <1>2, <2>1
  <2> HIDE DEF x
  <2>3. <<x>> \in Seq(Piece) /\ Len(<<x>>) = 1 /\ <<x>>[1] = x BY <2>2
  <2>4. <<x>>[Len(<<x>>)].kind = "end" BY <2>1, <2>3
  <2> QED BY <1>1, <2>1, <2>3, <2>4, TurnFinish
<1>5. CASE RelayEof(c)
  <2>1. ResponseParser /\ \E close : FinishCycle(c, <<>>, close) BY <1>5 DEF RelayEof
  <2> QED BY <1>1, <1>3, <2>1, TurnFinish
<1>6. CASE RelayError(c)
  <2>1. \E total : End(c, batch[c], total) BY <1>6 DEF RelayError
  <2> QED BY <1>1, <1>2, <2>1, TurnEndPieces
<1>7. CASE RelayClientGone(c) \/ CopyEnd(c)
  <2>1. \E total : End(c, <<>>, total) BY <1>7 DEF RelayClientGone, CopyEnd
  <2> QED BY <1>1, <1>3, <2>1, TurnEndPieces
<1> QED BY <1>4, <1>5, <1>6, <1>7

\* A request goes to the server.
LEMMA TurnWrite ==
  ASSUME OwnerInv, TurnInv, NEW c \in Conn, Write(c)
  PROVE  TurnInv'
<1> DEFINE d == dest[c]
           r == <<c, reqNo[c]>>
<1>1. pc[c] = "write" BY DEF Write
<1>2. CASE tcp[d] = "rst"
  <2>1. \E total : End(c, <<>>, total) BY <1>2 DEF Write
  <2>2. <<>> \in Seq(Piece) OBVIOUS
  <2> QED BY <1>1, <2>1, <2>2, TurnEndPieces
<1>3. CASE tcp[d] # "rst"
  <2>1. /\ pc' = [pc EXCEPT ![c] = "relay"]
        /\ UNCHANGED <<first_cycle, pre, post, postDone, dest, batch, reqNo, broken, gone, out, wire, flow>>
        /\ asked' = asked \/ asked' = [asked EXCEPT ![d] = Append(asked[d], r)]
    BY <1>3 DEF Write
  <2>2. r \in Conn \X Nat /\ d \in Dest
    BY <1>1 DEF TurnInv, AnswerType, OwnerInv, OwnerType, HeldMatchesPc, HeldAlone, Held
  <2>3. asked' \in [Dest -> Seq(Conn \X Nat)]
    <3>1. asked[d] \in Seq(Conn \X Nat) BY <2>2 DEF TurnInv, AnswerType
    <3> HIDE DEF r
    <3>2. Append(asked[d], r) \in Seq(Conn \X Nat) BY <2>2, <3>1
    <3> QED BY <2>1, <3>2 DEF TurnInv, AnswerType
  <2>4. AnswerType' BY <2>1, <2>3 DEF TurnInv, AnswerType
  <2>5. pc'[c] = "relay" /\ \A e \in Conn \ {c} : pc'[e] = pc[e] BY <2>1 DEF OwnerInv, OwnerType
  <2>6. batch[c] = <<>> /\ Ends(out[c]) + 1 = reqNo[c] BY <1>1 DEF TurnInv, Turn, Standing
  <2>7. NoError(out[c]) BY <1>1, NoErrorBefore
  <2>8. Standing(c)' BY <2>5 DEF Standing
  <2>9. NoEnd(batch'[c]) BY <2>1, <2>6 DEF NoEnd
  <2>10. Turn(c)' BY <2>1, <2>5, <2>6, <2>7, <2>8, <2>9, TurnNow
  <2>11. ASSUME NEW e \in Conn, e # c PROVE Turn(e)'
    <3>1. Still(e) BY <2>1, <2>5, <2>11 DEF Still
    <3> QED BY <3>1, StillKeeps DEF TurnInv
  <2> QED BY <2>4, <2>10, <2>11 DEF TurnInv
<1> QED BY <1>2, <1>3

\* What servers send are pieces, whatever they send.
LEMMA AnswersArePieces ==
  ASSUME NEW r \in Conn \X Nat, NEW how \in DOMAIN Answers(<<>>)
  PROVE  Answers(r)[how] \in Seq(Piece)
<1> DEFINE piece(kind, close) == [kind |-> kind, req |-> r, close |-> close]
           h == piece("head", FALSE)
<1>1. how \in {"keep", "response_close", "truncated", "surplus", "bad_response"} BY DEF Answers
<1>2. /\ Answers(r)["keep"] = <<h, piece("end", FALSE)>>
      /\ Answers(r)["response_close"] = <<h, piece("end", TRUE)>>
      /\ Answers(r)["truncated"] = <<h>>
      /\ Answers(r)["surplus"] = <<h, piece("end", FALSE), piece("surplus", FALSE)>>
      /\ Answers(r)["bad_response"] = <<h, piece("bad", FALSE)>>
  BY DEF Answers
<1>3. \A k \in {"head", "end", "bad", "surplus"}, b \in BOOLEAN : piece(k, b) \in Piece BY DEF Piece
<1>4. /\ h \in Piece /\ piece("end", FALSE) \in Piece /\ piece("end", TRUE) \in Piece
      /\ piece("bad", FALSE) \in Piece /\ piece("surplus", FALSE) \in Piece
  BY <1>3
<1> HIDE DEF piece, h
<1>5. \A x, y, z \in Piece : <<x>> \in Seq(Piece) /\ <<x, y>> \in Seq(Piece) /\ <<x, y, z>> \in Seq(Piece)
  OBVIOUS
<1> QED BY <1>1, <1>2, <1>4, <1>5

\* Servers, the pool and closing clients.
LEMMA TurnOutside ==
  ASSUME TurnInv,
         \/ \E d \in Dest : ServerClose(d) \/ PoolClose(d) \/ \E how \in DOMAIN Answers(<<>>) : Answer(d, how)
         \/ \E c \in Conn : ClientClose(c)
         \/ UNCHANGED vars
  PROVE  TurnInv'
<1>1. /\ UNCHANGED <<pc, first_cycle, pre, post, postDone, batch, broken, reqNo, out, flow>>
      /\ gone' = gone \/ \E c \in Conn : gone' = [gone EXCEPT ![c] = TRUE]
  BY DEF ServerClose, PoolClose, Answer, ClientClose, vars
<1>2. gone' \in [Conn -> BOOLEAN] /\ \A e \in Conn : gone[e] => gone'[e]
  BY <1>1 DEF TurnInv, AnswerType
<1>3. wire' \in [Dest -> Seq(Piece)] /\ asked' \in [Dest -> Seq(Conn \X Nat)]
  <2>1. CASE UNCHANGED <<wire, asked>> BY <2>1 DEF TurnInv, AnswerType
  <2>2. ASSUME NEW d \in Dest, ServerClose(d) \/ PoolClose(d)
        PROVE  wire' \in [Dest -> Seq(Piece)] /\ asked' \in [Dest -> Seq(Conn \X Nat)]
    <3>1. wire \in [Dest -> Seq(Piece)] /\ asked \in [Dest -> Seq(Conn \X Nat)]
      BY DEF TurnInv, AnswerType
    <3>2. <<>> \in Seq(Piece) OBVIOUS
    <3>3. <<>> \in Seq(Conn \X Nat) OBVIOUS
    <3>4. /\ asked' = [asked EXCEPT ![d] = <<>>]
          /\ wire' = wire \/ wire' = [wire EXCEPT ![d] = <<>>]
      BY <2>2 DEF ServerClose, PoolClose
    <3>5. asked' \in [Dest -> Seq(Conn \X Nat)] BY <3>1, <3>3, <3>4
    <3>6. wire' \in [Dest -> Seq(Piece)] BY <3>1, <3>2, <3>4
    <3> QED BY <3>5, <3>6
  <2>3. ASSUME NEW d \in Dest, NEW how \in DOMAIN Answers(<<>>), Answer(d, how)
        PROVE  wire' \in [Dest -> Seq(Piece)] /\ asked' \in [Dest -> Seq(Conn \X Nat)]
    <3> DEFINE r == Head(asked[d])
               w == Answers(r)[how]
    <3>1. /\ asked[d] # <<>> /\ wire' = [wire EXCEPT ![d] = wire[d] \o w]
          /\ asked' = [asked EXCEPT ![d] = Tail(asked[d])]
      BY <2>3 DEF Answer
    <3>2. asked[d] \in Seq(Conn \X Nat) /\ wire[d] \in Seq(Piece) BY DEF TurnInv, AnswerType
    <3>3. r \in Conn \X Nat /\ Tail(asked[d]) \in Seq(Conn \X Nat) BY <3>1, <3>2
    <3> HIDE DEF r
    <3>4. w \in Seq(Piece) BY <3>3, AnswersArePieces
    <3> HIDE DEF w
    <3>5. wire[d] \o w \in Seq(Piece) BY <3>2, <3>4
    <3> QED BY <3>1, <3>3, <3>5 DEF TurnInv, AnswerType
  <2> QED BY <2>1, <2>2, <2>3 DEF ClientClose, vars
<1>4. AnswerType' BY <1>1, <1>2, <1>3 DEF TurnInv, AnswerType
<1>5. ASSUME NEW e \in Conn PROVE Turn(e)'
  <2>1. Still(e) BY <1>1, <1>2 DEF Still
  <2> QED BY <2>1, StillKeeps DEF TurnInv
<1> QED BY <1>4, <1>5 DEF TurnInv

\* Every step.
LEMMA TurnStep == OwnerInv /\ LimitInv /\ TurnInv /\ [Next]_vars => TurnInv'
<1> SUFFICES ASSUME OwnerInv, LimitInv, TurnInv, [Next]_vars PROVE TurnInv'
  OBVIOUS
<1>1. CASE \/ \E d \in Dest : ServerClose(d) \/ PoolClose(d) \/ \E how \in DOMAIN Answers(<<>>) : Answer(d, how)
           \/ \E c \in Conn : ClientClose(c)
           \/ UNCHANGED vars
  BY <1>1, TurnOutside
<1>2. ASSUME NEW c \in Conn,
             \/ PreFrame(c) \/ PreError(c) \/ PreEnd(c)
             \/ \E k \in Key : RoutingFrame(c, k)
             \/ \E d \in Dest : RouteOk(c, d)
             \/ RouteFail(c) \/ PostFrame(c) \/ PostEnd(c) \/ PostEof(c) \/ PostError(c) \/ Joined(c)
      PROVE  TurnInv'
  BY <1>2, PreKinds, JoinKinds, TurnEarly
<1>3. ASSUME NEW c \in Conn,
             \/ Write(c) \/ RelayPiece(c) \/ RelayLast(c) \/ RelayEof(c) \/ RelayError(c)
             \/ RelayClientGone(c) \/ CopyPiece(c) \/ CopyEnd(c)
      PROVE  TurnInv'
  BY <1>3, TurnWrite, TurnRelayPiece, TurnRelayEnds
<1> QED BY <1>1, <1>2, <1>3 DEF Next

\* Whatever clients and servers do, the error response is the last thing a client
\* gets, and it never comes in the middle of a response.
THEOREM ErrorsComeLast == Spec => []ErrorLast
<1>1. Init => LimitInv
  BY PipelineAssumption DEF PipelineAssumption, Init, LimitInv, WithinLimits
<1>2. ASSUME Init PROVE TurnInv
  <2>1. AnswerType BY <1>2 DEF Init, AnswerType
  <2>2. ASSUME NEW c \in Conn PROVE Turn(c)
    <3>1. pc[c] = "pre" /\ out[c] = <<>> /\ batch[c] = <<>> /\ broken[c] = FALSE BY <1>2 DEF Init
    <3>2. Standing(c) BY <3>1 DEF Standing, EndedWell
    <3>3. ErrorAtEnd(c) BY <3>1 DEF ErrorAtEnd
    <3> QED BY <3>1, <3>2, <3>3 DEF Turn
  <2> QED BY <2>1, <2>2 DEF TurnInv
<1>3. ASSUME TurnInv PROVE ErrorLast
  <2> SUFFICES ASSUME NEW c \in Conn, NEW i \in 1..Len(out[c]), out[c][i].kind = "error", ~gone[c]
               PROVE  i = Len(out[c]) /\ pc[c] = "ended" /\ (i > 1 => out[c][i - 1].kind = "end")
    BY DEF ErrorLast
  <2> QED BY <1>3 DEF TurnInv, Turn, ErrorAtEnd
<1> QED BY <1>1, <1>2, <1>3, TurnStep, OwnerAlways, LimitStep, PTL DEF Spec

-----------------------------------------------------------------------------
(* The steps that carry answers *)

\* A step that does not concern connection e.
Untouched(e) ==
  /\ flow' = flow /\ pc'[e] = pc[e] /\ dest'[e] = dest[e] /\ first_cycle'[e] = first_cycle[e]
  /\ pre'[e] = pre[e] /\ post'[e] = post[e] /\ postDone'[e] = postDone[e] /\ broken'[e] = broken[e]
  /\ reqNo'[e] = reqNo[e] /\ gone'[e] = gone[e] /\ out'[e] = out[e] /\ batch'[e] = batch[e]
  /\ pc[e] = "relay" => /\ tcp'[dest[e]] = tcp[dest[e]] /\ asked'[dest[e]] = asked[dest[e]]
                        /\ wire'[dest[e]] = wire[dest[e]]

\* Such a step leaves what the client got, and waits for, as it was.
LEMMA UntouchedKeeps ==
  ASSUME NEW e \in Conn, Answering(e), Untouched(e)
  PROVE  Answering(e)'
<1>1. (pc[e] = "relay" => Exchange(e))'
  BY DEF Answering, Untouched, Exchange, ResponseParser, Belongs, NoEnd
<1>2. Standing(e)'
  BY DEF Answering, Untouched, Standing, Satisfied, EndedWell
<1>3. RightAnswers(e, out[e])' /\ ErrorAtEnd(e)'
  BY DEF Answering, Untouched, RightAnswers, ErrorAtEnd
<1> QED BY <1>1, <1>2, <1>3 DEF Answering

\* Before its end, no client has got an error response.
LEMMA NoErrorYet ==
  ASSUME NEW c \in Conn, Answering(c), pc[c] # "ended"
  PROVE  NoError(out[c])
BY DEF Answering, ErrorAtEnd, NoError

\* The end of a connection, where what is still written is right.
LEMMA AnswerEnd ==
  ASSUME OwnerInv, AnswerInv, NEW c \in Conn, NEW toClient, NEW total, End(c, toClient, total),
         out[c] \o toClient \in Seq(Item), RightAnswers(c, out[c] \o toClient),
         \A i \in 1..Len(out[c] \o toClient) : (out[c] \o toClient)[i].kind = "error" =>
            /\ i = Len(out[c] \o toClient)
            /\ gone[c] \/ i = 1 \/ (out[c] \o toClient)[i - 1].kind = "end"
  PROVE  AnswerInv'
<1>1. /\ pc' = [pc EXCEPT ![c] = "ended"]
      /\ out' = [out EXCEPT ![c] = out[c] \o toClient]
      /\ dest' = [dest EXCEPT ![c] = NoDest]
      /\ tcp' = [d \in Dest |-> IF d = dest[c] THEN "none" ELSE tcp[d]]
      /\ asked' = [d \in Dest |-> IF d = dest[c] THEN <<>> ELSE asked[d]]
      /\ wire' = [d \in Dest |-> IF d = dest[c] THEN <<>> ELSE wire[d]]
      /\ UNCHANGED <<first_cycle, pre, post, postDone, batch, reqNo, broken, gone, flow>>
  BY DEF End, DropDest
<1> HIDE DEF End
<1>2. AnswerType' BY <1>1 DEF AnswerInv, AnswerType
<1>3. QuietElsewhere'
  BY <1>1, OthersRelayElsewhere DEF OwnerInv, OwnerType, AnswerInv, QuietElsewhere
<1>4. pc'[c] = "ended" /\ out'[c] = out[c] \o toClient /\ gone'[c] = gone[c]
  BY <1>1 DEF OwnerInv, OwnerType, AnswerInv, AnswerType
<1>5. Answering(c)'
  <2>1. Standing(c)' BY <1>4 DEF Standing
  <2>2. RightAnswers(c, out[c])' BY <1>4 DEF RightAnswers
  <2>3. ErrorAtEnd(c)' BY <1>4 DEF ErrorAtEnd
  <2> QED BY <1>4, <2>1, <2>2, <2>3 DEF Answering
<1>6. ASSUME NEW e \in Conn, e # c PROVE Answering(e)'
  <2>1. Untouched(e)
    BY <1>1, <1>6, OthersRelayElsewhere DEF Untouched, OwnerInv, OwnerType, AnswerInv, AnswerType
  <2> QED BY <2>1, UntouchedKeeps DEF AnswerInv
<1> QED BY <1>2, <1>3, <1>5, <1>6 DEF AnswerInv

\* The end without another word to the client.
LEMMA AnswerEndSilent ==
  ASSUME OwnerInv, AnswerInv, NEW c \in Conn, NEW total, pc[c] # "ended", End(c, <<>>, total)
  PROVE  AnswerInv'
<1>1. out[c] \in Seq(Item) BY DEF AnswerInv, AnswerType
<1>2. out[c] \o <<>> = out[c] BY <1>1
<1>3. RightAnswers(c, out[c]) /\ NoError(out[c]) BY NoErrorYet DEF AnswerInv, Answering
<1> QED BY <1>1, <1>2, <1>3, AnswerEnd DEF NoError

\* The end with an error response, where the client is between two answers or gone.
LEMMA AnswerFail ==
  ASSUME OwnerInv, AnswerInv, NEW c \in Conn, pc[c] # "ended", gone[c] \/ EndedWell(out[c]), Fail(c)
  PROVE  AnswerInv'
<1>1. CASE ~flow.responder
  BY <1>1, AnswerEndSilent DEF Fail
<1>2. CASE flow.responder
  <2>1. out[c] \in Seq(Item) /\ RightAnswers(c, out[c]) /\ NoError(out[c])
    BY NoErrorYet DEF AnswerInv, AnswerType, Answering
  <2>2. /\ out[c] \o <<ErrorResponse>> \in Seq(Item) /\ RightAnswers(c, out[c] \o <<ErrorResponse>>)
        /\ Len(out[c] \o <<ErrorResponse>>) = Len(out[c]) + 1
        /\ \A i \in 1..Len(out[c]) : (out[c] \o <<ErrorResponse>>)[i] = out[c][i]
        /\ \A i \in 1..Len(out[c] \o <<ErrorResponse>>) :
              (out[c] \o <<ErrorResponse>>)[i].kind = "error" => i = Len(out[c] \o <<ErrorResponse>>)
    BY <2>1, AddError
  <2>3. gone[c] \/ Len(out[c]) + 1 = 1 \/ (out[c] \o <<ErrorResponse>>)[Len(out[c]) + 1 - 1].kind = "end"
    <3>1. Len(out[c]) \in Nat /\ (out[c] = <<>> => Len(out[c]) = 0) BY <2>1
    <3>2. Len(out[c]) # 0 => Len(out[c]) \in 1..Len(out[c]) BY <3>1
    <3> QED BY <2>2, <3>1, <3>2 DEF EndedWell
  <2>4. End(c, <<ErrorResponse>>, routed[c]) BY <1>2 DEF Fail
  <2>5. \A i \in 1..Len(out[c] \o <<ErrorResponse>>) :
           (out[c] \o <<ErrorResponse>>)[i].kind = "error" =>
              /\ i = Len(out[c] \o <<ErrorResponse>>)
              /\ gone[c] \/ i = 1 \/ (out[c] \o <<ErrorResponse>>)[i - 1].kind = "end"
    <3> SUFFICES ASSUME NEW i \in 1..Len(out[c] \o <<ErrorResponse>>), (out[c] \o <<ErrorResponse>>)[i].kind = "error"
                 PROVE  /\ i = Len(out[c] \o <<ErrorResponse>>)
                        /\ gone[c] \/ i = 1 \/ (out[c] \o <<ErrorResponse>>)[i - 1].kind = "end"
      OBVIOUS
    <3>1. i = Len(out[c] \o <<ErrorResponse>>) BY <2>2
    <3>2. i = Len(out[c]) + 1 BY <2>2, <3>1
    <3> QED BY <2>3, <3>1, <3>2
  <2> QED BY <2>2, <2>4, <2>5, AnswerEnd
<1> QED BY <1>1, <1>2

\* The next piece of the answer on the wire.
LEMMA NextPiece ==
  ASSUME NEW w \in Seq(Piece), NEW r, w # <<>>, Belongs(w, r)
  PROVE  /\ Head(w) \in Piece /\ Tail(w) \in Seq(Piece) /\ Belongs(Tail(w), r)
         /\ Head(w).req = r /\ Head(w).kind # "surplus"
         /\ Head(w).kind = "end" => Len(w) = 1 /\ Tail(w) = <<>>
<1>1. Len(w) \in Nat /\ Len(w) >= 1 /\ Head(w) = w[1] /\ Len(Tail(w)) = Len(w) - 1 OBVIOUS
<1>2. \A i \in 1..Len(Tail(w)) : Tail(w)[i] = w[i + 1] /\ i + 1 \in 1..Len(w) BY <1>1
<1>3. 1 \in 1..Len(w) BY <1>1
<1>4. Head(w).req = r /\ Head(w).kind # "surplus" /\ (Head(w).kind = "end" => Len(w) = 1)
  BY <1>1, <1>3 DEF Belongs
<1>5. Belongs(Tail(w), r)
  <2> SUFFICES ASSUME NEW i \in 1..Len(Tail(w))
               PROVE  /\ Tail(w)[i].req = r /\ Tail(w)[i].kind # "surplus"
                      /\ Tail(w)[i].kind = "end" => i = Len(Tail(w))
    BY DEF Belongs
  <2>1. Tail(w)[i] = w[i + 1] /\ i + 1 \in 1..Len(w) BY <1>2
  <2>2. w[i + 1].req = r /\ w[i + 1].kind # "surplus" /\ (w[i + 1].kind = "end" => i + 1 = Len(w))
    BY <2>1 DEF Belongs
  <2>3. i + 1 = Len(w) => i = Len(Tail(w))
    <3>1. i \in Int OBVIOUS
    <3>2. Len(w) \in Nat BY <1>1
    <3>3. \A k \in Int, n \in Nat : k + 1 = n => k = n - 1 OBVIOUS
    <3> QED BY <1>1, <3>1, <3>2, <3>3, Zenon
  <2>4. /\ Tail(w)[i].req = r /\ Tail(w)[i].kind # "surplus"
        /\ Tail(w)[i].kind = "end" => i + 1 = Len(w)
    BY <2>1, <2>2, Zenon
  <2> QED BY <2>3, <2>4, Zenon
<1> QED BY <1>1, <1>3, <1>4, <1>5

\* A piece goes into the batch.
LEMMA PieceBatched ==
  ASSUME NEW b \in Seq(Piece), NEW r, NEW x \in Piece, Belongs(b, r), NoEnd(b),
         x.req = r, x.kind # "surplus"
  PROVE  /\ b \o <<x>> \in Seq(Piece) /\ Belongs(b \o <<x>>, r) /\ b \o <<x>> # <<>>
         /\ NoEnd(b \o <<x>>) <=> x.kind # "end"
<1>1. b \o <<x>> \in Seq(Piece) /\ Len(b \o <<x>>) = Len(b) + 1 /\ Len(b) \in Nat OBVIOUS
<1>2. \A i \in 1..Len(b) : (b \o <<x>>)[i] = b[i] OBVIOUS
<1>3. (b \o <<x>>)[Len(b) + 1] = x OBVIOUS
<1>4. \A i \in 1..Len(b \o <<x>>) : i \in 1..Len(b) \/ i = Len(b) + 1 BY <1>1
<1>5. Belongs(b \o <<x>>, r) BY <1>1, <1>2, <1>3, <1>4 DEF Belongs, NoEnd
<1>6. Len(b) + 1 \in 1..Len(b \o <<x>>) BY <1>1
<1>7. NoEnd(b \o <<x>>) <=> x.kind # "end" BY <1>2, <1>3, <1>4, <1>6 DEF NoEnd
<1> QED BY <1>1, <1>5, <1>7

\* What a step has to show about the one connection it concerns, while it runs.
LEMMA AnsweringNow ==
  ASSUME NEW c \in Conn, pc'[c] # "ended", NoError(out'[c]), RightAnswers(c, out'[c]), Standing(c)',
         pc'[c] = "relay" => Exchange(c)'
  PROVE  Answering(c)'
BY DEF Answering, ErrorAtEnd, NoError, RightAnswers

\* What is known in the relay.
Relaying(c) ==
  /\ dest[c] \in Dest /\ wire[dest[c]] \in Seq(Piece) /\ batch[c] \in Seq(Piece) /\ out[c] \in Seq(Item)
  /\ reqNo[c] \in Nat /\ NoError(out[c]) /\ RightAnswers(c, out[c]) /\ Exchange(c)

\* In the relay there is a connection, and the exchange on it is right.
LEMMA RelayFacts ==
  ASSUME OwnerInv, AnswerInv, NEW c \in Conn, pc[c] = "relay"
  PROVE  Relaying(c)
<1>1. dest[c] \in Dest BY OthersRelayElsewhere
<1>2. NoError(out[c]) BY NoErrorYet DEF AnswerInv
<1> QED BY <1>1, <1>2 DEF Relaying, AnswerInv, AnswerType, Answering

\* A relayed piece goes into the batch, or with the batch to the client.
LEMMA AnswerRelayPiece ==
  ASSUME OwnerInv, AnswerInv, NEW c \in Conn, RelayPiece(c)
  PROVE  AnswerInv'
<1> DEFINE d == dest[c]
           r == <<c, reqNo[c]>>
           x == Head(wire[d])
           b == batch[c] \o <<x>>
<1>1. /\ pc[c] = "relay" /\ ResponseParser /\ wire[d] # <<>> /\ x.kind \in {"head", "surplus"}
      /\ wire' = [wire EXCEPT ![d] = Tail(wire[d])]
      /\ \/ batch' = [batch EXCEPT ![c] = b] /\ UNCHANGED out
         \/ out' = [out EXCEPT ![c] = out[c] \o [batch EXCEPT ![c] = b][c]] /\ batch' = [batch EXCEPT ![c] = <<>>]
      /\ UNCHANGED <<pc, first_cycle, pre, post, postDone, dest, reqNo, broken, gone, tcp, asked, flow>>
  BY DEF RelayPiece, PushBytes, Take
<1>2. Relaying(c) BY <1>1, RelayFacts
<1>3. /\ d \in Dest /\ wire[d] \in Seq(Piece) /\ batch[c] \in Seq(Piece) /\ out[c] \in Seq(Item)
      /\ reqNo[c] \in Nat /\ NoError(out[c]) /\ RightAnswers(c, out[c])
      /\ asked[d] = <<>> /\ Belongs(wire[d], r) /\ Belongs(batch[c], r) /\ NoEnd(batch[c])
      /\ Ends(out[c]) + 1 = reqNo[c]
  BY <1>1, <1>2 DEF Relaying, Exchange
<1>4. x \in Piece /\ Tail(wire[d]) \in Seq(Piece) /\ Belongs(Tail(wire[d]), r) /\ x.req = r /\ x.kind # "surplus"
  BY <1>1, <1>3, NextPiece
<1>5. b \in Seq(Piece) /\ Belongs(b, r) /\ NoEnd(b)
  BY <1>1, <1>3, <1>4, PieceBatched
<1>6. /\ out[c] \o b \in Seq(Item) /\ RightAnswers(c, out[c] \o b) /\ NoError(out[c] \o b)
      /\ Ends(out[c] \o b) = Ends(out[c])
  BY <1>3, <1>5, AddPieces
<1> HIDE DEF x, b
<1>7. \/ batch'[c] = b /\ out' = out
      \/ batch'[c] = <<>> /\ out' = [out EXCEPT ![c] = out[c] \o b]
  BY <1>1 DEF AnswerInv, AnswerType
<1>8. /\ wire'[d] = Tail(wire[d]) /\ \A e \in Dest \ {d} : wire'[e] = wire[e]
      /\ out'[c] \in {out[c], out[c] \o b} /\ \A e \in Conn \ {c} : out'[e] = out[e] /\ batch'[e] = batch[e]
  BY <1>1, <1>3, <1>7 DEF AnswerInv, AnswerType
<1>9. AnswerType'
  <2>1. batch' \in [Conn -> Seq(Piece)]
    <3>1. batch' = [batch EXCEPT ![c] = b] \/ batch' = [batch EXCEPT ![c] = <<>>] BY <1>1
    <3>2. <<>> \in Seq(Piece) OBVIOUS
    <3> QED BY <1>5, <3>1, <3>2 DEF AnswerInv, AnswerType
  <2>2. out' \in [Conn -> Seq(Item)] BY <1>6, <1>7 DEF AnswerInv, AnswerType
  <2>3. wire' \in [Dest -> Seq(Piece)] BY <1>1, <1>4 DEF AnswerInv, AnswerType
  <2> QED BY <1>1, <2>1, <2>2, <2>3 DEF AnswerInv, AnswerType
<1>10. QuietElsewhere'
  BY <1>1, <1>3, <1>8 DEF AnswerInv, QuietElsewhere
<1>11. Answering(c)'
  <2>1. Exchange(c)'
    <3>1. Belongs(batch'[c], r) /\ NoEnd(batch'[c])
      BY <1>5, <1>7 DEF Belongs, NoEnd
    <3>2. Ends(out'[c]) + 1 = reqNo[c] BY <1>3, <1>6, <1>8
    <3>3. /\ dest'[c] = d /\ reqNo'[c] = reqNo[c] /\ asked'[d] = <<>> /\ tcp' = tcp
          /\ Belongs(wire'[d], r)
      BY <1>1, <1>3, <1>4, <1>8
    <3> QED BY <1>1, <3>1, <3>2, <3>3 DEF Exchange
  <2>2. Standing(c)' BY <1>1 DEF Standing
  <2> QED BY <1>1, <1>3, <1>6, <1>8, <2>1, <2>2, AnsweringNow
<1>12. ASSUME NEW e \in Conn, e # c PROVE Answering(e)'
  <2>1. Untouched(e)
    BY <1>1, <1>8, <1>12, OthersRelayElsewhere DEF Untouched
  <2> QED BY <2>1, UntouchedKeeps DEF AnswerInv
<1> QED BY <1>9, <1>10, <1>11, <1>12 DEF AnswerInv

\* A copied piece goes to the client at once.
LEMMA AnswerCopyPiece ==
  ASSUME OwnerInv, AnswerInv, NEW c \in Conn, CopyPiece(c)
  PROVE  AnswerInv'
<1> DEFINE d == dest[c]
           r == <<c, reqNo[c]>>
           x == Head(wire[d])
<1>1. /\ pc[c] = "relay" /\ ~ResponseParser /\ wire[d] # <<>>
      /\ out' = [out EXCEPT ![c] = Append(out[c], x)]
      /\ wire' = [wire EXCEPT ![d] = Tail(wire[d])]
      /\ UNCHANGED <<pc, first_cycle, pre, post, postDone, dest, batch, reqNo, broken, gone, tcp, asked, flow>>
  BY DEF CopyPiece
<1>2. Relaying(c) BY <1>1, RelayFacts
<1>3. /\ d \in Dest /\ wire[d] \in Seq(Piece) /\ out[c] \in Seq(Item)
      /\ reqNo[c] \in Nat /\ NoError(out[c]) /\ RightAnswers(c, out[c])
      /\ asked[d] = <<>> /\ Belongs(wire[d], r) /\ Belongs(batch[c], r) /\ NoEnd(batch[c])
      /\ Ends(out[c]) + 1 = reqNo[c]
  BY <1>1, <1>2 DEF Relaying, Exchange
<1>4. /\ x \in Piece /\ Tail(wire[d]) \in Seq(Piece) /\ Belongs(Tail(wire[d]), r) /\ x.req = r /\ x.kind # "surplus"
      /\ x.kind = "end" => Tail(wire[d]) = <<>>
  BY <1>1, <1>3, NextPiece
<1> HIDE DEF x
<1>5. <<x>> \in Seq(Piece) /\ Belongs(<<x>>, r) /\ (NoEnd(<<x>>) <=> x.kind # "end")
  BY <1>4 DEF Belongs, NoEnd
<1>6. Append(out[c], x) = out[c] \o <<x>>
  BY <1>3, <1>4, PiecesAreItems, AppendIsConcat DEF Item
<1>7. /\ Append(out[c], x) \in Seq(Item) /\ RightAnswers(c, Append(out[c], x)) /\ NoError(Append(out[c], x))
      /\ x.kind # "end" => Ends(Append(out[c], x)) = Ends(out[c])
  BY <1>3, <1>5, <1>6, AddPieces, ZenonT(40)
<1>8. /\ wire'[d] = Tail(wire[d]) /\ \A e \in Dest \ {d} : wire'[e] = wire[e]
      /\ out'[c] = Append(out[c], x) /\ \A e \in Conn \ {c} : out'[e] = out[e]
  BY <1>1, <1>3 DEF AnswerInv, AnswerType
<1>9. AnswerType'
  <2>1. out' \in [Conn -> Seq(Item)] BY <1>1, <1>7 DEF AnswerInv, AnswerType
  <2>2. wire' \in [Dest -> Seq(Piece)] BY <1>1, <1>4 DEF AnswerInv, AnswerType
  <2> QED BY <1>1, <2>1, <2>2 DEF AnswerInv, AnswerType
<1>10. QuietElsewhere'
  BY <1>1, <1>3, <1>8 DEF AnswerInv, QuietElsewhere
<1>11. Answering(c)'
  <2>1. Exchange(c)'
    <3>1. Ends(out'[c]) + 1 = reqNo[c] \/ (~ResponseParser /\ asked[d] = <<>> /\ wire'[d] = <<>>)
      BY <1>1, <1>3, <1>4, <1>7, <1>8
    <3> QED BY <1>1, <1>3, <1>4, <1>8, <3>1 DEF Exchange, Belongs, NoEnd, ResponseParser
  <2>2. Standing(c)' BY <1>1 DEF Standing
  <2> QED BY <1>1, <1>7, <1>8, <2>1, <2>2, AnsweringNow
<1>12. ASSUME NEW e \in Conn, e # c PROVE Answering(e)'
  <2>1. Untouched(e)
    BY <1>1, <1>8, <1>12, OthersRelayElsewhere DEF Untouched
  <2> QED BY <2>1, UntouchedKeeps DEF AnswerInv
<1> QED BY <1>9, <1>10, <1>11, <1>12 DEF AnswerInv

\* The end of a response that ended the way the stream tells: with the last
\* piece, or with the upstream connection before the response was complete.
LEMMA AnswerFinish ==
  ASSUME OwnerInv, LimitInv, AnswerInv, NEW c \in Conn, NEW last \in Seq(Piece), NEW close,
         pc[c] = "relay", ResponseParser, FinishCycle(c, last, close),
         asked[dest[c]] = <<>>, Len(wire[dest[c]]) = Len(last),
         batch[c] \o last \in Seq(Piece), Belongs(batch[c] \o last, <<c, reqNo[c]>>),
         NoEnd(batch[c] \o last) \/ batch[c] \o last # <<>>
  PROVE  AnswerInv'
<1> DEFINE d == dest[c]
           b == batch[c] \o last
<1>1. Relaying(c) BY RelayFacts
<1>2. /\ d \in Dest /\ wire[d] \in Seq(Piece) /\ batch[c] \in Seq(Piece) /\ out[c] \in Seq(Item)
      /\ reqNo[c] \in Nat /\ NoError(out[c]) /\ RightAnswers(c, out[c])
      /\ Ends(out[c]) + 1 = reqNo[c]
  BY <1>1 DEF Relaying, Exchange
<1>3. Ends(out[c]) \in Nat BY <1>2, EndsType
<1>4. /\ out[c] \o b \in Seq(Item) /\ RightAnswers(c, out[c] \o b) /\ NoError(out[c] \o b)
      /\ Ends(out[c] \o b) = reqNo[c] => EndedWell(out[c] \o b)
  <2>1. b \in Seq(Piece) /\ Belongs(b, <<c, reqNo[c]>>) /\ (NoEnd(b) \/ b # <<>>)
    OBVIOUS
  <2> HIDE DEF b
  <2>2. /\ out[c] \o b \in Seq(Item) /\ RightAnswers(c, out[c] \o b) /\ NoError(out[c] \o b)
        /\ NoEnd(b) => Ends(out[c] \o b) = Ends(out[c])
        /\ b # <<>> /\ ~NoEnd(b) => EndedWell(out[c] \o b)
    BY <1>2, <2>1, AddPieces
  <2> QED BY <1>2, <1>3, <2>1, <2>2
<1>5. [batch EXCEPT ![c] = @ \o last][c] = b
  BY DEF AnswerInv, AnswerType
<1>6. CASE should_close[c] \/ close
  <2>1. End(c, b, TRUE) BY <1>5, <1>6 DEF FinishCycle, PushBytes
  <2>2. \E total : End(c, b, total) BY <2>1
  <2> QED BY <1>4, <2>2, AnswerEnd DEF NoError
<1>7. CASE ~(should_close[c] \/ close)
  <2>1. /\ out' = [out EXCEPT ![c] = out[c] \o b]
        /\ pc' = [pc EXCEPT ![c] = "pre"]
        /\ first_cycle' = [first_cycle EXCEPT ![c] = FALSE]
        /\ pre' = [pre EXCEPT ![c] = 0] /\ post' = [post EXCEPT ![c] = 0]
        /\ postDone' = [postDone EXCEPT ![c] = FALSE]
        /\ batch' = [batch EXCEPT ![c] = <<>>]
        /\ dest' = [dest EXCEPT ![c] = NoDest]
        /\ UNCHANGED <<reqNo, broken, gone, flow>>
    BY <1>5, <1>7 DEF FinishCycle, PushBytes, Take, DropDest
  <2>2. /\ tcp' \in {tcp, [e \in Dest |-> IF e = d THEN "none" ELSE tcp[e]]}
        /\ asked' \in {asked, [e \in Dest |-> IF e = d THEN <<>> ELSE asked[e]]}
        /\ \/ wire' = [e \in Dest |-> IF e = d THEN <<>> ELSE wire[e]]
           \/ \E n \in Len(last)..Len(wire[d]) : wire' = [wire EXCEPT ![d] = SubSeq(wire[d], n + 1, Len(wire[d]))]
    BY <1>7 DEF FinishCycle, DropDest
  <2>3. \A n \in Len(last)..Len(wire[d]) : SubSeq(wire[d], n + 1, Len(wire[d])) = <<>>
    BY <1>2
  <2>4. wire'[d] = <<>> /\ wire' \in [Dest -> Seq(Piece)] /\ \A e \in Dest \ {d} : wire'[e] = wire[e]
    <3>1. wire' = [e \in Dest |-> IF e = d THEN <<>> ELSE wire[e]]
      BY <2>2, <2>3 DEF AnswerInv, AnswerType
    <3> QED BY <1>2, <3>1 DEF AnswerInv, AnswerType
  <2>5. asked'[d] = <<>> /\ asked' \in [Dest -> Seq(Conn \X Nat)] /\ \A e \in Dest \ {d} : asked'[e] = asked[e]
    BY <1>2, <2>2 DEF AnswerInv, AnswerType
  <2>6. \A e \in Dest \ {d} : tcp'[e] = tcp[e] BY <2>2
  <2> HIDE DEF b
  <2>7. AnswerType'
    <3>1. out' \in [Conn -> Seq(Item)] BY <1>4, <2>1 DEF AnswerInv, AnswerType
    <3>2. <<>> \in Seq(Piece) OBVIOUS
    <3>3. batch' \in [Conn -> Seq(Piece)] BY <2>1, <3>2 DEF AnswerInv, AnswerType
    <3> QED BY <2>1, <2>4, <2>5, <3>1, <3>3 DEF AnswerInv, AnswerType
  <2>8. /\ pc'[c] = "pre" /\ first_cycle'[c] = FALSE /\ batch'[c] = <<>> /\ out'[c] = out[c] \o b
        /\ reqNo'[c] = reqNo[c]
    BY <2>1 DEF OwnerInv, OwnerType, AnswerInv, AnswerType
  <2>9. QuietElsewhere'
    BY <2>1, <2>4, <2>5 DEF OwnerInv, OwnerType, AnswerInv, QuietElsewhere
  <2>10. pre'[c] = 0 BY <2>1 DEF LimitInv
  <2>11. Standing(c)'
    BY <1>4, <2>8, <2>10 DEF Standing, Satisfied
  <2>12. Answering(c)'
    BY <1>4, <2>8, <2>11, AnsweringNow
  <2>13. ASSUME NEW e \in Conn, e # c PROVE Answering(e)'
    <3>1. Untouched(e)
      BY <2>1, <2>4, <2>5, <2>6, <2>13, OthersRelayElsewhere
      DEF Untouched, OwnerInv, OwnerType, LimitInv, AnswerInv, AnswerType
    <3> QED BY <3>1, UntouchedKeeps DEF AnswerInv
  <2> QED BY <2>7, <2>9, <2>12, <2>13 DEF AnswerInv
<1> QED BY <1>6, <1>7

\* The two ways the response stream ends leave nothing on the connection.
LEMMA AnswerRelayEnds ==
  ASSUME OwnerInv, LimitInv, AnswerInv, NEW c \in Conn, RelayLast(c) \/ RelayEof(c)
  PROVE  AnswerInv'
<1> DEFINE d == dest[c]
           r == <<c, reqNo[c]>>
<1>1. pc[c] = "relay" /\ ResponseParser BY DEF RelayLast, RelayEof
<1>2. Relaying(c) BY <1>1, RelayFacts
<1>3. /\ wire[d] \in Seq(Piece) /\ batch[c] \in Seq(Piece)
      /\ asked[d] # <<>> => wire[d] = <<>> /\ tcp[d] = "open"
      /\ Belongs(wire[d], r) /\ Belongs(batch[c], r) /\ NoEnd(batch[c])
  BY <1>2 DEF Relaying, Exchange
<1>4. CASE RelayLast(c)
  <2> DEFINE x == Head(wire[d])
  <2>1. wire[d] # <<>> /\ x.kind = "end" /\ FinishCycle(c, <<x>>, x.close) BY <1>4 DEF RelayLast
  <2>2. x \in Piece /\ x.req = r /\ Len(wire[d]) = 1 BY <1>3, <2>1, NextPiece
  <2> HIDE DEF x
  <2>3. batch[c] \o <<x>> \in Seq(Piece) /\ Belongs(batch[c] \o <<x>>, r) /\ batch[c] \o <<x>> # <<>>
    BY <1>3, <2>1, <2>2, PieceBatched
  <2>4. <<x>> \in Seq(Piece) /\ Len(<<x>>) = 1 BY <2>2
  <2> QED BY <1>1, <1>3, <2>1, <2>2, <2>3, <2>4, AnswerFinish
<1>5. CASE RelayEof(c)
  <2>1. wire[d] = <<>> /\ tcp[d] \in {"fin", "rst"} /\ FinishCycle(c, <<>>, FALSE) BY <1>5 DEF RelayEof
  <2>2. \E close : FinishCycle(c, <<>>, close) BY <2>1
  <2>3. batch[c] \o <<>> = batch[c] /\ <<>> \in Seq(Piece) /\ asked[d] = <<>> BY <1>3, <2>1
  <2> QED BY <1>1, <1>3, <2>1, <2>2, <2>3, AnswerFinish
<1> QED BY <1>4, <1>5

\* A request goes to the server, or is lost with the connection.
LEMMA AnswerWrite ==
  ASSUME OwnerInv, AnswerInv, NEW c \in Conn, Write(c)
  PROVE  AnswerInv'
<1> DEFINE d == dest[c]
           r == <<c, reqNo[c]>>
<1>1. CASE tcp[d] = "rst"
  <2>1. \E total : End(c, <<>>, total) BY <1>1 DEF Write
  <2> QED BY <2>1, AnswerEndSilent DEF Write
<1>2. CASE tcp[d] # "rst"
  <2>1. /\ pc[c] = "write" /\ pc' = [pc EXCEPT ![c] = "relay"]
        /\ UNCHANGED <<first_cycle, pre, post, postDone, dest, batch, reqNo, broken, gone, out, wire, flow>>
    BY <1>2 DEF Write
  <2>2. /\ asked' # asked => tcp[d] = "open" /\ asked' = [asked EXCEPT ![d] = Append(asked[d], r)]
        /\ tcp' = tcp \/ (tcp' = [tcp EXCEPT ![d] = "rst"] /\ asked' = asked)
    BY <1>2 DEF Write
  <2>3. d \in Dest /\ \A e \in Conn : dest[e] = d => e = c
    BY <2>1 DEF OwnerInv, OwnerType, HeldMatchesPc, HeldAlone, Held
  <2>4. asked[d] = <<>> /\ wire[d] = <<>>
    BY <2>1, <2>3 DEF AnswerInv, QuietElsewhere
  <2>5. batch[c] = <<>> /\ Ends(out[c]) + 1 = reqNo[c] /\ NoError(out[c]) /\ RightAnswers(c, out[c])
    BY <2>1, NoErrorYet DEF AnswerInv, Answering, Standing
  <2>6. Append(asked[d], r) = <<r>> /\ r \in Conn \X Nat BY <2>4 DEF AnswerInv, AnswerType
  <2>7. /\ asked' \in [Dest -> Seq(Conn \X Nat)] /\ \A e \in Dest \ {d} : asked'[e] = asked[e] /\ tcp'[e] = tcp[e]
        /\ asked'[d] # <<>> => asked'[d] = <<r>> /\ tcp'[d] = "open"
    <3>1. CASE asked' = asked BY <2>2, <2>4, <3>1 DEF AnswerInv, AnswerType, OwnerInv, OwnerType
    <3>2. CASE asked' # asked
      <4>1. asked' = [asked EXCEPT ![d] = <<r>>] /\ tcp' = tcp /\ tcp[d] = "open" BY <2>2, <2>6, <3>2
      <4>2. <<r>> \in Seq(Conn \X Nat) BY <2>6
      <4> QED BY <2>3, <4>1, <4>2 DEF AnswerInv, AnswerType
    <3> QED BY <3>1, <3>2
  <2>8. pc'[c] = "relay" /\ \A e \in Conn \ {c} : pc'[e] = pc[e] BY <2>1 DEF OwnerInv, OwnerType
  <2>9. AnswerType' BY <2>1, <2>7 DEF AnswerInv, AnswerType
  <2>10. QuietElsewhere' BY <2>1, <2>7, <2>8, SMTT(20) DEF AnswerInv, QuietElsewhere
  <2>11. Answering(c)'
    <3>1. Exchange(c)' BY <2>1, <2>4, <2>5, <2>7 DEF Exchange, Belongs, NoEnd
    <3>2. Standing(c)' BY <2>8 DEF Standing
    <3> QED BY <2>1, <2>5, <2>8, <3>1, <3>2, AnsweringNow
  <2>12. ASSUME NEW e \in Conn, e # c PROVE Answering(e)'
    <3>1. Untouched(e)
      BY <2>1, <2>7, <2>8, <2>12, OthersRelayElsewhere DEF Untouched
    <3> QED BY <3>1, UntouchedKeeps DEF AnswerInv
  <2> QED BY <2>9, <2>10, <2>11, <2>12 DEF AnswerInv
<1> QED BY <1>1, <1>2

\* All the ways to answer but one send only pieces of the answer.
LEMMA AnswerBelongs ==
  ASSUME "surplus" \notin Env, NEW r \in Conn \X Nat, NEW how \in DOMAIN Answers(<<>>),
         how \in {"keep"} \cup Env
  PROVE  Answers(r)[how] \in Seq(Piece) /\ Belongs(Answers(r)[how], r)
<1> DEFINE piece(kind, close) == [kind |-> kind, req |-> r, close |-> close]
           h == piece("head", FALSE)
<1>1. how \in {"keep", "response_close", "truncated", "bad_response"}
  BY DEF Answers
<1>2. \A k \in {"head", "end", "bad", "surplus"}, b \in BOOLEAN :
         piece(k, b) \in Piece /\ piece(k, b).req = r /\ piece(k, b).kind = k
  BY DEF Piece
<1>3. /\ Answers(r)["keep"] = <<h, piece("end", FALSE)>>
      /\ Answers(r)["response_close"] = <<h, piece("end", TRUE)>>
      /\ Answers(r)["truncated"] = <<h>>
      /\ Answers(r)["bad_response"] = <<h, piece("bad", FALSE)>>
  BY DEF Answers
<1>4. h \in Piece /\ h.req = r /\ h.kind = "head" BY <1>2
<1>5. /\ piece("end", FALSE) \in Piece /\ piece("end", FALSE).req = r /\ piece("end", FALSE).kind = "end"
      /\ piece("end", TRUE) \in Piece /\ piece("end", TRUE).req = r /\ piece("end", TRUE).kind = "end"
      /\ piece("bad", FALSE) \in Piece /\ piece("bad", FALSE).req = r /\ piece("bad", FALSE).kind = "bad"
  BY <1>2
<1> HIDE DEF piece, h
<1>6. ASSUME NEW y \in Piece, y.req = r, y.kind # "surplus"
      PROVE  <<h, y>> \in Seq(Piece) /\ Belongs(<<h, y>>, r)
  BY <1>4, <1>6 DEF Belongs
<1>7. <<h>> \in Seq(Piece) /\ Belongs(<<h>>, r)
  BY <1>4 DEF Belongs
<1>8. CASE how = "keep" BY <1>3, <1>5, <1>6, <1>8
<1>9. CASE how = "response_close" BY <1>3, <1>5, <1>6, <1>9
<1>10. CASE how = "truncated" BY <1>3, <1>7, <1>10
<1>11. CASE how = "bad_response" BY <1>3, <1>5, <1>6, <1>11
<1> QED BY <1>1, <1>8, <1>9, <1>10, <1>11

\* What a server does on a connection, to the task that relays from it.
LEMMA AnswerServer ==
  ASSUME "surplus" \notin Env, OwnerInv, AnswerInv, NEW d \in Dest,
         ServerClose(d) \/ \E how \in DOMAIN Answers(<<>>) : Answer(d, how)
  PROVE  AnswerInv'
<1>1. UNCHANGED <<pc, first_cycle, pre, post, postDone, dest, batch, broken, reqNo, gone, out, flow>>
  BY DEF ServerClose, Answer
<1>2. CASE ServerClose(d)
  <2>1. /\ asked' = [asked EXCEPT ![d] = <<>>] /\ wire' = wire
        /\ \A e \in Dest \ {d} : tcp'[e] = tcp[e]
    BY <1>2 DEF ServerClose, OwnerInv, OwnerType
  <2>2. asked'[d] = <<>> /\ \A e \in Dest \ {d} : asked'[e] = asked[e]
    BY <2>1 DEF AnswerInv, AnswerType
  <2>3. AnswerType' BY <1>1, <2>1 DEF AnswerInv, AnswerType
  <2>4. QuietElsewhere' BY <1>1, <2>1, <2>2 DEF AnswerInv, QuietElsewhere
  <2>5. ASSUME NEW c \in Conn PROVE Answering(c)'
    <3>1. CASE pc[c] = "relay" /\ dest[c] = d
      <4>1. Relaying(c) BY <3>1, RelayFacts
      <4>2. Exchange(c)'
        BY <1>1, <2>1, <2>2, <3>1, <4>1 DEF Relaying, Exchange, Belongs, NoEnd, ResponseParser
      <4>3. Standing(c)' BY <1>1, <3>1 DEF Standing
      <4> QED BY <1>1, <3>1, <4>1, <4>2, <4>3, AnsweringNow DEF Relaying
    <3>2. CASE ~(pc[c] = "relay" /\ dest[c] = d)
      <4>1. Untouched(c) BY <1>1, <2>1, <2>2, <3>2, OthersRelayElsewhere DEF Untouched
      <4> QED BY <4>1, UntouchedKeeps DEF AnswerInv
    <3> QED BY <3>1, <3>2
  <2> QED BY <2>3, <2>4, <2>5 DEF AnswerInv
<1>3. ASSUME NEW how \in DOMAIN Answers(<<>>), Answer(d, how) PROVE AnswerInv'
  <2>1. /\ how \in {"keep"} \cup Env /\ asked[d] # <<>>
        /\ wire' = [wire EXCEPT ![d] = wire[d] \o Answers(Head(asked[d]))[how]]
        /\ asked' = [asked EXCEPT ![d] = Tail(asked[d])]
        /\ \A e \in Dest \ {d} : tcp'[e] = tcp[e]
    BY <1>3 DEF Answer, OwnerInv, OwnerType
  <2>2. PICK c \in Conn : pc[c] = "relay" /\ dest[c] = d
    BY <2>1 DEF AnswerInv, QuietElsewhere
  <2> DEFINE r == <<c, reqNo[c]>>
             w == Answers(r)[how]
  <2>3. Relaying(c) BY <2>2, RelayFacts
  <2>4. /\ asked[d] = <<r>> /\ wire[d] = <<>> /\ Belongs(batch[c], r) /\ NoEnd(batch[c])
        /\ Ends(out[c]) + 1 = reqNo[c] /\ r \in Conn \X Nat
    BY <2>1, <2>2, <2>3 DEF Relaying, Exchange
  <2>5. w \in Seq(Piece) /\ Belongs(w, r) BY <2>1, <2>4, AnswerBelongs
  <2>6. Head(asked[d]) = r /\ Tail(asked[d]) = <<>> BY <2>4
  <2> HIDE DEF w
  <2>7. wire' = [wire EXCEPT ![d] = w] /\ asked' = [asked EXCEPT ![d] = <<>>]
    BY <2>1, <2>4, <2>5, <2>6 DEF w
  <2>8. wire'[d] = w /\ asked'[d] = <<>> /\ \A e \in Dest \ {d} : wire'[e] = wire[e] /\ asked'[e] = asked[e]
    BY <2>7 DEF AnswerInv, AnswerType
  <2>9. AnswerType' BY <1>1, <2>5, <2>7 DEF AnswerInv, AnswerType
  <2>10. QuietElsewhere' BY <1>1, <2>2, <2>8 DEF AnswerInv, QuietElsewhere
  <2>11. Answering(c)'
    <3>1. Exchange(c)'
      BY <1>1, <2>2, <2>4, <2>5, <2>8 DEF Exchange, Belongs, NoEnd
    <3>2. Standing(c)' BY <1>1, <2>2 DEF Standing
    <3> QED BY <1>1, <2>2, <2>3, <3>1, <3>2, AnsweringNow DEF Relaying
  <2>12. ASSUME NEW e \in Conn, e # c PROVE Answering(e)'
    <3>1. Untouched(e) BY <1>1, <2>1, <2>2, <2>8, <2>12, OthersRelayElsewhere DEF Untouched
    <3> QED BY <3>1, UntouchedKeeps DEF AnswerInv
  <2> QED BY <2>9, <2>10, <2>11, <2>12 DEF AnswerInv
<1> QED BY <1>2, <1>3

\* The pool closes only connections nobody relays from.
LEMMA AnswerPoolClose ==
  ASSUME OwnerInv, AnswerInv, NEW d \in Dest, PoolClose(d)
  PROVE  AnswerInv'
<1>1. /\ UNCHANGED <<pc, first_cycle, pre, post, postDone, dest, batch, broken, reqNo, gone, out, flow>>
      /\ parked[d] # {}
      /\ tcp' = [tcp EXCEPT ![d] = "none"] /\ asked' = [asked EXCEPT ![d] = <<>>]
      /\ wire' = [wire EXCEPT ![d] = <<>>]
  BY DEF PoolClose
<1>2. \A c \in Conn : pc[c] = "relay" => dest[c] \in Dest \ {d}
  BY <1>1, OthersRelayElsewhere DEF OwnerInv, OwnerType, HeldAlone, Held, HeldMatchesPc
<1>3. \A e \in Dest : e # d => tcp'[e] = tcp[e] /\ asked'[e] = asked[e] /\ wire'[e] = wire[e]
  BY <1>1 DEF OwnerInv, OwnerType, AnswerInv, AnswerType
<1>4. AnswerType' BY <1>1 DEF AnswerInv, AnswerType
<1>5. QuietElsewhere' BY <1>1, <1>3 DEF AnswerInv, AnswerType, QuietElsewhere
<1>6. ASSUME NEW c \in Conn PROVE Answering(c)'
  <2>1. Untouched(c) BY <1>1, <1>2, <1>3 DEF Untouched
  <2> QED BY <2>1, UntouchedKeeps DEF AnswerInv
<1> QED BY <1>4, <1>5, <1>6 DEF AnswerInv

\* Such a step keeps the invariant if it keeps where its client stands.
LEMMA AnswerBefore ==
  ASSUME OwnerInv, AnswerInv, NEW c \in Conn, Before(c), Standing(c)'
  PROVE  AnswerInv'
<1>1. AnswerType' BY DEF AnswerInv, AnswerType, Before
<1>2. QuietElsewhere' BY DEF AnswerInv, QuietElsewhere, Before
<1>3. Answering(c)'
  <2>1. NoError(out[c]) /\ RightAnswers(c, out[c]) BY NoErrorYet DEF AnswerInv, Answering, Before
  <2> QED BY <2>1, AnsweringNow DEF Before
<1>4. ASSUME NEW e \in Conn, e # c PROVE Answering(e)'
  <2>1. pc[e] = "relay" => dest[e] \in Dest /\ tcp[dest[e]] # "none"
    BY DEF OwnerInv, OwnerType, HeldMatchesPc, HeldAlone, Held
  <2>2. Untouched(e) BY <1>4, <2>1 DEF Before, Untouched
  <2> QED BY <2>2, UntouchedKeeps DEF AnswerInv
<1> QED BY <1>1, <1>2, <1>3, <1>4 DEF AnswerInv

\* The stronger invariant contains the other.
LEMMA AnswerHasTurns ==
  ASSUME AnswerInv
  PROVE  TurnInv
BY DEF AnswerInv, TurnInv, Answering, Turn, Exchange

\* The steps before the relay, whatever they are.
LEMMA AnswerEarly ==
  ASSUME OwnerInv, AnswerInv, NEW c \in Conn, BeforeRelay(c)
  PROVE  AnswerInv'
<1>1. CASE Before(c) /\ Standing(c)' BY <1>1, AnswerBefore
<1>2. CASE pc[c] # "ended" /\ (gone[c] \/ EndedWell(out[c])) /\ Fail(c) BY <1>2, AnswerFail
<1>3. CASE pc[c] # "ended" /\ End(c, <<>>, routed[c]) BY <1>3, AnswerEndSilent
<1> QED BY <1>1, <1>2, <1>3 DEF BeforeRelay

\* The other ends of the relay.
LEMMA AnswerGivesUp ==
  ASSUME OwnerInv, AnswerInv, NEW c \in Conn, RelayError(c) \/ RelayClientGone(c) \/ CopyEnd(c)
  PROVE  AnswerInv'
<1>1. CASE RelayClientGone(c) \/ CopyEnd(c)
  <2>1. pc[c] = "relay" /\ \E total : End(c, <<>>, total) BY <1>1 DEF RelayClientGone, CopyEnd
  <2> QED BY <2>1, AnswerEndSilent
<1>2. CASE RelayError(c)
  <2>1. pc[c] = "relay" /\ ResponseParser /\ \E total : End(c, batch[c], total) BY <1>2 DEF RelayError
  <2>2. Relaying(c) BY <2>1, RelayFacts
  <2>3. /\ batch[c] \in Seq(Piece) /\ out[c] \in Seq(Item) /\ reqNo[c] \in Nat
        /\ NoError(out[c]) /\ RightAnswers(c, out[c]) /\ Belongs(batch[c], <<c, reqNo[c]>>)
        /\ Ends(out[c]) + 1 = reqNo[c]
    BY <2>1, <2>2 DEF Relaying, Exchange
  <2>4. out[c] \o batch[c] \in Seq(Item) /\ RightAnswers(c, out[c] \o batch[c]) /\ NoError(out[c] \o batch[c])
    BY <2>3, AddPieces
  <2> QED BY <2>1, <2>4, AnswerEnd DEF NoError
<1> QED BY <1>1, <1>2

\* A client that closes changes nothing that was written.
LEMMA AnswerClientClose ==
  ASSUME AnswerInv, NEW c \in Conn, ClientClose(c)
  PROVE  AnswerInv'
<1>1. /\ gone' = [gone EXCEPT ![c] = TRUE]
      /\ UNCHANGED <<pc, first_cycle, pre, post, postDone, dest, batch, broken, reqNo, out, tcp, asked, wire, flow>>
  BY DEF ClientClose
<1>2. AnswerType' /\ QuietElsewhere' BY <1>1 DEF AnswerInv, AnswerType, QuietElsewhere
<1>3. \A e \in Conn : gone[e] => gone'[e] BY <1>1 DEF AnswerInv, AnswerType
<1>4. ASSUME NEW e \in Conn PROVE Answering(e)'
  <2>1. (pc[e] = "relay" => Exchange(e))' /\ Standing(e)' /\ RightAnswers(e, out[e])'
    BY <1>1 DEF AnswerInv, Answering, Exchange, Standing, Satisfied, ResponseParser, RightAnswers
  <2>2. ErrorAtEnd(e)' BY <1>1, <1>3 DEF AnswerInv, Answering, ErrorAtEnd
  <2> QED BY <2>1, <2>2 DEF Answering
<1> QED BY <1>2, <1>4 DEF AnswerInv

\* Every step keeps answers and requests together.
LEMMA AnswerStep ==
  ASSUME "surplus" \notin Env
  PROVE  OwnerInv /\ LimitInv /\ AnswerInv /\ [Next]_vars => AnswerInv'
<1> SUFFICES ASSUME OwnerInv, LimitInv, AnswerInv, [Next]_vars PROVE AnswerInv'
  OBVIOUS
<1>1. CASE UNCHANGED vars
  <2>1. AnswerType' /\ QuietElsewhere' BY <1>1 DEF vars, AnswerInv, AnswerType, QuietElsewhere
  <2>2. ASSUME NEW e \in Conn PROVE Answering(e)'
    <3>1. Untouched(e) BY <1>1 DEF vars, Untouched
    <3> QED BY <3>1, UntouchedKeeps DEF AnswerInv
  <2> QED BY <2>1, <2>2 DEF AnswerInv
<1>2. ASSUME NEW c \in Conn,
             \/ PreFrame(c) \/ PreError(c) \/ PreEnd(c)
             \/ \E k \in Key : RoutingFrame(c, k)
             \/ \E d \in Dest : RouteOk(c, d)
             \/ RouteFail(c) \/ PostFrame(c) \/ PostEnd(c) \/ PostEof(c) \/ PostError(c) \/ Joined(c)
      PROVE  AnswerInv'
  <2>1. TurnInv BY AnswerHasTurns
  <2>2. BeforeRelay(c) BY <1>2, <2>1, PreKinds, JoinKinds
  <2> QED BY <2>2, AnswerEarly
<1>3. ASSUME NEW c \in Conn,
             \/ Write(c) \/ RelayPiece(c) \/ RelayLast(c) \/ RelayEof(c) \/ RelayError(c)
             \/ RelayClientGone(c) \/ CopyPiece(c) \/ CopyEnd(c) \/ ClientClose(c)
      PROVE  AnswerInv'
  BY <1>3, AnswerWrite, AnswerRelayPiece, AnswerRelayEnds, AnswerGivesUp, AnswerCopyPiece, AnswerClientClose
<1>4. ASSUME NEW d \in Dest,
             ServerClose(d) \/ PoolClose(d) \/ \E how \in DOMAIN Answers(<<>>) : Answer(d, how)
      PROVE  AnswerInv'
  BY <1>4, AnswerServer, AnswerPoolClose
<1> QED BY <1>1, <1>2, <1>3, <1>4 DEF Next

\* Nothing has been asked or answered at the start.
LEMMA AnswerInit == Init => AnswerInv
<1> SUFFICES ASSUME Init PROVE AnswerInv
  OBVIOUS
<1>1. AnswerType /\ QuietElsewhere BY DEF Init, AnswerType, QuietElsewhere
<1>2. ASSUME NEW c \in Conn PROVE Answering(c)
  <2>1. pc[c] = "pre" /\ out[c] = <<>> /\ batch[c] = <<>> /\ broken[c] = FALSE BY DEF Init
  <2>2. Standing(c) BY <2>1 DEF Standing, EndedWell
  <2>3. RightAnswers(c, out[c]) /\ ErrorAtEnd(c) BY <2>1 DEF RightAnswers, ErrorAtEnd
  <2> QED BY <2>1, <2>2, <2>3 DEF Answering
<1> QED BY <1>1, <1>2 DEF AnswerInv

\* The invariant behind the theorems about answers.
LEMMA AnswerAlways == "surplus" \notin Env => (Spec => [](OwnerInv /\ AnswerInv))
<1> SUFFICES ASSUME "surplus" \notin Env PROVE Spec => [](OwnerInv /\ AnswerInv)
  OBVIOUS
<1>1. Init => LimitInv
  BY PipelineAssumption DEF PipelineAssumption, Init, LimitInv, WithinLimits
<1>2. OwnerInv /\ LimitInv /\ AnswerInv /\ [Next]_vars => AnswerInv'
  BY AnswerStep
<1> QED BY <1>1, <1>2, AnswerInit, OwnerAlways, LimitStep, PTL DEF Spec

\* As long as no server sends more than its answer, every piece of a response
\* that reaches a client belongs to the request this client waits for: neither the
\* pool nor any failure delivers a response, or the rest of one, to another client
\* or to another request.
THEOREM NoAnswerGoesAstray == "surplus" \notin Env => (Spec => []NoCrossTalk)
<1>1. AnswerInv => NoCrossTalk
  BY DEF AnswerInv, Answering, RightAnswers, NoCrossTalk
<1> QED BY <1>1, AnswerAlways, PTL

\* Under the same hypothesis a connection goes to the pool only between two requests:
\* the server owes nothing on it, and nothing it sent is left to be read.
THEOREM PooledIsQuiet == "surplus" \notin Env => (Spec => []QuietWhenPooled)
<1>1. ASSUME OwnerInv, AnswerInv PROVE QuietWhenPooled
  <2> SUFFICES ASSUME NEW d \in Dest, parked[d] # {}, asked[d] # <<>> \/ wire[d] # <<>>
               PROVE  FALSE
    BY DEF QuietWhenPooled
  <2>1. PICK c \in Conn : pc[c] = "relay" /\ dest[c] = d
    BY <1>1 DEF AnswerInv, QuietElsewhere
  <2> QED BY <1>1, <2>1 DEF OwnerInv, HeldMatchesPc, HeldAlone, Held
<1> QED BY <1>1, AnswerAlways, PTL

===============================================================================
