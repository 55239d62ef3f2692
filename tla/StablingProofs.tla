---------------------------- MODULE StablingProofs ----------------------------
(***************************************************************************)
(* Proofs about the connection pool, for any sets of tasks, routing keys   *)
(* and connections and any limits. Steps that take connections out of      *)
(* queues (acquire, remove, reap, eviction) leave every queue a            *)
(* subsequence of what it was, and every part of the invariant that speaks *)
(* of queues survives that; only release adds a connection.                *)
(***************************************************************************)
EXTENDS Stabling, TLAPS

\* r is what is left of the queue q after some connections were taken out.
SubQueue(r, q) ==
  /\ Len(r) <= Len(q)
  /\ \E f \in [1..Len(r) -> 1..Len(q)] :
       /\ \A i, j \in 1..Len(r) : i < j => f[i] < f[j]
       /\ \A i \in 1..Len(r) : r[i] = q[f[i]]

\* The fields of a stabled connection.
LEMMA ConnFields ==
  /\ \A c \in StabledConnection : c.dest \in Dest /\ c.stabled_at \in Nat
  /\ \A d \in Dest, n \in Nat : [dest |-> d, stabled_at |-> n] \in StabledConnection
  /\ \A d, n : [dest |-> d, stabled_at |-> n].dest = d
  /\ \A d, n : [dest |-> d, stabled_at |-> n].stabled_at = n
BY DEF StabledConnection

\* Entries of the queues are stabled connections.
LEMMA QueueEntries ==
  ASSUME TypeOK, NEW k \in Key
  PROVE  /\ idle[k] \in Seq(StabledConnection)
         /\ Len(idle[k]) \in Nat
         /\ \A i \in 1..Len(idle[k]) : /\ idle[k][i] \in StabledConnection
                                       /\ idle[k][i].dest \in Dest
                                       /\ idle[k][i].stabled_at \in Nat
<1>1. idle[k] \in Seq(StabledConnection)
  BY DEF TypeOK
<1>2. \A i \in 1..Len(idle[k]) : idle[k][i] \in StabledConnection
  BY <1>1
<1> QED
  BY <1>1, <1>2, ConnFields

\* A queue the action leaves alone is a subsequence of itself.
LEMMA SubQueueReflexive ==
  ASSUME NEW S, NEW q \in Seq(S)
  PROVE  SubQueue(q, q)
<1> DEFINE f == [i \in 1..Len(q) |-> i]
<1>1. Len(q) \in Nat
  OBVIOUS
<1>2. f \in [1..Len(q) -> 1..Len(q)] /\ \A i \in 1..Len(q) : f[i] = i
  OBVIOUS
<1> HIDE DEF f
<1>3. /\ \A i, j \in 1..Len(q) : i < j => f[i] < f[j]
      /\ \A i \in 1..Len(q) : q[i] = q[f[i]]
  BY <1>2
<1> QED
  BY <1>1, <1>2, <1>3 DEF SubQueue

\* An emptied queue is a subsequence of what it was.
LEMMA SubQueueEmpty ==
  ASSUME NEW S, NEW q \in Seq(S), NEW r, Len(r) = 0
  PROVE  SubQueue(r, q)
<1> DEFINE f == [i \in 1..0 |-> i]
<1>1. Len(q) \in Nat
  OBVIOUS
<1>2. f \in [1..Len(r) -> 1..Len(q)]
  BY <1>1
<1> HIDE DEF f
<1>3. /\ \A i, j \in 1..Len(r) : i < j => f[i] < f[j]
      /\ \A i \in 1..Len(r) : r[i] = q[f[i]]
  OBVIOUS
<1>4. Len(r) <= Len(q)
  BY <1>1
<1>5. \E g \in [1..Len(r) -> 1..Len(q)] :
         /\ \A i, j \in 1..Len(r) : i < j => g[i] < g[j]
         /\ \A i \in 1..Len(r) : r[i] = q[g[i]]
  BY <1>2, <1>3, Zenon
<1> QED
  BY <1>4, <1>5, Zenon DEF SubQueue

\* pop_back down to position i.
LEMMA SubQueuePrefix ==
  ASSUME NEW S, NEW q \in Seq(S), NEW i \in 1..Len(q)
  PROVE  SubQueue(SubSeq(q, 1, i - 1), q)
<1> DEFINE r == SubSeq(q, 1, i - 1)
           f == [j \in 1..Len(r) |-> j]
<1>1. Len(r) = i - 1 /\ \A j \in 1..Len(r) : r[j] = q[j]
  OBVIOUS
<1>2. f \in [1..Len(r) -> 1..Len(q)]
  BY <1>1
<1>3. Len(r) <= Len(q)
  BY <1>1
<1> HIDE DEF r
<1>4. SubQueue(r, q)
  BY <1>1, <1>2, <1>3 DEF SubQueue
<1> QED
  BY <1>4 DEF r

\* pop_front.
LEMMA SubQueueTail ==
  ASSUME NEW S, NEW q \in Seq(S), q # <<>>
  PROVE  SubQueue(Tail(q), q) /\ Tail(q) \in Seq(S) /\ Len(Tail(q)) = Len(q) - 1
<1> DEFINE r == Tail(q)
           f == [j \in 1..Len(r) |-> j + 1]
<1>1. Len(q) \in Nat /\ Len(q) > 0
  OBVIOUS
<1>2. r \in Seq(S) /\ Len(r) = Len(q) - 1 /\ \A j \in 1..Len(r) : r[j] = q[j + 1]
  BY <1>1
<1> HIDE DEF r
<1>3. f \in [1..Len(r) -> 1..Len(q)] /\ \A j \in 1..Len(r) : f[j] = j + 1
  BY <1>1, <1>2
<1> HIDE DEF f
<1>4. /\ \A i, j \in 1..Len(r) : i < j => f[i] < f[j]
      /\ \A i \in 1..Len(r) : r[i] = q[f[i]]
  BY <1>2, <1>3
<1>5. SubQueue(r, q)
  <2>1. f \in [1..Len(r) -> 1..Len(q)]
    BY <1>3
  <2>2. Len(r) <= Len(q)
    BY <1>1, <1>2
  <2> QED
    BY <1>4, <2>1, <2>2, Zenon DEF SubQueue
<1> QED
  BY <1>2, <1>5 DEF r

\* retain keeps a subsequence.
LEMMA SubQueueSelect ==
  ASSUME NEW S, NEW q \in Seq(S), NEW P, NEW f \in Selections(q, P)
  PROVE  LET r == [i \in 1..Len(f) |-> q[f[i]]]
         IN r \in Seq(S) /\ SubQueue(r, q) /\ (r = <<>> <=> P = {})
<1> DEFINE r == [i \in 1..Len(f) |-> q[f[i]]]
<1>1. PICK n \in 0..Len(q) : f \in [1..n -> 1..Len(q)]
  BY DEF Selections
<1>2. /\ \A i, j \in 1..n : i < j => f[i] < f[j]
      /\ \A p \in P : \E i \in 1..n : f[i] = p
  BY <1>1 DEF Selections
<1>3. Len(f) = n
  BY <1>1
<1>4. r \in Seq(S) /\ Len(r) = n /\ \A i \in 1..n : r[i] = q[f[i]]
  BY <1>1, <1>3
<1> HIDE DEF r
<1>5. SubQueue(r, q)
  BY <1>1, <1>2, <1>4, SMTT(30) DEF SubQueue
<1>6. r = <<>> => P = {}
  BY <1>2, <1>4
<1>7. P = {} => r = <<>>
  BY <1>1, <1>3, <1>4 DEF Selections
<1> QED
  BY <1>4, <1>5, <1>6, <1>7 DEF r

-----------------------------------------------------------------------------
(* What each action does to the queues and to what the tasks hold *)

\* acquire, remove and reap only take connections out of the queues.
Shrinks ==
  \A k \in Key : idle'[k] \in Seq(StabledConnection) /\ SubQueue(idle'[k], idle[k])

\* acquire that finds a connection truncates the queue at the one it takes
\* and hands exactly that one to the task.
LEMMA AcquireHitEffect ==
  ASSUME TypeOK, NEW t \in Task, NEW k \in Key, AcquireHit(t, k)
  PROVE  /\ Shrinks
         /\ idle' \in [Key -> Seq(StabledConnection)]
         /\ \E i \in 1..Len(idle[k]) :
              /\ Len(idle'[k]) = i - 1
              /\ \A j \in 1..(i - 1) : idle'[k][j] = idle[k][j]
              /\ \A l \in Key \ {k} : idle'[l] = idle[l]
              /\ idle[k][i].dest \in Dest
              /\ held' = [held EXCEPT ![t] = idle[k][i].dest]
              /\ pc' = [pc EXCEPT ![t] = IF i = 1 THEN "removing" ELSE "using"]
<1>1. PICK i \in FreshPositions(idle[k]) :
         /\ idle' = [idle EXCEPT ![k] = SubSeq(@, 1, i - 1)]
         /\ held' = [held EXCEPT ![t] = idle[k][i].dest]
         /\ pc' = [pc EXCEPT ![t] = IF i = 1 THEN "removing" ELSE "using"]
  BY DEF AcquireHit
<1>2. i \in 1..Len(idle[k])
  BY DEF FreshPositions
<1>3. idle[k][i].dest \in Dest
  BY <1>2, QueueEntries
<1> DEFINE r == SubSeq(idle[k], 1, i - 1)
<1>4. /\ r \in Seq(StabledConnection)
      /\ Len(r) = i - 1
      /\ \A j \in 1..(i - 1) : r[j] = idle[k][j]
  BY <1>2, QueueEntries
<1>5. SubQueue(r, idle[k])
  BY <1>2, QueueEntries, SubQueuePrefix
<1> HIDE DEF r
<1>6. idle' = [idle EXCEPT ![k] = r]
  BY <1>1 DEF r
<1>7. \A l \in Key \ {k} : idle'[l] = idle[l]
  BY <1>6 DEF TypeOK
<1>8. idle'[k] = r
  BY <1>6 DEF TypeOK
<1>9. Shrinks
  BY <1>4, <1>5, <1>7, <1>8, SubQueueReflexive DEF TypeOK, Shrinks
<1>10. idle' \in [Key -> Seq(StabledConnection)]
  BY <1>4, <1>6 DEF TypeOK
<1> QED
  BY <1>1, <1>2, <1>3, <1>4, <1>7, <1>8, <1>9, <1>10

\* acquire that discards everything, and remove, leave the other keys alone.
LEMMA EmptiesEffect ==
  ASSUME TypeOK, NEW k \in Key, idle' = [idle EXCEPT ![k] = <<>>]
  PROVE  /\ Shrinks
         /\ idle' \in [Key -> Seq(StabledConnection)]
         /\ \A l \in Key \ {k} : idle'[l] = idle[l]
<1>1. <<>> \in Seq(StabledConnection) /\ Len(<<>>) = 0
  OBVIOUS
<1>2. idle'[k] = <<>> /\ \A l \in Key \ {k} : idle'[l] = idle[l]
  BY DEF TypeOK
<1>3. SubQueue(idle'[k], idle[k])
  BY <1>1, <1>2, QueueEntries, SubQueueEmpty
<1>4. Shrinks
  BY <1>1, <1>2, <1>3, SubQueueReflexive DEF TypeOK, Shrinks
<1>5. idle' \in [Key -> Seq(StabledConnection)]
  BY <1>1 DEF TypeOK
<1> QED
  BY <1>2, <1>4, <1>5

\* retain leaves a queue empty exactly when no connection of it was fresh.
LEMMA ReapEffect ==
  ASSUME TypeOK, NEW k \in Key, ReapEntry(k)
  PROVE  /\ Shrinks
         /\ idle' \in [Key -> Seq(StabledConnection)]
         /\ \A l \in Key \ {k} : idle'[l] = idle[l]
         /\ idle'[k] = <<>> => FreshPositions(idle[k]) = {}
         /\ FreshPositions(idle[k]) = {} => idle'[k] = <<>>
<1>1. PICK f \in Selections(idle[k], FreshPositions(idle[k])) :
         idle' = [idle EXCEPT ![k] = [i \in 1..Len(f) |-> idle[k][f[i]]]]
  BY DEF ReapEntry
<1> DEFINE r == [i \in 1..Len(f) |-> idle[k][f[i]]]
<1>2. /\ r \in Seq(StabledConnection)
      /\ SubQueue(r, idle[k])
      /\ r = <<>> => FreshPositions(idle[k]) = {}
      /\ FreshPositions(idle[k]) = {} => r = <<>>
  BY QueueEntries, SubQueueSelect
<1> HIDE DEF r
<1>3. idle' = [idle EXCEPT ![k] = r]
  BY <1>1 DEF r
<1>4. idle'[k] = r /\ \A l \in Key \ {k} : idle'[l] = idle[l]
  BY <1>3 DEF TypeOK
<1>5. Shrinks
  BY <1>2, <1>4, SubQueueReflexive DEF TypeOK, Shrinks
<1>6. idle' \in [Key -> Seq(StabledConnection)]
  BY <1>2, <1>3 DEF TypeOK
<1> QED
  BY <1>2, <1>4, <1>5, <1>6

\* release pushes the connection behind what it kept of the queue.
LEMMA ReleaseEffect ==
  ASSUME TypeOK, HeldMatchesPc, PerHostLimit, NEW t \in Task, Release(t), Enabled
  PROVE  LET conn == [dest |-> held[t], stabled_at |-> now]
         IN /\ held[t] \in Dest
            /\ conn \in StabledConnection
            /\ idle' \in [Key -> Seq(StabledConnection)]
            /\ \A l \in Key \ {key[t]} : idle'[l] = idle[l]
            /\ \E kept \in Seq(StabledConnection) :
                 /\ SubQueue(kept, idle[key[t]])
                 /\ Len(kept) + 1 <= IF MaxIdlePerHost = 0 THEN 1 ELSE MaxIdlePerHost
                 /\ idle'[key[t]] = Append(kept, conn)
<1> DEFINE conn == [dest |-> held[t], stabled_at |-> now]
           q == idle[key[t]]
           kept == IF Len(q) >= MaxIdlePerHost /\ q # <<>> THEN Tail(q) ELSE q
           limit == IF MaxIdlePerHost = 0 THEN 1 ELSE MaxIdlePerHost
<1>1. held[t] \in Dest /\ key[t] \in Key /\ now \in Nat
  BY DEF Release, HeldMatchesPc, TypeOK
<1>2. conn \in StabledConnection
  BY <1>1, ConnFields
<1>3. q \in Seq(StabledConnection) /\ Len(q) \in Nat /\ Len(q) <= limit
  BY <1>1, QueueEntries DEF PerHostLimit
<1>4. idle' = [idle EXCEPT ![key[t]] = Append(kept, conn)]
  BY DEF Release
<1> HIDE DEF conn, q
<1>5. /\ kept \in Seq(StabledConnection)
      /\ SubQueue(kept, q)
      /\ Len(kept) + 1 <= limit
  <2>1. CASE Len(q) >= MaxIdlePerHost /\ q # <<>>
    <3>1. kept = Tail(q)
      BY <2>1
    <3>2. SubQueue(Tail(q), q) /\ Tail(q) \in Seq(StabledConnection) /\ Len(Tail(q)) = Len(q) - 1
      BY <1>3, <2>1, SubQueueTail
    <3> HIDE DEF kept
    <3> QED
      BY <1>3, <3>1, <3>2, StablingAssumption
  <2>2. CASE ~(Len(q) >= MaxIdlePerHost /\ q # <<>>)
    <3>1. kept = q
      BY <2>2
    <3>2. SubQueue(q, q)
      BY <1>3, SubQueueReflexive
    <3>3. Len(q) + 1 <= limit
      BY <1>3, <2>2, StablingAssumption
    <3> HIDE DEF kept
    <3> QED
      BY <1>3, <3>1, <3>2, <3>3
  <2> QED
    BY <2>1, <2>2
<1> HIDE DEF kept
<1>6. Append(kept, conn) \in Seq(StabledConnection)
  BY <1>2, <1>5
<1>7. /\ idle'[key[t]] = Append(kept, conn)
      /\ \A l \in Key \ {key[t]} : idle'[l] = idle[l]
      /\ idle' \in [Key -> Seq(StabledConnection)]
  BY <1>1, <1>4, <1>6 DEF TypeOK
<1> QED
  BY <1>1, <1>2, <1>5, <1>7 DEF conn, q

-----------------------------------------------------------------------------
(* Type correctness *)

\* The initial pool is well typed.
LEMMA TypeInit == Init => TypeOK
BY StablingAssumption DEF Init, TypeOK, StabledConnection

\* The connection acquire hands out is a destination.
LEMMA AcquireHitType ==
  ASSUME TypeOK, NEW t \in Task, NEW k \in Key, AcquireHit(t, k)
  PROVE  TypeOK'
<1>1. idle' \in [Key -> Seq(StabledConnection)]
  BY AcquireHitEffect
<1>2. PICK i \in 1..Len(idle[k]) :
         /\ idle[k][i].dest \in Dest
         /\ held' = [held EXCEPT ![t] = idle[k][i].dest]
         /\ pc' = [pc EXCEPT ![t] = IF i = 1 THEN "removing" ELSE "using"]
  BY AcquireHitEffect
<1>3. /\ held' \in [Task -> Dest \cup {NoDest}]
      /\ pc' \in [Task -> {"reading", "removing", "routing", "using"}]
  BY <1>2 DEF TypeOK
<1> QED
  BY <1>1, <1>3 DEF AcquireHit, TypeOK

\* Every step of a task, of the reaper or of the clock preserves the types.
LEMMA TypeStep ==
  TypeOK /\ HeldMatchesPc /\ PerHostLimit /\ [Next]_vars => TypeOK'
<1> SUFFICES ASSUME TypeOK, HeldMatchesPc, PerHostLimit, [Next]_vars PROVE TypeOK'
  OBVIOUS
<1> USE StablingAssumption DEF TypeOK
<1>1. ASSUME NEW t \in Task, NEW k \in Key, AcquireMiss(t, k) PROVE TypeOK'
  BY <1>1 DEF AcquireMiss
<1>2. ASSUME NEW t \in Task, NEW k \in Key, AcquireHit(t, k) PROVE TypeOK'
  BY <1>2, AcquireHitType
<1>3. ASSUME NEW t \in Task, NEW k \in Key, AcquireDrained(t, k) PROVE TypeOK'
  BY <1>3 DEF AcquireDrained
<1>4. ASSUME NEW t \in Task, Remove(t) PROVE TypeOK'
  BY <1>4 DEF Remove
<1>5. ASSUME NEW t \in Task, NEW d \in Dest, Route(t, d) PROVE TypeOK'
  BY <1>5 DEF Route
<1>6. ASSUME NEW t \in Task, RouteFail(t) PROVE TypeOK'
  BY <1>6 DEF RouteFail
<1>7. ASSUME NEW t \in Task, Drop(t) PROVE TypeOK'
  BY <1>7 DEF Drop
<1>8. ASSUME NEW t \in Task, Release(t) PROVE TypeOK'
  <2>1. idle' \in [Key -> Seq(StabledConnection)]
    <3>1. CASE Enabled
      BY <1>8, <3>1, ReleaseEffect
    <3>2. CASE ~Enabled
      BY <1>8, <3>2 DEF Release
    <3> QED
      BY <3>1, <3>2
  <2>2. present' = present \/ present' = present \cup {key[t]}
    BY <1>8, Zenon DEF Release
  <2>3. /\ pc' \in [Task -> {"reading", "removing", "routing", "using"}]
        /\ held' \in [Task -> Dest \cup {NoDest}]
        /\ UNCHANGED <<now, key, origin, toReap, reaper>>
    BY <1>8 DEF Release
  <2> QED
    BY <2>1, <2>2, <2>3
<1>9. ASSUME ReapTick PROVE TypeOK'
  BY <1>9 DEF ReapTick
<1>10. ASSUME NEW k \in Key, ReapEntry(k) PROVE TypeOK'
  BY <1>10, ReapEffect DEF ReapEntry
<1>11. ASSUME Cancel PROVE TypeOK'
  BY <1>11 DEF Cancel
<1>12. ASSUME Tick PROVE TypeOK'
  BY <1>12 DEF Tick
<1>13. CASE UNCHANGED vars
  BY <1>13 DEF vars
<1> QED
  BY <1>1, <1>2, <1>3, <1>4, <1>5, <1>6, <1>7, <1>8, <1>9, <1>10, <1>11, <1>12, <1>13
     DEF Next, TaskStep

-----------------------------------------------------------------------------
(* Steps that shrink the queues keep what the invariant says about queues *)

\* What is in a shrunk queue was in the queue.
LEMMA ShrinkMembers ==
  ASSUME TypeOK, Shrinks, NEW k \in Key, NEW i \in 1..Len(idle'[k])
  PROVE  \E p \in 1..Len(idle[k]) : idle'[k][i] = idle[k][p]
BY QueueEntries DEF Shrinks, SubQueue

\* Taking connections out never makes one occur twice.
LEMMA ShrinkPooledOnce ==
  ASSUME TypeOK, Shrinks, PooledOnce
  PROVE  PooledOnce'
<1> SUFFICES ASSUME NEW k \in Key, NEW l \in Key,
                    NEW i \in 1..Len(idle'[k]), NEW j \in 1..Len(idle'[l]),
                    idle'[k][i].dest = idle'[l][j].dest
             PROVE  k = l /\ i = j
  BY DEF PooledOnce
<1>1. PICK f \in [1..Len(idle'[k]) -> 1..Len(idle[k])] :
         /\ \A a, b \in 1..Len(idle'[k]) : a < b => f[a] < f[b]
         /\ \A a \in 1..Len(idle'[k]) : idle'[k][a] = idle[k][f[a]]
  BY DEF Shrinks, SubQueue
<1>2. k = l
  <2>1. PICK p \in 1..Len(idle[k]) : idle'[k][i] = idle[k][p]
    BY ShrinkMembers
  <2>2. PICK r \in 1..Len(idle[l]) : idle'[l][j] = idle[l][r]
    BY ShrinkMembers
  <2> QED
    BY <2>1, <2>2 DEF PooledOnce
<1>3. f[i] = f[j]
  BY <1>1, <1>2 DEF PooledOnce
<1>4. Len(idle'[k]) \in Nat /\ Len(idle[k]) \in Nat
  BY QueueEntries DEF Shrinks
<1>5. i = j
  BY <1>1, <1>2, <1>3, <1>4
<1> QED
  BY <1>2, <1>5

\* Taking connections out keeps the queue in stabling order.
LEMMA ShrinkOldestInFront ==
  ASSUME TypeOK, Shrinks, OldestInFront
  PROVE  OldestInFront'
<1> SUFFICES ASSUME NEW k \in Key, NEW i \in 1..Len(idle'[k]), NEW j \in 1..Len(idle'[k]), i <= j
             PROVE  idle'[k][i].stabled_at <= idle'[k][j].stabled_at
  BY DEF OldestInFront
<1>1. PICK f \in [1..Len(idle'[k]) -> 1..Len(idle[k])] :
         /\ \A a, b \in 1..Len(idle'[k]) : a < b => f[a] < f[b]
         /\ \A a \in 1..Len(idle'[k]) : idle'[k][a] = idle[k][f[a]]
  BY DEF Shrinks, SubQueue
<1>2. Len(idle'[k]) \in Nat /\ Len(idle[k]) \in Nat
  BY QueueEntries DEF Shrinks
<1>3. f[i] <= f[j]
  BY <1>1, <1>2
<1>4. idle[k][f[i]].stabled_at <= idle[k][f[j]].stabled_at
  <2>1. f[i] \in 1..Len(idle[k]) /\ f[j] \in 1..Len(idle[k])
    BY <1>1
  <2> QED
    BY <1>3, <2>1 DEF OldestInFront
<1> QED
  BY <1>1, <1>4

\* Taking connections out keeps the queue within its limit.
LEMMA ShrinkPerHostLimit ==
  ASSUME TypeOK, Shrinks, PerHostLimit
  PROVE  PerHostLimit'
<1> SUFFICES ASSUME NEW k \in Key
             PROVE  Len(idle'[k]) <= IF MaxIdlePerHost = 0 THEN 1 ELSE MaxIdlePerHost
  BY DEF PerHostLimit
<1>1. Len(idle'[k]) \in Nat /\ Len(idle[k]) \in Nat /\ Len(idle'[k]) <= Len(idle[k])
  BY QueueEntries DEF Shrinks, SubQueue
<1> QED
  BY <1>1, StablingAssumption DEF PerHostLimit

\* The queue part of the invariant, when nothing is added and time does not go back.
LEMMA ShrinkQueues ==
  ASSUME IInv, Shrinks, now' = now, origin' = origin
  PROVE  /\ PooledOnce' /\ OldestInFront' /\ NothingFromTheFuture' /\ PerHostLimit'
         /\ \A k \in Key : \A i \in 1..Len(idle'[k]) : origin'[idle'[k][i].dest] = k
<1>1. PooledOnce' /\ OldestInFront' /\ PerHostLimit'
  BY ShrinkPooledOnce, ShrinkOldestInFront, ShrinkPerHostLimit DEF IInv, ExclusiveOwnership
<1>2. NothingFromTheFuture'
  BY ShrinkMembers DEF IInv, NothingFromTheFuture
<1>3. \A k \in Key : \A i \in 1..Len(idle'[k]) : origin'[idle'[k][i].dest] = k
  BY ShrinkMembers DEF IInv, KeyIntegrity
<1> QED
  BY <1>1, <1>2, <1>3

-----------------------------------------------------------------------------
(* The inductive invariant *)

\* The empty pool satisfies the inductive invariant.
LEMMA InvInit == Init => IInv
<1> SUFFICES ASSUME Init PROVE IInv
  OBVIOUS
<1>1. \A k \in Key : idle[k] = <<>> /\ Len(idle[k]) = 0
  BY DEF Init
<1>2. \A t \in Task : held[t] = NoDest /\ pc[t] = "reading"
  BY DEF Init
<1>3. ExclusiveOwnership /\ KeyIntegrity /\ OldestInFront /\ NothingFromTheFuture
  BY <1>1, <1>2 DEF ExclusiveOwnership, TasksExclusive, HeldNotPooled, PooledOnce,
                    KeyIntegrity, OldestInFront, NothingFromTheFuture
<1>4. PerHostLimit
  BY <1>1, StablingAssumption DEF PerHostLimit
<1>5. QueueHasEntry /\ NoEntryLeak /\ HeldMatchesPc
  BY <1>1, <1>2 DEF QueueHasEntry, NoEntryLeak, HeldMatchesPc, Init
<1> QED
  BY <1>3, <1>4, <1>5, TypeInit DEF IInv

\* The parts that speak only of the queues survive a step that leaves them alone.
LEMMA SameQueues ==
  ASSUME IInv, UNCHANGED <<idle, present, now>>
  PROVE  PooledOnce' /\ OldestInFront' /\ NothingFromTheFuture' /\ PerHostLimit' /\ QueueHasEntry'
<1>1. PooledOnce'
  BY DEF IInv, ExclusiveOwnership, PooledOnce
<1>2. OldestInFront'
  BY DEF IInv, OldestInFront
<1>3. NothingFromTheFuture'
  BY DEF IInv, NothingFromTheFuture
<1>4. PerHostLimit' /\ QueueHasEntry'
  BY DEF IInv, PerHostLimit, QueueHasEntry
<1> QED
  BY <1>1, <1>2, <1>3, <1>4

\* acquire of a key with no entry changes only the task.
LEMMA AcquireMissInv ==
  ASSUME IInv, NEW t \in Task, NEW k \in Key, AcquireMiss(t, k)
  PROVE  IInv'
<1>1. held[t] = NoDest /\ pc[t] = "reading"
  BY DEF IInv, HeldMatchesPc, AcquireMiss
<1>2. TypeOK'
  BY TypeStep DEF IInv, Next, TaskStep
<1>3. HeldMatchesPc'
  BY <1>1 DEF IInv, AcquireMiss, HeldMatchesPc, TypeOK
<1>4. KeyIntegrity'
  BY <1>1 DEF IInv, AcquireMiss, KeyIntegrity, TypeOK
<1>5. NoEntryLeak'
  BY <1>1 DEF IInv, AcquireMiss, NoEntryLeak, TypeOK
<1>6. PooledOnce' /\ OldestInFront' /\ NothingFromTheFuture' /\ PerHostLimit' /\ QueueHasEntry'
  BY SameQueues DEF AcquireMiss
<1>7. TasksExclusive' /\ HeldNotPooled'
  BY DEF IInv, AcquireMiss, ExclusiveOwnership, TasksExclusive, HeldNotPooled
<1> QED
  BY <1>2, <1>3, <1>4, <1>5, <1>6, <1>7 DEF IInv, ExclusiveOwnership

\* acquire moves one connection from its queue to one task.
LEMMA AcquireHitInv ==
  ASSUME IInv, NEW t \in Task, NEW k \in Key, AcquireHit(t, k)
  PROVE  IInv'
<1>1. /\ TypeOK /\ Shrinks /\ pc[t] = "reading" /\ held[t] = NoDest /\ k \in present
      /\ key' = [key EXCEPT ![t] = k] /\ UNCHANGED <<present, now, origin>>
  BY AcquireHitEffect DEF IInv, HeldMatchesPc, AcquireHit
<1>2. PICK p \in 1..Len(idle[k]) :
         /\ Len(idle'[k]) = p - 1
         /\ \A j \in 1..(p - 1) : idle'[k][j] = idle[k][j]
         /\ \A l \in Key \ {k} : idle'[l] = idle[l]
         /\ idle[k][p].dest \in Dest
         /\ held' = [held EXCEPT ![t] = idle[k][p].dest]
         /\ pc' = [pc EXCEPT ![t] = IF p = 1 THEN "removing" ELSE "using"]
  BY AcquireHitEffect DEF IInv
<1>3. TypeOK'
  BY TypeStep DEF IInv, Next, TaskStep
<1>4. held'[t] = idle[k][p].dest /\ \A u \in Task \ {t} : held'[u] = held[u] /\ pc'[u] = pc[u] /\ key'[u] = key[u]
  BY <1>1, <1>2 DEF TypeOK
<1>5. HeldMatchesPc'
  BY <1>1, <1>2, <1>4, StablingAssumption DEF IInv, HeldMatchesPc, TypeOK
<1>6. /\ PooledOnce' /\ OldestInFront' /\ NothingFromTheFuture' /\ PerHostLimit'
      /\ \A l \in Key : \A i \in 1..Len(idle'[l]) : origin'[idle'[l][i].dest] = l
  BY <1>1, ShrinkQueues
<1>7. TasksExclusive'
  BY <1>4 DEF IInv, TasksExclusive, ExclusiveOwnership, HeldNotPooled
<1>8. HeldNotPooled'
  <2> SUFFICES ASSUME NEW u \in Task, NEW l \in Key, NEW i \in 1..Len(idle'[l])
               PROVE  idle'[l][i].dest # held'[u]
    BY DEF HeldNotPooled
  <2>1. CASE u # t
    BY <1>1, <1>4, <2>1, ShrinkMembers DEF IInv, ExclusiveOwnership, HeldNotPooled
  <2>2. CASE u = t /\ l # k
    BY <1>2, <1>4, <2>2 DEF IInv, ExclusiveOwnership, PooledOnce
  <2>3. CASE u = t /\ l = k
    <3>1. i \in 1..Len(idle[k]) /\ i # p /\ idle'[k][i] = idle[k][i]
      BY <1>1, <1>2, <2>3, QueueEntries
    <3> QED
      BY <1>4, <2>3, <3>1 DEF IInv, ExclusiveOwnership, PooledOnce
  <2> QED
    BY <2>1, <2>2, <2>3
<1>9. KeyIntegrity'
  <2>1. origin[idle[k][p].dest] = k
    BY DEF IInv, KeyIntegrity
  <2>2. \A u \in Task : held'[u] # NoDest => origin'[held'[u]] = key'[u]
    BY <1>1, <1>4, <2>1 DEF IInv, KeyIntegrity, TypeOK
  <2> QED
    BY <1>6, <2>2 DEF KeyIntegrity
<1>10. QueueHasEntry'
  BY <1>1, <1>2 DEF IInv, QueueHasEntry
<1>11. NoEntryLeak'
  <2> SUFFICES ASSUME NEW l \in present, idle'[l] = <<>>
               PROVE  \E u \in Task : pc'[u] = "removing" /\ key'[u] = l
    BY <1>1 DEF NoEntryLeak
  <2>1. CASE l = k
    <3>1. p = 1
      BY <1>1, <1>2, <2>1, QueueEntries
    <3> QED
      BY <1>1, <1>2, <2>1, <3>1 DEF TypeOK
  <2>2. CASE l # k
    <3>1. PICK u \in Task : pc[u] = "removing" /\ key[u] = l
      BY <1>1, <1>2, <2>2 DEF IInv, NoEntryLeak, TypeOK
    <3> QED
      BY <1>1, <1>4, <3>1
  <2> QED
    BY <2>1, <2>2
<1> QED
  BY <1>3, <1>5, <1>6, <1>7, <1>8, <1>9, <1>10, <1>11 DEF IInv, ExclusiveOwnership

\* acquire that finds only expired connections drops them and keeps the entry
\* for the remove that follows.
LEMMA AcquireDrainedInv ==
  ASSUME IInv, NEW t \in Task, NEW k \in Key, AcquireDrained(t, k)
  PROVE  IInv'
<1>1. /\ TypeOK /\ pc[t] = "reading" /\ held[t] = NoDest /\ k \in present
      /\ idle' = [idle EXCEPT ![k] = <<>>]
      /\ pc' = [pc EXCEPT ![t] = "removing"]
      /\ key' = [key EXCEPT ![t] = k] /\ UNCHANGED <<present, now, held, origin>>
  BY DEF IInv, HeldMatchesPc, AcquireDrained
<1>2. Shrinks /\ \A l \in Key \ {k} : idle'[l] = idle[l]
  BY <1>1, EmptiesEffect
<1>3. TypeOK'
  BY TypeStep DEF IInv, Next, TaskStep
<1>4. /\ PooledOnce' /\ OldestInFront' /\ NothingFromTheFuture' /\ PerHostLimit'
      /\ \A l \in Key : \A i \in 1..Len(idle'[l]) : origin'[idle'[l][i].dest] = l
  BY <1>1, <1>2, ShrinkQueues
<1>5. HeldMatchesPc' /\ TasksExclusive'
  BY <1>1 DEF IInv, HeldMatchesPc, ExclusiveOwnership, TasksExclusive, TypeOK
<1>6. HeldNotPooled'
  BY <1>1, <1>2, ShrinkMembers DEF IInv, ExclusiveOwnership, HeldNotPooled
<1>7. KeyIntegrity'
  BY <1>1, <1>4 DEF IInv, KeyIntegrity, TypeOK
<1>8. QueueHasEntry'
  BY <1>1, <1>2 DEF IInv, QueueHasEntry
<1>9. NoEntryLeak'
  BY <1>1, <1>2 DEF IInv, NoEntryLeak, TypeOK
<1> QED
  BY <1>3, <1>4, <1>5, <1>6, <1>7, <1>8, <1>9 DEF IInv, ExclusiveOwnership

\* remove after an emptied queue drops the entry, and whatever another task
\* released into it in between.
LEMMA RemoveInv ==
  ASSUME IInv, NEW t \in Task, Remove(t)
  PROVE  IInv'
<1>1. /\ TypeOK /\ pc[t] = "removing" /\ key[t] \in Key
      /\ present' = present \ {key[t]}
      /\ idle' = [idle EXCEPT ![key[t]] = <<>>]
      /\ pc' = [pc EXCEPT ![t] = IF held[t] = NoDest THEN "routing" ELSE "using"]
      /\ UNCHANGED <<key, now, held, origin>>
  BY DEF IInv, TypeOK, Remove
<1>2. Shrinks /\ idle'[key[t]] = <<>> /\ \A l \in Key \ {key[t]} : idle'[l] = idle[l]
  BY <1>1, EmptiesEffect DEF TypeOK
<1>3. TypeOK'
  BY TypeStep DEF IInv, Next, TaskStep
<1>4. /\ PooledOnce' /\ OldestInFront' /\ NothingFromTheFuture' /\ PerHostLimit'
      /\ \A l \in Key : \A i \in 1..Len(idle'[l]) : origin'[idle'[l][i].dest] = l
  BY <1>1, <1>2, ShrinkQueues
<1>5. HeldMatchesPc' /\ TasksExclusive'
  BY <1>1 DEF IInv, HeldMatchesPc, ExclusiveOwnership, TasksExclusive, TypeOK
<1>6. HeldNotPooled'
  BY <1>1, <1>2, ShrinkMembers DEF IInv, ExclusiveOwnership, HeldNotPooled
<1>7. KeyIntegrity'
  BY <1>1, <1>4 DEF IInv, KeyIntegrity
<1>8. QueueHasEntry'
  BY <1>1, <1>2 DEF IInv, QueueHasEntry
<1>9. NoEntryLeak'
  BY <1>1, <1>2 DEF IInv, NoEntryLeak, TypeOK
<1> QED
  BY <1>3, <1>4, <1>5, <1>6, <1>7, <1>8, <1>9 DEF IInv, ExclusiveOwnership

\* A routed task holds a destination that nobody else has.
LEMMA RouteInv ==
  ASSUME IInv, NEW t \in Task, NEW d \in Dest, Route(t, d)
  PROVE  IInv'
<1>1. /\ TypeOK /\ pc[t] = "routing"
      /\ held' = [held EXCEPT ![t] = d]
      /\ origin' = [origin EXCEPT ![d] = key[t]]
      /\ pc' = [pc EXCEPT ![t] = "using"]
      /\ UNCHANGED <<idle, present, now, key>>
  BY DEF IInv, Route
<1>2. /\ \A k \in Key : \A i \in 1..Len(idle[k]) : idle[k][i].dest # d
      /\ \A u \in Task : held[u] # d
  BY DEF Route, Unowned, Pooled, Held
<1>3. TypeOK'
  BY TypeStep DEF IInv, Next, TaskStep
<1>4. HeldMatchesPc'
  BY <1>1, StablingAssumption DEF IInv, HeldMatchesPc, TypeOK
<1>5. TasksExclusive' /\ HeldNotPooled'
  BY <1>1, <1>2 DEF IInv, ExclusiveOwnership, TasksExclusive, HeldNotPooled, TypeOK
<1>6. KeyIntegrity'
  <2>1. \A u \in Task : held'[u] # NoDest => origin'[held'[u]] = key'[u]
    BY <1>1, <1>2 DEF IInv, KeyIntegrity, TypeOK
  <2>2. \A k \in Key : \A i \in 1..Len(idle'[k]) : origin'[idle'[k][i].dest] = k
    BY <1>1, <1>2, QueueEntries DEF IInv, KeyIntegrity, TypeOK
  <2> QED
    BY <2>1, <2>2 DEF KeyIntegrity
<1>7. PooledOnce' /\ OldestInFront' /\ NothingFromTheFuture' /\ PerHostLimit' /\ QueueHasEntry'
  BY <1>1, SameQueues
<1>8. NoEntryLeak'
  BY <1>1 DEF IInv, NoEntryLeak, TypeOK
<1> QED
  BY <1>3, <1>4, <1>5, <1>6, <1>7, <1>8 DEF IInv, ExclusiveOwnership

\* A task that drops its connection frees it.
LEMMA DropInv ==
  ASSUME IInv, NEW t \in Task, Drop(t) \/ RouteFail(t)
  PROVE  IInv'
<1>1. /\ TypeOK
      /\ \A u \in Task \ {t} : held'[u] = held[u] /\ pc'[u] = pc[u]
      /\ held'[t] = NoDest /\ pc'[t] = "reading"
      /\ pc[t] # "removing"
      /\ UNCHANGED <<idle, present, now, key, origin>>
  BY DEF IInv, HeldMatchesPc, TypeOK, Drop, RouteFail
<1>2. TypeOK'
  BY TypeStep DEF IInv, Next, TaskStep
<1>3. HeldMatchesPc'
  BY <1>1 DEF IInv, HeldMatchesPc
<1>4. TasksExclusive' /\ KeyIntegrity'
  BY <1>1 DEF IInv, ExclusiveOwnership, TasksExclusive, KeyIntegrity
<1>5. HeldNotPooled'
  BY <1>1, QueueEntries, StablingAssumption DEF IInv, ExclusiveOwnership, HeldNotPooled
<1>6. NoEntryLeak'
  <2> SUFFICES ASSUME NEW l \in present, idle[l] = <<>>
               PROVE  \E u \in Task : pc'[u] = "removing" /\ key[u] = l
    BY <1>1 DEF NoEntryLeak
  <2>1. PICK u \in Task : pc[u] = "removing" /\ key[u] = l
    BY DEF IInv, NoEntryLeak
  <2>2. u # t
    BY <1>1, <2>1
  <2> QED
    BY <1>1, <2>1, <2>2
<1>7. PooledOnce' /\ OldestInFront' /\ NothingFromTheFuture' /\ PerHostLimit' /\ QueueHasEntry'
  BY <1>1, SameQueues
<1> QED
  BY <1>2, <1>3, <1>4, <1>5, <1>6, <1>7 DEF IInv, ExclusiveOwnership

\* A release that pools the connection: the entries of the task's key are the
\* kept ones followed by the new one, which nobody else owned.
LEMMA ReleaseInv ==
  ASSUME IInv, NEW t \in Task, Release(t), Enabled
  PROVE  IInv'
<1> DEFINE k == key[t]
           conn == [dest |-> held[t], stabled_at |-> now]
<1>1. /\ TypeOK /\ k \in Key /\ held[t] \in Dest /\ now \in Nat
      /\ conn \in StabledConnection /\ conn.dest = held[t] /\ conn.stabled_at = now
      /\ \A l \in Key \ {k} : idle'[l] = idle[l]
  BY ReleaseEffect, ConnFields DEF IInv, TypeOK
<1>2. PICK kept \in Seq(StabledConnection) :
         /\ SubQueue(kept, idle[k])
         /\ Len(kept) + 1 <= IF MaxIdlePerHost = 0 THEN 1 ELSE MaxIdlePerHost
         /\ idle'[k] = Append(kept, conn)
  BY ReleaseEffect DEF IInv
<1>3. /\ pc[t] = "using" /\ present' = present \cup {k}
      /\ held' = [held EXCEPT ![t] = NoDest] /\ pc' = [pc EXCEPT ![t] = "reading"]
      /\ UNCHANGED <<now, key, origin>>
  BY DEF Release
<1>4. /\ \A u \in Task \ {t} : held'[u] = held[u] /\ pc'[u] = pc[u]
      /\ held'[t] = NoDest /\ pc'[t] = "reading"
  BY <1>1, <1>3 DEF TypeOK
<1> HIDE DEF conn, k
<1>5. /\ Len(kept) \in Nat
      /\ Len(idle'[k]) = Len(kept) + 1
      /\ idle'[k][Len(kept) + 1] = conn
      /\ \A i \in 1..Len(kept) : idle'[k][i] = kept[i]
  BY <1>1, <1>2
<1>6. PICK f \in [1..Len(kept) -> 1..Len(idle[k])] :
         /\ \A i, j \in 1..Len(kept) : i < j => f[i] < f[j]
         /\ \A i \in 1..Len(kept) : kept[i] = idle[k][f[i]]
  BY <1>2 DEF SubQueue
<1>7. /\ \A i \in 1..Len(kept) : /\ f[i] \in 1..Len(idle[k])
                                 /\ idle'[k][i] = idle[k][f[i]]
      /\ \A i \in 1..Len(idle'[k]) : i \in 1..Len(kept) \/ i = Len(kept) + 1
      /\ \A i \in 1..Len(kept) : i # Len(kept) + 1
      /\ idle'[k][Len(kept) + 1].dest = held[t]
      /\ idle'[k][Len(kept) + 1].stabled_at = now
  <2>1. \A i \in 1..Len(kept) : f[i] \in 1..Len(idle[k])
    BY <1>6
  <2>2. \A i \in 1..Len(kept) : idle'[k][i] = idle[k][f[i]]
    BY <1>5, <1>6
  <2>3. \A i \in 1..Len(idle'[k]) : i \in 1..Len(kept) \/ i = Len(kept) + 1
    BY <1>5
  <2>4. \A i \in 1..Len(kept) : i # Len(kept) + 1
    BY <1>5
  <2> QED
    BY <1>1, <1>5, <2>1, <2>2, <2>3, <2>4
<1>8. TypeOK'
  BY TypeStep DEF IInv, Next, TaskStep
<1>9. HeldMatchesPc'
  BY <1>4 DEF IInv, HeldMatchesPc
<1>10. TasksExclusive'
  BY <1>4 DEF IInv, ExclusiveOwnership, TasksExclusive
<1>11. HeldNotPooled'
  <2> SUFFICES ASSUME NEW u \in Task, NEW l \in Key, NEW i \in 1..Len(idle'[l])
               PROVE  idle'[l][i].dest # held'[u]
    BY DEF HeldNotPooled
  <2>1. CASE u = t
    <3>1. idle'[l] \in Seq(StabledConnection)
      BY <1>8 DEF TypeOK
    <3>2. idle'[l][i] \in StabledConnection
      BY <3>1
    <3>3. idle'[l][i].dest \in Dest
      BY <3>2, ConnFields
    <3> QED
      BY <1>4, <2>1, <3>3, StablingAssumption
  <2>2. CASE u # t /\ l # k
    BY <1>1, <1>4, <2>2 DEF IInv, ExclusiveOwnership, HeldNotPooled
  <2>3. CASE u # t /\ l = k /\ i = Len(kept) + 1
    <3>1. held[u] # held[t]
      BY <1>1, <2>3, StablingAssumption DEF IInv, ExclusiveOwnership, TasksExclusive
    <3> QED
      BY <1>4, <1>7, <2>3, <3>1
  <2>4. CASE u # t /\ l = k /\ i \in 1..Len(kept)
    <3>1. idle[k][f[i]].dest # held[u]
      BY <1>1, <1>7, <2>4 DEF IInv, ExclusiveOwnership, HeldNotPooled
    <3> QED
      BY <1>4, <1>7, <2>4, <3>1
  <2> QED
    BY <1>7, <2>1, <2>2, <2>3, <2>4
<1>12. PooledOnce'
  <2>1. \A l \in Key : \A r \in 1..Len(idle[l]) : idle[l][r].dest # held[t]
    BY DEF IInv, ExclusiveOwnership, HeldNotPooled
  <2>2. \A l, m \in Key : \A r \in 1..Len(idle[l]), p \in 1..Len(idle[m]) :
           idle[l][r].dest = idle[m][p].dest => l = m /\ r = p
    BY DEF IInv, ExclusiveOwnership, PooledOnce
  <2> SUFFICES ASSUME NEW l \in Key, NEW m \in Key,
                      NEW i \in 1..Len(idle'[l]), NEW j \in 1..Len(idle'[m]),
                      idle'[l][i].dest = idle'[m][j].dest
               PROVE  l = m /\ i = j
    BY DEF PooledOnce
  <2>3. CASE l # k /\ m # k
    <3>1. idle'[l] = idle[l] /\ idle'[m] = idle[m]
      BY <1>1, <2>3
    <3> QED
      BY <2>2, <3>1
  <2>4. CASE l = k /\ m # k
    <3>1. idle'[m] = idle[m]
      BY <1>1, <2>4
    <3>2. CASE i \in 1..Len(kept)
      BY <1>1, <1>7, <2>2, <2>4, <3>1, <3>2
    <3>3. CASE i = Len(kept) + 1
      BY <1>7, <2>1, <2>4, <3>1, <3>3
    <3> QED
      BY <1>7, <2>4, <3>2, <3>3
  <2>5. CASE l # k /\ m = k
    <3>1. idle'[l] = idle[l]
      BY <1>1, <2>5
    <3>2. CASE j \in 1..Len(kept)
      <4>1. idle'[k][j] = idle[k][f[j]] /\ f[j] \in 1..Len(idle[k])
        BY <1>7, <3>2
      <4>2. idle[l][i].dest = idle[k][f[j]].dest
        BY <2>5, <3>1, <4>1
      <4> QED
        BY <1>1, <2>2, <2>5, <3>1, <4>1, <4>2
    <3>3. CASE j = Len(kept) + 1
      BY <1>7, <2>1, <2>5, <3>1, <3>3
    <3> QED
      BY <1>7, <2>5, <3>2, <3>3
  <2>6. CASE l = k /\ m = k
    <3>1. CASE i \in 1..Len(kept) /\ j \in 1..Len(kept)
      <4>0. idle'[k][i] = idle[k][f[i]] /\ idle'[k][j] = idle[k][f[j]]
        BY <1>7, <3>1
      <4>1. f[i] = f[j]
        BY <1>1, <1>7, <2>2, <2>6, <3>1, <4>0
      <4>2. Len(idle[k]) \in Nat
        BY <1>1, QueueEntries
      <4>3. ~(i < j) /\ ~(j < i)
        BY <1>6, <1>7, <3>1, <4>1, <4>2
      <4> QED
        BY <1>5, <2>6, <3>1, <4>3
    <3>2. CASE i = Len(kept) + 1 /\ j \in 1..Len(kept)
      BY <1>1, <1>7, <2>1, <2>6, <3>2
    <3>3. CASE i \in 1..Len(kept) /\ j = Len(kept) + 1
      BY <1>1, <1>7, <2>1, <2>6, <3>3
    <3>4. CASE i = Len(kept) + 1 /\ j = Len(kept) + 1
      BY <2>6, <3>4
    <3> QED
      BY <1>7, <2>6, <3>1, <3>2, <3>3, <3>4
  <2> QED
    BY <2>3, <2>4, <2>5, <2>6
<1>13. KeyIntegrity'
  <2>1. \A u \in Task : held'[u] # NoDest => origin'[held'[u]] = key'[u]
    BY <1>3, <1>4 DEF IInv, KeyIntegrity
  <2>2. origin[held[t]] = k
    BY <1>1, StablingAssumption DEF IInv, KeyIntegrity, k
  <2>3. ASSUME NEW l \in Key, NEW i \in 1..Len(idle'[l]) PROVE origin'[idle'[l][i].dest] = l
    <3>1. CASE l # k
      BY <1>1, <1>3, <3>1 DEF IInv, KeyIntegrity
    <3>2. CASE l = k /\ i \in 1..Len(kept)
      <4>1. idle'[k][i] = idle[k][f[i]] /\ f[i] \in 1..Len(idle[k])
        BY <1>7, <3>2
      <4>2. origin[idle[k][f[i]].dest] = k
        BY <1>1, <4>1 DEF IInv, KeyIntegrity
      <4> QED
        BY <1>3, <3>2, <4>1, <4>2
    <3>3. CASE l = k /\ i = Len(kept) + 1
      BY <1>3, <1>7, <2>2, <3>3
    <3> QED
      BY <1>7, <3>1, <3>2, <3>3
  <2> QED
    BY <2>1, <2>3 DEF KeyIntegrity
<1>14. NothingFromTheFuture'
  <2> SUFFICES ASSUME NEW l \in Key, NEW i \in 1..Len(idle'[l])
               PROVE  idle'[l][i].stabled_at <= now
    BY <1>3 DEF NothingFromTheFuture
  <2>1. CASE l # k
    BY <1>1, <2>1 DEF IInv, NothingFromTheFuture
  <2>2. CASE l = k /\ i \in 1..Len(kept)
    BY <1>1, <1>7, <2>2 DEF IInv, NothingFromTheFuture
  <2>3. CASE l = k /\ i = Len(kept) + 1
    BY <1>1, <1>7, <2>3
  <2> QED
    BY <1>7, <2>1, <2>2, <2>3
<1>15. OldestInFront'
  <2> SUFFICES ASSUME NEW l \in Key, NEW i \in 1..Len(idle'[l]), NEW j \in 1..Len(idle'[l]), i <= j
               PROVE  idle'[l][i].stabled_at <= idle'[l][j].stabled_at
    BY DEF OldestInFront
  <2>1. CASE l # k
    BY <1>1, <2>1 DEF IInv, OldestInFront
  <2>2. CASE l = k /\ j = Len(kept) + 1
    BY <1>3, <1>7, <1>14, <2>2 DEF NothingFromTheFuture
  <2>3. CASE l = k /\ j \in 1..Len(kept)
    <3>1. i \in 1..Len(kept)
      BY <1>5, <2>3
    <3>2. Len(idle[k]) \in Nat
      BY <1>1, QueueEntries
    <3>3. f[i] <= f[j]
      <4>1. CASE i < j
        BY <1>6, <1>7, <2>3, <3>1, <3>2, <4>1
      <4>2. CASE i = j
        BY <1>7, <2>3, <3>2, <4>2
      <4> QED
        BY <1>5, <2>3, <3>1, <4>1, <4>2
    <3> QED
      BY <1>1, <1>7, <2>3, <3>1, <3>3 DEF IInv, OldestInFront
  <2> QED
    BY <1>7, <2>1, <2>2, <2>3
<1>16. PerHostLimit'
  BY <1>1, <1>2, <1>5 DEF IInv, PerHostLimit
<1>17. QueueHasEntry'
  BY <1>1, <1>3 DEF IInv, QueueHasEntry
<1>18. NoEntryLeak'
  <2>1. idle'[k] # <<>>
    BY <1>5
  <2> QED
    BY <1>1, <1>3, <1>4, <2>1 DEF IInv, NoEntryLeak, TypeOK
<1> QED
  BY <1>8, <1>9, <1>10, <1>11, <1>12, <1>13, <1>14, <1>15, <1>16, <1>17, <1>18
     DEF IInv, ExclusiveOwnership

\* The reaper treats one entry under its shard lock, and removes it if empty.
LEMMA ReapEntryInv ==
  ASSUME IInv, NEW k \in Key, ReapEntry(k)
  PROVE  IInv'
<1>1. /\ TypeOK
      /\ present' = IF FreshPositions(idle[k]) = {} THEN present \ {k} ELSE present
      /\ UNCHANGED <<now, pc, key, held, origin>>
  BY DEF IInv, ReapEntry
<1>2. /\ Shrinks /\ \A l \in Key \ {k} : idle'[l] = idle[l]
      /\ idle'[k] = <<>> <=> FreshPositions(idle[k]) = {}
  BY <1>1, ReapEffect
<1>3. TypeOK'
  BY TypeStep DEF IInv, Next
<1>4. /\ PooledOnce' /\ OldestInFront' /\ NothingFromTheFuture' /\ PerHostLimit'
      /\ \A l \in Key : \A i \in 1..Len(idle'[l]) : origin'[idle'[l][i].dest] = l
  BY <1>1, <1>2, ShrinkQueues
<1>5. HeldMatchesPc' /\ TasksExclusive'
  BY <1>1 DEF IInv, HeldMatchesPc, ExclusiveOwnership, TasksExclusive
<1>6. HeldNotPooled'
  BY <1>1, <1>2, ShrinkMembers DEF IInv, ExclusiveOwnership, HeldNotPooled
<1>7. KeyIntegrity'
  BY <1>1, <1>4 DEF IInv, KeyIntegrity
<1>8. QueueHasEntry'
  <2> SUFFICES ASSUME NEW l \in Key, idle'[l] # <<>> PROVE l \in present'
    BY DEF QueueHasEntry
  <2>1. CASE l # k
    BY <1>1, <1>2, <2>1 DEF IInv, QueueHasEntry
  <2>2. CASE l = k
    <3>1. FreshPositions(idle[k]) # {}
      BY <1>2, <2>2
    <3>2. idle[k] # <<>>
      BY <1>1, <3>1, QueueEntries DEF FreshPositions
    <3> QED
      BY <1>1, <2>2, <3>1, <3>2 DEF IInv, QueueHasEntry
  <2> QED
    BY <2>1, <2>2
<1>9. NoEntryLeak'
  BY <1>1, <1>2 DEF IInv, NoEntryLeak, TypeOK
<1> QED
  BY <1>3, <1>4, <1>5, <1>6, <1>7, <1>8, <1>9 DEF IInv, ExclusiveOwnership

\* The clock only makes connections older.
LEMMA TickInv ==
  ASSUME IInv, Tick
  PROVE  IInv'
<1>1. /\ TypeOK /\ now' = now + 1 /\ now \in Nat
      /\ UNCHANGED <<idle, present, pc, key, held, origin>>
  BY DEF IInv, TypeOK, Tick
<1>2. TypeOK'
  BY TypeStep DEF IInv, Next
<1>3. NothingFromTheFuture'
  <2> SUFFICES ASSUME NEW k \in Key, NEW i \in 1..Len(idle[k])
               PROVE  idle[k][i].stabled_at <= now + 1
    BY <1>1 DEF NothingFromTheFuture
  <2>1. idle[k][i].stabled_at \in Nat /\ idle[k][i].stabled_at <= now
    BY <1>1, QueueEntries DEF IInv, NothingFromTheFuture
  <2> QED
    BY <1>1, <2>1
<1>4. HeldMatchesPc' /\ TasksExclusive' /\ HeldNotPooled' /\ KeyIntegrity'
  BY <1>1 DEF IInv, HeldMatchesPc, ExclusiveOwnership, TasksExclusive, HeldNotPooled, KeyIntegrity
<1>5. PooledOnce' /\ NoEntryLeak'
  BY <1>1 DEF IInv, ExclusiveOwnership, PooledOnce, NoEntryLeak
<1>6. OldestInFront'
  BY <1>1 DEF IInv, OldestInFront
<1>7. PerHostLimit' /\ QueueHasEntry'
  BY <1>1 DEF IInv, PerHostLimit, QueueHasEntry
<1> QED
  BY <1>2, <1>3, <1>4, <1>5, <1>6, <1>7 DEF IInv, ExclusiveOwnership

\* Steps that leave the pool, the clock and the tasks alone.
LEMMA OtherInv ==
  ASSUME IInv, TypeOK', UNCHANGED <<idle, present, now, pc, key, held, origin>>
  PROVE  IInv'
<1>1. PooledOnce' /\ OldestInFront' /\ NothingFromTheFuture' /\ PerHostLimit' /\ QueueHasEntry'
  BY SameQueues
<1>2. HeldMatchesPc' /\ TasksExclusive' /\ HeldNotPooled' /\ KeyIntegrity'
  BY DEF IInv, HeldMatchesPc, ExclusiveOwnership, TasksExclusive, HeldNotPooled, KeyIntegrity
<1>3. NoEntryLeak'
  BY DEF IInv, NoEntryLeak
<1> QED
  BY <1>1, <1>2, <1>3 DEF IInv, ExclusiveOwnership

\* The inductive invariant is preserved by every step.
LEMMA InvStep == IInv /\ [Next]_vars => IInv'
<1> SUFFICES ASSUME IInv, [Next]_vars PROVE IInv'
  OBVIOUS
<1>1. TypeOK'
  BY TypeStep DEF IInv
<1>2. ASSUME NEW t \in Task, Release(t), ~Enabled PROVE IInv'
  <2>1. held' = [held EXCEPT ![t] = NoDest] /\ pc' = [pc EXCEPT ![t] = "reading"] /\ pc[t] = "using"
        /\ UNCHANGED <<idle, present, now, key, origin, toReap, reaper>>
    BY <1>2 DEF Release
  <2>2. Drop(t)
    BY <2>1 DEF Drop
  <2> QED
    BY <2>2, DropInv
<1>3. ASSUME NEW t \in Task, TaskStep(t) PROVE IInv'
  BY <1>2, <1>3, AcquireMissInv, AcquireHitInv, AcquireDrainedInv, RemoveInv, RouteInv, DropInv,
     ReleaseInv DEF TaskStep
<1>4. CASE ReapTick \/ Cancel \/ UNCHANGED vars
  BY <1>1, <1>4, OtherInv DEF ReapTick, Cancel, vars
<1> QED
  BY <1>3, <1>4, ReapEntryInv, TickInv DEF Next

-----------------------------------------------------------------------------
(* The theorems *)

\* The inductive invariant holds in every reachable state of the pool, for all
\* sets of tasks, keys and connections and all limits.
THEOREM InductiveInvariant == Spec => []IInv
<1>1. Init => IInv
  BY InvInit
<1>2. IInv /\ [Next]_vars => IInv'
  BY InvStep
<1> QED
  BY <1>1, <1>2, PTL DEF Spec

\* The state always has its type, whatever the tasks, the reaper and the clock do.
THEOREM TypeCorrect == Spec => []TypeOK
<1>1. IInv => TypeOK
  BY DEF IInv
<1> QED
  BY <1>1, InductiveInvariant, PTL

\* An upstream connection never has two owners, although acquire gives up the
\* lock of a queue before it removes the queue's entry.
THEOREM OwnershipIsExclusive == Spec => []ExclusiveOwnership
<1>1. IInv => ExclusiveOwnership
  BY DEF IInv
<1> QED
  BY <1>1, InductiveInvariant, PTL

\* A connection is only ever used for the routing key it was opened for.
THEOREM KeysNeverMix == Spec => []KeyIntegrity
<1>1. IInv => KeyIntegrity
  BY DEF IInv
<1> QED
  BY <1>1, InductiveInvariant, PTL

\* Queues are ordered by age, so that acquire's loop ends at the first fresh
\* connection and pop_front evicts the oldest one.
THEOREM QueuesAreOrdered == Spec => []OldestInFront
<1>1. IInv => OldestInFront
  BY DEF IInv
<1> QED
  BY <1>1, InductiveInvariant, PTL

\* max_idle_per_host bounds every queue (a limit of zero acts like one).
THEOREM PerHostLimitHolds == Spec => []PerHostLimit
<1>1. IInv => PerHostLimit
  BY DEF IInv
<1> QED
  BY <1>1, InductiveInvariant, PTL

\* Empty entries do not stay in the map.
THEOREM EntriesDoNotLeak == Spec => [](QueueHasEntry /\ NoEntryLeak)
<1>1. IInv => QueueHasEntry /\ NoEntryLeak
  BY DEF IInv
<1> QED
  BY <1>1, InductiveInvariant, PTL

-----------------------------------------------------------------------------
(* What a step may do with fresh connections *)

\* A task that gets a pooled connection gets it from acquire.
LEMMA FreshestStep ==
  ASSUME IInv, [Next]_vars, NEW t \in Task, held'[t] # held[t], held'[t] \in Pooled
  PROVE  \E i \in FreshPositions(idle[key'[t]]) :
           /\ idle[key'[t]][i].dest = held'[t]
           /\ \A j \in FreshPositions(idle[key'[t]]) :
                idle[key'[t]][j].stabled_at <= idle[key'[t]][i].stabled_at
<1>0. TypeOK /\ OldestInFront /\ NoDest \notin Pooled
  BY StablingAssumption DEF IInv, Pooled, StablingAssumption
<1>1. ~\E u \in Task : \E d \in Dest : Route(u, d)
  BY <1>0 DEF Route, Unowned, TypeOK
<1>2. ~\E u \in Task : Drop(u) \/ Release(u)
  BY <1>0 DEF Drop, Release, TypeOK
<1>3. PICK u \in Task, k \in Key : AcquireHit(u, k)
  <2>1. held' # held OBVIOUS
  <2> QED BY <1>1, <1>2, <2>1 DEF Next, TaskStep, AcquireMiss, AcquireDrained, Remove, RouteFail,
             ReapTick, ReapEntry, Cancel, Tick, vars
<1>4. PICK i \in FreshPositions(idle[k]) :
         /\ \A j \in FreshPositions(idle[k]) : j <= i
         /\ held' = [held EXCEPT ![u] = idle[k][i].dest]
  BY <1>3 DEF AcquireHit
<1>5. u = t /\ held'[t] = idle[k][i].dest /\ key'[t] = k
  BY <1>0, <1>3, <1>4 DEF AcquireHit, TypeOK
<1>6. \A j \in FreshPositions(idle[k]) : idle[k][j].stabled_at <= idle[k][i].stabled_at
  BY <1>0, <1>4 DEF OldestInFront, FreshPositions
<1> QED BY <1>4, <1>5, <1>6

\* acquire pops from the back of a queue ordered by release time: what it hands
\* out is the most recently released fresh connection of the key.
THEOREM AcquireTakesFreshest == Spec => TakesFreshest
<1>1. IInv /\ [Next]_vars =>
        [\A t \in Task :
           held'[t] # held[t] /\ held'[t] \in Pooled =>
             \E i \in FreshPositions(idle[key'[t]]) :
               /\ idle[key'[t]][i].dest = held'[t]
               /\ \A j \in FreshPositions(idle[key'[t]]) :
                    idle[key'[t]][j].stabled_at <= idle[key'[t]][i].stabled_at]_vars
  BY FreshestStep
<1> QED BY <1>1, InductiveInvariant, PTL DEF Spec, TakesFreshest

-----------------------------------------------------------------------------
(* How a fresh connection leaves the pool *)

\* A connection of a queue after the step is pooled after the step.
LEMMA InQueueNext ==
  ASSUME TypeOK', NEW k \in Key, NEW i \in 1..Len(idle'[k])
  PROVE  idle'[k][i].dest \in Pooled'
<1>1. idle'[k] \in Seq(StabledConnection) /\ Len(idle'[k]) \in Nat
  BY DEF TypeOK
<1>2. idle'[k][i] \in StabledConnection BY <1>1
<1>3. idle'[k][i].dest \in Dest BY <1>2, ConnFields
<1> QED BY <1>3 DEF Pooled

\* acquire keeps what lies in front of the connection it takes.
LEMMA HitKeeps ==
  ASSUME IInv, IInv', NEW t \in Task, NEW l \in Key, AcquireHit(t, l),
         NEW k \in Key, NEW i \in FreshPositions(idle[k])
  PROVE  idle[k][i].dest \in Pooled' \/ \E u \in Task : held'[u] = idle[k][i].dest
<1>0. TypeOK /\ TypeOK' /\ i \in 1..Len(idle[k])
  BY DEF IInv, FreshPositions
<1>1. PICK p \in FreshPositions(idle[l]) :
         /\ \A j \in FreshPositions(idle[l]) : j <= p
         /\ idle' = [idle EXCEPT ![l] = SubSeq(@, 1, p - 1)]
         /\ held' = [held EXCEPT ![t] = idle[l][p].dest]
  BY DEF AcquireHit
<1>2. CASE k # l
  <2>1. idle'[k] = idle[k] BY <1>0, <1>1, <1>2 DEF TypeOK
  <2> QED BY <1>0, <2>1, InQueueNext
<1>3. CASE k = l /\ i = p
  BY <1>0, <1>1, <1>3 DEF TypeOK
<1>4. CASE k = l /\ i # p
  <2>1. i \in Nat /\ p \in 1..Len(idle[k]) /\ i <= p /\ i \in 1..(p - 1)
    BY <1>0, <1>1, <1>4, QueueEntries DEF FreshPositions
  <2>2. idle'[k] = SubSeq(idle[k], 1, p - 1) BY <1>0, <1>1, <1>4 DEF TypeOK
  <2>3. Len(idle'[k]) = p - 1 /\ idle'[k][i] = idle[k][i]
    BY <1>0, <2>1, <2>2, QueueEntries
  <2>4. idle'[k][i].dest \in Pooled' BY <1>0, <2>1, <2>3, InQueueNext
  <2> QED BY <2>3, <2>4
<1> QED BY <1>2, <1>3, <1>4

\* release loses at most the first of a full queue.
LEMMA ReleaseKeeps ==
  ASSUME IInv, IInv', NEW t \in Task, Release(t), NEW k \in Key, NEW i \in 1..Len(idle[k])
  PROVE  \/ idle[k][i].dest \in Pooled'
         \/ i = 1 /\ Len(idle[k]) >= MaxIdlePerHost /\ key[t] = k /\ pc[t] = "using" /\ pc'[t] = "reading"
<1>0. TypeOK /\ TypeOK' /\ HeldMatchesPc BY DEF IInv
<1>1. CASE idle'[k] = idle[k]
  BY <1>0, <1>1, InQueueNext
<1>2. CASE idle'[k] # idle[k]
  <2> DEFINE q == idle[k]
             conn == [dest |-> held[t], stabled_at |-> now]
  <2>1. key[t] = k /\ Enabled /\ pc[t] = "using" /\ pc'[t] = "reading"
    BY <1>0, <1>2 DEF Release, TypeOK
  <2>2. q \in Seq(StabledConnection) /\ Len(q) \in Nat /\ conn \in StabledConnection
    <3>1. held[t] \in Dest /\ now \in Nat
      BY <1>0, <2>1 DEF HeldMatchesPc, TypeOK
    <3> QED BY <1>0, <3>1, QueueEntries, ConnFields
  <2>3. idle'[k] = Append(IF Len(q) >= MaxIdlePerHost /\ q # <<>> THEN Tail(q) ELSE q, conn)
    BY <1>0, <2>1 DEF Release, TypeOK
  <2> HIDE DEF q, conn
  <2>4. CASE Len(q) >= MaxIdlePerHost /\ q # <<>> /\ i # 1
    <3>1. /\ Tail(q) \in Seq(StabledConnection) /\ Len(Tail(q)) = Len(q) - 1
          /\ \A j \in 1..(Len(q) - 1) : Tail(q)[j] = q[j + 1]
      BY <2>2, <2>4
    <3>2. i \in 1..Len(q) /\ i - 1 \in 1..(Len(q) - 1) BY <2>2, <2>4 DEF q
    <3>3. Len(idle'[k]) = Len(q) /\ idle'[k][i - 1] = q[i] /\ i - 1 \in 1..Len(q)
      BY <2>2, <2>3, <2>4, <3>1, <3>2
    <3> QED BY <1>0, <3>3, InQueueNext DEF q
  <2>5. CASE ~(Len(q) >= MaxIdlePerHost /\ q # <<>>)
    <3>1. i \in 1..Len(q) BY DEF q
    <3>2. Len(idle'[k]) = Len(q) + 1 /\ idle'[k][i] = q[i] /\ i \in 1..(Len(q) + 1)
      BY <2>2, <2>3, <2>5, <3>1
    <3> QED BY <1>0, <3>2, InQueueNext DEF q
  <2> QED BY <2>1, <2>4, <2>5 DEF q
<1> QED BY <1>1, <1>2

\* retain keeps every fresh connection.
LEMMA ReapKeeps ==
  ASSUME IInv, IInv', NEW l \in Key, ReapEntry(l), NEW k \in Key, NEW i \in FreshPositions(idle[k])
  PROVE  idle[k][i].dest \in Pooled'
<1>0. TypeOK /\ TypeOK' /\ i \in 1..Len(idle[k])
  BY DEF IInv, FreshPositions
<1>1. PICK f \in Selections(idle[l], FreshPositions(idle[l])) :
         idle' = [idle EXCEPT ![l] = [j \in 1..Len(f) |-> idle[l][f[j]]]]
  BY DEF ReapEntry
<1>2. CASE k # l
  <2>1. idle'[k] = idle[k] BY <1>0, <1>1, <1>2 DEF TypeOK
  <2> QED BY <1>0, <2>1, InQueueNext
<1>3. CASE k = l
  <2>1. PICK n \in 0..Len(idle[k]) : f \in [1..n -> 1..Len(idle[k])]
    BY <1>1, <1>3 DEF Selections
  <2>2. PICK j \in 1..n : f[j] = i
    BY <1>1, <1>3, <2>1 DEF Selections
  <2>3. Len(f) = n /\ n \in Nat BY <2>1, <1>0, QueueEntries
  <2>4. idle'[k] = [m \in 1..n |-> idle[k][f[m]]]
    BY <1>0, <1>1, <1>3, <2>3 DEF TypeOK
  <2>5. Len(idle'[k]) = n /\ idle'[k][j] = idle[k][i]
    BY <2>2, <2>3, <2>4
  <2>6. idle'[k][j].dest \in Pooled' BY <1>0, <2>2, <2>5, InQueueNext
  <2> QED BY <2>5, <2>6
<1> QED BY <1>2, <1>3

\* What each step does to a fresh connection.
LEMMA FreshStep ==
  ASSUME IInv, IInv', [Next]_vars, NEW k \in Key, NEW i \in FreshPositions(idle[k])
  PROVE  \/ idle[k][i].dest \in Pooled'
         \/ LeavesByUseOrEviction(k, i)
         \/ \E t \in Task : pc[t] = "removing" /\ key[t] = k /\ pc'[t] # "removing"
<1>0. TypeOK /\ TypeOK' /\ i \in 1..Len(idle[k])
  BY DEF IInv, FreshPositions
<1>1. CASE idle'[k] = idle[k]
  BY <1>0, <1>1, InQueueNext
<1>2. ASSUME NEW t \in Task, NEW l \in Key, AcquireHit(t, l)
      PROVE  idle[k][i].dest \in Pooled' \/ LeavesByUseOrEviction(k, i)
  BY <1>2, HitKeeps DEF LeavesByUseOrEviction
<1>3. ASSUME NEW t \in Task, NEW l \in Key, AcquireDrained(t, l)
      PROVE  idle'[k] = idle[k]
  BY <1>0, <1>3 DEF AcquireDrained, TypeOK
<1>4. ASSUME NEW t \in Task, Remove(t)
      PROVE  idle'[k] = idle[k] \/ (pc[t] = "removing" /\ key[t] = k /\ pc'[t] # "removing")
  BY <1>0, <1>4 DEF Remove, TypeOK
<1>5. ASSUME NEW t \in Task, Release(t)
      PROVE  idle[k][i].dest \in Pooled' \/ LeavesByUseOrEviction(k, i)
  BY <1>0, <1>5, ReleaseKeeps DEF LeavesByUseOrEviction
<1>6. ASSUME NEW l \in Key, ReapEntry(l)
      PROVE  idle[k][i].dest \in Pooled'
  BY <1>6, ReapKeeps
<1>7. ASSUME NEW t \in Task, NEW l \in Key, AcquireMiss(t, l) PROVE idle'[k] = idle[k]
  BY <1>7 DEF AcquireMiss
<1>8. ASSUME NEW t \in Task,
             (\E d \in Dest : Route(t, d)) \/ RouteFail(t) \/ Drop(t)
      PROVE  idle'[k] = idle[k]
  BY <1>8 DEF Route, RouteFail, Drop
<1>9. CASE UNCHANGED vars \/ ReapTick \/ Cancel \/ Tick
  BY <1>1, <1>9 DEF vars, ReapTick, Cancel, Tick
<1> QED BY <1>1, <1>2, <1>3, <1>4, <1>5, <1>6, <1>7, <1>8, <1>9 DEF Next, TaskStep

\* A fresh connection leaves the pool by use, by eviction from a full queue, or by
\* the late idle.remove of an acquire, and never by reap_expired or by an
\* acquire that looks for another: the race of remove and release is the only
\* loss there is.
THEOREM FreshLossIsTheRace == Spec => FreshLostOnlyToRemove
<1>1. IInv /\ IInv' /\ [Next]_vars =>
        [\A k \in Key : \A i \in FreshPositions(idle[k]) :
            idle[k][i].dest \in Pooled'
            \/ LeavesByUseOrEviction(k, i)
            \/ \E t \in Task : pc[t] = "removing" /\ key[t] = k /\ pc'[t] # "removing"]_vars
  BY FreshStep
<1> QED BY <1>1, InductiveInvariant, PTL DEF Spec, FreshLostOnlyToRemove

-----------------------------------------------------------------------------
(* The pool implements the life cycle of a connection. Every step of the   *)
(* pool is mapped to the step of DestLifecycle it is: acquire to Take or   *)
(* Close, remove and reap to Close, route to Open, release to Park.        *)

\* Under which keys a connection is parked.
LEMMA ParkedKeys ==
  \A d \in Dest, k \in Key : k \in Parked[d] <=> \E i \in 1..Len(idle[k]) : idle[k][i].dest = d
BY DEF Parked

\* The same after a step.
LEMMA ParkedKeysNext ==
  \A d \in Dest, k \in Key : k \in Parked'[d] <=> \E i \in 1..Len(idle'[k]) : idle'[k][i].dest = d
BY DEF Parked

\* What the invariant says of a connection: it is parked only under the key it
\* was opened for, and not while it is held, which it is by at most one task.
LEMMA OnePlace ==
  ASSUME IInv, NEW d \in Dest
  PROVE  /\ Parked[d] \subseteq {origin[d]}
         /\ \A t \in Task : held[t] = d => Parked[d] = {} /\ Holders[d] = {t}
<1>1. Parked[d] \subseteq {origin[d]}
  BY ParkedKeys DEF Parked, IInv, KeyIntegrity
<1>2. ASSUME NEW t \in Task, held[t] = d PROVE Parked[d] = {}
  BY <1>2, ParkedKeys DEF Parked, IInv, ExclusiveOwnership, HeldNotPooled
<1>3. ASSUME NEW t \in Task, held[t] = d PROVE Holders[d] = {t}
  BY <1>3, StablingAssumption DEF Holders, IInv, ExclusiveOwnership, TasksExclusive, StablingAssumption
<1> QED BY <1>1, <1>2, <1>3

\* The same after a step.
LEMMA OnePlaceNext ==
  ASSUME IInv', NEW d \in Dest
  PROVE  /\ Parked'[d] \subseteq {origin'[d]}
         /\ \A t \in Task : held'[t] = d => Parked'[d] = {}
<1>1. Parked'[d] \subseteq {origin'[d]}
  BY ParkedKeysNext DEF Parked, IInv, KeyIntegrity
<1>2. ASSUME NEW t \in Task, held'[t] = d PROVE Parked'[d] = {}
  BY <1>2, ParkedKeysNext DEF Parked, IInv, ExclusiveOwnership, HeldNotPooled
<1> QED BY <1>1, <1>2

\* What leaves a queue is parked no more, and nothing else changes.
LEMMA ShrinkParked ==
  ASSUME TypeOK, Shrinks, NEW d \in Dest
  PROVE  Parked'[d] \subseteq Parked[d]
BY ShrinkMembers DEF Parked

\* Steps that only take connections out of queues close them.
LEMMA ShrinkCloses ==
  ASSUME IInv, Shrinks, held' = held, origin' = origin
  PROVE  \E S \in SUBSET Dest : Lifecycle!Close(S)
<1> DEFINE S == {d \in Dest : Parked'[d] # Parked[d]}
<1>1. Holders' = Holders
  BY DEF Holders
<1>2. ASSUME NEW d \in S PROVE Parked'[d] = {} /\ Holders[d] = {}
  <2>1. Parked'[d] \subseteq Parked[d] /\ Parked[d] \subseteq {origin[d]} /\ Parked'[d] # Parked[d]
    BY ShrinkParked, OnePlace DEF IInv
  <2>2. Parked'[d] = {} /\ Parked[d] # {} BY <2>1
  <2> QED BY <2>2, OnePlace DEF Holders
<1>3. Holders' = [d \in Dest |-> IF d \in S THEN {} ELSE Holders[d]]
  BY <1>1, <1>2 DEF Holders
<1>4. Parked' = [d \in Dest |-> IF d \in S THEN {} ELSE Parked[d]]
  BY <1>2 DEF Parked
<1>5. Lifecycle!Close(S)
  BY <1>3, <1>4 DEF Lifecycle!Close
<1> QED BY <1>5

\* acquire hands the connection it takes to the task and closes what lay behind.
LEMMA HitTakes ==
  ASSUME IInv, IInv', NEW t \in Task, NEW k \in Key, AcquireHit(t, k)
  PROVE  \E d \in Dest, S \in SUBSET Dest : Lifecycle!Take(d, t, S)
<1>0. TypeOK BY DEF IInv
<1>1. PICK i \in 1..Len(idle[k]) :
         /\ \A l \in Key \ {k} : idle'[l] = idle[l]
         /\ idle[k][i].dest \in Dest
         /\ held' = [held EXCEPT ![t] = idle[k][i].dest]
  BY <1>0, AcquireHitEffect
<1>2. Shrinks BY <1>0, AcquireHitEffect
<1> DEFINE d == idle[k][i].dest
           S == {e \in Dest : e # d /\ Parked'[e] # Parked[e]}
<1>3. d \in Dest /\ k \in Parked[d]
  BY <1>1, ParkedKeys
<1>4. origin[d] = k /\ Parked[d] = {origin[d]} /\ Holders[d] = {}
  <2>1. Parked[d] \subseteq {origin[d]} BY <1>3, OnePlace
  <2>2. \A u \in Task : held[u] # d BY <1>3, OnePlace
  <2> QED BY <1>3, <2>1, <2>2 DEF Holders
<1> HIDE DEF d
<1>5. held' = [held EXCEPT ![t] = d] /\ held[t] = NoDest /\ origin' = origin
  BY <1>1 DEF d, AcquireHit, IInv, HeldMatchesPc
<1>6. Holders' = [Holders EXCEPT ![d] = {t}]
  <2>1. \A u \in Task : held'[u] = IF u = t THEN d ELSE held[u]
    BY <1>0, <1>5 DEF TypeOK
  <2>2. \A e \in Dest : Holders'[e] = IF e = d THEN {t} ELSE Holders[e]
    <3>1. ASSUME NEW e \in Dest, e # d PROVE Holders'[e] = Holders[e]
      BY <2>1, <1>5, <3>1, StablingAssumption DEF Holders, StablingAssumption
    <3>2. Holders'[d] = {t}
      BY <2>1, <1>3, <1>4 DEF Holders
    <3> QED BY <3>1, <3>2
  <2> QED BY <1>3, <2>2 DEF Holders
<1>7. Parked'[d] = {}
  BY <1>0, <1>3, <1>5, OnePlaceNext DEF TypeOK
<1>8. ASSUME NEW e \in S PROVE Parked[e] = {origin[d]} /\ Parked'[e] = {}
  <2>1. Parked'[e] \subseteq Parked[e] /\ Parked[e] \subseteq {origin[e]} /\ Parked'[e] # Parked[e]
    BY <1>0, <1>2, ShrinkParked, OnePlace
  <2>2. Parked'[e] = {} /\ Parked[e] = {origin[e]} BY <2>1
  <2>3. origin[e] \in Key /\ origin[e] \in Parked[e] /\ origin[e] \notin Parked'[e]
    BY <2>2, <1>0 DEF TypeOK
  <2>4. origin[e] = k
    BY <1>1, <2>3, ParkedKeys, ParkedKeysNext
  <2> QED BY <1>4, <2>2, <2>4
<1>9. Parked' = [e \in Dest |-> IF e = d \/ e \in S THEN {} ELSE Parked[e]]
  <2>1. \A e \in Dest : Parked'[e] = IF e = d \/ e \in S THEN {} ELSE Parked[e]
    BY <1>7, <1>8
  <2>2. Parked' = [e \in Dest |-> Parked'[e]] BY DEF Parked
  <2> QED BY <2>1, <2>2
<1>10. Lifecycle!Take(d, t, S)
  BY <1>4, <1>5, <1>6, <1>8, <1>9 DEF Lifecycle!Take
<1> QED BY <1>3, <1>10

\* route opens a connection nobody has.
LEMMA RouteOpens ==
  ASSUME IInv, NEW t \in Task, NEW d \in Dest, Route(t, d)
  PROVE  Lifecycle!Open(d, t, key[t])
<1>1. Holders[d] = {} /\ Parked[d] = {}
  BY DEF Route, Unowned, Pooled, Held, Holders, Parked
<1>2. Parked' = Parked
  BY DEF Route, Parked
<1>3. \A u \in Task : held'[u] = IF u = t THEN d ELSE held[u]
  BY DEF Route, IInv, TypeOK
<1>4. held[t] = NoDest
  BY DEF Route, IInv, HeldMatchesPc
<1>5. \A e \in Dest : Holders'[e] = IF e = d THEN {t} ELSE Holders[e]
  <2>1. ASSUME NEW e \in Dest, e # d PROVE Holders'[e] = Holders[e]
    BY <1>3, <1>4, <2>1, StablingAssumption DEF Holders, StablingAssumption
  <2>2. Holders'[d] = {t}
    BY <1>1, <1>3 DEF Holders
  <2> QED BY <2>1, <2>2
<1>6. Holders' = [Holders EXCEPT ![d] = {t}]
  BY <1>5 DEF Holders
<1> QED BY <1>1, <1>2, <1>6 DEF Lifecycle!Open, Route

\* A task that lets go of a connection which does not go to the pool closes it.
LEMMA DropCloses ==
  ASSUME IInv, NEW t \in Task, pc[t] = "using", held' = [held EXCEPT ![t] = NoDest],
         idle' = idle, origin' = origin
  PROVE  \E S \in SUBSET Dest : Lifecycle!Close(S)
<1> DEFINE d == held[t]
<1>1. d \in Dest
  BY DEF IInv, HeldMatchesPc, TypeOK
<1>2. Parked' = Parked /\ Parked[d] = {} /\ Holders[d] = {t}
  BY <1>1, OnePlace DEF Parked
<1>3. \A u \in Task : held'[u] = IF u = t THEN NoDest ELSE held[u]
  BY DEF IInv, TypeOK
<1>4. \A e \in Dest : Holders'[e] = IF e \in {d} THEN {} ELSE Holders[e]
  <2>1. ASSUME NEW e \in Dest, e # d PROVE Holders'[e] = Holders[e]
    BY <1>3, <2>1, StablingAssumption DEF Holders, StablingAssumption
  <2>2. \A u \in Task : held'[u] # d
    <3>1. \A u \in Task : held[u] = d => u = t BY <1>1, <1>2 DEF Holders
    <3>2. d # NoDest BY <1>1, StablingAssumption DEF StablingAssumption
    <3> QED BY <1>3, <3>1, <3>2
  <2>3. \A e \in Dest : e = d => Holders'[e] = {}
    BY <2>2 DEF Holders
  <2> QED BY <2>1, <2>3
<1>5. Holders' = [e \in Dest |-> IF e \in {d} THEN {} ELSE Holders[e]]
  <2>1. Holders' = [e \in Dest |-> Holders'[e]] BY DEF Holders
  <2> QED BY <1>4, <2>1
<1>6. Parked' = [e \in Dest |-> IF e \in {d} THEN {} ELSE Parked[e]]
  BY <1>2 DEF Parked
<1>7. Lifecycle!Close({d})
  BY <1>5, <1>6 DEF Lifecycle!Close
<1> QED BY <1>1, <1>7

\* release parks the connection and closes what it evicts.
LEMMA ReleaseParks ==
  ASSUME IInv, IInv', NEW t \in Task, Release(t), Enabled
  PROVE  \E d \in Dest, S \in SUBSET Dest : Lifecycle!Park(d, t, S)
<1> DEFINE d == held[t]
           k == key[t]
           S == {e \in Dest : e # d /\ Parked'[e] # Parked[e]}
<1>0. TypeOK /\ HeldMatchesPc /\ PerHostLimit BY DEF IInv
<1>1. d \in Dest /\ k \in Key /\ \A l \in Key \ {k} : idle'[l] = idle[l]
  BY <1>0, ReleaseEffect DEF TypeOK
<1>2. PICK kept \in Seq(StabledConnection) :
         SubQueue(kept, idle[k]) /\ idle'[k] = Append(kept, [dest |-> d, stabled_at |-> now])
  BY <1>0, ReleaseEffect
<1>3. Holders[d] = {t} /\ Parked[d] = {} /\ origin' = origin
  BY <1>1, OnePlace DEF Release
<1>4. held' = [held EXCEPT ![t] = NoDest]
  BY DEF Release
<1> HIDE DEF d, k
<1>5. /\ Len(idle'[k]) = Len(kept) + 1 /\ Len(kept) \in Nat
      /\ \A i \in 1..Len(kept) : idle'[k][i] = kept[i]
      /\ idle'[k][Len(kept) + 1].dest = d
  BY <1>2, ConnFields
<1>6. k \in Parked'[d]
  <2>1. Len(kept) + 1 \in 1..Len(idle'[k]) BY <1>5
  <2> QED BY <1>1, <1>5, <2>1, ParkedKeysNext
<1>7. Parked'[d] = {origin[d]}
  BY <1>1, <1>3, <1>6, OnePlaceNext
<1>8. ASSUME NEW e \in Dest, e # d, k \in Parked'[e] PROVE k \in Parked[e]
  <2>1. PICK i \in 1..Len(idle'[k]) : idle'[k][i].dest = e
    BY <1>1, <1>8, ParkedKeysNext
  <2>2. i \in 1..Len(kept) /\ kept[i].dest = e
    BY <1>5, <1>8, <2>1
  <2>3. PICK j \in 1..Len(idle[k]) : kept[i] = idle[k][j]
    BY <1>2, <2>2 DEF SubQueue
  <2> QED BY <1>1, <2>2, <2>3, ParkedKeys
<1>9. ASSUME NEW e \in S PROVE Parked[e] = {origin[d]} /\ Parked'[e] = {}
  <2>1. \A l \in Key : l # k => (l \in Parked'[e] <=> l \in Parked[e])
    BY <1>1, ParkedKeys, ParkedKeysNext
  <2>2. k \in Parked[e] /\ k \notin Parked'[e]
    <3>1. Parked[e] \subseteq Key /\ Parked'[e] \subseteq Key BY DEF Parked
    <3>2. \E l \in Key : ~(l \in Parked'[e] <=> l \in Parked[e]) BY <3>1
    <3> QED BY <1>8, <2>1, <3>2
  <2>3. Parked[e] \subseteq {origin[e]} /\ Parked'[e] \subseteq {origin[e]}
    BY <1>3, OnePlace, OnePlaceNext
  <2>4. Parked[e] = {k} /\ Parked'[e] = {}
    BY <2>2, <2>3
  <2>5. origin[d] = k
    BY <1>6, <1>7
  <2> QED BY <2>4, <2>5
<1>10. Parked' = [e \in Dest |-> IF e = d THEN {origin[d]} ELSE IF e \in S THEN {} ELSE Parked[e]]
  <2>1. \A e \in Dest : Parked'[e] = IF e = d THEN {origin[d]} ELSE IF e \in S THEN {} ELSE Parked[e]
    BY <1>7, <1>9
  <2>2. Parked' = [e \in Dest |-> Parked'[e]] BY DEF Parked
  <2> QED BY <2>1, <2>2
<1>11. Holders' = [Holders EXCEPT ![d] = {}]
  <2>1. \A u \in Task : held'[u] = IF u = t THEN NoDest ELSE held[u]
    BY <1>0, <1>4 DEF TypeOK
  <2>2. \A u \in Task : held[u] = d => u = t BY <1>1, <1>3 DEF Holders
  <2>3. held[t] = d BY DEF d
  <2>4. ASSUME NEW e \in Dest, e # d PROVE Holders'[e] = Holders[e]
    BY <2>1, <2>3, <2>4, StablingAssumption DEF Holders, StablingAssumption
  <2>5. ASSUME NEW e \in Dest, e = d PROVE Holders'[e] = {}
    BY <2>1, <2>2, <2>5, StablingAssumption DEF Holders, StablingAssumption
  <2>6. \A e \in Dest : Holders'[e] = IF e = d THEN {} ELSE Holders[e] BY <2>4, <2>5
  <2> QED BY <1>1, <2>6 DEF Holders
<1>12. Lifecycle!Park(d, t, S)
  BY <1>3, <1>9, <1>10, <1>11 DEF Lifecycle!Park
<1> QED BY <1>1, <1>12

\* Every step of the pool is a step of the life cycle or leaves it alone.
LEMMA LifecycleStep ==
  ASSUME IInv, IInv', [Next]_vars
  PROVE  [Lifecycle!Next]_(Lifecycle!lifeVars)
<1> USE DEF Lifecycle!Next
<1>0. ASSUME UNCHANGED <<idle, held, origin>> PROVE UNCHANGED Lifecycle!lifeVars
  BY <1>0 DEF Lifecycle!lifeVars, Holders, Parked
<1>1. CASE UNCHANGED vars \/ ReapTick \/ Cancel \/ Tick
  BY <1>0, <1>1 DEF vars, ReapTick, Cancel, Tick
<1>2. ASSUME NEW k \in Key, ReapEntry(k) PROVE Lifecycle!Next
  BY <1>2, ReapEffect, ShrinkCloses DEF IInv, ReapEntry
<1>3. ASSUME NEW t \in Task, TaskStep(t) PROVE [Lifecycle!Next]_(Lifecycle!lifeVars)
  <2>1. ASSUME NEW k \in Key, AcquireMiss(t, k) PROVE UNCHANGED Lifecycle!lifeVars
    BY <1>0, <2>1 DEF AcquireMiss
  <2>2. ASSUME NEW k \in Key, AcquireHit(t, k) PROVE Lifecycle!Next
    BY <2>2, HitTakes
  <2>3. ASSUME NEW k \in Key, AcquireDrained(t, k) PROVE Lifecycle!Next
    BY <2>3, EmptiesEffect, ShrinkCloses DEF IInv, AcquireDrained
  <2>4. CASE Remove(t)
    <3>1. key[t] \in Key BY DEF IInv, TypeOK
    <3> QED BY <2>4, <3>1, EmptiesEffect, ShrinkCloses DEF IInv, Remove
  <2>5. ASSUME NEW d \in Dest, Route(t, d) PROVE Lifecycle!Next
    <3>1. key[t] \in Key BY DEF IInv, TypeOK
    <3> QED BY <2>5, <3>1, RouteOpens
  <2>6. CASE RouteFail(t)
    BY <1>0, <2>6 DEF RouteFail
  <2>7. CASE Drop(t)
    BY <2>7, DropCloses DEF Drop
  <2>8. CASE Release(t) /\ Enabled
    BY <2>8, ReleaseParks
  <2>9. CASE Release(t) /\ ~Enabled
    BY <2>9, DropCloses DEF Release
  <2> QED BY <1>3, <2>1, <2>2, <2>3, <2>4, <2>5, <2>6, <2>7, <2>8, <2>9 DEF TaskStep
<1> QED BY <1>1, <1>2, <1>3 DEF Next

\* The pool of stabling.rs, with acquire in two halves and reap_expired key by
\* key, implements the life cycle of DestLifecycle.
THEOREM PoolImplementsLifecycle == Spec => ImplementsLifecycle
<1>1. Init => Lifecycle!Init
  <2> SUFFICES ASSUME Init PROVE Lifecycle!Init
    OBVIOUS
  <2>1. \A t \in Task : held[t] = NoDest BY DEF Init
  <2>2. Holders = [d \in Dest |-> {}]
    BY <2>1, StablingAssumption DEF Holders, StablingAssumption
  <2>3. \A k \in Key : Len(idle[k]) = 0 BY DEF Init
  <2>4. Parked = [d \in Dest |-> {}]
    BY <2>3 DEF Parked
  <2> QED BY <2>2, <2>4 DEF Init, Lifecycle!Init
<1>2. IInv /\ IInv' /\ [Next]_vars => [Lifecycle!Next]_(Lifecycle!lifeVars)
  BY LifecycleStep
<1> QED BY <1>1, <1>2, InductiveInvariant, PTL DEF Spec, ImplementsLifecycle, Lifecycle!Spec
===============================================================================
