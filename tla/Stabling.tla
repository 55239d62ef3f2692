------------------------------- MODULE Stabling -------------------------------
(***************************************************************************)
(* The pool of idle upstream connections (train_track/src/core/stabling.rs)*)
(* as the connection tasks of Pipeline::do_connection and the reaper task  *)
(* of Service::run use it.                                                 *)
(*                                                                         *)
(* The pool is a DashMap: every access to one entry runs under the lock of *)
(* the entry's shard, so each lock-protected section is one action here.   *)
(* What a task does after it dropped the entry guard is a step of its own: *)
(* acquire drops the guard of a queue it emptied and only then calls       *)
(* idle.remove, and any other task may run in between.                     *)
(***************************************************************************)
EXTENDS Integers, Sequences, FiniteSets

CONSTANTS
  Task,             \* connection tasks (JoinSet members of Service::run)
  Key,              \* routing keys
  Dest,             \* upstream connections that can be open at once
  NoDest,           \* "holds no upstream connection"
  Enabled,          \* StablingConfig.enabled
  MaxIdlePerHost,   \* StablingConfig.max_idle_per_host
  IdleTimeout,      \* StablingConfig.idle_timeout, in clock ticks
  MaxTime           \* bound on the clock

ASSUME StablingAssumption ==
  /\ NoDest \notin Dest
  /\ Enabled \in BOOLEAN
  /\ MaxIdlePerHost \in Nat
  /\ IdleTimeout \in Nat
  /\ MaxTime \in Nat

VARIABLES
  idle,      \* the queues: Key -> Seq of stabled connections
  present,   \* the keys that have an entry in the DashMap (its queue may be empty)
  now,       \* Instant::now()
  pc,        \* where each task is in its request cycle
  key,       \* routing_key of the task's current cycle
  held,      \* the upstream connection the task owns
  origin,    \* history: the routing key each connection was routed for
  toReap,    \* the keys the current reap_expired pass has still to visit
  reaper     \* the reaper task; it stops when the CancellationToken is cancelled

poolVars == <<idle, present>>
taskVars == <<pc, key, held, origin>>
reapVars == <<toReap, reaper>>
vars == <<idle, present, now, pc, key, held, origin, toReap, reaper>>

StabledConnection == [dest : Dest, stabled_at : Nat]

-----------------------------------------------------------------------------
(* Helpers *)

\* conn.stabled_at.elapsed() < idle_timeout
IsFresh(conn) == now - conn.stabled_at < IdleTimeout

FreshPositions(q) == {i \in 1..Len(q) : IsFresh(q[i])}

Pooled == {d \in Dest : \E k \in Key : \E i \in 1..Len(idle[k]) : idle[k][i].dest = d}
Held == {d \in Dest : \E t \in Task : held[t] = d}

\* Connections that do not exist now: never opened, or dropped (closed) since.
Unowned == Dest \ (Pooled \cup Held)

\* The strictly increasing enumerations of the positions P of a sequence.
Selections(q, P) ==
  {f \in UNION {[1..n -> 1..Len(q)] : n \in 0..Len(q)} :
      /\ \A i, j \in DOMAIN f : i < j => f[i] < f[j]
      /\ \A p \in P : \E i \in DOMAIN f : f[i] = p
      /\ \A i \in DOMAIN f : f[i] \in P}

-----------------------------------------------------------------------------
Init ==
  /\ idle = [k \in Key |-> <<>>]
  /\ present = {}
  /\ now = 0
  /\ pc = [t \in Task |-> "reading"]
  /\ key \in [Task -> Key]
  /\ held = [t \in Task |-> NoDest]
  /\ origin \in [Dest -> Key]
  /\ toReap = {}
  /\ reaper = "running"

\* acquire, no entry for the key (or pooling disabled): None, go on to route.
AcquireMiss(t, k) ==
  /\ pc[t] = "reading"
  /\ ~Enabled \/ k \notin present
  /\ pc' = [pc EXCEPT ![t] = "routing"]
  /\ key' = [key EXCEPT ![t] = k]
  /\ UNCHANGED <<idle, present, now, held, origin, toReap, reaper>>

\* Variants of acquire: the connection stays in the queue; the routing key of
\* the last cycle is used; the oldest fresh connection is taken.
AcquireHitPeek(t, k) ==
  /\ pc[t] = "reading"
  /\ Enabled /\ k \in present
  /\ \E i \in FreshPositions(idle[k]) :
       /\ \A j \in FreshPositions(idle[k]) : j <= i
       /\ idle' = [idle EXCEPT ![k] = SubSeq(@, 1, i)]
       /\ held' = [held EXCEPT ![t] = idle[k][i].dest]
  /\ pc' = [pc EXCEPT ![t] = "using"]
  /\ key' = [key EXCEPT ![t] = k]
  /\ UNCHANGED <<present, now, origin, toReap, reaper>>

AcquireHitStaleKey(t, k) ==
  /\ pc[t] = "reading"
  /\ Enabled /\ k \in present
  /\ \E i \in FreshPositions(idle[k]) :
       /\ \A j \in FreshPositions(idle[k]) : j <= i
       /\ idle' = [idle EXCEPT ![k] = SubSeq(@, 1, i - 1)]
       /\ held' = [held EXCEPT ![t] = idle[k][i].dest]
  /\ pc' = [pc EXCEPT ![t] = "using"]
  /\ UNCHANGED <<present, now, key, origin, toReap, reaper>>

AcquireHitOldest(t, k) ==
  /\ pc[t] = "reading"
  /\ Enabled /\ k \in present
  /\ \E i \in FreshPositions(idle[k]) :
       /\ \A j \in FreshPositions(idle[k]) : i <= j
       /\ idle' = [idle EXCEPT ![k] = SubSeq(@, i + 1, Len(@))]
       /\ held' = [held EXCEPT ![t] = idle[k][i].dest]
       /\ pc' = [pc EXCEPT ![t] = IF i = Len(idle[k]) THEN "removing" ELSE "using"]
  /\ key' = [key EXCEPT ![t] = k]
  /\ UNCHANGED <<present, now, origin, toReap, reaper>>

\* acquire, locked section: pop_back until a connection is fresh; the expired
\* ones popped on the way are dropped. A task that emptied the queue has
\* dropped the guard and still has to call remove.
AcquireHit(t, k) ==
  /\ pc[t] = "reading"
  /\ Enabled /\ k \in present
  /\ \E i \in FreshPositions(idle[k]) :
       /\ \A j \in FreshPositions(idle[k]) : j <= i
       /\ idle' = [idle EXCEPT ![k] = SubSeq(@, 1, i - 1)]
       /\ held' = [held EXCEPT ![t] = idle[k][i].dest]
       /\ pc' = [pc EXCEPT ![t] = IF i = 1 THEN "removing" ELSE "using"]
  /\ key' = [key EXCEPT ![t] = k]
  /\ UNCHANGED <<present, now, origin, toReap, reaper>>

\* A variant that forgets to remove the entry it has drained.
AcquireDrainedKeepsEntry(t, k) ==
  /\ pc[t] = "reading"
  /\ Enabled /\ k \in present
  /\ FreshPositions(idle[k]) = {}
  /\ idle' = [idle EXCEPT ![k] = <<>>]
  /\ pc' = [pc EXCEPT ![t] = "routing"]
  /\ key' = [key EXCEPT ![t] = k]
  /\ UNCHANGED <<present, now, held, origin, toReap, reaper>>

\* acquire, locked section when nothing in the queue is fresh: all of it is
\* popped and dropped, then the guard is dropped.
AcquireDrained(t, k) ==
  /\ pc[t] = "reading"
  /\ Enabled /\ k \in present
  /\ FreshPositions(idle[k]) = {}
  /\ idle' = [idle EXCEPT ![k] = <<>>]
  /\ pc' = [pc EXCEPT ![t] = "removing"]
  /\ key' = [key EXCEPT ![t] = k]
  /\ UNCHANGED <<present, now, held, origin, toReap, reaper>>

\* acquire, idle.remove(&key): drops the entry and whatever it holds by now.
Remove(t) ==
  /\ pc[t] = "removing"
  /\ present' = present \ {key[t]}
  /\ idle' = [idle EXCEPT ![key[t]] = <<>>]
  /\ pc' = [pc EXCEPT ![t] = IF held[t] = NoDest THEN "routing" ELSE "using"]
  /\ UNCHANGED <<now, key, held, origin, toReap, reaper>>

\* router.route opened a new connection for the task's routing key.
Route(t, d) ==
  /\ pc[t] = "routing"
  /\ d \in Unowned
  /\ held' = [held EXCEPT ![t] = d]
  /\ origin' = [origin EXCEPT ![d] = key[t]]
  /\ pc' = [pc EXCEPT ![t] = "using"]
  /\ UNCHANGED <<idle, present, now, key, toReap, reaper>>

\* router.route failed: the task answers the client and ends (a new client
\* connection may take its place).
RouteFail(t) ==
  /\ pc[t] = "routing"
  /\ pc' = [pc EXCEPT ![t] = "reading"]
  /\ UNCHANGED <<idle, present, now, key, held, origin, toReap, reaper>>

\* The cycle ends without release: an error return, Connection: close, or the
\* task aborted at an await. The connection is dropped.
Drop(t) ==
  /\ pc[t] = "using"
  /\ held' = [held EXCEPT ![t] = NoDest]
  /\ pc' = [pc EXCEPT ![t] = "reading"]
  /\ UNCHANGED <<idle, present, now, key, origin, toReap, reaper>>

\* Variants of release: in all of them `queue` is what the entry becomes.
ReleaseAs(t, queue, holder) ==
  /\ pc[t] = "using"
  /\ held' = [held EXCEPT ![t] = holder]
  /\ pc' = [pc EXCEPT ![t] = "reading"]
  /\ idle' = [idle EXCEPT ![key[t]] = queue]
  /\ present' = present \cup {key[t]}
  /\ UNCHANGED <<now, key, origin, toReap, reaper>>

Evicted(t) == IF Len(idle[key[t]]) >= MaxIdlePerHost /\ idle[key[t]] # <<>>
                THEN Tail(idle[key[t]]) ELSE idle[key[t]]
Stabled(d) == [dest |-> d, stabled_at |-> now]

\* The limit is off by one; the task keeps the connection.
ReleaseOverLimit(t) ==
  LET q == idle[key[t]]
  IN ReleaseAs(t, Append(IF Len(q) > MaxIdlePerHost THEN Tail(q) ELSE q, Stabled(held[t])), NoDest)
ReleaseShared(t) == ReleaseAs(t, Append(Evicted(t), Stabled(held[t])), held[t])

\* release: under the entry lock, evict the oldest when the queue is full, then
\* push the connection at the back. With pooling disabled it is dropped.
Release(t) ==
  LET q == idle[key[t]]
      kept == IF Len(q) >= MaxIdlePerHost /\ q # <<>> THEN Tail(q) ELSE q
      conn == [dest |-> held[t], stabled_at |-> now]
  IN /\ pc[t] = "using"
     /\ held' = [held EXCEPT ![t] = NoDest]
     /\ pc' = [pc EXCEPT ![t] = "reading"]
     /\ idle' = IF Enabled THEN [idle EXCEPT ![key[t]] = Append(kept, conn)] ELSE idle
     /\ present' = IF Enabled THEN present \cup {key[t]} ELSE present
     /\ UNCHANGED <<now, key, origin, toReap, reaper>>

\* Reaper task: the interval ticks and a reap_expired pass begins.
ReapTick ==
  /\ reaper = "running"
  /\ toReap = {}
  /\ toReap' = Key
  /\ UNCHANGED <<idle, present, now, pc, key, held, origin, reaper>>

\* Variants of reap_expired: one expired connection clears the whole queue, or
\* the connections are never filtered.
ReapEntryAll(k) ==
  LET expired == FreshPositions(idle[k]) # 1..Len(idle[k])
  IN /\ k \in toReap
     /\ toReap' = toReap \ {k}
     /\ idle' = IF expired THEN [idle EXCEPT ![k] = <<>>] ELSE idle
     /\ present' = IF expired \/ idle[k] = <<>> THEN present \ {k} ELSE present
     /\ UNCHANGED <<now, pc, key, held, origin, reaper>>

ReapEntryKeepsAll(k) ==
  /\ k \in toReap
  /\ toReap' = toReap \ {k}
  /\ UNCHANGED <<idle, present, now, pc, key, held, origin, reaper>>

\* reap_expired on one entry: keep the fresh connections, drop the entry when
\* none is left. DashMap::retain locks one shard at a time.
ReapEntry(k) ==
  LET q == idle[k]
  IN /\ k \in toReap
     /\ toReap' = toReap \ {k}
     /\ \E f \in Selections(q, FreshPositions(q)) :
          idle' = [idle EXCEPT ![k] = [i \in 1..Len(f) |-> q[f[i]]]]
     /\ present' = IF FreshPositions(q) = {} THEN present \ {k} ELSE present
     /\ UNCHANGED <<now, pc, key, held, origin, reaper>>

\* Shutdown: the reaper's select takes the cancelled branch and the loop ends.
\* A pass that is under way is synchronous and runs to its end.
Cancel ==
  /\ reaper = "running"
  /\ reaper' = "stopped"
  /\ UNCHANGED <<idle, present, now, pc, key, held, origin, toReap>>

Tick ==
  /\ now < MaxTime
  /\ now' = now + 1
  /\ UNCHANGED <<idle, present, pc, key, held, origin, toReap, reaper>>

TaskStep(t) ==
  \/ \E k \in Key : AcquireMiss(t, k) \/ AcquireHit(t, k) \/ AcquireDrained(t, k)
  \/ Remove(t)
  \/ \E d \in Dest : Route(t, d)
  \/ RouteFail(t)
  \/ Drop(t)
  \/ Release(t)

Next ==
  \/ \E t \in Task : TaskStep(t)
  \/ ReapTick
  \/ \E k \in Key : ReapEntry(k)
  \/ Cancel
  \/ Tick

\* tokio polls the reaper task again and again, and a task between the two
\* halves of acquire does not wait for anything.
Fairness ==
  /\ WF_vars(ReapTick)
  /\ \A k \in Key : WF_vars(ReapEntry(k))
  /\ \A t \in Task : WF_vars(Remove(t))

Spec == Init /\ [][Next]_vars
FairSpec == Spec /\ Fairness
-----------------------------------------------------------------------------
(* Properties *)

TypeOK ==
  /\ idle \in [Key -> Seq(StabledConnection)]
  /\ present \in SUBSET Key
  /\ now \in Nat
  /\ pc \in [Task -> {"reading", "removing", "routing", "using"}]
  /\ key \in [Task -> Key]
  /\ held \in [Task -> Dest \cup {NoDest}]
  /\ origin \in [Dest -> Key]
  /\ toReap \in SUBSET Key
  /\ reaper \in {"running", "stopped"}

\* An upstream connection has one owner: two tasks never hold the same one, a
\* connection a task holds is not in the pool, and the pool never lists a
\* connection twice. Otherwise two requests would be written to one socket at
\* once. (D is moved out of the queue by pop_back and into it by push_back.)
TasksExclusive ==
  \A t, u \in Task : held[t] = held[u] /\ held[t] # NoDest => t = u
HeldNotPooled ==
  \A t \in Task, k \in Key : \A i \in 1..Len(idle[k]) : idle[k][i].dest # held[t]
PooledOnce ==
  \A k, l \in Key : \A i \in 1..Len(idle[k]), j \in 1..Len(idle[l]) :
     idle[k][i].dest = idle[l][j].dest => k = l /\ i = j
ExclusiveOwnership == TasksExclusive /\ HeldNotPooled /\ PooledOnce

\* The connection a task uses, and every connection filed under a key, was
\* routed for that key: a request never goes out on a connection opened for
\* another one, whatever was pooled, evicted and reused before.
KeyIntegrity ==
  /\ \A t \in Task : held[t] # NoDest => origin[held[t]] = key[t]
  /\ \A k \in Key : \A i \in 1..Len(idle[k]) : origin[idle[k][i].dest] = k

\* Every queue is ordered by the time of release, oldest in front. acquire's
\* loop and release's pop_front (evict the oldest) both rely on it.
OldestInFront ==
  \A k \in Key : \A i, j \in 1..Len(idle[k]) :
     i <= j => idle[k][i].stabled_at <= idle[k][j].stabled_at

NothingFromTheFuture ==
  \A k \in Key : \A i \in 1..Len(idle[k]) : idle[k][i].stabled_at <= now

\* A key never has more than max_idle_per_host idle connections; a limit of
\* zero still keeps one, because release evicts before it pushes.
PerHostLimit ==
  \A k \in Key : Len(idle[k]) <= IF MaxIdlePerHost = 0 THEN 1 ELSE MaxIdlePerHost

\* Connections are only in queues the map can find.
QueueHasEntry == \A k \in Key : idle[k] # <<>> => k \in present

\* The map keeps no empty entry behind: one that is empty is about to be
\* removed by a task that is between the two halves of acquire. The keys are
\* whole request lines, so leaked entries would grow without bound.
NoEntryLeak ==
  \A k \in present :
     idle[k] = <<>> => \E t \in Task : pc[t] = "removing" /\ key[t] = k

\* A task owns a connection exactly when its cycle is past acquire or route.
HeldMatchesPc ==
  \A t \in Task : /\ pc[t] \in {"reading", "routing"} => held[t] = NoDest
                  /\ pc[t] = "using" => held[t] # NoDest

\* The inductive invariant: the parts above support each other.
IInv ==
  /\ TypeOK
  /\ HeldMatchesPc
  /\ ExclusiveOwnership
  /\ KeyIntegrity
  /\ OldestInFront
  /\ NothingFromTheFuture
  /\ PerHostLimit
  /\ QueueHasEntry
  /\ NoEntryLeak

\* A task that takes a connection from the pool gets a fresh one, and the most
\* recently released fresh one of its key.
TakesFreshest ==
  [][\A t \in Task :
       held'[t] # held[t] /\ held'[t] \in Pooled =>
         \E i \in FreshPositions(idle[key'[t]]) :
           /\ idle[key'[t]][i].dest = held'[t]
           /\ \A j \in FreshPositions(idle[key'[t]]) :
                idle[key'[t]][j].stabled_at <= idle[key'[t]][i].stabled_at]_vars

\* What may take a fresh connection out of the pool: a task that uses it, the
\* eviction of the oldest connection of a full queue, ...
LeavesByUseOrEviction(k, i) ==
  \/ \E t \in Task : held'[t] = idle[k][i].dest
  \/ i = 1 /\ Len(idle[k]) >= MaxIdlePerHost /\ \E t \in Task : key[t] = k /\ pc[t] = "using" /\ pc'[t] = "reading"

\* ... or the remove call of an acquire that had found the queue empty: a fresh
\* connection is lost in no other way, in particular never to the reaper or to
\* an acquire that looks for a fresh one.
FreshLostOnlyToRemove ==
  [][\A k \in Key : \A i \in FreshPositions(idle[k]) :
        idle[k][i].dest \in Pooled'
        \/ LeavesByUseOrEviction(k, i)
        \/ \E t \in Task : pc[t] = "removing" /\ key[t] = k /\ pc'[t] # "removing"]_vars

\* Every expired connection leaves the pool, by the reaper if by nobody else,
\* until the service shuts down.
Expired == {d \in Dest : \E k \in Key : \E i \in 1..Len(idle[k]) :
                            idle[k][i].dest = d /\ ~IsFresh(idle[k][i])}
ExpiredIsReaped ==
  \A d \in Dest : d \in Expired ~> (d \notin Expired \/ reaper = "stopped")

-----------------------------------------------------------------------------
(* The pool implements the life cycle of a connection: who holds it, under   *)
(* which key it is parked, and for which key it was opened.                  *)
Holders == [d \in Dest |-> {t \in Task : held[t] = d}]
Parked == [d \in Dest |-> {k \in Key : \E i \in 1..Len(idle[k]) : idle[k][i].dest = d}]

Lifecycle == INSTANCE DestLifecycle WITH holders <- Holders, parked <- Parked, bound <- origin

\* The whole pool, fine-grained locking included, only ever moves a connection
\* along the life cycle of DestLifecycle.
ImplementsLifecycle == Lifecycle!Spec
===============================================================================
