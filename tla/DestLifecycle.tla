----------------------------- MODULE DestLifecycle -----------------------------
(***************************************************************************)
(* What the rest of the proxy may assume about upstream connections, however*)
(* the pool stores and locks them: a connection is opened for one routing   *)
(* key, has at most one user, is parked under the key it was opened for     *)
(* only by its user, and is handed from the pool to one user at a time. At  *)
(* any moment connections may be closed.                                    *)
(***************************************************************************)
CONSTANTS Task, Key, Dest

VARIABLES
  holders,  \* the tasks that hold a connection
  parked,   \* the keys a connection is filed under in the pool
  bound     \* the key a connection was opened for

lifeVars == <<holders, parked, bound>>

Init ==
  /\ holders = [d \in Dest |-> {}]
  /\ parked = [d \in Dest |-> {}]
  /\ bound \in [Dest -> Key]

Open(d, t, k) ==
  /\ holders[d] = {} /\ parked[d] = {}
  /\ holders' = [holders EXCEPT ![d] = {t}]
  /\ bound' = [bound EXCEPT ![d] = k]
  /\ UNCHANGED parked

\* The holder gives the connection to the pool, which may close others of the
\* same key to make room.
Park(d, t, S) ==
  /\ holders[d] = {t} /\ parked[d] = {}
  /\ holders' = [holders EXCEPT ![d] = {}]
  /\ parked' = [e \in Dest |-> IF e = d THEN {bound[d]} ELSE IF e \in S THEN {} ELSE parked[e]]
  /\ \A e \in S : parked[e] = {bound[d]}
  /\ UNCHANGED bound

\* The pool hands a connection to a task and may close others of the same key.
Take(d, t, S) ==
  /\ holders[d] = {} /\ parked[d] = {bound[d]}
  /\ holders' = [holders EXCEPT ![d] = {t}]
  /\ parked' = [e \in Dest |-> IF e = d \/ e \in S THEN {} ELSE parked[e]]
  /\ \A e \in S : parked[e] = {bound[d]}
  /\ UNCHANGED bound

Close(S) ==
  /\ holders' = [d \in Dest |-> IF d \in S THEN {} ELSE holders[d]]
  /\ parked' = [d \in Dest |-> IF d \in S THEN {} ELSE parked[d]]
  /\ UNCHANGED bound

Next ==
  \/ \E d \in Dest, t \in Task, k \in Key : Open(d, t, k)
  \/ \E d \in Dest, t \in Task, S \in SUBSET Dest : Park(d, t, S) \/ Take(d, t, S)
  \/ \E S \in SUBSET Dest : Close(S)

Spec == Init /\ [][Next]_lifeVars
===============================================================================
