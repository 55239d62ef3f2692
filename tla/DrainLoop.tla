------------------------------- MODULE DrainLoop -------------------------------
(***************************************************************************)
(* What a service promises its connections: it takes them while it         *)
(* accepts, then lets those it serves finish, and returns when they have   *)
(* or when it gives up on them. Pipeline's Service::run and ForwardTcp::run *)
(* both implement it.                                                      *)
(***************************************************************************)
CONSTANT Conn

VARIABLES
  loop,   \* "accepting", "draining", "returned"
  conn    \* of each connection: "waiting", "served", "over", "cut"

loopVars == <<loop, conn>>

Served == {c \in Conn : conn[c] = "served"}

Init ==
  /\ loop = "accepting"
  /\ conn = [c \in Conn |-> "waiting"]

Take(c) ==
  /\ loop = "accepting"
  /\ conn[c] = "waiting"
  /\ conn' = [conn EXCEPT ![c] = "served"]
  /\ UNCHANGED loop

\* A connection comes to its own end; one that was cut off may still get there.
Finish(c) ==
  /\ conn[c] \in {"served", "cut"}
  /\ conn' = [conn EXCEPT ![c] = "over"]
  /\ UNCHANGED loop

\* One that waits may be turned away; those that are served go on.
TurnAway ==
  \A c \in Conn : conn'[c] # conn[c] => conn[c] = "waiting" /\ conn'[c] = "cut"

Stop ==
  /\ loop = "accepting" /\ loop' = "draining"
  /\ TurnAway

\* The loop gives up: all that are served are cut off.
CutOff ==
  /\ \A c \in Served : conn'[c] = "cut"
  /\ \A c \in Conn \ Served : conn'[c] # conn[c] => conn[c] = "waiting" /\ conn'[c] = "cut"

Fail ==
  /\ loop = "accepting" /\ loop' = "returned"
  /\ CutOff

GiveUp ==
  /\ loop = "draining" /\ loop' = "returned"
  /\ CutOff

Return ==
  /\ loop = "draining" /\ loop' = "returned"
  /\ Served = {}
  /\ UNCHANGED conn

Next == (\E c \in Conn : Take(c) \/ Finish(c)) \/ Stop \/ Fail \/ GiveUp \/ Return

Spec == Init /\ [][Next]_loopVars
================================================================================
