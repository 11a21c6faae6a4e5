----------------------------- MODULE MCChatTurn -----------------------------
(* Two pods.  A message is sent (ask), sent again to the other pod because  *)
(* the socket broke (retry), answered anew there (again), and another       *)
(* message of the conversation queues behind it on the first pod (next).    *)
EXTENDS ChatTurn

CONSTANTS t1, t2, ask, retry, again, next, p1, p2, s1

MCScenes ==
    {[runs |-> {ask, again}, watch |-> {again}],
     [runs |-> {ask, again}, watch |-> {s1}],
     [runs |-> {ask, retry}, watch |-> {}],
     [runs |-> {ask, next}, watch |-> {}]}

(* A message is sent, and its socket waits for the answer.                   *)
OneMessage == {[runs |-> {ask}, watch |-> {ask}]}

MCKey  == [r \in Runs |-> IF r = next THEN t2 ELSE t1]
MCHome == [f \in Runs \cup Sockets |-> IF f \in {ask, next} THEN p1 ELSE p2]
=============================================================================
