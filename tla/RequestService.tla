---------------------------- MODULE RequestService ----------------------------
(***************************************************************************)
(* What the chat endpoint promises its clients, with no queue, worker or   *)
(* supervisor in sight: a request is refused before it is accepted, or it  *)
(* is accepted and then resolved once.  Only a service that has gone down  *)
(* for good may resolve an accepted request with an empty answer.          *)
(***************************************************************************)
CONSTANT Jobs

VARIABLES st,     \* what each client knows of its request
          up,     \* the service still takes requests
          exited  \* the process has ended

vars == <<st, up, exited>>

Init == st = [j \in Jobs |-> "new"] /\ up = TRUE /\ exited = FALSE

Accept(j) == up /\ st[j] = "new" /\ st' = [st EXCEPT ![j] = "open"] /\ UNCHANGED <<up, exited>>
Refuse(j) == st[j] = "new" /\ st' = [st EXCEPT ![j] = "refused"] /\ UNCHANGED <<up, exited>>
Answer(j) == st[j] = "open" /\ st' = [st EXCEPT ![j] = "answered"] /\ UNCHANGED <<up, exited>>
Lose(j) == ~up /\ st[j] = "open" /\ st' = [st EXCEPT ![j] = "empty"] /\ UNCHANGED <<up, exited>>
Leave(j) == st[j] \in {"new", "open"} /\ st' = [st EXCEPT ![j] = "left"] /\ UNCHANGED <<up, exited>>
GoDown == up /\ up' = FALSE /\ UNCHANGED <<st, exited>>
Exit == exited' = TRUE /\ UNCHANGED <<st, up>>

Resolve(j) == Answer(j) \/ Lose(j) \/ (st[j] = "open" /\ Leave(j))

Next == ~exited /\ (GoDown \/ Exit \/ \E j \in Jobs : Accept(j) \/ Refuse(j) \/ Leave(j) \/ Resolve(j))

Spec == Init /\ [][Next]_vars /\ \A j \in Jobs : WF_vars(~exited /\ Resolve(j))
=============================================================================
