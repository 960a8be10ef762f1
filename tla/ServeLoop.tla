------------------------------ MODULE ServeLoop ------------------------------
(***************************************************************************)
(* A request's way through the server: the HTTP handler that queues a job  *)
(* (server/mod.rs), the worker's serve_loop (server/batch.rs), the         *)
(* supervisor that outlives the worker (server/worker.rs) and the drain a  *)
(* shutdown signal starts.  Handlers, worker, supervisor and signal run    *)
(* concurrently and share the job channel, the worker status, the          *)
(* draining flag and the counters; an action is one thread's step between  *)
(* two points where another thread can be seen.                            *)
(*                                                                         *)
(* The worker and its supervisor never run at once (the supervisor joins   *)
(* the worker), so one program counter serves both.  Of the batch engine   *)
(* only what a job can observe is kept: how many steps its run may still   *)
(* take, and which runs a step ends.                                       *)
(***************************************************************************)
EXTENDS Integers, Sequences, FiniteSets

CONSTANTS Jobs,        \* the requests
          NSlots,      \* slots of the batch engine
          ChanCap,     \* capacity of the job channel (64)
          QueueMax,    \* queue_max: jobs that may wait for a slot
          RunSteps,    \* most steps a run takes, a bound on the run
          StallLimit,  \* STALL_STEP_LIMIT
          MaxRestarts, \* RestartPolicy.max_restarts
          Faults       \* of {"step", "stall", "panic"}

ASSUME ServeAssumption ==
    /\ NSlots \in Nat \ {0} /\ ChanCap \in Nat \ {0} /\ QueueMax \in Nat \ {0}
    /\ RunSteps \in Nat \ {0} /\ StallLimit \in Nat \ {0} /\ MaxRestarts \in Nat
    /\ Faults \subseteq {"step", "stall", "panic"}

VARIABLES
    handler,   \* where chat_completions is: new, checked, sent, waiting, done
    mail,      \* the job's event channel: none, open, event (a terminal one), closed
    reply,     \* what the client got: none, refused, answered, empty, left
    chan,      \* the job channel
    rxOpen,    \* the receiver exists
    pending,   \* serve_loop's deque
    left,      \* steps each run may still take; 0: no run
    pc,        \* worker and supervisor
    exit,      \* why the worker ended (WorkerExit)
    status,    \* WorkerStatus
    stalled,   \* stalled_steps
    restarts,
    draining,
    server,    \* the axum server: serving, closed, exited
    count      \* requests_total, jobs_admitted_total, jobs_dropped_total

clients == <<handler, mail, reply>>
queue == <<chan, rxOpen, pending>>
worker == <<left, pc, exit, stalled>>
super == <<status, restarts>>
vars == <<clients, queue, worker, super, draining, server, count>>

Elems(s) == {s[i] : i \in DOMAIN s}
Running == {j \in Jobs : left[j] > 0}
Idle == NSlots - Cardinality(Running)
SendersGone == server # "serving"
Up == server # "exited"

\* A terminal event through the job's own sender; the sender goes with it.
Answer(S) == mail' = [j \in Jobs |-> IF j \in S THEN "event" ELSE mail[j]]

\* The sender is dropped with nothing sent.
Drop(S) == mail' = [j \in Jobs |-> IF j \in S THEN "closed" ELSE mail[j]]

\* A job leaves the queue (admitted) and may not find a place (dropped).
Leaves(admitted, dropped) ==
    count' = [count EXCEPT !.admitted = @ + admitted, !.dropped = @ + dropped]

Finish(j, r) == handler' = [handler EXCEPT ![j] = "done"] /\ reply' = [reply EXCEPT ![j] = r]

-----------------------------------------------------------------------------
(* chat_completions. *)

Accept(j) ==
    /\ Up /\ ~SendersGone /\ handler[j] = "new"
    /\ ~draining /\ status = "running"
    /\ handler' = [handler EXCEPT ![j] = "checked"]
    /\ UNCHANGED <<mail, reply, queue, worker, super, draining, server, count>>

\* Draining, a stopped worker, or (once checked) a request that does not
\* validate or fit: an answer before the job exists.
Refuse(j) ==
    /\ Up /\ ~SendersGone
    /\ \/ handler[j] = "new" /\ (draining \/ status # "running")
       \/ handler[j] = "checked"
    /\ Finish(j, "refused")
    /\ UNCHANGED <<mail, queue, worker, super, draining, server, count>>

\* Mutant of Send: the channel is unbounded.
SendUnbounded(j) ==
    /\ Up /\ handler[j] = "checked" /\ rxOpen
    /\ chan' = Append(chan, j)
    /\ mail' = [mail EXCEPT ![j] = "open"]
    /\ handler' = [handler EXCEPT ![j] = "sent"]
    /\ UNCHANGED <<reply, rxOpen, pending, worker, super, draining, server, count>>

\* job_tx.send: waits for room in the channel.
Send(j) ==
    /\ Up /\ handler[j] = "checked"
    /\ rxOpen /\ Len(chan) < ChanCap
    /\ chan' = Append(chan, j)
    /\ mail' = [mail EXCEPT ![j] = "open"]
    /\ handler' = [handler EXCEPT ![j] = "sent"]
    /\ UNCHANGED <<reply, rxOpen, pending, worker, super, draining, server, count>>

SendFails(j) ==
    /\ Up /\ handler[j] = "checked" /\ ~rxOpen
    /\ Finish(j, "refused")
    /\ UNCHANGED <<mail, queue, worker, super, draining, server, count>>

\* requests_total and in_flight move after the send.
CountRequest(j) ==
    /\ Up /\ handler[j] = "sent"
    /\ handler' = [handler EXCEPT ![j] = "waiting"]
    /\ count' = [count EXCEPT !.requests = @ + 1]
    /\ UNCHANGED <<mail, reply, queue, worker, super, draining, server>>

\* collect_response and stream_response: a closed channel ends the answer.
Reply(j) ==
    /\ Up /\ handler[j] = "waiting" /\ mail[j] # "open"
    /\ Finish(j, IF mail[j] = "event" THEN "answered" ELSE "empty")
    /\ UNCHANGED <<mail, queue, worker, super, draining, server, count>>

\* The client goes away and axum drops the handler.
Disconnect(j) ==
    /\ Up /\ handler[j] \in {"checked", "waiting"}
    /\ Finish(j, "left")
    /\ UNCHANGED <<mail, queue, worker, super, draining, server, count>>

-----------------------------------------------------------------------------
(* serve_loop. *)

\* Top of the loop with nothing to do: wait for a job, or for the last sender.
Recv ==
    /\ Up /\ pc = "wait" /\ chan # <<>>
    /\ pending' = <<Head(chan)>> /\ chan' = Tail(chan)
    /\ pc' = "take" /\ stalled' = 0
    /\ UNCHANGED <<clients, rxOpen, left, exit, super, draining, server, count>>

Hangup ==
    /\ Up /\ pc = "wait" /\ chan = <<>> /\ SendersGone
    /\ pc' = "ended" /\ exit' = "shutdown" /\ stalled' = 0
    /\ UNCHANGED <<clients, queue, left, super, draining, server, count>>

\* The backlog is taken one job at a time until the channel is seen empty.
Take ==
    /\ Up /\ pc = "take" /\ chan # <<>>
    /\ pending' = Append(pending, Head(chan)) /\ chan' = Tail(chan)
    /\ UNCHANGED <<clients, rxOpen, worker, super, draining, server, count>>

TakeDone ==
    /\ Up /\ pc = "take" /\ chan = <<>>
    /\ pc' = "place"
    /\ UNCHANGED <<clients, queue, left, exit, stalled, super, draining, server, count>>

\* Mutant of DrainQueue: the answered jobs are not counted as gone.
DrainQueueUncounted ==
    /\ Up /\ pc = "place" /\ draining
    /\ Answer(Elems(pending) \cup Elems(chan))
    /\ pending' = <<>> /\ chan' = <<>>
    /\ pc' = "step"
    /\ UNCHANGED <<handler, reply, rxOpen, left, exit, stalled, super, draining, server, count>>

\* Mutant of DrainQueue: the queue waits for the deadline.
DrainQueueLater ==
    /\ Up /\ pc = "place" /\ draining
    /\ pc' = "step"
    /\ UNCHANGED <<clients, queue, left, exit, stalled, super, draining, server, count>>

\* A drain answers every queued job (reject_queued).
DrainQueue ==
    /\ Up /\ pc = "place" /\ draining
    /\ Answer(Elems(pending) \cup Elems(chan))
    /\ pending' = <<>> /\ chan' = <<>>
    /\ Leaves(Len(pending) + Len(chan), Len(pending) + Len(chan))
    /\ pc' = "step"
    /\ UNCHANGED <<handler, reply, rxOpen, left, exit, stalled, super, draining, server>>

\* The oldest jobs, one per idle slot.
GroupLen == IF Idle < Len(pending) THEN Idle ELSE Len(pending)

\* Mutant of Group: the newest jobs are admitted.
GroupNewest == SubSeq(pending, Len(pending) - GroupLen + 1, Len(pending))

Group == SubSeq(pending, 1, GroupLen)
Rest == SubSeq(pending, GroupLen + 1, Len(pending))

\* Mutant of KeptLen: one job more than queue_max waits.
KeptLenOneMore == IF Len(Rest) > QueueMax + 1 THEN QueueMax + 1 ELSE Len(Rest)

KeptLen == IF Len(Rest) > QueueMax THEN QueueMax ELSE Len(Rest)
Kept == SubSeq(Rest, 1, KeptLen)
Overflow == SubSeq(Rest, KeptLen + 1, Len(Rest))

\* Admission: the engine places some of the group and answers the others, steps
\* between prefill chunks may end runs, and the newest beyond queue_max are refused.
Place(placed, ended) ==
    /\ Up /\ pc = "place" /\ ~draining
    /\ placed \subseteq Elems(Group) /\ ended \subseteq Running \cup placed
    /\ ended # {} => Group # <<>>
    /\ left' = [j \in Jobs |-> IF j \in ended THEN 0
                               ELSE IF j \in placed THEN RunSteps ELSE left[j]]
    /\ pending' = Kept
    /\ Answer((Elems(Group) \ placed) \cup ended \cup Elems(Overflow))
    /\ Leaves(GroupLen + Len(Overflow), Cardinality(Elems(Group) \ placed) + Len(Overflow))
    /\ pc' = "step"
    /\ UNCHANGED <<handler, reply, chan, rxOpen, exit, stalled, super, draining, server>>

\* Mutant of EndPass: the loop goes to wait with jobs in its deque.
EndPassIgnoringQueue(runs) ==
    /\ pc' = IF runs # {} THEN "take" ELSE IF SendersGone THEN "ended" ELSE "wait"
    /\ exit' = IF pc' = "ended" THEN "shutdown" ELSE exit

\* The bottom of a pass: leave when the last sender is gone, else start again.
EndPass(runs) ==
    /\ pc' = IF runs # {} \/ pending # <<>> THEN "take"
             ELSE IF SendersGone THEN "ended" ELSE "wait"
    /\ exit' = IF pc' = "ended" THEN "shutdown" ELSE exit

SkipStep ==
    /\ Up /\ pc = "step" /\ Running = {}
    /\ EndPass({})
    /\ UNCHANGED <<clients, queue, left, stalled, super, draining, server, count>>

\* A step that works: the runs in `ended` finish or fail, the others advance.
Tick(ended) ==
    /\ Up /\ pc = "step" /\ Running # {}
    /\ ended \subseteq Running /\ {j \in Running : left[j] = 1} \subseteq ended
    /\ left' = [j \in Jobs |-> IF j \in ended THEN 0
                               ELSE IF j \in Running THEN left[j] - 1 ELSE 0]
    /\ Answer(ended)
    /\ stalled' = 0
    /\ EndPass(Running \ ended)
    /\ UNCHANGED <<handler, reply, queue, super, draining, server, count>>

\* A step whose forward fails answers its batch; the other runs are left alone.
StepFails(batch) ==
    /\ "step" \in Faults
    /\ Up /\ pc = "step" /\ batch \subseteq Running /\ batch # {}
    /\ left' = [j \in Jobs |-> IF j \in batch THEN 0 ELSE left[j]]
    /\ Answer(batch)
    /\ stalled' = 0
    /\ EndPass(Running \ batch)
    /\ UNCHANGED <<handler, reply, queue, super, draining, server, count>>

\* A step that leaves the engine busy and its work counter where it was.
Stall ==
    /\ "stall" \in Faults
    /\ Up /\ pc = "step" /\ Running # {} /\ stalled + 1 < StallLimit
    /\ stalled' = stalled + 1
    /\ EndPass(Running)
    /\ UNCHANGED <<clients, queue, left, super, draining, server, count>>

\* Mutant of StallOut: only the queued jobs are answered.
StallOutForgetsRuns ==
    /\ "stall" \in Faults
    /\ Up /\ pc = "step" /\ Running # {} /\ stalled + 1 >= StallLimit
    /\ Answer(Elems(pending) \cup Elems(chan))
    /\ left' = [j \in Jobs |-> 0]
    /\ pending' = <<>> /\ chan' = <<>>
    /\ Leaves(Len(pending) + Len(chan), Len(pending) + Len(chan))
    /\ pc' = "ended" /\ exit' = "stalled" /\ stalled' = stalled + 1
    /\ UNCHANGED <<handler, reply, rxOpen, super, draining, server>>

\* The last one the bound allows: every run and every queued job is answered.
StallOut ==
    /\ "stall" \in Faults
    /\ Up /\ pc = "step" /\ Running # {} /\ stalled + 1 >= StallLimit
    /\ Answer(Running \cup Elems(pending) \cup Elems(chan))
    /\ left' = [j \in Jobs |-> 0]
    /\ pending' = <<>> /\ chan' = <<>>
    /\ Leaves(Len(pending) + Len(chan), Len(pending) + Len(chan))
    /\ pc' = "ended" /\ exit' = "stalled" /\ stalled' = stalled + 1
    /\ UNCHANGED <<handler, reply, rxOpen, super, draining, server>>

\* The engine panics: the unwinding thread drops its runs, its deque and the receiver.
Panic ==
    /\ "panic" \in Faults
    /\ Up /\ pc \in {"place", "step"} /\ (Running # {} \/ pending # <<>>)
    /\ Drop(Running \cup Elems(pending) \cup Elems(chan))
    /\ left' = [j \in Jobs |-> 0]
    /\ pending' = <<>> /\ chan' = <<>> /\ rxOpen' = FALSE
    /\ pc' = "ended" /\ exit' = "panic"
    /\ UNCHANGED <<handler, reply, stalled, super, draining, server, count>>

-----------------------------------------------------------------------------
(* run_supervisor. *)

\* join returns; the exit is published.
Mark ==
    /\ Up /\ pc = "ended"
    /\ status' = exit
    /\ pc' = IF exit = "panic" THEN "decide" ELSE "refuse"
    /\ UNCHANGED <<clients, queue, left, exit, stalled, restarts, draining, server, count>>

\* Mutant of RefuseQueued: the job's sender is dropped and nothing is sent.
RefuseQueuedSilently ==
    /\ Up /\ pc = "refuse" /\ chan # <<>>
    /\ Drop({Head(chan)})
    /\ chan' = Tail(chan)
    /\ Leaves(1, 1)
    /\ UNCHANGED <<handler, reply, rxOpen, pending, worker, super, draining, server>>

\* The queue outlives the loop: each job still in it is answered.
RefuseQueued ==
    /\ Up /\ pc = "refuse" /\ chan # <<>>
    /\ Answer({Head(chan)})
    /\ chan' = Tail(chan)
    /\ Leaves(1, 1)
    /\ UNCHANGED <<handler, reply, rxOpen, pending, worker, super, draining, server>>

RefuseDone ==
    /\ Up /\ pc = "refuse" /\ chan = <<>>
    /\ pc' = "decide"
    /\ UNCHANGED <<clients, queue, left, exit, stalled, super, draining, server, count>>

CanRestart == exit = "stalled" /\ restarts < MaxRestarts

Backoff ==
    /\ Up /\ pc = "decide" /\ CanRestart
    /\ restarts' = restarts + 1
    /\ pc' = "backoff"
    /\ UNCHANGED <<clients, queue, left, exit, stalled, status, draining, server, count>>

Respawn ==
    /\ Up /\ pc = "backoff"
    /\ status' = "running"
    /\ pc' = "wait" /\ exit' = "none" /\ stalled' = 0
    /\ UNCHANGED <<clients, queue, left, restarts, draining, server, count>>

\* The supervisor returns and drops the resources, the receiver among them.
Disable ==
    /\ Up /\ pc = "decide" /\ ~CanRestart
    /\ Drop(Elems(chan))
    /\ chan' = <<>> /\ rxOpen' = FALSE
    /\ pc' = "down"
    /\ UNCHANGED <<handler, reply, pending, left, exit, stalled, super, draining, server, count>>

-----------------------------------------------------------------------------
(* serve_with_shutdown. *)

Signal ==
    /\ Up /\ ~draining
    /\ draining' = TRUE
    /\ UNCHANGED <<clients, queue, worker, super, server, count>>

\* Every open connection is done: the server future ends, and with it the last sender.
Close ==
    /\ draining /\ server = "serving"
    /\ \A j \in Jobs : handler[j] \in {"new", "done"}
    /\ server' = "closed"
    /\ UNCHANGED <<clients, queue, worker, super, draining, count>>

\* bounded_drain's deadline passes with requests in flight.
Deadline ==
    /\ draining /\ server = "serving"
    /\ server' = "exited"
    /\ UNCHANGED <<clients, queue, worker, super, draining, count>>

\* After a clean drain the process waits for the supervisor, boundedly.
Exit ==
    /\ server = "closed"
    /\ server' = "exited"
    /\ UNCHANGED <<clients, queue, worker, super, draining, count>>

Ended == server = "exited" /\ UNCHANGED vars

-----------------------------------------------------------------------------
Init ==
    /\ handler = [j \in Jobs |-> "new"] /\ mail = [j \in Jobs |-> "none"]
    /\ reply = [j \in Jobs |-> "none"]
    /\ chan = <<>> /\ rxOpen = TRUE /\ pending = <<>>
    /\ left = [j \in Jobs |-> 0] /\ pc = "wait" /\ exit = "none" /\ stalled = 0
    /\ status = "running" /\ restarts = 0
    /\ draining = FALSE /\ server = "serving"
    /\ count = [requests |-> 0, admitted |-> 0, dropped |-> 0]

Handlers == \E j \in Jobs : \/ Accept(j) \/ Refuse(j) \/ Send(j) \/ SendFails(j)
                            \/ CountRequest(j) \/ Reply(j) \/ Disconnect(j)

Loop == \/ Recv \/ Hangup \/ Take \/ TakeDone \/ DrainQueue
        \/ \E placed, ended \in SUBSET Jobs : Place(placed, ended)
        \/ SkipStep
        \/ \E ended \in SUBSET Jobs : Tick(ended) \/ StepFails(ended)
        \/ Stall \/ StallOut \/ Panic

Supervisor == Mark \/ RefuseQueued \/ RefuseDone \/ Backoff \/ Respawn \/ Disable

Drain == Signal \/ Close \/ Deadline \/ Exit \/ Ended

Next == Handlers \/ Loop \/ Supervisor \/ Drain

\* The OS runs the worker and supervisor threads, tokio polls a handler whose
\* channel is ready, and axum's serve future and recv_timeout end by themselves.
\* Nothing promises that a client asks, stays or leaves, that a signal comes, or
\* that a deadline passes.
Fairness ==
    /\ WF_vars(Loop) /\ WF_vars(Supervisor) /\ WF_vars(Close) /\ WF_vars(Exit)
    /\ \A j \in Jobs : /\ WF_vars(Send(j)) /\ WF_vars(SendFails(j))
                       /\ WF_vars(CountRequest(j)) /\ WF_vars(Reply(j))

Spec == Init /\ [][Next]_vars /\ Fairness
-----------------------------------------------------------------------------
(* Types of what handlers, worker, supervisor and drain share; the channel  *)
(* never holds more than its capacity.                                      *)
TypeOK ==
    /\ handler \in [Jobs -> {"new", "checked", "sent", "waiting", "done"}]
    /\ mail \in [Jobs -> {"none", "open", "event", "closed"}]
    /\ reply \in [Jobs -> {"none", "refused", "answered", "empty", "left"}]
    /\ chan \in Seq(Jobs) /\ Len(chan) <= ChanCap /\ pending \in Seq(Jobs)
    /\ rxOpen \in BOOLEAN
    /\ left \in [Jobs -> 0 .. RunSteps]
    /\ pc \in {"wait", "take", "place", "step", "ended", "refuse", "decide", "backoff", "down"}
    /\ exit \in {"none", "shutdown", "stalled", "panic"}
    /\ status \in {"running", "shutdown", "stalled", "panic"}
    /\ stalled \in 0 .. StallLimit /\ restarts \in 0 .. MaxRestarts
    /\ draining \in BOOLEAN /\ server \in {"serving", "closed", "exited"}
    /\ count \in [requests : Nat, admitted : Nat, dropped : Nat]

Distinct(s) == \A i, k \in DOMAIN s : s[i] = s[k] => i = k

(* A job is in exactly one place - the channel, the deque or a slot - from  *)
(* the moment it is sent until its event channel ends, and in none after:   *)
(* it is neither answered twice nor forgotten with its client listening,    *)
(* whatever the worker, the supervisor and the drain do to the queue.       *)
OneHolder ==
    /\ \A j \in Jobs : mail[j] = "open" <=> j \in Elems(chan) \cup Elems(pending) \cup Running
    /\ Distinct(chan) /\ Distinct(pending)
    /\ Elems(chan) \cap Elems(pending) = {}
    /\ Running \cap (Elems(chan) \cup Elems(pending)) = {}

(* A job is dropped without an answer only by a worker that ended for good: *)
(* one that panicked, or stalled with its restarts used up.  The restarts   *)
(* and the drain lose nothing.                                              *)
DropsOnlyWhenDown ==
    \A j \in Jobs : mail[j] = "closed" =>
        /\ ~rxOpen
        /\ exit = "panic" \/ (exit = "stalled" /\ restarts = MaxRestarts)

(* minfer_queue_depth (requests_total - jobs_admitted_total) is what waits  *)
(* in the channel and the deque, up to the sends not counted yet: every way *)
(* a job leaves the queue is counted once.                                  *)
QueueDepthExact ==
    (\A j \in Jobs : mail[j] # "closed") =>
        count.requests + Cardinality({j \in Jobs : handler[j] = "sent"})
            = count.admitted + Len(chan) + Len(pending)

(* A step that gives a waiting job a slot leaves none older than it waiting. *)
NoneOvertakes ==
    LET line == pending \o chan
    IN  \A i, k \in DOMAIN line :
           (i < k /\ left'[line[k]] > 0) => line[i] \notin Elems(pending' \o chan')

(* A younger job never gets a slot while an older one waits (serve_loop's   *)
(* "a younger arrival cannot overtake an older one").                       *)
NoOvertaking == [][NoneOvertakes]_vars

(* The slots are never oversubscribed, and once a pass has placed its jobs  *)
(* at most queue_max wait for the next.                                     *)
BoundsHold == Cardinality(Running) <= NSlots /\ (pc = "step" => Len(pending) <= QueueMax)

(* An accepted request is resolved, or its process ends: the worker's       *)
(* steps, its stalls and restarts, the drain and the panic all lead there.  *)
EveryRequestResolved ==
    \A j \in Jobs : handler[j] = "sent" ~> (handler[j] = "done" \/ server = "exited")

(* A drain ends by itself: with no deadline to help, the worker answers     *)
(* what is queued, finishes what runs, and the process exits.               *)
DrainCompletes == draining ~> server = "exited"

\* The client's view of a request.
Seen(j) == CASE handler[j] \in {"new", "checked"} -> "new"
             [] handler[j] \in {"sent", "waiting"} -> "open"
             [] OTHER -> reply[j]

Service == INSTANCE RequestService WITH st <- [j \in Jobs |-> Seen(j)],
                                        up <- rxOpen, exited <- ~Up

(* The server implements RequestService: nothing is accepted after the      *)
(* receiver is gone, nothing answered twice, and an empty answer needs a    *)
(* worker that is down.                                                     *)
ImplementsService == Service!Spec

(* run_supervisor's promise: "The queue is answered with the named refusal  *)
(* on every death".                                                         *)
QueueAnswered == \A j \in Jobs : reply[j] # "empty"
=============================================================================
