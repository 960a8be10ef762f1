---------------------------- MODULE KernelPool ----------------------------
(* The process-global CPU thread pool (kernel/pool.rs, kernel/dispatch.rs): *)
(* callers of par_for and cpu_quant_matmul hand contiguous row ranges to    *)
(* the spinning workers through one job cell, one generation counter and    *)
(* one done counter, and take the last range themselves.                    *)
(*                                                                          *)
(* A call is [caller, kind, total, cost]: `total` tasks (the rows of a      *)
(* matmul) of `cost` multiply-adds each.  What a range computes is          *)
(* abstracted to how often each of the call's rows has been written.        *)
EXTENDS Integers, FiniteSets

CONSTANTS Callers,       \* threads that run a forward
          MaxThreads,    \* largest --threads value
          AutoThreads,   \* what the machine reports when --threads is absent
          Totals,        \* row counts of the calls
          MinMacs,       \* MIN_PARALLEL_MACS
          MaxCalls       \* bound: calls per caller

ASSUME PoolAssumption ==
    /\ MaxThreads \in Nat \ {0} /\ AutoThreads \in 1..MaxThreads
    /\ Totals \subseteq Nat /\ \E m \in Totals : \A t \in Totals : t <= m
    /\ MinMacs \in Nat /\ MaxCalls \in Nat
    /\ "free" \notin Callers /\ "none" \notin Callers

VARIABLES setting,   \* CPU_THREADS: 0 until --threads sets it
          n,         \* the pool's worker count, -1 until it is spawned
          gate,      \* holder of the gate mutex, "free" when nobody holds it
          job,       \* the job cell
          gen, done, \* the handoff counters
          call,      \* the call each caller is making
          cpc,       \* where each caller is
          written,   \* how often each row of the caller's call was computed
          made,      \* calls made so far
          seen,      \* generation each worker has seen
          wjob,      \* the worker's snapshot of the job
          wpc        \* where each worker is

callerVars == <<call, cpc, written, made>>
workerVars == <<seen, wjob, wpc>>
poolVars == <<n, gate, job, gen, done>>
vars == <<setting, callerVars, workerVars, poolVars>>

Workers == 0..(MaxThreads - 2)
Rows == 0..(CHOOSE m \in Totals : \A t \in Totals : t <= m)
Calls == [caller : Callers, kind : {"matmul"}, total : Totals, cost : {1, MinMacs}]
         \cup [caller : Callers, kind : {"parfor"}, total : Totals, cost : {1}]
NoJob == [caller |-> "none", kind |-> "matmul", total |-> 0, cost |-> 0]

-----------------------------------------------------------------------------
(* Mutant of chunk: the upper bound of a range is rounded up. *)
chunkRoundedUp(parts, idx, total) ==
    ((total * idx) \div parts)..(((total * (idx + 1) + parts - 1) \div parts) - 1)

chunk(parts, idx, total) ==
    ((total * idx) \div parts)..(((total * (idx + 1)) \div parts) - 1)

cpu_threads == IF setting > 0 THEN setting ELSE AutoThreads

RunsInline(c) ==
    \/ cpu_threads <= 1
    \/ c.total < 2
    \/ c.kind = "matmul" /\ c.total * c.cost < MinMacs

(* mm_rows, or the job's own function, over one range of a call. *)
mm_rows(w, range) == [r \in Rows |-> w[r] + (IF r \in range THEN 1 ELSE 0)]

Init ==
    /\ setting = 0 /\ n = -1 /\ gate = "free" /\ job = NoJob /\ gen = 0 /\ done = 0
    /\ call = [c \in Callers |-> NoJob] /\ cpc = [c \in Callers |-> "idle"]
    /\ written = [c \in Callers |-> [r \in Rows |-> 0]] /\ made = [c \in Callers |-> 0]
    /\ seen = [w \in Workers |-> 0] /\ wjob = [w \in Workers |-> NoJob]
    /\ wpc = [w \in Workers |-> "spin"]

-----------------------------------------------------------------------------
set_cpu_threads(k) ==
    /\ k # setting /\ setting' = (IF k < 1 THEN 1 ELSE k)
    /\ UNCHANGED <<callerVars, workerVars, poolVars>>

(* A caller enters par_for or cpu_quant_matmul: a small call is computed    *)
(* inline, a large one spawns the pool if it is the first.                  *)
Enter(c, j) ==
    /\ cpc[c] = "idle" /\ made[c] < MaxCalls
    /\ call' = [call EXCEPT ![c] = j]
    /\ made' = [made EXCEPT ![c] = @ + 1]
    /\ IF RunsInline(j)
         THEN /\ written' = [written EXCEPT ![c] = mm_rows([r \in Rows |-> 0], 0..(j.total - 1))]
              /\ cpc' = [cpc EXCEPT ![c] = "returned"] /\ n' = n
         ELSE /\ written' = [written EXCEPT ![c] = [r \in Rows |-> 0]]
              /\ cpc' = [cpc EXCEPT ![c] = "gate"]
              /\ n' = IF n = -1 THEN cpu_threads - 1 ELSE n
    /\ UNCHANGED <<setting, gate, job, gen, done, workerVars>>

(* Mutant of LockGate: submissions are not serialised. *)
LockGateShared(c) ==
    /\ cpc[c] = "gate"
    /\ cpc' = [cpc EXCEPT ![c] = "post"] /\ gate' = c
    /\ UNCHANGED <<setting, n, job, gen, done, call, written, made, workerVars>>

LockGate(c) ==
    /\ cpc[c] = "gate" /\ gate = "free"
    /\ cpc' = [cpc EXCEPT ![c] = "post"] /\ gate' = c
    /\ UNCHANGED <<setting, n, job, gen, done, call, written, made, workerVars>>

Post(c) ==
    /\ cpc[c] = "post"
    /\ cpc' = [cpc EXCEPT ![c] = "announce"] /\ job' = call[c]
    /\ UNCHANGED <<setting, n, gate, gen, done, call, written, made, workerVars>>

Announce(c) ==
    /\ cpc[c] = "announce"
    /\ cpc' = [cpc EXCEPT ![c] = "own"] /\ gen' = gen + 1
    /\ UNCHANGED <<setting, n, gate, job, done, call, written, made, workerVars>>

OwnRange(c) ==
    /\ cpc[c] = "own"
    /\ written' = [written EXCEPT ![c] = mm_rows(@, chunk(n + 1, n, call[c].total))]
    /\ cpc' = [cpc EXCEPT ![c] = "wait"]
    /\ UNCHANGED <<setting, poolVars, call, made, workerVars>>

(* Mutant of AllDone: the caller counts itself among the n workers. *)
AllDoneCountingSelf == done >= n - 1

AllDone == done >= n

Await(c) ==
    /\ cpc[c] = "wait" /\ AllDone
    /\ cpc' = [cpc EXCEPT ![c] = "reset"]
    /\ UNCHANGED <<setting, poolVars, call, written, made, workerVars>>

(* done is stored 0 and the gate guard dropped: the call returns and its    *)
(* borrowed context dies.                                                   *)
Reset(c) ==
    /\ cpc[c] = "reset"
    /\ done' = 0 /\ gate' = "free"
    /\ cpc' = [cpc EXCEPT ![c] = "returned"]
    /\ UNCHANGED <<setting, n, job, gen, call, written, made, workerVars>>

Resume(c) ==
    /\ cpc[c] = "returned" /\ cpc' = [cpc EXCEPT ![c] = "idle"]
    /\ call' = [call EXCEPT ![c] = NoJob]
    /\ written' = [written EXCEPT ![c] = [r \in Rows |-> 0]]
    /\ UNCHANGED <<setting, poolVars, made, workerVars>>

-----------------------------------------------------------------------------
Spawned(w) == w < n

(* The spin loop sees a generation it has not served. *)
Wake(w) ==
    /\ Spawned(w) /\ wpc[w] = "spin" /\ gen # seen[w]
    /\ wpc' = [wpc EXCEPT ![w] = "load"]
    /\ UNCHANGED <<setting, poolVars, callerVars, seen, wjob>>

LoadGen(w) ==
    /\ wpc[w] = "load"
    /\ wpc' = [wpc EXCEPT ![w] = "job"] /\ seen' = [seen EXCEPT ![w] = gen]
    /\ UNCHANGED <<setting, poolVars, callerVars, wjob>>

Snapshot(w) ==
    /\ wpc[w] = "job"
    /\ wpc' = [wpc EXCEPT ![w] = "run"] /\ wjob' = [wjob EXCEPT ![w] = job]
    /\ UNCHANGED <<setting, poolVars, callerVars, seen>>

RunRange(w) ==
    /\ wpc[w] = "run"
    /\ wpc' = [wpc EXCEPT ![w] = "done"]
    /\ written' = [written EXCEPT ![wjob[w].caller] =
                      mm_rows(@, chunk(n + 1, w, wjob[w].total))]
    /\ UNCHANGED <<setting, poolVars, call, cpc, made, seen, wjob>>

(* Mutant of Finished: the worker goes back to spinning uncounted. *)
FinishedUncounted(w) ==
    /\ wpc[w] = "done"
    /\ wpc' = [wpc EXCEPT ![w] = "spin"] /\ UNCHANGED done
    /\ UNCHANGED <<setting, n, gate, job, gen, callerVars, seen, wjob>>

Finished(w) ==
    /\ wpc[w] = "done"
    /\ wpc' = [wpc EXCEPT ![w] = "spin"] /\ done' = done + 1
    /\ wjob' = [wjob EXCEPT ![w] = NoJob]
    /\ UNCHANGED <<setting, n, gate, job, gen, callerVars, seen>>

-----------------------------------------------------------------------------
CallerStep(c) ==
    \/ LockGate(c) \/ Post(c) \/ Announce(c) \/ OwnRange(c)
    \/ Await(c) \/ Reset(c) \/ Resume(c)
WorkerStep(w) == Wake(w) \/ LoadGen(w) \/ Snapshot(w) \/ RunRange(w) \/ Finished(w)

Next ==
    \/ \E k \in 0..MaxThreads : set_cpu_threads(k)
    \/ \E c \in Callers : CallerStep(c)
    \/ \E c \in Callers : \E j \in {j \in Calls : j.caller = c} : Enter(c, j)
    \/ \E w \in Workers : WorkerStep(w)

(* Every thread that can run does, and the gate is handed on: with finitely *)
(* many calls no caller can be overtaken at the mutex for ever.             *)
Fairness ==
    /\ \A c \in Callers : WF_vars(CallerStep(c))
    /\ \A w \in Workers : WF_vars(WorkerStep(w))

Spec == Init /\ [][Next]_vars /\ Fairness

-----------------------------------------------------------------------------
(* Types of the settings, the handoff cells and the threads.                *)
TypeOK ==
    /\ setting \in 0..MaxThreads /\ n \in -1..(MaxThreads - 1)
    /\ gate \in Callers \cup {"free"} /\ job \in Calls \cup {NoJob}
    /\ gen \in Nat /\ done \in Nat
    /\ call \in [Callers -> Calls \cup {NoJob}] /\ made \in [Callers -> 0..MaxCalls]
    /\ cpc \in [Callers -> {"idle", "gate", "post", "announce", "own", "wait", "reset", "returned"}]
    /\ written \in [Callers -> [Rows -> Nat]]
    /\ seen \in [Workers -> Nat] /\ wjob \in [Workers -> Calls \cup {NoJob}]
    /\ wpc \in [Workers -> {"spin", "load", "job", "run", "done"}]

(* A call that returns has had each of its rows computed exactly once, by   *)
(* whichever thread owns the range, whatever the other callers did in the   *)
(* meantime and whatever --threads was changed to since the pool was        *)
(* spawned (dispatch.rs: "the output is bit-identical regardless of thread  *)
(* count").                                                                 *)
EveryRowOnce ==
    \A c \in Callers : cpc[c] = "returned" =>
        \A r \in Rows : written[c][r] = IF r < call[c].total THEN 1 ELSE 0

(* No worker holds the context of a call that has returned: par_for's       *)
(* stack-local ctx and the matmul's borrowed slices outlive every range     *)
(* that reads them (the SAFETY contract of MmJob and ParForJob).            *)
NoDeadContext ==
    \A w \in Workers : wpc[w] = "run" =>
        LET c == wjob[w].caller
        IN  c \in Callers /\ cpc[c] \in {"own", "wait"} /\ wjob[w] = call[c]

(* Every call returns: the done count of one submission reaches n, and the  *)
(* caller that waits for the gate gets it.                                  *)
CallsReturn == \A c \in Callers : (cpc[c] = "gate") ~> (cpc[c] = "returned")
=============================================================================
