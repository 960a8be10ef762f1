-------------------------- MODULE KernelPoolProofs --------------------------
(***************************************************************************)
(* Proofs about KernelPool, for every number of callers, threads and rows: *)
(* a call that returns has had each row computed once, and no worker reads *)
(* the context of a call that has returned.                                *)
(***************************************************************************)
EXTENDS KernelPool, TLAPS, FiniteSetTheorems

-----------------------------------------------------------------------------
(* The ranges of a call. *)

(* Integer division, as the ranges use it.                                  *)
LEMMA DivBound ==
    ASSUME NEW a \in Nat, NEW p \in Nat \ {0}, NEW q \in Nat
    PROVE  a \div p \in Nat /\ (p * q <= a <=> q <= a \div p)
  OBVIOUS

(* A row belongs to range idx when its scaled end falls in that range's     *)
(* share of the rows: chunk without its two divisions.                      *)
LEMMA ChunkMember ==
    ASSUME NEW p \in Nat \ {0}, NEW idx \in Nat, NEW t \in Nat, NEW r \in Nat
    PROVE  r \in chunk(p, idx, t) <=> t * idx < p * (r + 1) /\ p * (r + 1) <= t * (idx + 1)
<1>1. t * idx \in Nat /\ t * (idx + 1) \in Nat /\ r + 1 \in Nat /\ p * (r + 1) \in Nat
  OBVIOUS
<1>2. /\ (t * idx) \div p \in Nat
      /\ p * (r + 1) <= t * idx <=> r + 1 <= (t * idx) \div p
  BY <1>1, DivBound
<1>3. /\ (t * (idx + 1)) \div p \in Nat
      /\ p * (r + 1) <= t * (idx + 1) <=> r + 1 <= (t * (idx + 1)) \div p
  BY <1>1, DivBound
<1> DEFINE lo == (t * idx) \div p
           hi == (t * (idx + 1)) \div p
           x == p * (r + 1)
           y == t * idx
           z == t * (idx + 1)
<1>4. r \in chunk(p, idx, t) <=> r \in lo .. (hi - 1)
  BY DEF chunk
<1> HIDE DEF lo, hi, x, y, z
<1>5. /\ lo \in Nat /\ hi \in Nat /\ x \in Nat /\ y \in Nat /\ z \in Nat
      /\ x <= y <=> r + 1 <= lo
      /\ x <= z <=> r + 1 <= hi
  BY <1>1, <1>2, <1>3 DEF lo, hi, x, y, z
<1>6. r \in lo .. (hi - 1) <=> y < x /\ x <= z
  BY <1>5
<1> QED
  BY <1>4, <1>6 DEF x, y, z

(* No row is in two ranges.                                                 *)
LEMMA ChunksDisjoint ==
    ASSUME NEW p \in Nat \ {0}, NEW i \in Nat, NEW k \in Nat, NEW t \in Nat, NEW r \in Nat,
           r \in chunk(p, i, t), r \in chunk(p, k, t)
    PROVE  i = k
<1>1. ASSUME NEW a \in Nat, NEW b \in Nat, a < b, r \in chunk(p, a, t), r \in chunk(p, b, t)
      PROVE  FALSE
  <2>1. p * (r + 1) <= t * (a + 1) /\ t * b < p * (r + 1)
    BY <1>1, ChunkMember
  <2>2. t * (a + 1) <= t * b
    BY <1>1
  <2> DEFINE x == p * (r + 1)
             y == t * (a + 1)
             z == t * b
  <2>3. x \in Int /\ y \in Int /\ z \in Int
    OBVIOUS
  <2> HIDE DEF x, y, z
  <2>4. x <= y /\ z < x /\ y <= z
    BY <2>1, <2>2 DEF x, y, z
  <2> QED
    BY <2>3, <2>4
<1> QED
  BY <1>1

(* The p ranges hold the rows of the call and no others.                    *)
LEMMA ChunksCover ==
    ASSUME NEW p \in Nat \ {0}, NEW t \in Nat, NEW r \in Nat
    PROVE  r < t <=> \E i \in 0 .. (p - 1) : r \in chunk(p, i, t)
<1>1. ASSUME r < t PROVE \E i \in 0 .. (p - 1) : r \in chunk(p, i, t)
  <2> DEFINE x == p * (r + 1)
             i == (x - 1) \div t
  <2>1. x \in Nat /\ x >= 1 /\ x - 1 \in Nat /\ t \in Nat \ {0}
    BY <1>1
  <2>2. i \in Nat /\ t * i <= x - 1
    <3>1. i \in Nat
      BY <2>1, DivBound
    <3>2. i <= i
      BY <3>1
    <3> QED
      BY <2>1, <3>1, <3>2, DivBound
  <2>3. ~(t * (i + 1) <= x - 1)
    <3>1. i + 1 \in Nat /\ ~(i + 1 <= i)
      BY <2>2
    <3> QED
      BY <2>1, <3>1, DivBound
  <2>4. x <= t * p
    BY <1>1
  <2> HIDE DEF i
  <2>5. t * i \in Nat /\ t * (i + 1) \in Nat /\ t * p \in Nat
    BY <2>2
  <2>6. t * i < x /\ x <= t * (i + 1) /\ t * i < t * p
    <3> HIDE DEF x
    <3> QED
      BY <2>1, <2>2, <2>3, <2>4, <2>5
  <2>7. i < p
    BY <2>1, <2>2, <2>6
  <2>8. r \in chunk(p, i, t)
    BY <2>2, <2>6, ChunkMember
  <2> QED
    BY <2>2, <2>7, <2>8
<1>2. ASSUME NEW i \in 0 .. (p - 1), r \in chunk(p, i, t) PROVE r < t
  <2>1. p * (r + 1) <= t * (i + 1)
    BY <1>2, ChunkMember
  <2>2. t * (i + 1) <= t * p
    BY <1>2
  <2>3. p * (r + 1) <= p * t
    <3> DEFINE x == p * (r + 1)
               y == t * (i + 1)
               z == p * t
    <3>1. x \in Int /\ y \in Int /\ z \in Int /\ t * p = z
      BY <1>2
    <3> HIDE DEF x, y, z
    <3>2. x <= y /\ y <= z
      BY <2>1, <2>2, <3>1 DEF x, y
    <3>3. x <= z
      BY <3>1, <3>2
    <3> QED
      BY <3>3 DEF x, z
  <2> QED
    BY <2>3
<1> QED
  BY <1>1, <1>2

-----------------------------------------------------------------------------
(* The inductive invariant. *)

\* From the gate's lock to its unlock; from the announcement to the reset.
Holding(c) == cpc[c] \in {"post", "announce", "own", "wait", "reset"}
Active(c) == cpc[c] \in {"own", "wait", "reset"}

Crew == {w \in Workers : w < n}

\* The workers that have computed the announced call's range, and those of them
\* that have counted themselves done.
Ran(w) == seen[w] = gen /\ wpc[w] \in {"done", "spin"}
Served == {w \in Crew : seen[w] = gen /\ wpc[w] = "spin"}

\* The pool is spawned by the first call that needs it, and never empty.
SpawnedFirst ==
    /\ n # 0
    /\ n = -1 => gen = 0 /\ \A c \in Callers : cpc[c] \in {"idle", "returned"}
    /\ \A w \in Workers : seen[w] <= gen /\ (w >= n => wpc[w] = "spin")

GateHeld == \A c \in Callers : Holding(c) <=> gate = c

JobPosted ==
    \A c \in Callers :
        /\ cpc[c] # "idle" => call[c] \in Calls /\ call[c].caller = c
        /\ cpc[c] \in {"announce", "own", "wait", "reset"} => job = call[c]

\* Between two calls every worker has served the last generation.
CrewAtRest ==
    (\A c \in Callers : ~Active(c)) =>
        done = 0 /\ \A w \in Crew : wpc[w] = "spin" /\ seen[w] = gen

\* During a call the workers serve that call, and the done count is theirs.
CrewAtWork ==
    \A c \in Callers : Active(c) =>
        /\ done = Cardinality(Served)
        /\ \A w \in Crew : /\ wpc[w] = "load" => seen[w] # gen
                           /\ wpc[w] \in {"job", "run", "done"} => seen[w] = gen
                           /\ wpc[w] = "run" => wjob[w] = call[c]
        /\ cpc[c] = "reset" => Served = Crew

\* A row has been written by the worker that ran its range, or by the caller.
WrittenBy(c, r) ==
    (IF \E w \in Crew : Ran(w) /\ r \in chunk(n + 1, w, call[c].total) THEN 1 ELSE 0)
    + (IF cpc[c] # "own" /\ r \in chunk(n + 1, n, call[c].total) THEN 1 ELSE 0)

RowsCounted ==
    \A c \in Callers : \A r \in Rows :
        /\ cpc[c] \in {"gate", "post", "announce"} => written[c][r] = 0
        /\ Active(c) => written[c][r] = WrittenBy(c, r)

IInv == /\ TypeOK /\ SpawnedFirst /\ GateHeld /\ JobPosted /\ CrewAtRest /\ CrewAtWork
        /\ RowsCounted /\ EveryRowOnce


(* What the constants give: rows are natural numbers, calls name a caller.  *)
LEMMA PoolFacts ==
    /\ MaxThreads \in Nat /\ MaxThreads >= 1 /\ Rows \subseteq Nat /\ Workers \subseteq Nat
    /\ "free" \notin Callers /\ "none" \notin Callers
    /\ \A j \in Calls : j.total \in Nat /\ j.caller \in Callers
    /\ NoJob.caller = "none" /\ NoJob.total = 0
<1>1. MaxThreads \in Nat /\ MaxThreads >= 1 /\ Workers \subseteq Nat
  BY PoolAssumption DEF Workers
<1>2. Rows \subseteq Nat
  <2>1. (CHOOSE m \in Totals : \A t \in Totals : t <= m) \in Totals
    BY PoolAssumption
  <2> QED
    BY <2>1, PoolAssumption DEF Rows
<1>3. \A j \in Calls : j.total \in Nat /\ j.caller \in Callers
  BY PoolAssumption DEF Calls
<1> QED
  BY <1>1, <1>2, <1>3, PoolAssumption DEF NoJob

(* The invariant holds before the pool is spawned.                          *)
LEMMA InitIInv == Init => IInv
<1> SUFFICES ASSUME Init PROVE IInv
  OBVIOUS
<1> USE PoolFacts DEF Init
<1>1. TypeOK
  BY PoolAssumption DEF TypeOK
<1>2. SpawnedFirst
  BY DEF SpawnedFirst
<1>3. GateHeld /\ JobPosted
  BY DEF GateHeld, JobPosted, Holding
<1>4. CrewAtRest
  BY DEF CrewAtRest, Crew
<1>5. CrewAtWork /\ RowsCounted /\ EveryRowOnce
  BY DEF CrewAtWork, RowsCounted, EveryRowOnce, Active
<1> QED
  BY <1>1, <1>2, <1>3, <1>4, <1>5 DEF IInv

(* One caller at a time holds the gate.                                     *)
LEMMA OneHolds ==
    ASSUME IInv, NEW c \in Callers, Holding(c), NEW d \in Callers, Holding(d)
    PROVE  d = c
  BY DEF IInv, GateHeld

(* The rows of a call are counted by who ran and who owns what, and by      *)
(* nothing else.                                                            *)
LEMMA WrittenFrame ==
    ASSUME NEW c \in Callers, NEW r \in Rows, n' = n, call'[c] = call[c], Crew' = Crew,
           cpc'[c] = "own" <=> cpc[c] = "own", \A w \in Crew : Ran(w)' <=> Ran(w)
    PROVE  WrittenBy(c, r)' = WrittenBy(c, r)
<1> DEFINE byWorker == \E w \in Crew : Ran(w) /\ r \in chunk(n + 1, w, call[c].total)
           byCaller == cpc[c] # "own" /\ r \in chunk(n + 1, n, call[c].total)
<1>1. byWorker' <=> byWorker
  OBVIOUS
<1>2. byCaller' <=> byCaller
  OBVIOUS
<1> HIDE DEF byWorker, byCaller
<1>3. WrittenBy(c, r) = (IF byWorker THEN 1 ELSE 0) + (IF byCaller THEN 1 ELSE 0)
  BY DEF WrittenBy, byWorker, byCaller
<1>4. WrittenBy(c, r)' = (IF byWorker' THEN 1 ELSE 0) + (IF byCaller' THEN 1 ELSE 0)
  BY DEF WrittenBy, byWorker, byCaller
<1> QED
  BY <1>1, <1>2, <1>3, <1>4

(* Changing --threads touches nothing the pool uses once it is spawned.     *)
LEMMA SettingKeeps ==
    ASSUME IInv, setting' \in 0 .. MaxThreads, UNCHANGED <<callerVars, workerVars, poolVars>>
    PROVE  IInv'
<1> USE DEF callerVars, workerVars, poolVars
<1>1. /\ Crew' = Crew /\ Served' = Served /\ \A w \in Crew : Ran(w)' <=> Ran(w)
      /\ \A c \in Callers : (Active(c)' <=> Active(c)) /\ (Holding(c)' <=> Holding(c))
  BY DEF Crew, Served, Ran, Active, Holding
<1>2. TypeOK' /\ SpawnedFirst' /\ GateHeld' /\ JobPosted'
  BY <1>1 DEF IInv, TypeOK, SpawnedFirst, GateHeld, JobPosted
<1>3. CrewAtRest' /\ CrewAtWork'
  BY <1>1 DEF IInv, CrewAtRest, CrewAtWork
<1>4. \A c \in Callers : \A r \in Rows : WrittenBy(c, r)' = WrittenBy(c, r)
  BY <1>1, WrittenFrame
<1>5. RowsCounted' /\ EveryRowOnce'
  BY <1>1, <1>4 DEF IInv, RowsCounted, EveryRowOnce
<1> QED
  BY <1>2, <1>3, <1>5 DEF IInv

(* Entering: an inline call is complete at once, a larger one finds a pool. *)
LEMMA EnterKeeps ==
    ASSUME IInv, NEW c \in Callers, NEW j \in Calls, j.caller = c, Enter(c, j)
    PROVE  IInv'
<1> USE PoolFacts DEF Enter, mm_rows
<1>0. TypeOK /\ cpc[c] = "idle" /\ cpu_threads \in 1 .. MaxThreads
  BY PoolAssumption DEF IInv, TypeOK, cpu_threads
<1>n. /\ n' \in -1 .. (MaxThreads - 1) /\ n' # 0
      /\ n # -1 => n' = n
      /\ ~RunsInline(j) => n' # -1
  BY <1>0, PoolAssumption DEF IInv, TypeOK, SpawnedFirst, RunsInline
<1>c. /\ cpc' = [cpc EXCEPT ![c] = IF RunsInline(j) THEN "returned" ELSE "gate"]
      /\ ~Active(c) /\ ~Holding(c)
      /\ \A d \in Callers : d # c => cpc'[d] = cpc[d]
  BY <1>0 DEF TypeOK, Active, Holding
<1>w. /\ RunsInline(j) => written' = [written EXCEPT ![c] = [r \in Rows |-> IF r < j.total THEN 1 ELSE 0]]
      /\ ~RunsInline(j) => written' = [written EXCEPT ![c] = [r \in Rows |-> 0]]
  <2>1. [r \in Rows |-> [q \in Rows |-> 0][r] + (IF r \in 0 .. (j.total - 1) THEN 1 ELSE 0)]
            = [r \in Rows |-> IF r < j.total THEN 1 ELSE 0]
    OBVIOUS
  <2> QED
    BY <2>1
<1>1. TypeOK'
  <2>1. written' \in [Callers -> [Rows -> Nat]]
    BY <1>0, <1>w DEF TypeOK
  <2>2. made' \in [Callers -> 0 .. MaxCalls]
    BY <1>0, PoolAssumption DEF TypeOK
  <2>3. call' \in [Callers -> Calls \cup {NoJob}]
    BY <1>0 DEF TypeOK
  <2>4. cpc' \in [Callers -> {"idle", "gate", "post", "announce", "own", "wait", "reset", "returned"}]
    BY <1>0, <1>c DEF TypeOK
  <2> QED
    BY <1>0, <1>n, <2>1, <2>2, <2>3, <2>4 DEF TypeOK, workerVars
<1>2. SpawnedFirst'
  <2>1. n' = -1 => n = -1 /\ RunsInline(j)
    BY <1>n
  <2>2. \A w \in Workers : (w >= n' => w >= n) \/ n = -1
    BY <1>n
  <2>3. n = -1 => \A w \in Workers : w >= n
    OBVIOUS
  <2> QED
    BY <1>0, <1>n, <1>c, <2>1, <2>2, <2>3 DEF IInv, TypeOK, SpawnedFirst, workerVars
<1>3. GateHeld'
  BY <1>0, <1>c DEF IInv, TypeOK, GateHeld, Holding
<1>4. JobPosted'
  BY <1>0, <1>c DEF IInv, TypeOK, JobPosted
<1>5. CrewAtRest'
  <2>1. ASSUME \A d \in Callers : ~Active(d)' PROVE \A d \in Callers : ~Active(d)
    BY <1>c, <2>1 DEF Active
  <2>2. CASE n = -1
    BY <1>0, <2>1, <2>2 DEF IInv, TypeOK, SpawnedFirst, CrewAtRest, Crew, workerVars
  <2>3. CASE n # -1
    BY <1>n, <2>1, <2>3 DEF IInv, CrewAtRest, Crew, workerVars
  <2> QED
    BY <2>2, <2>3
<1>6. ASSUME NEW d \in Callers, Active(d)'
      PROVE  /\ d # c /\ Active(d) /\ n' = n /\ call'[d] = call[d] /\ cpc'[d] = cpc[d]
             /\ written'[d] = written[d] /\ Crew' = Crew /\ Served' = Served
             /\ \A w \in Workers : Ran(w)' <=> Ran(w)
  <2>1. d # c /\ Active(d) /\ cpc'[d] = cpc[d]
    BY <1>0, <1>c, <1>6 DEF TypeOK, Active
  <2>2. n' = n
    BY <1>n, <2>1 DEF IInv, SpawnedFirst, Active
  <2>3. call'[d] = call[d] /\ written'[d] = written[d]
    BY <1>0, <1>w, <2>1 DEF TypeOK
  <2> QED
    BY <2>1, <2>2, <2>3 DEF Crew, Served, Ran, workerVars
<1>7. CrewAtWork'
  BY <1>6 DEF IInv, CrewAtWork, workerVars
<1>8. RowsCounted'
  <2>1. ASSUME NEW d \in Callers, NEW r \in Rows, Active(d)' PROVE written'[d][r] = WrittenBy(d, r)'
    <3>1. WrittenBy(d, r)' = WrittenBy(d, r)
      BY <1>6, <2>1, WrittenFrame DEF Crew
    <3> QED
      BY <1>6, <2>1, <3>1 DEF IInv, RowsCounted
  <2>2. ASSUME NEW d \in Callers, NEW r \in Rows, cpc'[d] \in {"gate", "post", "announce"}
        PROVE  written'[d][r] = 0
    BY <1>0, <1>c, <1>w, <2>2 DEF IInv, TypeOK, RowsCounted
  <2> QED
    BY <2>1, <2>2 DEF RowsCounted
<1>9. EveryRowOnce'
  BY <1>0, <1>c, <1>w DEF IInv, TypeOK, EveryRowOnce
<1> QED
  BY <1>1, <1>2, <1>3, <1>4, <1>5, <1>7, <1>8, <1>9 DEF IInv

(* A caller's step that posts, waits or resumes: no row is written, no      *)
(* worker moves, and the other callers stay where they are.                 *)
CallerMoves(c) ==
    /\ UNCHANGED <<setting, n, gen, workerVars>>
    /\ cpc' = [cpc EXCEPT ![c] = cpc'[c]]
    /\ \A d \in Callers : d # c => call'[d] = call[d] /\ written'[d] = written[d]

(* What a caller's step leaves of the workers' view.                        *)
LEMMA CallerFrame ==
    ASSUME IInv, NEW c \in Callers, CallerMoves(c)
    PROVE  /\ Crew' = Crew /\ Served' = Served /\ \A w \in Workers : Ran(w)' <=> Ran(w)
           /\ \A d \in Callers : d # c => cpc'[d] = cpc[d]
           /\ \A d \in Callers : d # c /\ Active(c) => ~Active(d)
           /\ \A d \in Callers : d # c => (Active(d)' <=> Active(d)) /\ (Holding(d)' <=> Holding(d))
<1>1. \A d \in Callers : d # c => cpc'[d] = cpc[d]
  BY DEF CallerMoves, IInv, TypeOK
<1>2. Crew' = Crew /\ Served' = Served /\ \A w \in Workers : Ran(w)' <=> Ran(w)
  BY DEF CallerMoves, Crew, Served, Ran, workerVars
<1>3. \A d \in Callers : d # c /\ Active(c) => ~Active(d)
  BY DEF IInv, GateHeld, Active, Holding
<1> QED
  BY <1>1, <1>2, <1>3 DEF Active, Holding

(* The other callers' rows, and their results, stay.                        *)
LEMMA OthersRows ==
    ASSUME IInv, NEW c \in Callers, CallerMoves(c), NEW d \in Callers, d # c, NEW r \in Rows
    PROVE  /\ cpc'[d] \in {"gate", "post", "announce"} => written'[d][r] = 0
           /\ Active(d)' => written'[d][r] = WrittenBy(d, r)'
           /\ cpc'[d] = "returned" => written'[d][r] = IF r < call'[d].total THEN 1 ELSE 0
<1>1. cpc'[d] = cpc[d] /\ call'[d] = call[d] /\ written'[d] = written[d] /\ (Active(d)' <=> Active(d))
  BY CallerFrame DEF CallerMoves
<1>2. WrittenBy(d, r)' = WrittenBy(d, r)
  BY <1>1, CallerFrame, WrittenFrame DEF CallerMoves, Crew
<1> QED
  BY <1>1, <1>2 DEF IInv, RowsCounted, EveryRowOnce

(* The gate: the mutex lets one caller in at a time.                        *)
LEMMA LockGateKeeps == ASSUME IInv, NEW c \in Callers, LockGate(c) PROVE IInv'
<1> USE PoolFacts DEF LockGate
<1>0. TypeOK /\ CallerMoves(c) /\ cpc'[c] = "post" /\ cpc[c] = "gate"
  BY DEF IInv, TypeOK, CallerMoves
<1>f. /\ Crew' = Crew /\ Served' = Served
      /\ \A d \in Callers : d # c => cpc'[d] = cpc[d]
      /\ \A d \in Callers : Active(d)' <=> Active(d)
  BY <1>0, CallerFrame DEF Active
<1>1. TypeOK'
  BY <1>0 DEF TypeOK, workerVars
<1>2. SpawnedFirst'
  BY <1>0, <1>f DEF IInv, SpawnedFirst, workerVars
<1>3. GateHeld'
  BY <1>0, <1>f DEF IInv, GateHeld, Holding
<1>4. JobPosted'
  BY <1>0, <1>f DEF IInv, JobPosted
<1>5. CrewAtRest'
  BY <1>0, <1>f DEF IInv, CrewAtRest, workerVars
<1>6. CrewAtWork'
  BY <1>0, <1>f DEF IInv, CrewAtWork, workerVars
<1>7. RowsCounted' /\ EveryRowOnce'
  BY <1>0, OthersRows DEF IInv, RowsCounted, EveryRowOnce, Active
<1> QED
  BY <1>1, <1>2, <1>3, <1>4, <1>5, <1>6, <1>7 DEF IInv

(* Writing the job cell: the holder of the gate is the only writer.         *)
LEMMA PostKeeps == ASSUME IInv, NEW c \in Callers, Post(c) PROVE IInv'
<1> USE PoolFacts DEF Post
<1>0. TypeOK /\ CallerMoves(c) /\ cpc'[c] = "announce" /\ cpc[c] = "post"
  BY DEF IInv, TypeOK, CallerMoves
<1>f. /\ Crew' = Crew /\ Served' = Served
      /\ \A d \in Callers : d # c => cpc'[d] = cpc[d]
      /\ \A d \in Callers : (Active(d)' <=> Active(d)) /\ (Holding(d)' <=> Holding(d))
  BY <1>0, CallerFrame DEF Active, Holding
<1>1. TypeOK'
  BY <1>0 DEF TypeOK, workerVars
<1>2. SpawnedFirst'
  BY <1>0, <1>f DEF IInv, SpawnedFirst, workerVars
<1>3. GateHeld'
  BY <1>f DEF IInv, GateHeld
<1>4. JobPosted'
  <2>1. \A d \in Callers : Holding(d) => d = c
    BY <1>0, OneHolds DEF Holding
  <2> QED
    BY <1>0, <1>f, <2>1 DEF IInv, JobPosted, Holding
<1>5. CrewAtRest'
  BY <1>0, <1>f DEF IInv, CrewAtRest, workerVars
<1>6. CrewAtWork'
  BY <1>0, <1>f DEF IInv, CrewAtWork, workerVars
<1>7. RowsCounted' /\ EveryRowOnce'
  BY <1>0, OthersRows DEF IInv, RowsCounted, EveryRowOnce, Active
<1> QED
  BY <1>1, <1>2, <1>3, <1>4, <1>5, <1>6, <1>7 DEF IInv

(* Waiting: a done count of n is every worker, each with its range run.     *)
LEMMA AwaitKeeps == ASSUME IInv, NEW c \in Callers, Await(c) PROVE IInv'
<1> USE PoolFacts DEF Await
<1>0. TypeOK /\ CallerMoves(c) /\ cpc'[c] = "reset" /\ cpc[c] = "wait" /\ done >= n
  BY DEF IInv, TypeOK, CallerMoves, AllDone, poolVars
<1>f. /\ Crew' = Crew /\ Served' = Served /\ \A w \in Workers : Ran(w)' <=> Ran(w)
      /\ \A d \in Callers : d # c => cpc'[d] = cpc[d]
      /\ \A d \in Callers : (Active(d)' <=> Active(d)) /\ (Holding(d)' <=> Holding(d))
  BY <1>0, CallerFrame DEF Active, Holding
<1>1. TypeOK'
  BY <1>0 DEF TypeOK, workerVars, poolVars
<1>2. SpawnedFirst'
  BY <1>0, <1>f DEF IInv, SpawnedFirst, workerVars, poolVars
<1>3. GateHeld'
  BY <1>f DEF IInv, GateHeld, poolVars
<1>4. JobPosted'
  BY <1>0, <1>f DEF IInv, JobPosted, poolVars
<1>5. CrewAtRest'
  BY <1>0, <1>f DEF IInv, CrewAtRest, workerVars, poolVars
<1>6. Served = Crew
  <2>1. n \in Nat /\ n \in 1 .. (MaxThreads - 1)
    BY <1>0 DEF IInv, TypeOK, SpawnedFirst
  <2>2. Crew = 0 .. (n - 1)
    BY <2>1 DEF Crew, Workers
  <2>3. IsFiniteSet(Crew) /\ Cardinality(Crew) = n
    BY <2>1, <2>2, FS_Interval
  <2>4. done = Cardinality(Served)
    BY <1>0 DEF IInv, CrewAtWork, Active
  <2>5. Served \in SUBSET Crew
    BY DEF Served
  <2> QED
    BY <1>0, <2>1, <2>3, <2>4, <2>5, FS_Subset, FS_CardinalityType
<1>7. CrewAtWork'
  BY <1>0, <1>f, <1>6 DEF IInv, CrewAtWork, workerVars, poolVars, Active
<1>8. \A r \in Rows : written'[c][r] = WrittenBy(c, r)'
  <2>1. \A r \in Rows : WrittenBy(c, r)' = WrittenBy(c, r)
    BY <1>0, <1>f, WrittenFrame DEF poolVars, Crew
  <2> QED
    BY <1>0, <2>1 DEF IInv, RowsCounted, Active
<1>9. RowsCounted' /\ EveryRowOnce'
  BY <1>0, <1>8, OthersRows DEF RowsCounted, EveryRowOnce
<1> QED
  BY <1>1, <1>2, <1>3, <1>4, <1>5, <1>7, <1>9 DEF IInv

(* Announcing: every worker is at rest with an older generation, so the     *)
(* count of the new one starts at nothing.                                  *)
LEMMA AnnounceKeeps == ASSUME IInv, NEW c \in Callers, Announce(c) PROVE IInv'
<1> USE PoolFacts DEF Announce
<1>0. /\ TypeOK /\ cpc'[c] = "own" /\ cpc[c] = "announce" /\ gen \in Nat /\ gen' = gen + 1
      /\ \A d \in Callers : d # c => cpc'[d] = cpc[d]
  BY DEF IInv, TypeOK
<1>f. /\ \A d \in Callers : ~Active(d)
      /\ \A d \in Callers : Active(d)' <=> d = c
      /\ \A d \in Callers : Holding(d)' <=> Holding(d)
  <2>1. \A d \in Callers : Holding(d) => d = c
    BY <1>0, OneHolds DEF Holding
  <2> QED
    BY <1>0, <2>1 DEF Active, Holding
<1>r. /\ done = 0 /\ Crew' = Crew
      /\ \A w \in Crew : wpc[w] = "spin" /\ seen[w] # gen' /\ seen'[w] = seen[w] /\ wpc'[w] = wpc[w]
  <2>1. done = 0 /\ \A w \in Crew : wpc[w] = "spin" /\ seen[w] = gen
    BY <1>f DEF IInv, CrewAtRest
  <2> QED
    BY <1>0, <2>1 DEF Crew, workerVars
<1>1. TypeOK'
  BY <1>0 DEF TypeOK, workerVars
<1>2. SpawnedFirst'
  BY <1>0 DEF IInv, TypeOK, SpawnedFirst, workerVars
<1>3. GateHeld'
  BY <1>f DEF IInv, GateHeld
<1>4. JobPosted'
  BY <1>0 DEF IInv, JobPosted
<1>5. CrewAtRest'
  BY <1>f DEF CrewAtRest
<1>6. CrewAtWork'
  <2>1. Served' = {}
    BY <1>r DEF Served
  <2>2. done' = Cardinality(Served')
    BY <1>r, <2>1, FS_EmptySet
  <2> QED
    BY <1>0, <1>f, <1>r, <2>2 DEF CrewAtWork
<1>7. \A r \in Rows : WrittenBy(c, r)' = 0
  <2>1. \A w \in Crew' : ~Ran(w)'
    BY <1>r DEF Ran
  <2> QED
    BY <1>0, <2>1 DEF WrittenBy
<1>8. RowsCounted' /\ EveryRowOnce'
  BY <1>0, <1>f, <1>7 DEF IInv, RowsCounted, EveryRowOnce
<1> QED
  BY <1>1, <1>2, <1>3, <1>4, <1>5, <1>6, <1>8 DEF IInv

(* The caller computes the last range itself.                               *)
LEMMA OwnRangeKeeps == ASSUME IInv, NEW c \in Callers, OwnRange(c) PROVE IInv'
<1> USE PoolFacts DEF OwnRange
<1>0. TypeOK /\ CallerMoves(c) /\ cpc'[c] = "wait" /\ cpc[c] = "own"
  BY DEF IInv, TypeOK, CallerMoves, poolVars
<1>w. \A r \in Rows : written'[c][r] = written[c][r]
                          + (IF r \in chunk(n + 1, n, call[c].total) THEN 1 ELSE 0)
  BY <1>0 DEF TypeOK, mm_rows
<1>f. /\ Crew' = Crew /\ Served' = Served /\ \A w \in Workers : Ran(w)' <=> Ran(w)
      /\ \A d \in Callers : d # c => cpc'[d] = cpc[d]
      /\ \A d \in Callers : (Active(d)' <=> Active(d)) /\ (Holding(d)' <=> Holding(d))
  BY <1>0, CallerFrame DEF Active, Holding
<1>1. TypeOK'
  <2>1. written' \in [Callers -> [Rows -> Nat]]
    BY <1>0 DEF TypeOK, mm_rows
  <2> QED
    BY <1>0, <2>1 DEF TypeOK, workerVars, poolVars
<1>2. SpawnedFirst'
  BY <1>0, <1>f DEF IInv, SpawnedFirst, workerVars, poolVars
<1>3. GateHeld'
  BY <1>f DEF IInv, GateHeld, poolVars
<1>4. JobPosted'
  BY <1>0, <1>f DEF IInv, JobPosted, poolVars
<1>5. CrewAtRest'
  BY <1>0, <1>f DEF IInv, CrewAtRest, workerVars, poolVars
<1>6. CrewAtWork'
  BY <1>0, <1>f DEF IInv, CrewAtWork, workerVars, poolVars, Active
<1>7. ASSUME NEW r \in Rows PROVE written'[c][r] = WrittenBy(c, r)'
  <2> DEFINE byWorker == \E w \in Crew : Ran(w) /\ r \in chunk(n + 1, w, call[c].total)
             mine == r \in chunk(n + 1, n, call[c].total)
  <2>1. (byWorker' <=> byWorker) /\ (mine' <=> mine)
    BY <1>f DEF poolVars, Crew
  <2> HIDE DEF byWorker, mine
  <2>2. WrittenBy(c, r) = (IF byWorker THEN 1 ELSE 0) + 0
    BY <1>0 DEF WrittenBy, byWorker
  <2>3. WrittenBy(c, r)' = (IF byWorker' THEN 1 ELSE 0) + (IF mine' THEN 1 ELSE 0)
    BY <1>0 DEF WrittenBy, byWorker, mine
  <2>4. written[c][r] = WrittenBy(c, r)
    BY <1>0 DEF IInv, RowsCounted, Active
  <2>5. written'[c][r] = written[c][r] + (IF mine THEN 1 ELSE 0)
    BY <1>w DEF mine
  <2> QED
    BY <2>1, <2>2, <2>3, <2>4, <2>5
<1>8. RowsCounted' /\ EveryRowOnce'
  BY <1>0, <1>7, OthersRows DEF RowsCounted, EveryRowOnce
<1> QED
  BY <1>1, <1>2, <1>3, <1>4, <1>5, <1>6, <1>8 DEF IInv

(* With every worker served, the ranges have covered each row once.         *)
LEMMA AllServed ==
    ASSUME IInv, NEW c \in Callers, cpc[c] = "reset", NEW r \in Rows
    PROVE  written[c][r] = IF r < call[c].total THEN 1 ELSE 0
<1> USE PoolFacts
<1> DEFINE t == call[c].total
           byWorker == \E w \in Crew : r \in chunk(n + 1, w, t)
           mine == r \in chunk(n + 1, n, t)
<1>1. n \in Nat /\ n \in 1 .. (MaxThreads - 1)
  BY DEF IInv, TypeOK, SpawnedFirst
<1>2. t \in Nat /\ r \in Nat /\ n + 1 \in Nat \ {0}
  BY <1>1 DEF IInv, JobPosted
<1>3. Crew = 0 .. (n - 1)
  BY <1>1 DEF Crew, Workers
<1>4. Served = Crew /\ \A w \in Crew : Ran(w)
  BY DEF IInv, CrewAtWork, Active, Served, Ran
<1>5. written[c][r] = (IF byWorker THEN 1 ELSE 0) + (IF mine THEN 1 ELSE 0)
  BY <1>4 DEF IInv, RowsCounted, WrittenBy, Active
<1> HIDE DEF t
<1>6. r < t <=> byWorker \/ mine
  <2>1. r < t <=> \E i \in 0 .. n : r \in chunk(n + 1, i, t)
    <3>1. (n + 1) - 1 = n
      BY <1>1
    <3> QED
      BY <1>2, <3>1, ChunksCover
  <2>2. 0 .. n = Crew \cup {n}
    BY <1>1, <1>3
  <2> QED
    BY <2>1, <2>2
<1>7. ~(byWorker /\ mine)
  <2>1. ASSUME NEW w \in Crew, r \in chunk(n + 1, w, t), mine PROVE FALSE
    <3>1. w \in Nat /\ w < n
      BY <1>1, <1>3
    <3>2. w = n
      BY <1>1, <1>2, <2>1, <3>1, ChunksDisjoint
    <3> QED
      BY <1>1, <3>1, <3>2
  <2> QED
    BY <2>1
<1> QED
  BY <1>5, <1>6, <1>7 DEF t

(* The reset: the count goes back to nothing with no worker left to add to  *)
(* it, and the call returns complete.                                       *)
LEMMA ResetKeeps == ASSUME IInv, NEW c \in Callers, Reset(c) PROVE IInv'
<1> USE PoolFacts DEF Reset
<1>0. TypeOK /\ CallerMoves(c) /\ cpc'[c] = "returned" /\ cpc[c] = "reset"
  BY DEF IInv, TypeOK, CallerMoves
<1>f. /\ Crew' = Crew
      /\ \A d \in Callers : d # c => cpc'[d] = cpc[d] /\ ~Holding(d)
      /\ \A d \in Callers : ~Active(d)' /\ ~Holding(d)'
  <2>1. \A d \in Callers : Holding(d) => d = c
    BY <1>0, OneHolds DEF Holding
  <2> QED
    BY <1>0, <2>1, CallerFrame DEF Active, Holding
<1>1. TypeOK'
  BY <1>0 DEF TypeOK, workerVars
<1>2. SpawnedFirst'
  BY <1>0, <1>f DEF IInv, SpawnedFirst, workerVars
<1>3. GateHeld'
  BY <1>f DEF GateHeld
<1>4. JobPosted'
  BY <1>0, <1>f DEF IInv, JobPosted
<1>5. CrewAtRest'
  <2>1. Served = Crew
    BY <1>0 DEF IInv, CrewAtWork, Active
  <2> QED
    BY <1>0, <1>f, <2>1 DEF CrewAtRest, Served, workerVars
<1>6. CrewAtWork'
  BY <1>f DEF CrewAtWork
<1>7. \A r \in Rows : written'[c][r] = IF r < call'[c].total THEN 1 ELSE 0
  BY <1>0, AllServed
<1>8. RowsCounted' /\ EveryRowOnce'
  BY <1>0, <1>7, OthersRows DEF RowsCounted, EveryRowOnce, Active
<1> QED
  BY <1>1, <1>2, <1>3, <1>4, <1>5, <1>6, <1>8 DEF IInv

(* Back to the caller's own code.                                           *)
LEMMA ResumeKeeps == ASSUME IInv, NEW c \in Callers, Resume(c) PROVE IInv'
<1> USE PoolFacts DEF Resume
<1>0. TypeOK /\ CallerMoves(c) /\ cpc'[c] = "idle" /\ cpc[c] = "returned"
  BY DEF IInv, TypeOK, CallerMoves, poolVars
<1>f. /\ Crew' = Crew /\ Served' = Served
      /\ \A d \in Callers : d # c => cpc'[d] = cpc[d]
      /\ \A d \in Callers : (Active(d)' <=> Active(d)) /\ (Holding(d)' <=> Holding(d))
  BY <1>0, CallerFrame DEF Active, Holding
<1>1. TypeOK'
  <2>1. written' \in [Callers -> [Rows -> Nat]]
    BY <1>0 DEF TypeOK
  <2> QED
    BY <1>0, <2>1 DEF TypeOK, workerVars, poolVars
<1>2. SpawnedFirst'
  BY <1>0, <1>f DEF IInv, SpawnedFirst, workerVars, poolVars
<1>3. GateHeld'
  BY <1>f DEF IInv, GateHeld, poolVars
<1>4. JobPosted'
  BY <1>0, <1>f DEF IInv, TypeOK, JobPosted, poolVars
<1>5. CrewAtRest'
  BY <1>0, <1>f DEF IInv, CrewAtRest, workerVars, poolVars
<1>6. CrewAtWork'
  <2>1. \A d \in Callers : Active(d) => d # c /\ call'[d] = call[d] /\ cpc'[d] = cpc[d]
    BY <1>0, <1>f DEF TypeOK, Active
  <2> QED
    BY <1>0, <1>f, <2>1 DEF IInv, CrewAtWork, workerVars, poolVars
<1>7. RowsCounted' /\ EveryRowOnce'
  BY <1>0, OthersRows DEF RowsCounted, EveryRowOnce, Active
<1> QED
  BY <1>1, <1>2, <1>3, <1>4, <1>5, <1>6, <1>7 DEF IInv

(* A worker that has left its spin loop, or may leave it, serves the one    *)
(* call that is active.                                                     *)
LEMMA WorkerServes ==
    ASSUME IInv, NEW w \in Workers, wpc[w] # "spin" \/ (w < n /\ gen # seen[w])
    PROVE  w \in Crew /\ \E c \in Callers : Active(c) /\ \A d \in Callers : Active(d) => d = c
<1>1. w \in Crew
  <2>1. n \in Int /\ w \in Int
    BY PoolFacts DEF IInv, TypeOK
  <2> QED
    BY <2>1 DEF IInv, SpawnedFirst, Crew
<1>2. PICK c \in Callers : Active(c)
  BY <1>1 DEF IInv, CrewAtRest
<1>3. \A d \in Callers : Active(d) => d = c
  BY <1>2, OneHolds DEF Active, Holding
<1> QED
  BY <1>1, <1>2, <1>3

(* A worker's step moves that worker, and of the callers' state at most the *)
(* rows.                                                                    *)
WorkerMoves(w) ==
    /\ UNCHANGED <<setting, n, gate, job, gen, call, cpc, made>>
    /\ seen' = [seen EXCEPT ![w] = seen'[w]] /\ seen'[w] \in {seen[w], gen}
    /\ wpc' = [wpc EXCEPT ![w] = wpc'[w]] /\ wpc'[w] \in {"spin", "load", "job", "run", "done"}
    /\ wjob' = [wjob EXCEPT ![w] = wjob'[w]] /\ wjob'[w] \in Calls \cup {NoJob}

(* What a worker's step leaves alone: the gate, the job cell and the other  *)
(* workers.                                                                 *)
LEMMA WorkerFrame ==
    ASSUME IInv, NEW w \in Crew, WorkerMoves(w)
    PROVE  /\ SpawnedFirst' /\ GateHeld' /\ JobPosted'
           /\ written' \in [Callers -> [Rows -> Nat]] /\ done' \in Nat => TypeOK'
           /\ Crew' = Crew
           /\ \A c \in Callers : Active(c)' <=> Active(c)
           /\ \A v \in Crew : v # w => /\ seen'[v] = seen[v] /\ wpc'[v] = wpc[v] /\ wjob'[v] = wjob[v]
                                       /\ Ran(v)' <=> Ran(v)
           /\ Served' \ {w} = Served \ {w}
<1> USE PoolFacts DEF WorkerMoves
<1>0. TypeOK /\ w \in Workers /\ w < n /\ w \in Nat /\ n \in Int
  BY DEF IInv, TypeOK, Crew
<1>1. \A v \in Workers : v # w => /\ seen'[v] = seen[v] /\ wpc'[v] = wpc[v] /\ wjob'[v] = wjob[v]
  BY <1>0 DEF TypeOK
<1>2. SpawnedFirst'
  <2>1. \A v \in Workers : seen'[v] <= gen
    BY <1>0, <1>1 DEF IInv, TypeOK, SpawnedFirst
  <2>2. \A v \in Workers : v >= n => v # w
    BY <1>0
  <2> QED
    BY <1>1, <2>1, <2>2 DEF IInv, SpawnedFirst
<1>3. GateHeld' /\ JobPosted'
  BY DEF IInv, GateHeld, JobPosted, Holding
<1>4. ASSUME written' \in [Callers -> [Rows -> Nat]], done' \in Nat PROVE TypeOK'
  <2>1. seen' \in [Workers -> Nat]
    BY <1>0 DEF TypeOK
  <2>2. wpc' \in [Workers -> {"spin", "load", "job", "run", "done"}]
    BY <1>0 DEF TypeOK
  <2>3. wjob' \in [Workers -> Calls \cup {NoJob}]
    BY <1>0 DEF TypeOK
  <2> QED
    BY <1>0, <1>4, <2>1, <2>2, <2>3 DEF TypeOK
<1>5. Crew' = Crew /\ \A c \in Callers : Active(c)' <=> Active(c)
  BY DEF Crew, Active
<1>6. Served' \ {w} = Served \ {w}
  BY <1>1, <1>5 DEF Served, Crew
<1> QED
  BY <1>1, <1>2, <1>3, <1>4, <1>5, <1>6 DEF Crew, Ran

(* The steps that write no row and count nothing: the worker wakes, loads   *)
(* the generation, takes its snapshot of the job.                           *)
LEMMA QuietStepKeeps ==
    ASSUME IInv, NEW w \in Workers, Wake(w) \/ LoadGen(w) \/ Snapshot(w)
    PROVE  IInv'
<1> USE PoolFacts
<1>0. TypeOK /\ w \in Crew /\ WorkerMoves(w) /\ UNCHANGED <<written, done>>
  <2>1. TypeOK /\ w \in Crew
    BY WorkerServes DEF IInv, Wake, LoadGen, Snapshot, Spawned
  <2>2. CASE Wake(w)
    BY <2>1, <2>2 DEF TypeOK, Wake, WorkerMoves, poolVars, callerVars
  <2>3. CASE LoadGen(w)
    BY <2>1, <2>3 DEF TypeOK, LoadGen, WorkerMoves, poolVars, callerVars
  <2>4. CASE Snapshot(w)
    BY <2>1, <2>4 DEF TypeOK, Snapshot, WorkerMoves, poolVars, callerVars
  <2> QED
    BY <2>1, <2>2, <2>3, <2>4 DEF Wake, LoadGen, Snapshot, poolVars, callerVars
<1>1. PICK c \in Callers : Active(c) /\ \A d \in Callers : Active(d) => d = c
  BY WorkerServes DEF Wake, LoadGen, Snapshot, Spawned
<1>2. /\ ~Ran(w) /\ ~Ran(w)' /\ w \notin Served /\ w \notin Served'
      /\ wpc'[w] = "load" => seen'[w] # gen
      /\ wpc'[w] \in {"job", "run", "done"} => seen'[w] = gen
      /\ wpc'[w] = "run" => wjob'[w] = call[c]
  <2>1. CASE Wake(w)
    BY <1>0, <2>1 DEF TypeOK, Wake, Ran, Served, poolVars
  <2>2. CASE LoadGen(w)
    BY <1>0, <2>2 DEF TypeOK, LoadGen, Ran, Served, poolVars
  <2>3. CASE Snapshot(w)
    <3>1. job = call[c] /\ seen[w] = gen
      BY <1>0, <1>1, <2>3 DEF IInv, JobPosted, CrewAtWork, Active, Snapshot
    <3> QED
      BY <1>0, <2>3, <3>1 DEF TypeOK, Snapshot, Ran, Served, poolVars
  <2> QED
    BY <2>1, <2>2, <2>3
<1>3. Served' = Served
  BY <1>0, <1>2, WorkerFrame
<1>4. \A v \in Crew : Ran(v)' <=> Ran(v)
  BY <1>0, <1>2, WorkerFrame
<1>5. CrewAtRest'
  BY <1>0, <1>1, WorkerFrame DEF CrewAtRest
<1>6. CrewAtWork'
  <2>1. \A d \in Callers : Active(d)' => d = c
    BY <1>0, <1>1, WorkerFrame
  <2>2. Crew' = Crew /\ gen' = gen /\ call' = call /\ cpc' = cpc /\ done' = done
    BY <1>0, WorkerFrame DEF WorkerMoves
  <2>3. \A v \in Crew : /\ wpc'[v] = "load" => seen'[v] # gen
                        /\ wpc'[v] \in {"job", "run", "done"} => seen'[v] = gen
                        /\ wpc'[v] = "run" => wjob'[v] = call[c]
    BY <1>0, <1>1, <1>2, WorkerFrame DEF IInv, CrewAtWork
  <2> QED
    BY <1>1, <1>3, <2>1, <2>2, <2>3 DEF IInv, CrewAtWork
<1>7. RowsCounted' /\ EveryRowOnce'
  <2>1. n' = n /\ call' = call /\ cpc' = cpc /\ written' = written /\ Crew' = Crew
    BY <1>0, WorkerFrame DEF WorkerMoves
  <2>2. \A d \in Callers : \A r \in Rows : WrittenBy(d, r)' = WrittenBy(d, r)
    BY <1>4, <2>1, WrittenFrame
  <2> QED
    BY <2>1, <2>2 DEF IInv, RowsCounted, EveryRowOnce, Active
<1> QED
  BY <1>0, <1>5, <1>6, <1>7, WorkerFrame DEF IInv, TypeOK

(* A worker runs its range: rows no other thread has written or will write. *)
LEMMA RunRangeKeeps == ASSUME IInv, NEW w \in Workers, RunRange(w) PROVE IInv'
<1> USE PoolFacts DEF RunRange
<1>0. TypeOK /\ w \in Crew /\ WorkerMoves(w) /\ wpc[w] = "run" /\ wpc'[w] = "done" /\ done' = done
  <2>1. TypeOK /\ w \in Crew
    BY WorkerServes DEF IInv
  <2> QED
    BY <2>1 DEF TypeOK, WorkerMoves, poolVars
<1>1. PICK c \in Callers : Active(c) /\ \A d \in Callers : Active(d) => d = c
  BY WorkerServes
<1>2. wjob[w] = call[c] /\ call[c].caller = c /\ seen[w] = gen /\ call[c].total \in Nat
  BY <1>0, <1>1 DEF IInv, CrewAtWork, JobPosted, Active
<1> DEFINE t == call[c].total
<1>3. /\ written' = [written EXCEPT ![c] = [r \in Rows |-> written[c][r]
                                               + (IF r \in chunk(n + 1, w, t) THEN 1 ELSE 0)]]
      /\ written' \in [Callers -> [Rows -> Nat]]
  BY <1>0, <1>2 DEF TypeOK, mm_rows
<1>4. ~Ran(w) /\ Ran(w)' /\ w \notin Served /\ w \notin Served'
  BY <1>0, <1>2 DEF Ran, Served, WorkerMoves
<1>5. Served' = Served
  BY <1>0, <1>4, WorkerFrame
<1>6. CrewAtRest'
  BY <1>0, <1>1, WorkerFrame DEF CrewAtRest
<1>7. CrewAtWork'
  <2>1. \A d \in Callers : Active(d)' => d = c
    BY <1>0, <1>1, WorkerFrame
  <2>2. Crew' = Crew /\ gen' = gen /\ call' = call /\ cpc' = cpc /\ seen'[w] = gen
    BY <1>0, <1>2, WorkerFrame DEF WorkerMoves
  <2>3. \A v \in Crew : /\ wpc'[v] = "load" => seen'[v] # gen
                        /\ wpc'[v] \in {"job", "run", "done"} => seen'[v] = gen
                        /\ wpc'[v] = "run" => wjob'[v] = call[c]
    BY <1>0, <1>1, <2>2, WorkerFrame DEF IInv, CrewAtWork
  <2> QED
    BY <1>0, <1>1, <1>5, <2>1, <2>2, <2>3 DEF IInv, CrewAtWork
<1>8. ASSUME NEW r \in Rows PROVE written'[c][r] = WrittenBy(c, r)'
  <2> DEFINE byWorker == \E v \in Crew : Ran(v) /\ r \in chunk(n + 1, v, t)
             mine == cpc[c] # "own" /\ r \in chunk(n + 1, n, t)
             his == r \in chunk(n + 1, w, t)
  <2>1. n' = n /\ call' = call /\ cpc' = cpc /\ Crew' = Crew
    BY <1>0, WorkerFrame DEF WorkerMoves
  <2>2. byWorker' <=> byWorker \/ his
    BY <1>0, <1>4, <2>1, WorkerFrame
  <2>3. ~(byWorker /\ his)
    <3>1. n + 1 \in Nat \ {0} /\ r \in Nat /\ t \in Nat
      BY <1>0, <1>2 DEF TypeOK, Crew
    <3>2. ASSUME NEW v \in Crew, Ran(v), r \in chunk(n + 1, v, t), his PROVE FALSE
      <4>1. v \in Nat /\ w \in Nat
        BY <1>0 DEF Crew
      <4>2. v = w
        BY <3>1, <3>2, <4>1, ChunksDisjoint
      <4> QED
        BY <1>4, <3>2, <4>2
    <3> QED
      BY <3>2
  <2>4. mine' <=> mine
    BY <2>1
  <2>5. written'[c][r] = written[c][r] + (IF his THEN 1 ELSE 0)
    BY <1>0, <1>3 DEF TypeOK
  <2> HIDE DEF byWorker, mine, his
  <2>6. written[c][r] = (IF byWorker THEN 1 ELSE 0) + (IF mine THEN 1 ELSE 0)
    BY <1>1 DEF IInv, RowsCounted, WrittenBy, byWorker, mine
  <2>7. WrittenBy(c, r)' = (IF byWorker' THEN 1 ELSE 0) + (IF mine' THEN 1 ELSE 0)
    BY DEF WrittenBy, byWorker, mine
  <2> QED
    BY <2>2, <2>3, <2>4, <2>5, <2>6, <2>7
<1>9. RowsCounted' /\ EveryRowOnce'
  <2>1. call' = call /\ cpc' = cpc /\ \A d \in Callers : d # c => written'[d] = written[d]
    BY <1>0, <1>3 DEF WorkerMoves, TypeOK
  <2>2. \A d \in Callers : Active(d)' => d = c
    BY <1>0, <1>1, WorkerFrame
  <2>3. cpc[c] \notin {"gate", "post", "announce", "returned"}
    BY <1>1 DEF Active
  <2> QED
    BY <1>8, <2>1, <2>2, <2>3 DEF IInv, RowsCounted, EveryRowOnce
<1> QED
  BY <1>0, <1>3, <1>6, <1>7, <1>9, WorkerFrame DEF IInv, TypeOK

(* A worker counts itself done, once.                                       *)
LEMMA FinishedKeeps == ASSUME IInv, NEW w \in Workers, Finished(w) PROVE IInv'
<1> USE PoolFacts DEF Finished
<1>0. /\ TypeOK /\ w \in Crew /\ WorkerMoves(w) /\ wpc[w] = "done" /\ wpc'[w] = "spin"
      /\ written' = written /\ done' = done + 1
  <2>1. TypeOK /\ w \in Crew
    BY WorkerServes DEF IInv
  <2> QED
    BY <2>1 DEF TypeOK, WorkerMoves, callerVars
<1>1. PICK c \in Callers : Active(c) /\ \A d \in Callers : Active(d) => d = c
  BY WorkerServes
<1>2. seen[w] = gen /\ seen'[w] = gen
  BY <1>0, <1>1 DEF IInv, CrewAtWork
<1>3. Ran(w) /\ Ran(w)' /\ w \notin Served /\ w \in Served'
  BY <1>0, <1>2, WorkerFrame DEF Ran, Served, WorkerMoves
<1>4. Served' = Served \cup {w}
  BY <1>0, <1>3, WorkerFrame
<1>5. done' = Cardinality(Served')
  <2>1. IsFiniteSet(Served)
    <3>1. IsFiniteSet(Workers)
      BY FS_Interval DEF Workers
    <3>2. Served \in SUBSET Workers
      BY DEF Served, Crew
    <3> QED
      BY <3>1, <3>2, FS_Subset
  <2>2. done = Cardinality(Served)
    BY <1>1 DEF IInv, CrewAtWork
  <2> QED
    BY <1>0, <1>3, <1>4, <2>1, <2>2, FS_AddElement
<1>6. CrewAtRest'
  BY <1>0, <1>1, WorkerFrame DEF CrewAtRest
<1>7. CrewAtWork'
  <2>1. \A d \in Callers : Active(d)' => d = c
    BY <1>0, <1>1, WorkerFrame
  <2>2. Crew' = Crew /\ gen' = gen /\ call' = call /\ cpc' = cpc
    BY <1>0, WorkerFrame DEF WorkerMoves
  <2>3. \A v \in Crew : /\ wpc'[v] = "load" => seen'[v] # gen
                        /\ wpc'[v] \in {"job", "run", "done"} => seen'[v] = gen
                        /\ wpc'[v] = "run" => wjob'[v] = call[c]
    BY <1>0, <1>1, WorkerFrame DEF IInv, CrewAtWork
  <2>4. cpc'[c] # "reset"
    BY <1>0, <1>1, <1>3, <2>2 DEF IInv, CrewAtWork
  <2> QED
    BY <1>5, <2>1, <2>2, <2>3, <2>4 DEF CrewAtWork
<1>8. RowsCounted' /\ EveryRowOnce'
  <2>1. n' = n /\ call' = call /\ cpc' = cpc /\ Crew' = Crew
    BY <1>0, WorkerFrame DEF WorkerMoves
  <2>2. \A v \in Crew : Ran(v)' <=> Ran(v)
    BY <1>0, <1>3, WorkerFrame
  <2>3. \A d \in Callers : \A r \in Rows : WrittenBy(d, r)' = WrittenBy(d, r)
    BY <2>1, <2>2, WrittenFrame
  <2> QED
    BY <1>0, <2>1, <2>3 DEF IInv, RowsCounted, EveryRowOnce, Active
<1> QED
  BY <1>0, <1>6, <1>7, <1>8, WorkerFrame DEF IInv, TypeOK

(* No step of a caller, a worker or the setting breaks the invariant.       *)
LEMMA NextKeeps == ASSUME IInv, [Next]_vars PROVE IInv'
<1>1. CASE \E k \in 0 .. MaxThreads : set_cpu_threads(k)
  <2>1. setting' \in 0 .. MaxThreads /\ UNCHANGED <<callerVars, workerVars, poolVars>>
    BY <1>1, PoolFacts DEF set_cpu_threads
  <2> QED
    BY <2>1, SettingKeeps
<1>2. CASE \E c \in Callers : CallerStep(c)
  BY <1>2, LockGateKeeps, PostKeeps, AnnounceKeeps, OwnRangeKeeps, AwaitKeeps, ResetKeeps,
     ResumeKeeps DEF CallerStep
<1>3. CASE \E c \in Callers : \E j \in {j \in Calls : j.caller = c} : Enter(c, j)
  BY <1>3, EnterKeeps
<1>4. CASE \E w \in Workers : WorkerStep(w)
  BY <1>4, QuietStepKeeps, RunRangeKeeps, FinishedKeeps DEF WorkerStep
<1>5. CASE UNCHANGED vars
  <2>1. setting' \in 0 .. MaxThreads /\ UNCHANGED <<callerVars, workerVars, poolVars>>
    BY <1>5 DEF vars, IInv, TypeOK
  <2> QED
    BY <2>1, SettingKeeps
<1> QED
  BY <1>1, <1>2, <1>3, <1>4, <1>5 DEF Next

-----------------------------------------------------------------------------
(* The theorems. *)

(* The invariant holds in every reachable state of the pool.                *)
LEMMA PoolInvariance == Spec => []IInv
<1>1. Init => IInv
  BY InitIInv
<1>2. IInv /\ [Next]_vars => IInv'
  BY NextKeeps
<1> QED
  BY <1>1, <1>2, PTL DEF Spec

(* par_for and cpu_quant_matmul compute each row of a call exactly once,    *)
(* with any number of threads and of concurrent callers, and whatever       *)
(* --threads is set to after the pool was spawned.                          *)
THEOREM RowsComputedOnce == Spec => []EveryRowOnce
<1>1. IInv => EveryRowOnce
  BY DEF IInv
<1> QED
  BY <1>1, PoolInvariance, PTL

(* The SAFETY contract of MmJob and ParForJob: a worker that runs a range   *)
(* reads the context of the call whose caller is still in the pool.         *)
THEOREM ContextsOutliveRanges == Spec => []NoDeadContext
<1>1. IInv => NoDeadContext
  <2> SUFFICES ASSUME IInv, NEW w \in Workers, wpc[w] = "run"
               PROVE  /\ wjob[w].caller \in Callers
                      /\ cpc[wjob[w].caller] \in {"own", "wait"}
                      /\ wjob[w] = call[wjob[w].caller]
    BY DEF NoDeadContext
  <2>1. w \in Crew
    BY WorkerServes
  <2>2. PICK c \in Callers : Active(c)
    BY WorkerServes
  <2>3. wjob[w] = call[c] /\ call[c].caller = c
    BY <2>1, <2>2 DEF IInv, CrewAtWork, JobPosted, Active
  <2>4. cpc[c] # "reset"
    BY <2>1, <2>2 DEF IInv, CrewAtWork, Served
  <2> QED
    BY <2>2, <2>3, <2>4 DEF Active
<1> QED
  BY <1>1, PoolInvariance, PTL

(* The settings, the handoff cells and the threads keep their types.        *)
THEOREM PoolTypeCorrect == Spec => []TypeOK
<1>1. IInv => TypeOK
  BY DEF IInv
<1> QED
  BY <1>1, PoolInvariance, PTL
=============================================================================
