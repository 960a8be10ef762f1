------------------------------ MODULE GraphRun ------------------------------
(***************************************************************************)
(* Forwards through one GraphCache: the bounded cache of built graphs and  *)
(* the re-map of the allocator onto a cached one (src/graph/cache.rs), the *)
(* liveness allocator with its size classes, idle slots, views, in-place   *)
(* aliases and staging buffers (src/graph/alloc.rs), the execution split   *)
(* by split with asynchronous boundary copies (src/graph/scheduler.rs) and *)
(* the capture and replay of CUDA splits (src/graph/cuda_backend.rs).      *)
(*                                                                         *)
(* Numbers are left out. What a buffer holds is, element by element, the   *)
(* node that wrote it and the forward it wrote it in; a node that reads    *)
(* anything but what its sources wrote in this forward is recorded in bad. *)
(***************************************************************************)
EXTENDS ModelGraph, TLC, FiniteSetsExt

CONSTANTS
    Confs,              \* the loaded configurations: device, plan, quantization, budget
    Shapes,             \* the graph shapes the forwards ask for
    MaxForwards,        \* bound on the forwards of a behaviour
    MAX_CACHED_GRAPHS,
    CaptureWarmup,      \* capture_warmup, the run of a split that is captured
    ClassMin, ClassGrain

VARIABLES
    conf,       \* the configuration in force
    cache,      \* the cached graphs, most recently used first: [p, uid]
    nextUid,    \* NEXT_GRAPH_UID
    al,         \* the allocator
    mem,        \* what every buffer holds
    cu,         \* the CUDA backend's captures
    at,         \* the execution: phase, the split to run and the previous backend
    step,       \* forwards begun
    bad         \* reads of something else than the source's value (history)

vars == <<conf, cache, nextUid, al, mem, cu, at, step, bad>>

Graphs == [c \in Confs, p \in Shapes |-> Prepared(c, p)]
Splits == [c \in Confs, p \in Shapes |-> split_graph(Graphs[c, p])]

graph == Graphs[conf, cache[1].p]
splits == Splits[conf, cache[1].p]

-----------------------------------------------------------------------------
(* allocplan.rs: size classes.                                             *)

Pow2From(x) == Min({y \in {ClassMin * (2 ^ i) : i \in 0 .. 8} : y >= x})

class_size(n) ==
    IF n <= ClassMin THEN ClassMin
    ELSE IF n <= ClassGrain THEN Pow2From(n)
    ELSE ((n + ClassGrain - 1) \div ClassGrain) * ClassGrain

-----------------------------------------------------------------------------
(* alloc.rs: the allocator. alive holds the deadline and the class of each *)
(* activation buffer of the mapped graph, idle the reserved buffers nobody *)
(* holds, n the buffers ever made per backend (on CUDA also pool_gen).     *)

NoBuf == [b |-> "none", id |-> 0, off |-> 0, len |-> 0]
own(b, id, len) == [b |-> b, id |-> id, off |-> 0, len |-> len]
window(r, off, len) == [r EXCEPT !.off = @ + off, !.len = len]
key(r) == <<r.b, r.id>>

Fresh ==
    [buf |-> <<>>, alive |-> <<>>, idle |-> {}, last |-> <<>>,
     n |-> [b \in Devices |-> 0], held |-> [b \in Devices |-> 0],
     kv |-> [l \in 0 .. Layers - 1 |-> [k |-> NoBuf, v |-> NoBuf]],
     cross |-> <<>>, pend |-> <<>>, copies |-> 0, waits |-> 0, ok |-> TRUE]

\* free_in_pool of a classed buffer: it stays reserved, idle.
free_in_pool(a, ks) ==
    [a EXCEPT !.idle = @ \union {<<k[1], a.alive[k].class, k[2]>> : k \in ks},
              !.alive = [k \in DOMAIN @ \ ks |-> @[k]]]

\* Mutant of Expired: a buffer is free for the node that reads it last.
ExpiredEarly(a, i) == {k \in DOMAIN a.alive : a.alive[k].until <= i}

Expired(a, i) == {k \in DOMAIN a.alive : a.alive[k].until < i}

sweep(a, i) == free_in_pool(a, Expired(a, i))

\* Mutant of IdleOf: a re-map never finds the buffers it returned.
IdleOfNone(a, b, class) == {}

IdleOf(a, b, class) == {s[3] : s \in {s \in a.idle : s[1] = b /\ s[2] = class}}

\* Mutant of alloc_in_pool: a recycled buffer is charged as if it were new.
alloc_in_poolRecharged(a, c, b, size, until, i) ==
    LET class == class_size(size)
        ids   == IdleOf(a, b, class)
        id    == IF ids = {} THEN a.n[b] + 1 ELSE Min(ids)
    IN  [a EXCEPT !.idle = @ \ {<<b, class, id>>},
                  !.n[b] = IF ids = {} THEN @ + 1 ELSE @,
                  !.held[b] = @ + class,
                  !.alive = (<<b, id>> :> [until |-> until, class |-> class]) @@ @,
                  !.buf[i] = own(b, id, size)]

\* alloc_in_pool: the gate charges the class even when an idle buffer will serve it.
alloc_in_pool(a, c, b, size, until, i) ==
    LET class == class_size(size)
        ids   == IdleOf(a, b, class)
        id    == IF ids = {} THEN a.n[b] + 1 ELSE Min(ids)
    IN  IF b # "cpu" /\ a.held[b] + class > c.budget
        THEN [a EXCEPT !.ok = FALSE]
        ELSE [a EXCEPT !.idle = @ \ {<<b, class, id>>},
                       !.n[b] = IF ids = {} THEN @ + 1 ELSE @,
                       !.held[b] = IF ids = {} THEN @ + class ELSE @,
                       !.alive = (<<b, id>> :> [until |-> until, class |-> class]) @@ @,
                       !.buf[i] = own(b, id, size)]

alloc_fresh(a, b, len) == [a EXCEPT !.n[b] = @ + 1, !.held[b] = @ + len]

\* The K and V regions of a block are made once and outlive every graph.
ensure_kv(a, layer, b) ==
    IF a.kv[layer].k # NoBuf
    THEN [a EXCEPT !.ok = @ /\ a.kv[layer].k.b = b]
    ELSE [a EXCEPT !.kv[layer] = [k |-> own(b, a.n[b] + 1, KvEmbd * Ctx),
                                  v |-> own(b, a.n[b] + 2, KvEmbd * Ctx)],
                   !.n[b] = @ + 2]

\* The nodes whose life grows to reach `to`, from one of them up through the views.
Ancestry(g, i) == {i} \union (IF g[i].isView THEN {g[i].src[1]} ELSE {})

\* Mutant of extend_through_views: liveness grows, the buffer's own deadline does not.
extend_through_viewsNoDeadline(a, g, from, to) ==
    [a EXCEPT !.last = [i \in DOMAIN @ |-> IF i \in Ancestry(g, from) /\ @[i] < to THEN to ELSE @[i]]]

extend_through_views(a, g, from, to) ==
    LET grown == {i \in Ancestry(g, from) : a.last[i] < to /\ a.last[from] < to}
        keys  == {key(a.buf[i]) : i \in grown} \intersect DOMAIN a.alive
    IN  [a EXCEPT !.last = [i \in DOMAIN @ |-> IF i \in grown THEN to ELSE @[i]],
                  !.alive = [k \in DOMAIN @ |-> IF k \in keys /\ @[k].until < to
                                                THEN [@[k] EXCEPT !.until = to] ELSE @[k]]]

n_consumers(g, s) == Cardinality({<<i, j>> \in (DOMAIN g) \X (1 .. 5) :
                                      j \in DOMAIN g[i].src /\ g[i].src[j] = s})

InPlaceOps == {"Silu", "RoPE", "QkvBiasRopeStore", "SwiGLU"}
StoreOps == {"KvcacheStore", "FusedQKV", "FusedQkvNorm", "QkvBiasRopeStore"}

InPlace(a, g, i) ==
    LET n == g[i]
    IN  /\ n.op \in InPlaceOps
        /\ n.op = "SwiGLU" => g[n.src[1]].isView
        /\ a.buf[n.src[1]].b = n.backend
        /\ n_consumers(g, n.src[1]) = 1

\* The allocator refuses at the first allocation the budget cannot hold.
AllocEach(op(_, _), a, ids) == FoldLeft(LAMBDA x, i : IF x.ok THEN op(x, i) ELSE x, a, ids)

Place(a0, g, c, i) ==
    LET a == sweep(a0, i)
        n == g[i]
        kv == IF n.op \in StoreOps \union {"KvcacheLoad"} THEN ensure_kv(a, n.arg, n.backend) ELSE a
    IN  CASE is_input(n) -> a
          [] n.op = "View" ->
                extend_through_views([a EXCEPT !.buf[i] = window(a.buf[n.src[1]], n.arg, n_elements(n))],
                                     g, n.src[1], a.last[i])
          [] n.op \in {"KvcacheStore", "KvcacheLoad"} -> [kv EXCEPT !.buf[i] = kv.kv[n.arg].k]
          [] ~is_input(n) /\ n.op \notin {"View", "KvcacheStore", "KvcacheLoad"} ->
                IF kv.last[i] <= i THEN kv
                ELSE IF InPlace(kv, g, i)
                THEN extend_through_views([kv EXCEPT !.buf[i] = kv.buf[n.src[1]]], g, n.src[1], kv.last[i])
                ELSE alloc_in_pool(kv, c, n.backend, n_elements(n), kv.last[i], i)

last_use(g) ==
    [i \in DOMAIN g |->
        IF i = Output(g) \/ is_input(g[i]) THEN Len(g) + 1
        ELSE Max({i} \union {j \in DOMAIN g : i \in Range(g[j].src)})]

LastUse == [c \in Confs, p \in Shapes |-> last_use(Graphs[c, p])]

InputsOf(g) == SelectSeq([i \in DOMAIN g |-> i], LAMBDA i : is_input(g[i]))

\* Every input is placed before the walk can recycle a buffer into it.
alloc_graph(a, c, p) ==
    LET g      == Graphs[c, p]
        start  == [free_in_pool(a, DOMAIN a.alive) EXCEPT
                      !.buf = [i \in DOMAIN g |-> NoBuf],
                      !.last = LastUse[c, p], !.pend = <<>>]
        inputs == AllocEach(LAMBDA x, i : alloc_in_pool(x, c, g[i].backend, n_elements(g[i]), x.last[i], i),
                           start, InputsOf(g))
    IN  AllocEach(LAMBDA x, i : Place(x, g, c, i), inputs, [i \in DOMAIN g |-> i])

-----------------------------------------------------------------------------
(* Buffers: elements tagged with the node that wrote them and the forward. *)

Unwritten == <<0, 0>>

Contents(m, r) ==
    [e \in 1 .. r.len |->
        IF key(r) \in DOMAIN m /\ r.off + e \in DOMAIN m[key(r)] THEN m[key(r)][r.off + e] ELSE Unwritten]

Written(m, r, data) ==
    LET old == IF key(r) \in DOMAIN m THEN m[key(r)] ELSE <<>>
    IN  (key(r) :> ([e \in r.off + 1 .. r.off + r.len |-> data[e - r.off]] @@ old)) @@ m

Tagged(r, tag) == [e \in 1 .. r.len |-> tag]

\* The node whose execution left what a reader of s expects to find.
Maker(g, s) ==
    LET n == g[s]
        StoreOf(l) == CHOOSE i \in DOMAIN g : g[i].op \in StoreOps /\ g[i].arg = l
    IN  CASE n.op = "View" -> n.src[1]
          [] n.op = "KvcacheLoad" -> StoreOf(n.arg)
          [] n.op \notin {"View", "KvcacheLoad"} -> s

Steps(op(_, _), st, xs) == FoldLeft(LAMBDA y, x : IF y.al.ok THEN op(y, x) ELSE y, st, xs)

Elementwise == InPlaceOps \union {"Add", "Mul"}

Overlap(r, t) == key(r) = key(t) /\ r.off < t.off + t.len /\ t.off < r.off + r.len

\* One kernel of node n: the operands it is given, the buffer it writes, the regions of its block.
Kernel(st, op, n, kv) ==
    LET Holds(r, s) == Contents(st.mem, r) = Tagged(r, <<step, Maker(graph, s)>>)
        tag   == <<step, op.node>>
        right == /\ \A j \in DOMAIN op.ins : Holds(op.ins[j], n.src[j])
                 /\ n.op \in Elementwise \union {"KvcacheStore"}
                        \/ \A j \in DOMAIN op.ins : ~Overlap(op.ins[j], op.out)
                 /\ n.op = "Attn" => Holds(kv.v, n.src[2])
        out   == IF n.op = "KvcacheStore" THEN st.mem ELSE Written(st.mem, op.out, Tagged(op.out, tag))
    IN  [st EXCEPT !.mem = IF n.op \in StoreOps
                           THEN Written(Written(out, kv.k, Tagged(kv.k, tag)), kv.v, Tagged(kv.v, tag))
                           ELSE out,
                   !.bad = IF right THEN @ ELSE @ \union {op.node}]

Executed(st, op) ==
    LET n == graph[op.node]
    IN  IF n.op \in {"View", "KvcacheLoad"} THEN st ELSE Kernel(st, op, n, al.kv[n.arg])

-----------------------------------------------------------------------------
(* alloc.rs: boundary copies. st carries the allocator and the memory.     *)

uid == cache[1].uid

\* What a copy leaves to its wait: the slab a device's transfer lands in.
copy_across(st, n, dst) ==
    LET r     == st.al.buf[n]
        id    == <<uid, n, dst>>
        have  == id \in DOMAIN st.al.cross
        a     == IF have THEN st.al ELSE alloc_fresh(st.al, dst, r.len)
        stage == IF have THEN st.al.cross[id] ELSE own(dst, a.n[dst], r.len)
        async == r.b # "cpu" /\ dst = "cpu"
        data  == Contents(st.mem, r)
    IN  IF r.b = dst \/ id \in DOMAIN st.al.pend THEN st
        ELSE [st EXCEPT !.al = [a EXCEPT !.cross = (id :> stage) @@ @,
                                         !.pend = (id :> IF async THEN data ELSE <<>>) @@ @,
                                         !.copies = @ + 1],
                        !.mem = IF async THEN @ ELSE Written(@, stage, data)]

await_cross(st, id) ==
    LET slab == st.al.pend[id]
    IN  [st EXCEPT !.al.pend = [k \in DOMAIN @ \ {id} |-> @[k]],
                   !.al.waits = @ + 1,
                   !.mem = IF slab = <<>> THEN @ ELSE Written(@, st.al.cross[id], slab)]

\* Mutant of cross_input_ready: the consumer reads the staging buffer without the wait.
cross_input_readyUnwaited(st, s, b) == st

cross_input_ready(st, s, b) == IF <<uid, s, b>> \in DOMAIN st.al.pend THEN await_cross(st, <<uid, s, b>>) ELSE st

\* Mutant of drain_cross_pending: what no consumer waited for is left in flight.
drain_cross_pendingNone(st) == st

drain_cross_pending(st) == Steps(await_cross, st, SetToSeq(DOMAIN st.al.pend))

\* Where node i of backend b finds its source: the staging copy made for b goes first.
SourceBuf(a, s, b) == IF <<uid, s, b>> \in DOMAIN a.cross THEN a.cross[<<uid, s, b>>] ELSE a.buf[s]

-----------------------------------------------------------------------------
(* cuda_backend.rs: capture and replay. A kernel of an open window is only *)
(* recorded; it runs when the window is closed.                            *)

NoCapture == [uid |-> 0, first |-> 0]

\* Close the window at a retire or a synchronize: launch once and keep the exec.
close_capture_or_sync(st) ==
    IF st.cu.capturing = NoCapture THEN st
    ELSE LET ran == Steps(Executed, st, st.cu.recorded)
         IN  [ran EXCEPT !.cu.execs = @ \union
                  {[uid |-> st.cu.capturing.uid, first |-> st.cu.capturing.first,
                    gen |-> st.al.n["cuda"], ops |-> st.cu.recorded]},
                         !.cu.capturing = NoCapture, !.cu.recorded = <<>>]

Runs(c, k) == IF k \in DOMAIN c.runs THEN c.runs[k] ELSE 0

\* Mutant of ExecFor: a captured split is found by its node range alone.
ExecForRange(e, first) == e.first = first

ExecFor(e, first) == e.uid = uid /\ e.first = first

\* The decisions for one CUDA split: the exec to replay (if any) and the captures after
\* it. A replay or a capture the driver refuses disables graphs, and the split runs.
graph_replay_step(c, gen, first) ==
    LET k     == [uid |-> uid, first |-> first]
        mine  == {e \in c.execs : ExecFor(e, first)}
        valid == {e \in mine : e.gen = gen}
        runs  == (IF mine # {} THEN 0 ELSE Runs(c, k)) + 1
        off   == [c EXCEPT !.on = FALSE]
        again == [c EXCEPT !.execs = @ \ mine, !.runs = (k :> runs) @@ @]
        Direct(x) == [replay |-> {}, cu |-> x]
    IN  IF ~c.on \/ c.capturing # NoCapture THEN {Direct(c)}
        ELSE IF valid # {} THEN {[replay |-> valid, cu |-> c], Direct(off)}
        ELSE IF runs < CaptureWarmup THEN {Direct(again)}
        ELSE {Direct([again EXCEPT !.capturing = k]), Direct([again EXCEPT !.on = FALSE])}

-----------------------------------------------------------------------------
(* scheduler.rs execute, one action per split.                             *)

state == [al |-> al, mem |-> mem, cu |-> cu, bad |-> bad]

Boundary(st, split) ==
    IF at.prev \in {"none", split.backend} THEN st
    ELSE Steps(LAMBDA x, n : copy_across(x, n, split.backend),
                  IF at.prev = "cuda" THEN close_capture_or_sync(st) ELSE st,
                  SetToSortSeq(split.inputs, <))

\* A kernel of an open capture is recorded; otherwise it runs.
Dispatched(st, op) ==
    IF st.cu.capturing # NoCapture THEN [st EXCEPT !.cu.recorded = Append(@, op)] ELSE Executed(st, op)

Operands(st, src, i, b) ==
    [node |-> i, ins |-> [j \in DOMAIN src |-> SourceBuf(st.al, src[j], b)], out |-> st.al.buf[i]]

Awaited(st, src, b) == Steps(LAMBDA x, s : cross_input_ready(x, s, b), st, src)

\* A dead node (a Silu folded into SwiGLU) has no buffer and is skipped.
RunNode(st, i, b) ==
    LET After(ready, src) == Dispatched(ready, Operands(ready, src, i, b))
    IN  IF is_input(graph[i]) \/ st.al.buf[i] = NoBuf THEN st
        ELSE After(Awaited(st, graph[i].src, b), graph[i].src)

\* A split after its boundary: replayed from its exec, or run node by node.
Ran(st, replay, split) ==
    IF replay # {} THEN Steps(Executed, st, (CHOOSE e \in replay : TRUE).ops)
    ELSE Steps(LAMBDA x, i : RunNode(x, i, split.backend), st,
               [j \in 1 .. split.last - split.first + 1 |-> split.first + j - 1])

Decision(st, split) ==
    IF split.backend = "cuda" THEN graph_replay_step(st.cu, st.al.n["cuda"], split.first)
    ELSE {[replay |-> {}, cu |-> st.cu]}

RunSplit ==
    /\ at.phase = "run" /\ at.k <= Len(splits)
    /\ \E split \in {splits[at.k]} : \E ready \in {Boundary(state, split)} :
       \E begun \in Decision(ready, split) :
       \E done \in {Ran([ready EXCEPT !.cu = begun.cu], begun.replay, split)} :
           /\ al' = done.al /\ mem' = done.mem /\ cu' = done.cu /\ bad' = done.bad
           /\ at' = [at EXCEPT !.k = @ + 1, !.prev = split.backend]
    /\ UNCHANGED <<conf, cache, nextUid, step>>

Synced(st) == IF at.prev = "cuda" THEN close_capture_or_sync(st) ELSE st

LogitsRight(st, r) == Contents(st.mem, r) = Tagged(r, <<step, Output(graph)>>)

\* The leftovers are waited for, the last backend synchronized and the logits read.
Finish ==
    /\ at.phase = "run" /\ at.k > Len(splits)
    /\ \E done \in {Synced(drain_cross_pending(state))} :
        /\ al' = done.al /\ mem' = done.mem /\ cu' = done.cu
        /\ bad' = IF LogitsRight(done, done.al.buf[Output(graph)]) THEN done.bad
                  ELSE done.bad \union {Output(graph)}
    /\ at' = [at EXCEPT !.phase = "idle"]
    /\ UNCHANGED <<conf, cache, nextUid, step>>

-----------------------------------------------------------------------------
(* cache.rs and forward_batch: a forward finds its graph or builds it.     *)

Cached(p) == \E j \in DOMAIN cache : cache[j].p = p

Without(p) == SelectSeq(cache, LAMBDA x : x.p # p)

Filled(a, g) ==
    FoldLeft(LAMBDA m, i : Written(m, a.buf[i], Tagged(a.buf[i], <<step + 1, i>>)), mem, InputsOf(g))

Forward(p) ==
    /\ at.phase = "idle" /\ step < MaxForwards
    /\ \E mapped \in {alloc_graph(al, conf, p)} :
       LET entry == IF Cached(p) THEN SelectSeq(cache, LAMBDA x : x.p = p)[1]
                    ELSE [p |-> p, uid |-> nextUid]
           all   == <<entry>> \o Without(p)
       IN  /\ al' = mapped
           /\ IF mapped.ok
              THEN /\ cache' = SubSeq(all, 1, IF Len(all) < MAX_CACHED_GRAPHS THEN Len(all) ELSE MAX_CACHED_GRAPHS)
                   /\ nextUid' = IF Cached(p) THEN nextUid ELSE nextUid + 1
                   /\ mem' = Filled(mapped, Graphs[conf, p])
                   /\ at' = [phase |-> "run", k |-> 1, prev |-> "none"]
              ELSE \* "re-map onto a cached graph" or alloc_graph's unwrap: the thread panics
                   /\ at' = [at EXCEPT !.phase = "dead"]
                   /\ cache' = Without(p)
                   /\ UNCHANGED <<nextUid, mem>>
    /\ step' = step + 1
    /\ UNCHANGED <<conf, cu, bad>>

Idle == at.phase = "dead" \/ (at.phase = "idle" /\ step = MaxForwards)

Init ==
    /\ conf \in Confs
    /\ cache = <<>> /\ nextUid = 1
    /\ al = Fresh /\ mem = <<>>
    /\ cu = [on |-> TRUE, execs |-> {}, runs |-> <<>>, capturing |-> NoCapture, recorded |-> <<>>]
    /\ at = [phase |-> "idle", k |-> 1, prev |-> "none"]
    /\ step = 0 /\ bad = {}

Next == (\E p \in Shapes : Forward(p)) \/ RunSplit \/ Finish \/ (Idle /\ UNCHANGED vars)

Spec == Init /\ [][Next]_vars

-----------------------------------------------------------------------------
TypeOK ==
    /\ conf \in Confs
    /\ \A j \in DOMAIN cache : cache[j].p \in Shapes /\ cache[j].uid \in 1 .. nextUid - 1
    /\ at \in [phase : {"idle", "run", "dead"}, k : 1 .. 40, prev : Devices \union {"none"}]
    /\ Len(cache) <= MAX_CACHED_GRAPHS
    /\ DOMAIN al.alive \subseteq (Devices \X (1 .. 200))
    /\ \A e \in cu.execs : e.gen <= al.n["cuda"]

\* Every node reads what its sources wrote in this very forward, and the logits are
\* the ones just computed: through recycled buffers, in-place aliases, windows, staging
\* copies, re-maps onto cached graphs and replayed captures (alloc_graph, execute,
\* graph_replay_step). A stale or clobbered operand is a plausible wrong answer.
ReadsAreCurrent == bad = {}

\* Between forwards no boundary copy is in flight and each one was waited for exactly
\* once, whoever consumed it or skipped it (copy_across, await_cross, drain_cross_pending).
EveryCopyAwaited == at.phase = "idle" => al.pend = <<>> /\ al.copies = al.waits

\* pool_bytes is what the pool holds: the buffers of the mapped graph, the idle ones and
\* the staging buffers, each counted once however often it was recycled (alloc_in_pool).
PoolIsResident ==
    \A b \in Devices :
        al.held[b] = MapThenSumSet(LAMBDA k : al.alive[k].class, {k \in DOMAIN al.alive : k[1] = b})
                     + MapThenSumSet(LAMBDA s : s[2], {s \in al.idle : s[1] = b})
                     + MapThenSumSet(LAMBDA k : al.cross[k].len, {k \in DOMAIN al.cross : k[3] = b})

\* A switch to a cached graph is served from reserved buffers alone (try_reuse): it makes
\* no new one, so a captured split of another graph survives it.
RemapAllocatesNothing ==
    [][\A p \in Shapes : Cached(p) /\ at'.phase = "run" /\ step' = step + 1 /\ cache'[1].p = p
            => al'.n = al.n]_vars

\* The re-map of a cached graph is never refused for memory: all its buffers are resident.
CachedGraphFits == [][at'.phase = "dead" => at.phase = "dead" \/ cache' = cache]_vars
=============================================================================
