---------------------------- MODULE ModelGraph ----------------------------
(***************************************************************************)
(* The compute graph of one forward: the builder of src/graph/builder.rs,  *)
(* the two transformer builds that use it (src/models/qwen2/graph.rs,      *)
(* src/models/qwen3/graph.rs), the backend assignment under an offload     *)
(* plan, the SwiGLU fusion pass and the partition into splits.             *)
(*                                                                         *)
(* A graph is the sequence of its nodes in build order, which is also the  *)
(* order of execution. A node keeps what placement and execution look at:  *)
(* its operation, its sources, its shape (lead x rows), the buffer it is a *)
(* window of, its block and its backend. Weights and numbers are left out: *)
(* what a node computes is the node itself.                                *)
(***************************************************************************)
EXTENDS Naturals, Sequences, FiniteSets, SequencesExt

CONSTANTS
    Layers,     \* number of transformer blocks
    Embd,       \* n_embd
    QEmbd,      \* nh * hd, the width of a query row
    KvEmbd,     \* n_kv_embd, the width of a key or value row
    Ff,         \* n_ff
    Vocab,      \* n_vocab
    Ctx,        \* n_ctx
    MapSpans    \* KV_MAP_MAX_SPANS

NoLayer == Layers
Devices == {"cpu", "metal", "cuda"}

-----------------------------------------------------------------------------
(* builder.rs: every operation appends one node and is named by its id.    *)

New == [nodes |-> <<>>, layer |-> NoLayer, cells |-> 0, span |-> 0, seqs |-> 0, out |-> 0]

Top(b) == Len(b.nodes)

\* The view-like operations do not own their output: they are windows.
node(b, op, src, lead, rows, arg) ==
    [b EXCEPT !.nodes = Append(@,
        [op      |-> op,
         src     |-> src,
         lead    |-> lead,
         rows    |-> rows,
         arg     |-> arg,
         isView  |-> op = "View",
         layer   |-> b.layer,
         backend |-> "cpu"])]

n_elements(n) == n.lead * n.rows
is_input(n) == n.op = "Input"

input(b, lead) == node(b, "Input", <<>>, lead, 1, 0)

\* The id the next node gets: what an operation about to be appended is named by.
Coming(b) == Top(b) + 1

\* seq_ids, cells and attn_span (or kv_map) are declared once, by whoever first needs them.
cells_input(b, nt) ==
    IF b.cells # 0 THEN b ELSE [input(b, nt) EXCEPT !.cells = Coming(b)]

attn_span_input(b, nt, map) ==
    IF b.span # 0 THEN b
    ELSE [input(b, IF map THEN nt * MapSpans * 2 ELSE 2 * nt) EXCEPT !.span = Coming(b)]

seq_ids_input(b, nt) ==
    IF b.seqs # 0 THEN b ELSE [input(b, nt) EXCEPT !.seqs = Coming(b)]

Declared(b, field) == IF b[field] # 0 THEN b[field] ELSE Coming(b)

rows(b, x) == b.nodes[x].rows
lead(b, x) == b.nodes[x].lead

embedding(b, ids) == node(b, "GetRows", <<ids>>, Embd, lead(b, ids), 0)
get_rows(b, x, ids, n) == node(b, "GetRows", <<x, ids>>, Embd, n, 0)
rms_norm(b, x) == node(b, "RmsNorm", <<x>>, lead(b, x), rows(b, x), 0)
qk_norm(b, x) == node(b, "QkNorm", <<x>>, lead(b, x), rows(b, x), 0)
matmul(b, x, dim) == node(b, "MatMul", <<x>>, dim, rows(b, x), 0)
rope(b, x, pos) == node(b, "RoPE", <<x, pos>>, lead(b, x), rows(b, x), 0)
silu(b, x) == node(b, "Silu", <<x>>, lead(b, x), rows(b, x), 0)
add(b, x, y) == node(b, "Add", <<x, y>>, lead(b, x), rows(b, x), 0)
mul(b, x, y) == node(b, "Mul", <<x, y>>, lead(b, x), rows(b, x), 0)

fused_qkv(b, x, pos, op, layer) ==
    node(cells_input(b, rows(b, x)), op, <<x, pos, Declared(b, "cells")>>,
         QEmbd + 2 * KvEmbd, rows(b, x), layer)

qkv_bias_rope_store(b, q, k, v, pos, layer) ==
    node(cells_input(b, rows(b, q)), "QkvBiasRopeStore", <<q, k, v, pos, Declared(b, "cells")>>,
         lead(b, q), rows(b, q), layer)

kvcache_store(b, layer, k, v) ==
    node(cells_input(b, rows(b, k)), "KvcacheStore", <<k, v, Declared(b, "cells")>>, KvEmbd, Ctx, layer)

\* A load has no source: only build order puts it after the store of its layer.
kvcache_load(b, layer) == node(b, "KvcacheLoad", <<>>, KvEmbd, Ctx, layer)

attn(b, q, kv, pos, layer, map) ==
    node(seq_ids_input(attn_span_input(b, rows(b, q), map), rows(b, q)), "Attn",
         <<q, kv, pos, Declared(b, "span")>>, QEmbd, rows(b, q), layer)

fused_ffn(b, x) == node(b, "FusedFFN", <<x>>, 2 * Ff, rows(b, x), 0)

\* The concat matmul, its two halves as windows, and SwiGLU of the halves.
fused_ffn_composition(b, x) ==
    LET half(c, off) == node(c, "View", <<Coming(b)>>, Ff, rows(b, x), off)
    IN  node(half(half(matmul(b, x, 2 * Ff), 0), Ff), "SwiGLU",
             <<Coming(b) + 1, Coming(b) + 2>>, Ff, rows(b, x), 0)

-----------------------------------------------------------------------------
(* The builds. c is what a load decided: the architecture, the device, the *)
(* blocks it holds, the blocks whose q, k and v (whose gate and up) can be *)
(* one concat weight, whether the KV cache is packed, and the FFN          *)
(* composition switch. p is a shape: n_tokens, n_out and whether a window  *)
(* is a list of runs (kv_map).                                             *)

gpu(c) == c.device # "cpu"
LayerGpu(c, il) == gpu(c) /\ il < c.gpu_layers

\* Only CUDA stores at the resolved cell, and only CUDA quantizes a packed cell, when fused.
fuse_qkv(c, p, il) ==
    /\ p.n_tokens = 1 /\ LayerGpu(c, il) /\ ~c.nofuse
    /\ c.device = "cuda" \/ (~p.span /\ ~c.packed)

\* Only CUDA has windows at an offset, so the switch is ignored elsewhere.
ffn_composition(c) == c.compose /\ c.device = "cuda"

fuse_gu(c, p, il) == p.n_tokens = 1 /\ LayerGpu(c, il) /\ ~c.nofuse /\ il \in c.gu

thenMatmul(b, dim) == matmul(b, Top(b), dim)

\* A block's queries and the region its keys and values are in, after the load.
Loaded(b, q, il) == [b |-> kvcache_load(b, il), q |-> q, kv |-> Coming(b)]
LoadedTop(b, il) == Loaded(b, Top(b), il)

RopedAndStored(b, q, k, v, pos, il) ==
    Loaded(kvcache_store(rope(rope(b, q, pos), k, pos), il, Coming(b) + 1, v), Coming(b), il)

Stored(b, q, k, v, pos, c, p, il) ==
    CASE c.arch = "qwen2" /\ fuse_qkv(c, p, il) /\ c.device = "cuda" ->
            LoadedTop(qkv_bias_rope_store(b, q, k, v, pos, il), il)
      [] c.arch = "qwen2" /\ ~(fuse_qkv(c, p, il) /\ c.device = "cuda") ->
            RopedAndStored(b, q, k, v, pos, il)
      [] c.arch = "qwen3" ->
            RopedAndStored(qk_norm(qk_norm(b, q), k), Coming(b), Coming(b) + 1, v, pos, il)

\* Q, K, V of one block: by one concat weight, or by three.
Projected(b, normed, pos, c, p, il) ==
    IF fuse_qkv(c, p, il) /\ il \in c.qkv
    THEN LoadedTop(fused_qkv(b, normed, pos, IF c.arch = "qwen3" THEN "FusedQkvNorm" ELSE "FusedQKV", il), il)
    ELSE Stored(matmul(matmul(matmul(b, normed, QEmbd), normed, KvEmbd), normed, KvEmbd),
                Coming(b), Coming(b) + 1, Coming(b) + 2, pos, c, p, il)

Attended(qkv, pos, p, il) == thenMatmul(attn(qkv.b, qkv.q, qkv.kv, pos, il, p.map), Embd)

Gated(b, gate, up) == mul(silu(b, gate), Coming(b), up)

FeedForward(b, normed, c, p, il) ==
    thenMatmul(CASE fuse_gu(c, p, il) /\ ffn_composition(c) -> fused_ffn_composition(b, normed)
                 [] fuse_gu(c, p, il) /\ ~ffn_composition(c) -> fused_ffn(b, normed)
                 [] ~fuse_gu(c, p, il) -> Gated(matmul(matmul(b, normed, Ff), normed, Ff),
                                               Coming(b), Coming(b) + 1),
               Embd)

\* The residual of the attention. The last block keeps only the rows whose logits are asked for.
Joined(b, h, tail, p, il) ==
    IF il = Layers - 1 /\ tail # 0
    THEN add(get_rows(get_rows(b, Top(b), tail, p.n_out), h, tail, p.n_out), Coming(b) + 1, Coming(b))
    ELSE add(b, h, Top(b))

AddedTo(b, res) == [add(b, res, Top(b)) EXCEPT !.out = Coming(b)]

Fed(b, c, p, il) == AddedTo(FeedForward(rms_norm(b, Top(b)), Coming(b), c, p, il), Top(b))

Block(b, pos, tail, c, p, il) ==
    LET qkv == Projected(rms_norm([b EXCEPT !.layer = il], b.out), Coming(b), pos, c, p, il)
    IN  Fed(Joined(Attended(qkv, pos, p, il), b.out, tail, p, il), c, p, il)

Embedded(b, ids) == [embedding(b, ids) EXCEPT !.out = Coming(b)]

Logits(b) == thenMatmul(rms_norm([b EXCEPT !.layer = NoLayer], b.out), Vocab)

\* The first inputs are the token ids, the positions and, for a cut batch, the rows it keeps.
build(c, p) ==
    LET cut    == p.n_out < p.n_tokens
        inputs == input(input(New, p.n_tokens), p.n_tokens)
    IN  Logits(FoldLeft(LAMBDA b, il : Block(b, 2, IF cut THEN 3 ELSE 0, c, p, il - 1),
                        Embedded(IF cut THEN input(inputs, p.n_out) ELSE inputs, 1),
                        [i \in 1 .. Layers |-> i])).nodes

Output(g) == Len(g)
Inputs(g) == {i \in DOMAIN g : is_input(g[i])}

-----------------------------------------------------------------------------
(* Assignment: scheduler.rs, alloc.rs supports_for and the capability      *)
(* matrices of the three backends.                                         *)

\* Token ids, positions, cells and spans are I32, which only Metal's Input takes.
supports_op(device, n) ==
    CASE device = "cpu"   -> n.op \notin {"Input", "FusedQKV", "FusedQkvNorm", "FusedFFN", "QkvBiasRopeStore"}
      [] device = "cuda"  -> n.op # "Input"
      [] device = "metal" -> n.op # "QkvBiasRopeStore" /\ (n.isView => n.arg = 0)

on_device(c, layer) == layer < c.gpu_layers
device_holds_unblocked(c) == c.gpu_layers >= Layers

device_ok(c, layer) == IF layer = NoLayer THEN device_holds_unblocked(c) ELSE on_device(c, layer)

supports_for(c, n) ==
    IF gpu(c) /\ device_ok(c, n.layer) /\ supports_op(c.device, n) THEN c.device ELSE "cpu"

assign_backends(c, g) == [i \in DOMAIN g |-> [g[i] EXCEPT !.backend = supports_for(c, g[i])]]

\* fusion.rs: Mul(Silu(X), Y) or Mul(Y, Silu(X)) becomes SwiGLU(X, Y); the Silu stays behind.
fuse_swiglu(g) ==
    LET isSilu(i) == g[i].op = "Silu"
        Fused(n) ==
            IF n.op # "Mul" THEN n
            ELSE LET s == n.src[1]
                     y == n.src[2]
                 IN  CASE isSilu(s) -> [n EXCEPT !.op = "SwiGLU", !.src = <<g[s].src[1], y>>]
                       [] ~isSilu(s) /\ isSilu(y) -> [n EXCEPT !.op = "SwiGLU", !.src = <<g[y].src[1], s>>]
                       [] OTHER -> n
    IN  [i \in DOMAIN g |-> Fused(g[i])]

Prepared(c, p) == fuse_swiglu(assign_backends(c, build(c, p)))

-----------------------------------------------------------------------------
(* scheduler.rs split_graph: maximal runs of nodes on one backend, and the *)
(* values that cross into each of them.                                    *)

Starts(g) == {i \in DOMAIN g : i = 1 \/ g[i].backend # g[i - 1].backend}

SplitAt(g, i) ==
    LET last == CHOOSE j \in i .. Len(g) :
                    /\ j = Len(g) \/ j + 1 \in Starts(g)
                    /\ \A k \in i + 1 .. j : k \notin Starts(g)
        Mine == i .. last
    IN  [backend |-> g[i].backend, first |-> i, last |-> last,
         inputs |-> {s \in UNION {Range(g[j].src) : j \in Mine} : s \notin Mine}]

split_graph(g) ==
    LET starts == SetToSortSeq(Starts(g), <)
    IN  [k \in DOMAIN starts |-> SplitAt(g, starts[k])]
=============================================================================
