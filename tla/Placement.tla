----------------------------- MODULE Placement -----------------------------
(***************************************************************************)
(* What a load decides before the first forward: which backends the run    *)
(* may use (src/graph/registry.rs), how many blocks the device takes       *)
(* (src/graph/offload.rs, allocplan.rs), which weights are registered      *)
(* there (the two loaders and src/models/weight_reg.rs), the device the    *)
(* model reports (the graphs' device()), the rope table and the format of  *)
(* the KV cache (src/graph/kvformat.rs).                                   *)
(*                                                                         *)
(* L is the machine and the command line, f the model file. Weights are    *)
(* pairs <<block, name>>; "norms" stands for every f32 vector of a block   *)
(* and Unblocked for the tensors outside the blocks.                       *)
(***************************************************************************)
EXTENDS ModelGraph

Unset == "unset"
Refused == "refused"

\* What may stand where a number is asked for, above every number used.
None == 901
Junk == 902
Auto == 903
Failed == 904
NoDevice == 905
Rejected == 906

Unblocked == Layers

Min2(a, b) == IF a < b THEN a ELSE b

-----------------------------------------------------------------------------
(* The backends of the run. *)

NAMES == {"cpu", "metal", "cuda"}

compiled(L, b) == b = "cpu" \/ b = L.build
device_available(L) == L.build # "cpu" /\ L.present

\* A name is unknown, or known and not in this build: both refuse the start.
resolve_name(L, n) == n \in NAMES /\ compiled(L, n)

from_names(L, names) ==
    IF \E n \in names : ~resolve_name(L, n) THEN [ok |-> FALSE]
    ELSE [ok |-> TRUE, allowed |-> names \cup {"cpu"}, requested |-> names]

request_filter(L) ==
    CASE L.flag # {} -> from_names(L, L.flag)
      [] L.flag = {} /\ L.env # {} -> from_names(L, L.env)
      [] OTHER -> [ok |-> TRUE, allowed |-> NAMES, requested |-> {}]

\* Mutant of check_available: a named backend that cannot run is dropped, not refused.
check_availableLenient(L, filter) == TRUE

check_available(L, filter) ==
    \A b \in filter.requested : b = "cpu" \/ device_available(L)

-----------------------------------------------------------------------------
(* How many blocks the device takes. *)

\* allocplan.rs: a failed query and an absent device are different answers.
device_memory(L) == IF device_available(L) THEN L.mem ELSE NoDevice

weight_budget(L, cap) ==
    CASE cap = Junk -> Rejected
      [] cap \notin {None, Junk} -> cap
      [] cap = None /\ device_memory(L) = Failed -> Rejected
      [] cap = None /\ device_memory(L) = NoDevice -> 0
      [] OTHER -> 3 * (device_memory(L) \div 4)

Sum(s) == FoldLeft(LAMBDA a, b : a + b, 0, s)

\* Mutant of fit_blocks: a block that does not fit is skipped and the walk goes on.
fit_blocksSkipping(budget, per_block, reserve) ==
    FoldLeft(LAMBDA a, b : IF a.used + b > budget THEN a ELSE [used |-> a.used + b, k |-> a.k + 1],
             [used |-> reserve, k |-> 0], per_block).k

fit_blocks(budget, per_block, reserve) ==
    FoldLeft(LAMBDA a, b : IF a.stop \/ a.used + b > budget THEN [a EXCEPT !.stop = TRUE]
                           ELSE [a EXCEPT !.used = @ + b, !.k = @ + 1],
             [used |-> reserve, k |-> 0, stop |-> FALSE], per_block).k

\* OffloadRequest: the command line wins, the environment is read only by default.
Request(L) == IF L.request = None THEN L.envLayers ELSE L.request

budget_mib(L) == IF L.request = Auto /\ L.budget # None THEN L.budget ELSE L.cap

block_weight_bytes(f) == f.bytes

plan(L, f) ==
    LET r == Request(L)
    IN  CASE r = Junk -> Rejected
          [] r = Auto -> LET budget == weight_budget(L, budget_mib(L))
                           IN  IF budget = Rejected THEN Rejected
                               ELSE fit_blocks(budget, block_weight_bytes(f), budget \div 4)
          [] r = None -> IF device_available(L) THEN Layers ELSE 0
          [] OTHER -> Min2(r, Layers)

-----------------------------------------------------------------------------
(* The weights and where they are registered. *)

Projections == {"wq", "wk", "wv", "wo", "ffn_gate", "ffn_up", "ffn_down"}

Quantized == {"Q4_0", "Q4_1", "Q4_K", "Q5_0", "Q5_1", "Q5_K", "Q6_K", "Q8_0"}
MatmulTypes == Quantized \cup {"F32", "F16", "BF16"}

\* CUDA has no gather of a Q4_1 embedding.
EmbedTypes == MatmulTypes \ {"Q4_1"}

\* A file without lm_head ties the output to the embedding.
output_type(f) == IF f.output = Unset THEN f.embd ELSE f.output
output_name(f) == IF f.output = Unset THEN "token_embd" ELSE "output"

BlockWeights(f, i) == [n \in Projections \cup {"norms"} |-> IF n = "norms" THEN "F32" ELSE f.blocks[i + 1][n]]

FileWeights(f) ==
    {<<i, n>> : i \in 0 .. Layers - 1, n \in Projections \cup {"norms"}}
        \cup {<<Unblocked, n>> : n \in {"token_embd", "norms", output_name(f)}}

TypeOf(f, w) ==
    CASE w[1] # Unblocked -> BlockWeights(f, w[1])[w[2]]
      [] w[2] = "norms" -> "F32"
      [] w[2] = "token_embd" -> f.embd
      [] OTHER -> f.output

allows_weight(k, w) == IF w[1] = Unblocked THEN k >= Layers ELSE w[1] < k

cuda_weight_reg(type) == type \in MatmulTypes

load_tensor(L, f, k, w) == device_available(L) /\ allows_weight(k, w) /\ cuda_weight_reg(TypeOf(f, w))

\* concat_rows: one quantized type, and rows that end on a block boundary.
concat_rows(f, i, names) ==
    LET t == {f.blocks[i + 1][n] : n \in names}
    IN  /\ Cardinality(t) = 1 /\ t \subseteq Quantized
        /\ f.aligned

\* Mutant of ConcatFfn: the loader concatenates at any feed-forward width but the widest.
ConcatFfnNarrow(L, f, i) ==
    f.nff < 16384 /\ ~L.nofuse /\ concat_rows(f, i, {"ffn_gate", "ffn_up"})

ConcatFfn(L, f, i) == f.nff <= 16384 /\ ~L.nofuse /\ concat_rows(f, i, {"ffn_gate", "ffn_up"})

\* The Metal loader concatenates whether or not the fusion is switched off (nofuse
\* stands for MINFER_NO_FUSE_QKV and MINFER_NO_FUSE_FFN together).
ConcatQkv(L, f, i) == (L.build = "metal" \/ ~L.nofuse) /\ concat_rows(f, i, {"wq", "wk", "wv"})

Registered(L, f, k) ==
    {w \in FileWeights(f) : load_tensor(L, f, k, w)}
        \cup (IF ~device_available(L) THEN {}
              ELSE {<<i, "attn_qkv">> : i \in {j \in 0 .. k - 1 : ConcatQkv(L, f, j)}}
                       \cup {<<i, "ffn_gu">> : i \in {j \in 0 .. k - 1 : ConcatFfn(L, f, j)}})

-----------------------------------------------------------------------------
(* The device the model reports, and the plan left in force. *)

weights_on_gpu(f, k, reg) ==
    k # 0 /\ \A w \in FileWeights(f) : allows_weight(k, w) => w \in reg

\* Mutant of weights_on_cuda: the gate looks at the registry and not at the types.
weights_on_cudaUntyped(f, k, reg) == weights_on_gpu(f, k, reg)

weights_on_cuda(f, k, reg) ==
    /\ weights_on_gpu(f, k, reg)
    /\ k >= Layers => f.embd \in EmbedTypes /\ output_type(f) \in MatmulTypes
    /\ \A i \in 0 .. k - 1, n \in Projections : f.blocks[i + 1][n] \in MatmulTypes

device(L, filter, f, k, reg) ==
    CASE L.build = "metal" /\ "metal" \in filter.allowed /\ L.present /\ weights_on_gpu(f, k, reg) -> "metal"
      [] L.build = "cuda" /\ "cuda" \in filter.allowed /\ L.present /\ weights_on_cuda(f, k, reg) -> "cuda"
      [] OTHER -> "cpu"

-----------------------------------------------------------------------------
(* The rope table: a tensor wins over the metadata, and one serves all     *)
(* blocks. A table is named by its contents; "short" has the wrong length. *)

from_metadata(f) ==
    CASE f.scaling \in {Unset, "none"} -> "none"
      [] f.scaling = "llama3" -> "llama3"
      [] OTHER -> Refused

from_tensor(table) == IF table = "short" THEN Refused ELSE table

PerBlock(f) == SelectSeq(f.rope_blocks, LAMBDA t : t # Unset)

rope_resolve(f) ==
    CASE f.rope_freqs # Unset -> from_tensor(f.rope_freqs)
      [] f.rope_freqs = Unset /\ PerBlock(f) # <<>> ->
             IF Cardinality(Range(PerBlock(f))) > 1 THEN Refused ELSE from_tensor(PerBlock(f)[1])
      [] OTHER -> from_metadata(f)

-----------------------------------------------------------------------------
(* kvformat.rs. *)

AutoF16 == 8192

auto_device_format(dev, f) == IF dev # "cpu" /\ Layers * f.nkt >= AutoF16 THEN "f16" ELSE "f32"

kv_resolve(dev, cache, f) ==
    LET asked == IF cache = Unset THEN auto_device_format(dev, f) ELSE cache
    IN  CASE asked \notin {"f32", "f16", "q8_0"} -> Refused
          [] asked = "f16" /\ dev = "cpu" -> "f32"
          [] OTHER -> asked

Q8_0_BLOCK == 32
Q8_0_BLOCK_BYTES == 34
WORD_BYTES == 4

payload_bytes(fmt, nkt) ==
    CASE fmt = "f32" -> nkt * WORD_BYTES
      [] fmt = "f16" -> nkt * 2
      [] OTHER -> (nkt \div Q8_0_BLOCK) * Q8_0_BLOCK_BYTES

\* Mutant of row_elems: a packed cell is not rounded up to a whole word.
row_elemsTruncated(fmt, nkt) == IF fmt = "q8_0" THEN payload_bytes(fmt, nkt) \div WORD_BYTES ELSE nkt

row_elems(fmt, nkt) ==
    IF fmt = "q8_0" THEN (payload_bytes(fmt, nkt) + WORD_BYTES - 1) \div WORD_BYTES ELSE nkt

check_width(fmt, nkt) == fmt = "q8_0" => nkt > 0 /\ nkt % Q8_0_BLOCK = 0

q8_0_cell_offset(nkt, cell, first) ==
    (cell * row_elems("q8_0", nkt) * WORD_BYTES) + ((first \div Q8_0_BLOCK) * Q8_0_BLOCK_BYTES)

-----------------------------------------------------------------------------
(* load_model_configured: the first refusal ends the load. *)

NotLoaded == [ok |-> FALSE]

load_model_configured(L, f) ==
    LET filter == request_filter(L)
        k      == plan(L, f)
        reg    == IF k = Rejected THEN {} ELSE Registered(L, f, k)
        dev    == device(L, filter, f, k, reg)
        fmt    == kv_resolve(dev, L.cache, f)
    IN  IF \/ ~filter.ok \/ ~check_available(L, filter)
           \/ f.arch \notin {"qwen2", "qwen3", "llama"}
           \/ k = Rejected \/ rope_resolve(f) = Refused
           \/ fmt = Refused
        THEN NotLoaded
        ELSE [ok |-> TRUE, device |-> dev, gpu_layers |-> IF dev = "cpu" THEN 0 ELSE k,
              asked |-> k, registered |-> reg, format |-> fmt, rope |-> rope_resolve(f)]

\* What the graph builder of ModelGraph is given.
Conf(L, f, m) ==
    [arch       |-> IF f.arch = "qwen3" THEN "qwen3" ELSE "qwen2",
     device     |-> m.device,
     gpu_layers |-> m.gpu_layers,
     qkv        |-> {i \in 0 .. Layers - 1 : concat_rows(f, i, {"wq", "wk", "wv"})},
     gu         |-> {i \in 0 .. Layers - 1 : f.nff <= 16384 /\ concat_rows(f, i, {"ffn_gate", "ffn_up"})},
     packed     |-> m.format = "q8_0",
     compose    |-> FALSE,
     nofuse     |-> L.nofuse]

\* The weights a node reads, by its operation and its block (any projection of it, for a matmul).
NodeWeights(f, g, i) ==
    LET n == g[i]
        b == n.layer
    IN  CASE n.op \in {"FusedQKV", "FusedQkvNorm"} -> {<<b, "attn_qkv">>, <<b, "norms">>}
          [] n.op = "FusedFFN" -> {<<b, "ffn_gu">>}
          [] n.op \in {"RmsNorm", "QkNorm"} -> {<<b, "norms">>}
          [] n.op = "GetRows" /\ Len(n.src) = 1 -> {<<Unblocked, "token_embd">>}
          [] n.op = "MatMul" /\ b = NoLayer -> {<<Unblocked, output_name(f)>>}
          [] n.op = "MatMul" /\ b # NoLayer -> {<<b, w>> : w \in Projections}
          [] OTHER -> {}

-----------------------------------------------------------------------------
(* Every node the builder assigns to the device finds the weights it reads *)
(* there, in a type the device has a kernel for, and the device is one the *)
(* run was allowed to use and this machine has: the registration filter,   *)
(* the device gate and the assignment are three passes of three files that *)
(* never see each other.                                                   *)
WeightsWhereNodesRun(L, f, p) ==
    LET Placed(m, g) ==
            \A i \in DOMAIN g : g[i].backend # "cpu" =>
                /\ device_available(L) /\ g[i].backend = L.build
                /\ L.flag # {} => L.build \in L.flag
                /\ NodeWeights(f, g, i) \subseteq m.registered
                /\ L.build = "cuda" =>
                      \A w \in NodeWeights(f, g, i) \cap FileWeights(f) :
                          TypeOf(f, w) \in (IF g[i].op = "GetRows" THEN EmbedTypes ELSE MatmulTypes)
        Loads(m) == m.ok => Placed(m, Prepared(Conf(L, f, m), p))
    IN  Loads(load_model_configured(L, f))

(* A backend named on the command line is used or the start is refused: it *)
(* is never silently replaced by the CPU because it is absent.             *)
NamedBackendPresent(L, f) ==
    LET m == load_model_configured(L, f)
    IN  m.ok /\ L.flag \ {"cpu"} # {} => device_available(L)

(* An automatic placement is the longest prefix of blocks that leaves a    *)
(* quarter of the budget free.                                             *)
AutoFitsPrefix(L, f) ==
    LET k      == plan(L, f)
        budget == weight_budget(L, budget_mib(L))
        Used(n) == (budget \div 4) + Sum(SubSeq(f.bytes, 1, n))
    IN  Request(L) = Auto /\ k # Rejected =>
            /\ k > 0 => Used(k) <= budget
            /\ k < Layers => Used(k + 1) > budget

(* Two cells of a KV region never share a byte, whatever the format: the   *)
(* blocks read at q8_0_cell_offset are inside the cell that was stored.    *)
CellsDisjoint(fmt, nkt, cell) ==
    check_width(fmt, nkt) =>
        /\ payload_bytes(fmt, nkt) <= row_elems(fmt, nkt) * WORD_BYTES
        /\ fmt = "q8_0" =>
              \A b \in 0 .. (nkt \div Q8_0_BLOCK) - 1 :
                  /\ q8_0_cell_offset(nkt, cell, b * Q8_0_BLOCK) >= cell * row_elems(fmt, nkt) * WORD_BYTES
                  /\ q8_0_cell_offset(nkt, cell, b * Q8_0_BLOCK) + Q8_0_BLOCK_BYTES
                         <= (cell + 1) * row_elems(fmt, nkt) * WORD_BYTES

(* offload.rs says the device never holds a block it will not execute.     *)
DeviceHoldsOnlyUsed(L, f) ==
    LET m == load_model_configured(L, f)
    IN  m.ok => \A w \in m.registered : allows_weight(m.gpu_layers, w)

(* rope_scaling.rs says a global rope_freqs.weight table is ignored.       *)
GlobalTableIgnored(f) ==
    f.rope_freqs # Unset => rope_resolve(f) = rope_resolve([f EXCEPT !.rope_freqs = Unset])
=============================================================================
