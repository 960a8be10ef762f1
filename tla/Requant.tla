------------------------------ MODULE Requant ------------------------------
(* minfer quantize (convert.rs, quantize.rs, quantize/mix.rs, tooling.rs):   *)
(* the type each tensor of a loaded file is written at, by llama.cpp's three *)
(* rules, and the file that comes of it.                                     *)
(*                                                                           *)
(* The elements of a tensor are numbers of their own; a plain value keeps    *)
(* the number, an encoded block the number of its first element, on each of  *)
(* its bytes.  What the encoders do to the values is not modelled.           *)
EXTENDS GgufFile, TLC

(* Tensor names: what the tensor is, and its block plus one (0 for none).    *)
GgufNames == <<"output.weight", "token_embd.weight", "output_norm.weight", "attn_norm.weight", "attn_q.weight",
               "attn_q.bias", "attn_k.weight", "attn_k.bias", "attn_v.weight", "attn_v.bias", "attn_output.weight",
               "ffn_norm.weight", "ffn_gate.weight", "ffn_up.weight", "ffn_down.weight", "attn_qkv.weight",
               "attn_kv_b.weight">>
NoBlock == -1
Name(kind, block) == <<100 + (CHOOSE i \in DOMAIN GgufNames : GgufNames[i] = kind), block + 1>>

category(name) == GgufNames[name[1] - 100]
category_is_attn_v(cat) == cat \in {"attn_v.weight", "attn_qkv.weight", "attn_kv_b.weight"}
layer(name) == name[2] - 1

-----------------------------------------------------------------------------
(* --- targets -------------------------------------------------------------- *)
KQuants == {Q4_K, Q5_K, Q6_K}
LegacyQuants == {Q4_0, Q4_1, Q5_0, Q5_1, Q8_0}
QuantTargets == {F32, F16} \cup LegacyQuants \cup KQuants
K_QUANT_BLOCK == 256
target_blck_size(t) == IF t \in {F32, F16} THEN 1 ELSE IF t \in KQuants THEN K_QUANT_BLOCK ELSE 32

(* A target is one encoder, or one of the two mixtures stated over it.       *)
Concrete(t) == [mixture |-> FALSE, base |-> t]
Mixture(t) == [mixture |-> TRUE, base |-> t]
Targets == {Concrete(t) : t \in QuantTargets} \cup {Mixture(Q4_K), Mixture(Q5_K)}
is_f32(target) == target = Concrete(F32)
file_type(target) ==
    (F32 :> 0) @@ (F16 :> 1) @@ (Q4_0 :> 2) @@ (Q4_1 :> 3) @@ (Q8_0 :> 7) @@ (Q5_0 :> 8) @@ (Q5_1 :> 9)
        @@ (Q4_K :> 15) @@ (Q5_K :> 17) @@ (Q6_K :> 18)

(* Mutant of row_len_fallback: a six-bit type falls back to a five-bit one.  *)
row_len_fallbackNarrow(t) == CASE t = Q4_K -> Q5_0 [] t \in {Q5_K, Q6_K} -> Q5_1 [] OTHER -> F16

row_len_fallback(t) == CASE t = Q4_K -> Q5_0 [] t = Q5_K -> Q5_1 [] t = Q6_K -> Q8_0 [] OTHER -> F16

can_decode(t) == t \in {F32, F16, BF16} \cup LegacyQuants

(* The first and the last eighth of the blocks, and every third between.     *)
use_more_bits(i, n) ==
    \/ i < n \div 8
    \/ i >= (7 * n) \div 8
    \/ (i - (n \div 8)) % 3 = 2

is_output(cat, ctx) == cat = "output.weight" \/ (ctx.tied /\ cat = "token_embd.weight")
output_branch(target, row) == IF row % target_blck_size(target.base) # 0 THEN Q8_0 ELSE Q6_K

(* The type a tensor is asked for, before its row is looked at.              *)
select(target, cat, block, row, ctx) ==
    LET more(n) == block # NoBlock /\ use_more_bits(block, n)
    IN  IF is_output(cat, ctx) /\ (target.mixture \/ target.base \in LegacyQuants \ {Q8_0})
        THEN output_branch(target, row)
        ELSE IF ~target.mixture THEN target.base
        ELSE CASE cat = "attn_qkv.weight" -> IF target.base = Q4_K THEN Q5_K ELSE Q6_K
               [] cat = "attn_v.weight" /\ more(ctx.n_attention_wv) -> Q6_K
               [] cat = "ffn_down.weight" /\ more(ctx.n_layers) -> Q6_K
               [] OTHER -> target.base

(* Mutant of Demoted: the fallback is taken without looking at the row again. *)
DemotedOnce(asked, row) == IF row % target_blck_size(asked) = 0 THEN asked ELSE row_len_fallback(asked)

(* The asked type, its fallback when its block does not divide the row, and  *)
(* f16 when that one's does not either.                                      *)
Demoted(asked, row) ==
    LET fb == row_len_fallback(asked)
    IN  IF row % target_blck_size(asked) = 0 THEN asked
        ELSE IF row % target_blck_size(fb) = 0 THEN fb ELSE F16

-----------------------------------------------------------------------------
(* --- the plan and the bytes ----------------------------------------------- *)
MixCtx(infos) ==
    LET named(P(_)) == {i \in DOMAIN infos : P(infos[i].name)}
    IN  [n_layers |-> Cardinality({layer(infos[i].name) : i \in named(LAMBDA n : layer(n) # NoBlock)}),
         n_attention_wv |-> Cardinality(named(LAMBDA n : category_is_attn_v(category(n)))),
         tied |-> named(LAMBDA n : category(n) = "output.weight") = {}]

(* A one-dimensional tensor is copied unless everything becomes f32.         *)
Kept(target, info) == ~is_f32(target) /\ info.ne[2] <= 1
TargetOf(target, info, ctx) ==
    IF Kept(target, info) THEN info.type
    ELSE Demoted(select(target, category(info.name), layer(info.name), info.ne[1], ctx), info.ne[1])

Chunks(s, n) == Len(s) \div n
decode_to_f32(t, bytes) ==
    [x \in 1..(Chunks(bytes, type_size(t)) * blck_size(t)) |->
        bytes[(((x - 1) \div blck_size(t)) * type_size(t)) + 1] + ((x - 1) % blck_size(t))]
quantize_row(t, xs) ==
    [b \in 1..(Chunks(xs, target_blck_size(t)) * type_size(t)) |->
        xs[(((b - 1) \div type_size(t)) * target_blck_size(t)) + 1]]

encode_into(target, info, ctx, bytes) ==
    IF Kept(target, info) THEN bytes
    ELSE quantize_row(TargetOf(target, info, ctx), decode_to_f32(info.type, bytes))

(* QuantizePlan: the specs and the metadata, or a refusal of the source.     *)
GENERAL_FILE_TYPE == <<35>>
GENERAL_QUANTIZATION_VERSION == <<36>>
plan_kv(kv, target) ==
    kv_upsert(kv_upsert(kv, new_u32(GENERAL_FILE_TYPE, file_type(target)[target.base])),
              new_u32(GENERAL_QUANTIZATION_VERSION, 2))

(* One file, or parts of at most cap bytes; no cap is 0.                     *)
WriteModel(kv, specs, cap, payload) ==
    IF cap = 0 THEN write_single("out", kv, specs, 32, payload)
    ELSE write_split("out", kv, specs, 32, cap, payload)

(* run_quantize: load, plan, write, all at an alignment of 32.               *)
Quantized(part, infos, ctx, target, cap) ==
    IF \E i \in DOMAIN infos : ~can_decode(infos[i].type) THEN NothingWritten
    ELSE WriteModel(plan_kv(part.ctx.kv, target),
                    [i \in DOMAIN infos |-> TensorSpec(infos[i].name, infos[i].ne, TargetOf(target, infos[i], ctx))], cap,
                    [i \in DOMAIN infos |-> encode_into(target, infos[i], ctx, TensorBytes(part, infos[i]))])

run_quantize(disk, path, target, cap) ==
    LET Loaded(model) ==
            IF ~model.ok \/ Len(model.val) # 1 THEN NothingWritten
            ELSE Quantized(model.val[1], model.val[1].ctx.info, MixCtx(model.val[1].ctx.info), target, cap)
    IN  Loaded(load_gguf_model(disk, path))

-----------------------------------------------------------------------------
(* --- properties ----------------------------------------------------------- *)
(* A tensor of the given number, whole, at a type.                           *)
Contents(number, t, ne) ==
    [j \in 1..((Product(ne) \div blck_size(t)) * type_size(t)) |->
        (10000 * number) + (((j - 1) \div type_size(t)) * blck_size(t))]
SourceOf(specs, alignment) ==
    [kv |-> IF alignment = 32 THEN <<>> ELSE <<new_u32(GENERAL_ALIGNMENT, alignment)>>, specs |-> specs,
     alignment |-> alignment, payload |-> [i \in DOMAIN specs |-> Contents(i, specs[i].type, specs[i].ne)]]

(* At least as many bits an element as another type.                         *)
NoFewerBits(t, than) == type_size(t) * blck_size(than) >= type_size(than) * blck_size(t)

(* What minfer quantize writes is the model it was given: it loads, and each *)
(* tensor is there whole under its own name and shape, every element encoded *)
(* from the element it stands for, at a type of no fewer bits than the one   *)
(* asked for; a one-dimensional tensor keeps its own (run_quantize, the      *)
(* three rules of QuantizePlan::plan, the encoders and the loader agree on   *)
(* every block, row, pad and offset).                                        *)
RequantLoadsBack(src, target, cap) ==
    LET Same(i, s, t, bytes) ==
            /\ t.name = s.name /\ t.ne = s.ne
            /\ bytes = Contents(i, t.type, s.ne)
            /\ IF s.ne[2] <= 1 /\ target # Concrete(F32) THEN t.type = s.type
               ELSE NoFewerBits(t.type, target.base)
        Holds(tensors) ==
            /\ Len(tensors) = Len(src.specs)
            /\ \A i \in DOMAIN src.specs : Same(i, src.specs[i], tensors[i].spec, tensors[i].bytes)
        Loads(model) == model.ok /\ Holds(ModelTensors(model.val))
        Written(out) == out.ok /\ Loads(load_gguf_model(DiskOf(out.files), out.files[1].path))
        Source(whole) == whole.ok /\ Written(run_quantize(DiskOf(whole.files), SinglePath("in"), target, cap))
    IN  Source(write_single("in", src.kv, src.specs, src.alignment, src.payload))
=============================================================================
