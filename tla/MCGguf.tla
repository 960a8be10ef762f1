------------------------------- MODULE MCGguf -------------------------------
(* Instances of GgufFile: small files of one to three tensors, under the     *)
(* default and a stated alignment, with and without metadata of every shape. *)
EXTENDS HfConvert

(* Every byte of a tensor's payload is its own number.                       *)
PayloadOf(specs) == [i \in DOMAIN specs |-> [j \in 1..nbytes(specs[i]) |-> (1000 * i) + j]]

LongName == [i \in 1..(GGML_MAX_NAME - 1) |-> 40]
Tensors == <<TensorSpec(<<41>>, <<8, 1, 1, 1>>, F32), TensorSpec(<<42>>, <<32, 2, 1, 1>>, Q8_0),
             TensorSpec(LongName, <<5, 1, 3, 1>>, F16), TensorSpec(<<41, 42>>, <<0, 1, 1, 1>>, F32)>>
TensorLists == UNION {[1..n -> DOMAIN Tensors] : n \in 1..3}
SpecLists == {[i \in DOMAIN l |-> Tensors[l[i]]] : l \in {m \in TensorLists : IsInjective(m)}}

Metadata == {<<>>,
    <<new_string(<<51>>, <<61, 62>>), new_string_array(<<52>>, <<<<61>>, <<>>, <<62, 63>>>>),
      new_array(<<53>>, Int32, le_bytes(7, 4) \o le_bytes(9, 4)), Scalar(<<54>>, Bool, <<1>>)>>,
    <<new_u32(KEY_SPLIT_NO, 1), Scalar(<<55>>, Float64, le_bytes(77, 8)), new_u32(KEY_SPLIT_COUNT, 2)>>}

Source(kv, specs, alignment) ==
    [kv |-> IF alignment = GGUF_DEFAULT_ALIGNMENT THEN kv ELSE Append(kv, new_u32(GENERAL_ALIGNMENT, alignment)),
     specs |-> specs, alignment |-> alignment, payload |-> PayloadOf(specs)]
Caps == {32, 96, 160, 4000}

(* The files whose writing is cut at every byte.                             *)
CutSources == <<Source(<<>>, <<Tensors[1], Tensors[4], Tensors[3]>>, 32),
                Source(<<new_string(<<51>>, <<61>>)>>, <<Tensors[3], Tensors[1]>>, 64)>>
CutLengths == 0..900

(* Files to quantize: a tied or an untied model of one block, with rows that *)
(* blocks of 32 or of 256 elements do or do not divide.                      *)
Rows == {5, 32, 96, 256}
QuantFiles ==
    {<<TensorSpec(Name("token_embd.weight", NoBlock), <<row, 2, 1, 1>>, t),
       TensorSpec(Name("attn_norm.weight", 0), <<row, 1, 1, 1>>, F32),
       TensorSpec(Name(kind, 0), <<row, 1, 1, 1>>, t),
       TensorSpec(Name(kind, 1), <<row, 2, 1, 1>>, F16)>> :
        row \in Rows, t \in {F32, F16, BF16}, kind \in {"attn_v.weight", "attn_qkv.weight", "ffn_down.weight"}}
    \cup {<<TensorSpec(Name("output.weight", NoBlock), <<row, 2, 1, 1>>, t),
            TensorSpec(Name("token_embd.weight", NoBlock), <<row, 1, 2, 1>>, t)>> :
            row \in {32, 96, 256}, t \in {F32, Q8_0, Q5_1}}

(* Checkpoints of one block: a list of tensors put into one file or dealt to *)
(* two shards, the second of which may repeat a tensor or be cut short.      *)
HfTensors == <<[name |-> HfName(NoBlock, "model.embed_tokens.weight"), shape |-> <<3, 2>>],
               [name |-> HfName(0, "self_attn.q_proj.weight"), shape |-> <<2, 2>>],
               [name |-> HfName(0, "input_layernorm.weight"), shape |-> <<2>>],
               [name |-> HfName(NoBlock, "lm_head.weight"), shape |-> <<3, 2>>],
               [name |-> HfName(1, "mlp.up_proj.weight"), shape |-> <<4, 2>>],
               [name |-> HfName(0, "self_attn.rotary_emb.inv_freq"), shape |-> <<1>>]>>

(* A shard of the numbered tensors; shard f's elements carry 10 * f as well. *)
Shard(f, list, dtype, cut) ==
    LET size(k) == Elements(HfTensors[list[k]].shape) * elem_size(dtype)
        first(k) == FoldLeft(LAMBDA n, j : n + size(j), 0, [j \in 1..(k - 1) |-> j])
        data == FlattenSeq([k \in DOMAIN list |->
                    [b \in 1..size(k) |-> HfElement((10 * f) + list[k], (b - 1) \div elem_size(dtype))]])
    IN  [header |-> [k \in DOMAIN list |-> [name |-> HfTensors[list[k]].name, shape |-> HfTensors[list[k]].shape,
                         dtype |-> dtype, first |-> first(k), last |-> first(k) + size(k), number |-> (10 * f) + list[k]]],
         data |-> SubSeq(data, 1, Len(data) - cut)]

MCConfig(model_type, layers, vocab) ==
    [model_type |-> model_type, architectures |-> {"Qwen2ForCausalLM"}, num_hidden_layers |-> layers, hidden_size |-> 2,
     num_attention_heads |-> 1, num_key_value_heads |-> Missing, intermediate_size |-> 4,
     max_position_embeddings |-> 64, rms_norm_eps |-> Missing, rope_theta |-> Missing, vocab_size |-> vocab, eos_token_id |-> 1]
MCTokenizer(added) ==
    [kind |-> "BPE", vocab |-> (0 :> <<72>>) @@ (2 :> <<73>>), added |-> added, merges |-> <<<<72, 32, 73>>>>,
     chat_template |-> <<74>>, add_bos |-> FALSE, pad_token |-> <<72>>]
MCAdded == {<<>>, <<[id |-> 1, content |-> <<80, 81>>, special |-> FALSE], [id |-> 2, content |-> <<82>>, special |-> FALSE]>>,
            <<[id |-> 4, content |-> <<82>>, special |-> TRUE]>>}

CheckpointFiles ==
    {<<Shard(1, l, dtype, cut)>> : l \in {<<1, 2, 3>>, <<3, 4, 1>>, <<1, 5>>, <<1, 6>>}, dtype \in Dtypes, cut \in {0, 1}}
    \cup {<<Shard(1, l, dtype, cut), Shard(2, m, "BF16", cut2)>> :
            l \in {<<1, 2>>, <<3, 1>>}, m \in {<<2>>, <<1, 4>>, <<5>>}, dtype \in {"F16", "F32"}, cut \in {0, 1}, cut2 \in {0, 3}}
Checkpoints ==
    {[single |-> IF Len(files) = 1 THEN 1 ELSE 0, weight_map |-> IF Len(files) = 1 THEN <<>> ELSE <<2, 1, 2>>,
      files |-> files, config |-> c, tokenizer |-> MCTokenizer(added)] :
        files \in CheckpointFiles, added \in MCAdded,
        c \in {MCConfig("qwen2", 1, 4), MCConfig("qwen2", 2, 5), MCConfig("qwen3", 1, 4)}}
WithInvFreq == {[d EXCEPT !.files = <<Shard(1, <<1, 2, 6>>, "F16", 0)>>] : d \in {CHOOSE d \in Checkpoints : d.single = 1}}
=============================================================================
