----------------------------- MODULE HfConvert -----------------------------
(* minfer convert (convert.rs, tooling.rs): a HuggingFace checkpoint         *)
(* directory, its shards, configuration and tokenizer, and the GGUF made     *)
(* from them.  Names, tokens and keys are small byte strings; a tensor's     *)
(* elements are numbers, and a cast keeps them.                              *)
EXTENDS Requant

(* --- safetensors ---------------------------------------------------------- *)
Dtypes == {"BF16", "F16", "F32"}
elem_size(dtype) == IF dtype = "F32" THEN 4 ELSE 2

(* A HuggingFace name: its block (NoBlock for none) and the rest of it.      *)
HfName(block, tail) == [block |-> block, tail |-> tail]
BlockNames ==
    ("input_layernorm.weight" :> "attn_norm.weight") @@ ("post_attention_layernorm.weight" :> "ffn_norm.weight")
    @@ ("self_attn.q_proj.weight" :> "attn_q.weight") @@ ("self_attn.q_proj.bias" :> "attn_q.bias")
    @@ ("self_attn.k_proj.weight" :> "attn_k.weight") @@ ("self_attn.k_proj.bias" :> "attn_k.bias")
    @@ ("self_attn.v_proj.weight" :> "attn_v.weight") @@ ("self_attn.v_proj.bias" :> "attn_v.bias")
    @@ ("self_attn.o_proj.weight" :> "attn_output.weight") @@ ("mlp.gate_proj.weight" :> "ffn_gate.weight")
    @@ ("mlp.up_proj.weight" :> "ffn_up.weight") @@ ("mlp.down_proj.weight" :> "ffn_down.weight")
ModelNames ==
    ("model.embed_tokens.weight" :> "token_embd.weight") @@ ("model.norm.weight" :> "output_norm.weight")
    @@ ("lm_head.weight" :> "output.weight")

(* The GGUF name, or none: rotary_emb.inv_freq, an unknown name, a block the *)
(* configuration does not have.                                              *)
NoName == <<>>
map_tensor_name(n, n_layer) ==
    IF n.block = NoBlock /\ n.tail \in DOMAIN ModelNames THEN Name(ModelNames[n.tail], NoBlock)
    ELSE IF n.block \in 0..(n_layer - 1) /\ n.tail \in DOMAIN BlockNames THEN Name(BlockNames[n.tail], n.block)
    ELSE NoName

(* The shards of a directory: model.safetensors when there is one, else the  *)
(* files the index's weight_map names, once each, in order.                  *)
ShardFiles(dir) == IF dir.single # 0 THEN <<dir.single>> ELSE SetToSortSeq(Range(dir.weight_map), LAMBDA a, b : a < b)

Elements(shape) == FoldLeft(LAMBDA n, x : n * x, 1, shape)
GoodEntry(t, n_layer) ==
    /\ t.dtype \in Dtypes
    /\ t.last >= t.first
    /\ t.last - t.first = Elements(t.shape) * elem_size(t.dtype)
    /\ map_tensor_name(t.name, n_layer) # NoName

(* Mutant of Found: the first shard that holds a name wins, its bytes being  *)
(* looked for in the last.                                                   *)
FoundCrossed(dir, shards) ==
    LET holds(n) == {f \in DOMAIN shards : \E i \in DOMAIN dir.files[shards[f]].header : dir.files[shards[f]].header[i].name = n}
        entry(n) == LET h == dir.files[shards[Min(holds(n))]].header
                        t == h[CHOOSE i \in DOMAIN h : h[i].name = n]
                    IN  [name |-> n, dtype |-> t.dtype, shape |-> t.shape, first |-> t.first, last |-> t.last,
                         file |-> shards[Max(DOMAIN shards)]]
    IN  {entry(n) : n \in UNION {{h.name : h \in Range(dir.files[f].header)} : f \in Range(shards)}}

(* The tensors of all headers by name; a later shard's entry replaces an     *)
(* earlier one of the same name.                                             *)
Found(dir, shards) ==
    LET holds(n) == {f \in DOMAIN shards : \E i \in DOMAIN dir.files[shards[f]].header : dir.files[shards[f]].header[i].name = n}
        entry(n) == LET f == shards[Max(holds(n))]
                        h == dir.files[f].header
                        t == h[CHOOSE i \in DOMAIN h : h[i].name = n]
                    IN  [name |-> n, dtype |-> t.dtype, shape |-> t.shape, first |-> t.first, last |-> t.last, file |-> f]
    IN  {entry(n) : n \in UNION {{h.name : h \in Range(dir.files[f].header)} : f \in Range(shards)}}

(* The order of the names in a sorted map: lm_head, embed_tokens, blocks,    *)
(* norm.  As strings layers.10 comes before layers.2: the numbers are their  *)
(* order up to ten blocks, more than any checkpoint here has.                *)
NameOrder(n) ==
    LET tails == <<"input_layernorm.weight", "mlp.down_proj.weight", "mlp.gate_proj.weight", "mlp.up_proj.weight",
                   "post_attention_layernorm.weight", "self_attn.k_proj.bias", "self_attn.k_proj.weight",
                   "self_attn.o_proj.weight", "self_attn.q_proj.bias", "self_attn.q_proj.weight",
                   "self_attn.v_proj.bias", "self_attn.v_proj.weight">>
    IN  CASE n.tail = "lm_head.weight" -> 0
          [] n.tail = "model.embed_tokens.weight" -> 1
          [] n.tail = "model.norm.weight" -> 10000
          [] OTHER -> 10 + (20 * n.block) + (CHOOSE i \in DOMAIN tails : tails[i] = n.tail)

(* HfCheckpoint::open: the tensors, by name, or nothing when one is refused. *)
OpenCheckpoint(dir, n_layer) ==
    LET shards == ShardFiles(dir)
        entries == UNION {Range(dir.files[f].header) : f \in Range(shards)}
    IN  IF \E t \in entries : ~GoodEntry(t, n_layer) THEN <<>>
        ELSE SetToSortSeq(Found(dir, shards), LAMBDA a, b : NameOrder(a.name) < NameOrder(b.name))

(* HfCheckpoint::read: a range outside the shard is an error; so is a file   *)
(* that was cut short, found only when its bytes are wanted.                 *)
ReadRange(dir, t) ==
    LET d == dir.files[t.file].data IN IF t.last > Len(d) THEN <<>> ELSE SubSeq(d, t.first + 1, t.last)

-----------------------------------------------------------------------------
(* --- configuration and tokenizer ------------------------------------------ *)
Missing == -1
ConfigLoads(c) ==
    /\ "Qwen2ForCausalLM" \in c.architectures /\ c.model_type = "qwen2"
    /\ c.num_hidden_layers # Missing /\ c.hidden_size # Missing
    /\ c.num_attention_heads # Missing /\ c.intermediate_size # Missing
OrDefault(v, default) == IF v = Missing THEN default ELSE v

Pad(id) == <<90, id>>
looks_special(content) == content[1] = 80
NORMAL == 1
CONTROL == 3
USER_DEFINED == 4
TOKEN_UNUSED == 5

(* Every id of the vocabulary: an added token before a base one, the last    *)
(* added under an id, a placeholder where there is neither.                  *)
VocabularyOf(tok, vs) ==
    LET at(id) == {i \in DOMAIN tok.added : tok.added[i].id = id}
    IN  [id \in 0..(vs - 1) |->
            IF at(id) # {}
            THEN LET a == tok.added[Max(at(id))]
                 IN  [text |-> a.content, type |-> IF a.special \/ looks_special(a.content) THEN CONTROL ELSE USER_DEFINED]
            ELSE IF id \in DOMAIN tok.vocab THEN [text |-> tok.vocab[id], type |-> NORMAL]
            ELSE [text |-> Pad(id), type |-> TOKEN_UNUSED]]

TokenizerLoads(tok, vs) ==
    /\ vs > 0
    /\ tok.kind = "BPE"
    /\ \A id \in DOMAIN tok.vocab : id < vs
    /\ \A i \in DOMAIN tok.added : tok.added[i].id < vs
    /\ tok.merges # <<>>
    /\ tok.chat_template # NoName

(* pad_token: the first id of that text.                                     *)
PadId(tok, vocabulary) ==
    LET same == {id \in DOMAIN vocabulary : vocabulary[id].text = tok.pad_token} IN IF same = {} THEN Missing ELSE Min(same)

-----------------------------------------------------------------------------
(* --- the conversion ------------------------------------------------------- *)
OutTypes == {F16, BF16, F32}
out_file_type(out) == CASE out = F16 -> 1 [] out = BF16 -> 32 [] out = F32 -> 0
tensor_type(out, ndims) == IF out # F32 /\ ndims <= 1 THEN F32 ELSE out

(* Keys of the metadata, in the order they are written.  Strings that are    *)
(* always the same are one byte, and the defaults are scaled to their field. *)
(* Keys nothing reads back here are left out: general.type and .name, the    *)
(* sampling defaults, tokenizer.ggml.pre and the bos token.                  *)
Key(name) == <<200 + (CHOOSE i \in 1..17 : name = <<"architecture", "block_count", "context_length", "embedding_length",
    "feed_forward_length", "head_count", "head_count_kv", "freq_base", "rms_epsilon", "model", "tokens", "token_type",
    "merges", "padding_token_id", "eos_token_id", "add_bos_token", "chat_template">>[i])>>
Optional(key, v) == IF v = Missing THEN <<>> ELSE <<new_u32(key, v)>>
build_metadata(c, tok, vocabulary, out) ==
    LET ids == [i \in 1..Cardinality(DOMAIN vocabulary) |-> i - 1]
    IN  <<new_string(Key("architecture"), <<70>>), new_u32(Key("block_count"), c.num_hidden_layers),
          new_u32(Key("context_length"), OrDefault(c.max_position_embeddings, 2048)),
          new_u32(Key("embedding_length"), c.hidden_size), new_u32(Key("feed_forward_length"), c.intermediate_size),
          new_u32(Key("head_count"), c.num_attention_heads),
          new_u32(Key("head_count_kv"), OrDefault(c.num_key_value_heads, c.num_attention_heads)),
          Scalar(Key("freq_base"), Float32, le_bytes(OrDefault(c.rope_theta, 1000), 4)),
          Scalar(Key("rms_epsilon"), Float32, le_bytes(OrDefault(c.rms_norm_eps, 6), 4)),
          new_u32(GENERAL_FILE_TYPE, out_file_type(out)), new_u32(GENERAL_QUANTIZATION_VERSION, 2),
          new_string(Key("model"), <<71>>),
          new_string_array(Key("tokens"), [i \in DOMAIN ids |-> vocabulary[ids[i]].text]),
          new_array(Key("token_type"), Int32, FlattenSeq([i \in DOMAIN ids |-> le_bytes(vocabulary[ids[i]].type, 4)])),
          new_string_array(Key("merges"), tok.merges)>>
        \o Optional(Key("padding_token_id"), PadId(tok, vocabulary)) \o Optional(Key("eos_token_id"), c.eos_token_id)
        \o <<Scalar(Key("add_bos_token"), Bool, <<IF tok.add_bos THEN 1 ELSE 0>>), new_string(Key("chat_template"), tok.chat_template)>>

(* Mutant of GgufShape: the shape is taken as it stands.                     *)
GgufShapeUnturned(shape) == [j \in 1..4 |-> IF j <= Len(shape) THEN shape[j] ELSE 1]

(* The row length is the last dimension of the HuggingFace shape.            *)
GgufShape(shape) == [j \in 1..4 |-> IF j <= Len(shape) THEN shape[Len(shape) + 1 - j] ELSE 1]

(* convert_bytes: element by element, at the size of the new type.           *)
convert_bytes(dtype, out, bytes) ==
    [b \in 1..(Chunks(bytes, elem_size(dtype)) * type_size(out)) |->
        bytes[(((b - 1) \div type_size(out)) * elem_size(dtype)) + 1]]

(* Conversion::plan and the write: what is on the disk when it returns.      *)
run_convert(dir, out, cap) ==
    LET c == dir.config
        target(t) == tensor_type(out, Len(t.shape))
        SpecOf(t) == TensorSpec(map_tensor_name(t.name, c.num_hidden_layers), GgufShape(t.shape), target(t))
        BytesOf(t) == convert_bytes(t.dtype, target(t), ReadRange(dir, t))
        Plan(tensors, vocabulary) ==
            IF tensors = <<>> THEN NothingWritten
            ELSE WriteModel(build_metadata(c, dir.tokenizer, vocabulary, out),
                            [i \in DOMAIN tensors |-> SpecOf(tensors[i])], cap,
                            [i \in DOMAIN tensors |-> BytesOf(tensors[i])])
    IN  IF ~ConfigLoads(c) \/ ~TokenizerLoads(dir.tokenizer, c.vocab_size) THEN NothingWritten
        ELSE Plan(OpenCheckpoint(dir, c.num_hidden_layers), VocabularyOf(dir.tokenizer, c.vocab_size))

-----------------------------------------------------------------------------
(* --- properties ----------------------------------------------------------- *)
(* The number of a checkpoint's tensor, on each of its elements' bytes.      *)
HfElement(number, x) == (10000 * number) + x

(* When minfer convert reports success its file loads and carries the whole  *)
(* checkpoint: every tensor some shard holds, turned, at the type its        *)
(* dimensions call for, with the elements of the last shard that holds it;   *)
(* and a token for every id, the configuration's numbers with it.  When it   *)
(* fails, what it left behind does not load (it writes in place, and finds a *)
(* shard that was cut short only on the way).                                *)
ConvertLoadsBack(dir, out, cap) ==
    LET shards == ShardFiles(dir)
        named == UNION {{<<f, h>> : h \in Range(dir.files[f].header)} : f \in Range(shards)}
        latest == {p \in named : \A q \in named : q[2].name = p[2].name => q[1] <= p[1]}
        Same(h, t, bytes) ==
            /\ t.name = map_tensor_name(h.name, dir.config.num_hidden_layers)
            /\ t.ne[1] = Last(h.shape) /\ Product(t.ne) = Elements(h.shape)
            /\ t.type = IF Len(h.shape) <= 1 THEN F32 ELSE out
            /\ \A b \in DOMAIN bytes : bytes[b] = HfElement(h.number, (b - 1) \div type_size(t.type))
        HoldsTensors(tensors) ==
            /\ Len(tensors) = Cardinality({p[2].name : p \in named})
            /\ \A p \in latest : \E i \in DOMAIN tensors : Same(p[2], tensors[i].spec, tensors[i].bytes)
        HoldsTokens(strings) ==
            /\ Len(strings) = dir.config.vocab_size
            /\ \A i \in DOMAIN dir.tokenizer.added :
                   strings[dir.tokenizer.added[i].id + 1] = dir.tokenizer.added[i].content
        HoldsMeta(ctx) ==
            /\ HoldsTokens(ctx.kv[find_key(ctx.kv, Key("tokens"))].strings)
            /\ get_key_val_i64(ctx, Key("block_count")) = <<dir.config.num_hidden_layers>>
        Loads(r, model) ==
            /\ r.ok => model.ok /\ HoldsTensors(ModelTensors(model.val)) /\ HoldsMeta(model.val[1].ctx)
            /\ (~r.ok /\ r.files # <<>>) => ~model.ok
        Converted(r) == Loads(r, load_gguf_model(DiskOf(r.files), r.files[1].path))
    IN  Converted(run_convert(dir, out, cap))

(* A checkpoint that carries the rotary_emb.inv_freq buffers converts as it  *)
(* does without them, as the comment of map_tensor_name has it.              *)
InvFreqOmitted(dir, with, out) == run_convert(with, out, 0) = run_convert(dir, out, 0)
=============================================================================
