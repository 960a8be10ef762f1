------------------------------ MODULE GgufFile ------------------------------
(* The GGUF container (gguf.rs, gguf_write.rs) and the split command         *)
(* (tooling.rs): what the writer lays down byte by byte, what the reader     *)
(* makes of any sequence of bytes, and how the parts of a split are found.   *)
(*                                                                           *)
(* A file is a sequence of bytes.  Every field keeps its width in bytes, but *)
(* a byte of a number holds three bits, so that a 64-bit field is an integer *)
(* TLC can hold; the bytes of names and of tensor data are opaque numbers.   *)
EXTENDS Integers, Sequences, SequencesExt, FiniteSetsExt

Radix == 8
UsizeMax == (2^24) - 1
I64Max == (2^23) - 1
GGUF_MAGIC == <<20, 20, 21, 22>>
GGUF_VERSION == 3
GGUF_DEFAULT_ALIGNMENT == 32
GGUF_MAX_STRING_LENGTH == 2^12
GGUF_MAX_ARRAY_ELEMENTS == 2^12
GGML_MAX_DIMS == 4
GGML_MAX_NAME == 64

(* The keys the reader and the writer look for themselves.                   *)
GENERAL_ALIGNMENT == <<31>>
KEY_SPLIT_NO == <<32>>
KEY_SPLIT_COUNT == <<33>>
KEY_SPLIT_TENSORS_COUNT == <<34>>

(* GgufType: the tags of metadata values and the width of one value.         *)
Uint8 == 0
Int8 == 1
Uint16 == 2
Int16 == 3
Uint32 == 4
Int32 == 5
Float32 == 6
Bool == 7
String == 8
Array == 9
Uint64 == 10
Int64 == 11
Float64 == 12
GgufTypes == 0..12
gguf_type_size(t) == <<1, 1, 2, 2, 4, 4, 4, 1, 0, 0, 8, 8, 8>>[t + 1]

(* GgmlType: the tags of tensor types, elements and bytes a block.           *)
GGML_TYPE_COUNT == 42
GgmlTypes == (0..(GGML_TYPE_COUNT - 1)) \ {4, 5, 31, 32, 33, 36, 37, 38}
F32 == 0
F16 == 1
Q4_0 == 2
Q4_1 == 3
Q5_0 == 6
Q5_1 == 7
Q8_0 == 8
Q4_K == 12
Q5_K == 13
Q6_K == 14
BF16 == 30
blck_size(t) ==
    CASE t \in {0, 1, 24, 25, 26, 27, 28, 30} -> 1
      [] t \in {2, 3, 6, 7, 8, 9, 20, 23, 39, 40, 41} -> 32
      [] OTHER -> 256
type_size(t) ==
    <<4, 2, 18, 20, 0, 0, 22, 24, 34, 36, 70, 110, 144, 176, 210, 290, 42, 36, 58, 36, 18,
      64, 48, 28, 1, 2, 4, 8, 8, 54, 2, 0, 0, 0, 68, 100, 0, 0, 0, 72, 80, 6>>[t + 1]

ggml_pad(x, n) == ((x + n - 1) \div n) * n
Product(ne) == ne[1] * ne[2] * ne[3] * ne[4]
PowersOf2 == {2^i : i \in 0..12}

-----------------------------------------------------------------------------
(* --- writing -------------------------------------------------------------- *)
Zeros(n) == [i \in 1..n |-> 0]
le_bytes(v, w) == [i \in 1..w |-> (v \div (Radix^(i - 1))) % Radix]

(* A metadata pair: is_array, the (element) type, raw bytes or strings.      *)
Scalar(key, t, bytes) == [key |-> key, is_array |-> FALSE, type |-> t, data |-> bytes, strings |-> <<>>]
new_u32(key, v) == Scalar(key, Uint32, le_bytes(v, 4))
new_string(key, s) == [key |-> key, is_array |-> FALSE, type |-> String, data |-> <<>>, strings |-> <<s>>]
new_string_array(key, ss) == [key |-> key, is_array |-> TRUE, type |-> String, data |-> <<>>, strings |-> ss]
new_array(key, t, bytes) == [key |-> key, is_array |-> TRUE, type |-> t, data |-> bytes, strings |-> <<>>]
get_ne(kv) == IF kv.type = String THEN Len(kv.strings) ELSE Len(kv.data) \div gguf_type_size(kv.type)

TensorSpec(name, ne, t) == [name |-> name, ne |-> ne, type |-> t]
nbytes(spec) == (Product(spec.ne) \div blck_size(spec.type)) * type_size(spec.type)

(* Mutant of ggml_n_dims: the dimensions that are not 1 are counted instead  *)
(* of the last of them being found.                                          *)
ggml_n_dimsCounted(ne) == 1 + Cardinality({j \in 2..4 : ne[j] # 1})

ggml_n_dims(ne) == Max({1} \cup {j \in 2..4 : ne[j] # 1})

write_string(s) == le_bytes(Len(s), 8) \o s

encode_kv(kv) ==
    LET payload == IF kv.type = String THEN FlattenSeq([i \in DOMAIN kv.strings |-> write_string(kv.strings[i])])
                   ELSE kv.data
    IN  write_string(kv.key)
            \o (IF kv.is_array THEN le_bytes(Array, 4) \o le_bytes(kv.type, 4) \o le_bytes(get_ne(kv), 8)
                ELSE le_bytes(kv.type, 4))
            \o payload

kv_upsert(list, kv) ==
    IF \E i \in DOMAIN list : list[i].key = kv.key
    THEN [list EXCEPT ![Min({i \in DOMAIN list : list[i].key = kv.key})] = kv]
    ELSE Append(list, kv)

kv_remove(list, key) == SelectSeq(list, LAMBDA k : k.key # key)
Unsplit(list) == kv_remove(kv_remove(kv_remove(list, KEY_SPLIT_NO), KEY_SPLIT_COUNT), KEY_SPLIT_TENSORS_COUNT)

validate_specs(specs) ==
    /\ \A i \in DOMAIN specs : /\ Len(specs[i].name) < GGML_MAX_NAME
                               /\ specs[i].ne[1] % blck_size(specs[i].type) = 0
                               /\ \A j \in 2..4 : specs[i].ne[j] >= 1
    /\ IsInjective([i \in DOMAIN specs |-> specs[i].name])

(* Mutant of Offsets: the padding between two tensors is left out.           *)
OffsetsUnpadded(specs, alignment) ==
    FoldLeft(LAMBDA offs, s : Append(offs, Last(offs) + nbytes(s)), <<0>>, specs)

(* The offset of each tensor, and after them the length of the section.      *)
Offsets(specs, alignment) ==
    FoldLeft(LAMBDA offs, s : Append(offs, Last(offs) + ggml_pad(nbytes(s), alignment)), <<0>>, specs)

IndexEntry(spec, offset) ==
    write_string(spec.name) \o le_bytes(ggml_n_dims(spec.ne), 4)
        \o FlattenSeq([j \in 1..ggml_n_dims(spec.ne) |-> le_bytes(spec.ne[j], 8)])
        \o le_bytes(spec.type, 4) \o le_bytes(offset, 8)

(* GgufWriter::create: the padded header, once the specs are valid.          *)
CanCreate(specs, alignment) == validate_specs(specs) /\ alignment \in PowersOf2
Header(kv, specs, alignment) ==
    LET Padded(bytes) == bytes \o Zeros(ggml_pad(Len(bytes), alignment) - Len(bytes))
        Index(offsets) == FlattenSeq([i \in DOMAIN specs |-> IndexEntry(specs[i], offsets[i])])
    IN  Padded(GGUF_MAGIC \o le_bytes(GGUF_VERSION, 4) \o le_bytes(Len(specs), 8) \o le_bytes(Len(kv), 8)
                   \o FlattenSeq([i \in DOMAIN kv |-> encode_kv(kv[i])]) \o Index(Offsets(specs, alignment)))

(* write_tensor_data through TensorStaging: as much as the spec declares,    *)
(* and the padding when the provider wrote exactly that.                     *)
write_tensor_data(out, spec, alignment, bytes) ==
    IF ~out.ok THEN out
    ELSE IF Len(bytes) # nbytes(spec)
    THEN [ok |-> FALSE, bytes |-> out.bytes \o SubSeq(bytes, 1, Min({Len(bytes), nbytes(spec)}))]
    ELSE [ok |-> TRUE,
          bytes |-> out.bytes \o bytes \o Zeros(ggml_pad(nbytes(spec), alignment) - nbytes(spec))]

(* One file: create, every tensor in order, finish.                          *)
WritePart(kv, specs, alignment, payload) ==
    IF ~CanCreate(specs, alignment) THEN [ok |-> FALSE, bytes |-> <<>>]
    ELSE FoldLeft(LAMBDA out, i : write_tensor_data(out, specs[i], alignment, payload[i]),
                  [ok |-> TRUE, bytes |-> Header(kv, specs, alignment)], [i \in DOMAIN specs |-> i])

(* A file name: a stem, and which part of how many when it says so.          *)
SinglePath(stem) == [stem |-> stem, no |-> 0, count |-> 0]
PartPath(stem, p, total) == [stem |-> stem, no |-> p, count |-> total]

(* What a command wrote: the files in the order they were written.           *)
NothingWritten == [ok |-> FALSE, files |-> <<>>]
write_single(stem, kv, specs, alignment, payload) ==
    LET Out(part) == [ok |-> part.ok, files |-> <<[path |-> SinglePath(stem), bytes |-> part.bytes]>>]
    IN  Out(WritePart(Unsplit(kv), specs, alignment, payload))

(* Mutant of split_assignment: a part is closed once it is over the cap.     *)
split_assignmentLate(specs, alignment, cap) ==
    LET put(acc, i) ==
            IF acc.bytes > cap
            THEN [parts |-> Append(acc.parts, <<i>>), bytes |-> ggml_pad(nbytes(specs[i]), alignment)]
            ELSE [parts |-> Append(Front(acc.parts), Append(Last(acc.parts), i)),
                  bytes |-> acc.bytes + ggml_pad(nbytes(specs[i]), alignment)]
    IN  IF \E i \in DOMAIN specs : ggml_pad(nbytes(specs[i]), alignment) > cap THEN <<>>
        ELSE FoldLeft(put, [parts |-> <<<<>>>>, bytes |-> 0], [i \in DOMAIN specs |-> i]).parts

(* Greedy parts of at most cap padded bytes; none when a tensor alone is     *)
(* larger, or there is no tensor.                                            *)
split_assignment(specs, alignment, cap) ==
    LET padded(i) == ggml_pad(nbytes(specs[i]), alignment)
        put(acc, i) ==
            IF Last(acc.parts) # <<>> /\ acc.bytes + padded(i) > cap
            THEN [parts |-> Append(acc.parts, <<i>>), bytes |-> padded(i)]
            ELSE [parts |-> Append(Front(acc.parts), Append(Last(acc.parts), i)), bytes |-> acc.bytes + padded(i)]
    IN  IF specs = <<>> \/ \E i \in DOMAIN specs : padded(i) > cap THEN <<>>
        ELSE FoldLeft(put, [parts |-> <<<<>>>>, bytes |-> 0], [i \in DOMAIN specs |-> i]).parts

write_split(stem, kv, specs, alignment, cap, payload) ==
    LET pick(ids, s) == [j \in DOMAIN ids |-> s[ids[j]]]
        part_kv(p, count) ==
            kv_upsert(kv_upsert(kv_upsert(Unsplit(kv), new_u32(KEY_SPLIT_NO, p - 1)), new_u32(KEY_SPLIT_COUNT, count)),
                      new_u32(KEY_SPLIT_TENSORS_COUNT, Len(specs)))
        Added(out, path, w) == [ok |-> w.ok, files |-> Append(out.files, [path |-> path, bytes |-> w.bytes])]
        Parts(parts) ==
            IF parts = <<>> THEN NothingWritten
            ELSE IF Len(parts) = 1 THEN write_single(stem, kv, specs, alignment, payload)
            ELSE FoldLeftDomain(LAMBDA out, p :
                     IF ~out.ok THEN out
                     ELSE Added(out, PartPath(stem, p, Len(parts)),
                                WritePart(part_kv(p, Len(parts)), pick(parts[p], specs), alignment, pick(parts[p], payload))),
                     [ok |-> TRUE, files |-> <<>>], parts)
    IN  IF cap = 0 THEN NothingWritten ELSE Parts(split_assignment(specs, alignment, cap))

-----------------------------------------------------------------------------
(* --- reading -------------------------------------------------------------- *)
(* A read returns the next position and a value, refuses the file, or panics. *)
Read(pos, val) == [ok |-> TRUE, pos |-> pos, val |-> val]
Refused == [ok |-> FALSE, panicked |-> FALSE]
Panicked == [ok |-> FALSE, panicked |-> TRUE]
Then(r, F(_, _)) == IF r.ok THEN F(r.pos, r.val) ELSE r

Unsigned(bytes) == FoldRight(LAMBDA b, acc : (acc * Radix) + b, bytes, 0)
SignBit(bytes) == Last(bytes) >= Radix \div 2
Signed(bytes) == IF SignBit(bytes) THEN Unsigned(bytes) - (Radix^Len(bytes)) ELSE Unsigned(bytes)

read_raw(d, pos, n) == IF pos + n > Len(d) THEN Refused ELSE Read(pos + n, SubSeq(d, pos + 1, pos + n))
read_val(d, pos, w) == Then(read_raw(d, pos, w), LAMBDA p, b : Read(p, Unsigned(b)))
read_int(d, pos, w) == Then(read_raw(d, pos, w), LAMBDA p, b : Read(p, Signed(b)))
read_gguf_type(d, pos) ==
    Then(read_int(d, pos, 4), LAMBDA p, t : IF t \in GgufTypes THEN Read(p, t) ELSE Panicked)
read_ggml_type(d, pos) ==
    Then(read_int(d, pos, 4), LAMBDA p, t : IF t \in GgmlTypes THEN Read(p, t) ELSE Panicked)
read_string(d, pos) ==
    Then(read_val(d, pos, 8), LAMBDA p, n : IF n > GGUF_MAX_STRING_LENGTH THEN Refused ELSE read_raw(d, p, n))
read_vec(d, pos, n, w) ==
    IF n > GGUF_MAX_ARRAY_ELEMENTS \/ n > (Len(d) - pos) \div w THEN Refused ELSE read_raw(d, pos, n * w)
read_string_vec(d, pos, n) ==
    IF n > GGUF_MAX_ARRAY_ELEMENTS \/ n * 8 > Len(d) - pos THEN Refused
    ELSE FoldLeft(LAMBDA acc, i : Then(acc, LAMBDA p, ss :
                      Then(read_string(d, p), LAMBDA q, s : Read(q, Append(ss, s)))),
                  Read(pos, <<>>), [i \in 1..n |-> i])

(* A Boolean is any byte that is not zero, and is kept as one.               *)
Flags(bytes) == [i \in DOMAIN bytes |-> IF bytes[i] = 0 THEN 0 ELSE 1]

read_number(d, pos, key, t, is_array, n) ==
    IF is_array THEN Then(read_vec(d, pos, n, gguf_type_size(t)), LAMBDA p, b : Read(p, new_array(key, t, b)))
    ELSE Then(read_raw(d, pos, gguf_type_size(t)), LAMBDA p, b : Read(p, Scalar(key, t, b)))
(* Room for n flags is asked for before the first is read: a count beyond    *)
(* the memory aborts the code, where it is refused here.                     *)
read_flag(d, pos, key, is_array, n) ==
    IF is_array THEN Then(read_raw(d, pos, n), LAMBDA p, b : Read(p, new_array(key, Bool, Flags(b))))
    ELSE Then(read_raw(d, pos, 1), LAMBDA p, b : Read(p, Scalar(key, Bool, Flags(b))))
read_text(d, pos, key, is_array, n) ==
    IF is_array THEN Then(read_string_vec(d, pos, n), LAMBDA p, ss : Read(p, new_string_array(key, ss)))
    ELSE Then(read_string(d, pos), LAMBDA p, s : Read(p, new_string(key, s)))

(* An array of arrays is refused.                                            *)
read_value(d, pos, key, t, is_array, n) ==
    CASE t = Array  -> Refused
      [] t = String -> read_text(d, pos, key, is_array, n)
      [] t = Bool   -> read_flag(d, pos, key, is_array, n)
      [] OTHER      -> read_number(d, pos, key, t, is_array, n)

read_kv(d, pos, earlier) ==
    Then(read_string(d, pos), LAMBDA p1, key :
        IF \E i \in DOMAIN earlier : earlier[i].key = key THEN Refused
        ELSE Then(Then(read_gguf_type(d, p1), LAMBDA p2, t :
                      IF t # Array THEN Read(p2, <<t, FALSE, 1>>)
                      ELSE Then(read_gguf_type(d, p2), LAMBDA p3, et :
                               Then(read_val(d, p3, 8), LAMBDA p4, n : Read(p4, <<et, TRUE, n>>)))),
                  LAMBDA p5, h : read_value(d, p5, key, h[1], h[2], h[3])))

find_key(list, key) == SelectInSeq(list, LAMBDA k : k.key = key)

(* get_val_u32 asserts that it is given one 32-bit number.                   *)
Alignment(list) ==
    LET i == find_key(list, GENERAL_ALIGNMENT)
    IN  IF i = 0 THEN Read(0, GGUF_DEFAULT_ALIGNMENT)
        ELSE IF list[i].type # Uint32 \/ get_ne(list[i]) # 1 THEN Panicked
        ELSE LET a == Unsigned(list[i].data) IN IF a \in PowersOf2 THEN Read(0, a) ELSE Refused

(* The magic, the version and the two counts; a GgufTensorInfo takes 104     *)
(* bytes of memory and a GgufKv 80.                                          *)
read_header(d) ==
    Then(read_raw(d, 0, 4), LAMBDA p0, magic :
        IF magic # GGUF_MAGIC THEN Refused
        ELSE Then(read_val(d, p0, 4), LAMBDA p1, version :
            IF version \in {0, 1} \/ version > GGUF_VERSION THEN Refused
            ELSE Then(read_int(d, p1, 8), LAMBDA p2, n_tensors :
                IF n_tensors < 0 \/ n_tensors > UsizeMax \div 104 THEN Refused
                ELSE Then(read_int(d, p2, 8), LAMBDA p3, n_kv :
                    IF n_kv < 0 \/ n_kv > UsizeMax \div 80 THEN Refused
                    ELSE Read(p3, [n_tensors |-> n_tensors, n_kv |-> n_kv])))))

read_kvs(d, pos, n) ==
    FoldLeft(LAMBDA acc, i : Then(acc, LAMBDA p, kvs :
                 Then(read_kv(d, p, kvs), LAMBDA q, kv : Read(q, Append(kvs, kv)))),
             Read(pos, <<>>), [i \in 1..n |-> i])

(* The element counts: as many as are stored, then ones.  The check of the   *)
(* product divides by the later dimensions without looking at them.          *)
read_shape(d, pos) ==
    Then(read_val(d, pos, 4), LAMBDA p, n :
        IF n > GGML_MAX_DIMS THEN Refused
        ELSE Then(FoldLeft(LAMBDA acc, j : Then(acc, LAMBDA q, ne :
                               Then(read_int(d, q, 8), LAMBDA r, v : IF v < 0 THEN Refused ELSE Read(r, Append(ne, v)))),
                           Read(p, <<>>), [j \in 1..n |-> j]),
                  LAMBDA q, stored :
                      LET ne == stored \o [j \in 1..(GGML_MAX_DIMS - n) |-> 1]
                          n01 == ne[1] * ne[2]
                      IN  IF ne[2] = 0 THEN Panicked
                          ELSE IF I64Max \div ne[2] <= ne[1] THEN Refused
                          ELSE IF ne[3] = 0 THEN Panicked
                          ELSE IF I64Max \div ne[3] <= n01 THEN Refused
                          ELSE IF ne[4] = 0 THEN Panicked
                          ELSE IF I64Max \div ne[4] <= n01 * ne[3] THEN Refused
                          ELSE Read(q, ne)))

(* Byte strides of the four dimensions.                                      *)
Strides(ne, t) ==
    LET nb1 == type_size(t) * (ne[1] \div blck_size(t))
    IN  <<type_size(t), nb1, nb1 * ne[2], nb1 * ne[2] * ne[3]>>

read_tensor_info(d, pos, earlier) ==
    Then(read_string(d, pos), LAMBDA p1, name :
        IF Len(name) >= GGML_MAX_NAME \/ \E i \in DOMAIN earlier : earlier[i].name = name THEN Refused
        ELSE Then(read_shape(d, p1), LAMBDA p2, ne :
            Then(read_ggml_type(d, p2), LAMBDA p3, t :
                IF ne[1] % blck_size(t) # 0 \/ Product(ne) \div blck_size(t) > UsizeMax \div type_size(t) THEN Refused
                ELSE Then(read_val(d, p3, 8), LAMBDA p4, offset :
                    Read(p4, [name |-> name, ne |-> ne, nb |-> Strides(ne, t), type |-> t, offset |-> offset])))))

read_infos(d, pos, n) ==
    FoldLeft(LAMBDA acc, i : Then(acc, LAMBDA p, infos :
                 Then(read_tensor_info(d, p, infos), LAMBDA q, info : Read(q, Append(infos, info)))),
             Read(pos, <<>>), [i \in 1..n |-> i])

(* The bytes from a tensor's first element to its last, by its strides.      *)
ggml_nbytes(info) ==
    IF \E j \in 1..4 : info.ne[j] <= 0 THEN 0
    ELSE (IF blck_size(info.type) = 1 THEN info.nb[1] + ((info.ne[1] - 1) * info.nb[1])
          ELSE (info.ne[1] * info.nb[1]) \div blck_size(info.type))
             + ((info.ne[2] - 1) * info.nb[2]) + ((info.ne[3] - 1) * info.nb[3]) + ((info.ne[4] - 1) * info.nb[4])

(* Mutant of FitsSection: only where a tensor begins is looked at.           *)
FitsSectionStart(info, limit) == info.offset <= limit

FitsSection(info, limit) == info.offset + ggml_nbytes(info) <= limit

(* init_from_reader: a context, or a refusal.                                *)
init_from_data(d) ==
    Then(read_header(d), LAMBDA p0, h :
        Then(read_kvs(d, p0, h.n_kv), LAMBDA p1, kvs :
            Then(Alignment(kvs), LAMBDA ignored, alignment :
                Then(read_infos(d, p1, h.n_tensors), LAMBDA p2, infos :
                    LET offset == IF h.n_tensors > 0 THEN ggml_pad(p2, alignment) ELSE p2
                    IN  IF offset > Len(d) \/ \E i \in DOMAIN infos : ~FitsSection(infos[i], Len(d) - offset) THEN Refused
                        ELSE Read(offset, [kv |-> kvs, info |-> infos, alignment |-> alignment, offset |-> offset])))))

(* get_key_val_i64: any integer or Boolean value, the first one of an array   *)
(* (an empty one, on which the code panics, is not written here): <<v>> for  *)
(* Some(v), <<>> for None.                                                   *)
get_key_val_i64(ctx, key) ==
    LET Value(kv, first) == IF kv.type \in {Float32, Float64, String} THEN <<>>
                            ELSE IF kv.type \in {Int8, Int16, Int32, Int64} THEN <<Signed(first)>> ELSE <<Unsigned(first)>>
        Of(kv) == Value(kv, SubSeq(kv.data, 1, gguf_type_size(kv.type)))
        At(i) == IF i = 0 THEN <<>> ELSE Of(ctx.kv[i])
    IN  At(find_key(ctx.kv, key))
OrElse(v, default) == IF v = <<>> THEN default ELSE v[1]

(* A disk: the files that exist, by path.  An empty file cannot be mapped.   *)
map(disk, path) == IF path \notin DOMAIN disk \/ disk[path] = <<>> THEN Refused ELSE init_from_data(disk[path])

(* split_file_info and resolve_splits: only a first part names its split.    *)
resolve_splits(path) ==
    IF path.no # 1 \/ path.no > path.count THEN <<>>
    ELSE [i \in 1..path.count |-> PartPath(path.stem, i, path.count)]

LoadPart(mapped, i) ==
    Then(mapped, LAMBDA p, ctx :
        IF OrElse(get_key_val_i64(ctx, KEY_SPLIT_NO), 0) # i - 1 THEN Refused ELSE Read(p, ctx))

(* load_gguf_model: the parts, each its context and its bytes.               *)
load_gguf_model(disk, path) ==
    LET paths == resolve_splits(path)
        Parts(mapped) ==
            FoldLeftDomain(LAMBDA acc, i : Then(acc, LAMBDA q, parts :
                               Then(LoadPart(mapped[paths[i]], i), LAMBDA r, ctx :
                                   Read(0, Append(parts, [ctx |-> ctx, data |-> disk[paths[i]]])))),
                           Read(0, <<>>), paths)
        Model(count, ctx0, mapped) ==
            IF count <= 1 THEN Read(0, <<[ctx |-> ctx0, data |-> disk[path]]>>)
            ELSE IF OrElse(get_key_val_i64(ctx0, KEY_SPLIT_NO), 0) # 0 \/ Len(paths) # count THEN Refused
            ELSE Parts(mapped)
        From(mapped) ==
            Then(mapped[path], LAMBDA p0, ctx0 : Model(OrElse(get_key_val_i64(ctx0, KEY_SPLIT_COUNT), 1), ctx0, mapped))
    IN  From([q \in {path} \cup Range(paths) |-> map(disk, q)])

(* A tensor's bytes, as the loader and the rewriting commands slice them.    *)
TensorBytes(part, info) ==
    SubSeq(part.data, part.ctx.offset + info.offset + 1, part.ctx.offset + info.offset + nbytes(info))
ModelTensors(parts) ==
    FlattenSeq([p \in DOMAIN parts |->
        [i \in DOMAIN parts[p].ctx.info |->
            LET info == parts[p].ctx.info[i]
            IN  [spec |-> TensorSpec(info.name, info.ne, info.type), bytes |-> TensorBytes(parts[p], info)]]])

(* write_verbatim, the split command: a single file's tensors, as they are.  *)
write_verbatim(parts, stem, cap) ==
    LET ctx == parts[1].ctx
        tensors == ModelTensors(parts)
    IN  IF Len(parts) # 1 \/ ctx.info = <<>> THEN NothingWritten
        ELSE write_split(stem, ctx.kv, [i \in DOMAIN tensors |-> tensors[i].spec], ctx.alignment, cap,
                         [i \in DOMAIN tensors |-> tensors[i].bytes])

-----------------------------------------------------------------------------
(* --- properties ----------------------------------------------------------- *)
DiskOf(files) == [path \in {files[i].path : i \in DOMAIN files} |->
                     files[CHOOSE i \in DOMAIN files : files[i].path = path].bytes]
TotalBytes(files) == FoldLeft(LAMBDA n, f : n + Len(f.bytes), 0, files)

(* The disk of a fresh directory when the process died after k bytes.        *)
CutFiles(files, k) ==
    LET cut(acc, f) ==
            IF acc.left = 0 THEN acc
            ELSE LET n == Min({acc.left, Len(f.bytes)})
                 IN  [left |-> acc.left - n, files |-> Append(acc.files, [f EXCEPT !.bytes = SubSeq(f.bytes, 1, n)])]
    IN  FoldLeft(cut, [left |-> k, files |-> <<>>], files).files

(* Every tensor of a source, as written.                                     *)
Whole(src) == [i \in DOMAIN src.specs |-> [spec |-> src.specs[i], bytes |-> src.payload[i]]]

(* What minfer split writes loads back as the model it was given: the same   *)
(* metadata, and every tensor of it once, in order, with its own shape, type *)
(* and bytes, in parts of at most the size asked for (write_verbatim,        *)
(* write_split and load_gguf_model agree on every offset, pad and count).    *)
SplitLoadsBack(src, cap) ==
    LET Loads(again) ==
            /\ again.ok
            /\ ModelTensors(again.val) = Whole(src)
            /\ \A p \in DOMAIN again.val : /\ Unsplit(again.val[p].ctx.kv) = Unsplit(src.kv)
                                           /\ Len(again.val[p].data) - again.val[p].ctx.offset <= cap
        Written(out) ==
            /\ out.ok <=> \A s \in Range(src.specs) : ggml_pad(nbytes(s), src.alignment) <= cap
            /\ out.ok => Loads(load_gguf_model(DiskOf(out.files), out.files[1].path))
        Source(model) == model.ok /\ Written(write_verbatim(model.val, "out", cap))
        Single(whole) == whole.ok /\ Source(load_gguf_model(DiskOf(whole.files), SinglePath("in")))
    IN  Single(write_single("in", src.kv, src.specs, src.alignment, src.payload))

WithinFile(parts) ==
    \A p \in DOMAIN parts : \A i \in DOMAIN parts[p].ctx.info :
        LET info == parts[p].ctx.info[i] IN parts[p].ctx.offset + info.offset + nbytes(info) <= Len(parts[p].data)

(* A conversion or split that dies part way into a fresh directory leaves    *)
(* nothing that loads as a smaller or shifted model: the files written so    *)
(* far are refused, without a panic, unless every tensor byte was written.   *)
(* (The writer writes in place; only the reader's checks stand in the way.)  *)
CutIsRefused(src, cap, k) ==
    LET Loads(model) ==
            /\ ~model.ok => ~model.panicked
            /\ model.ok => WithinFile(model.val) /\ ModelTensors(model.val) = Whole(src)
        Cut(out) == (out.ok /\ k < TotalBytes(out.files)) =>
                        Loads(load_gguf_model(DiskOf(CutFiles(out.files, k)), out.files[1].path))
    IN  Cut(write_split("out", src.kv, src.specs, src.alignment, cap, src.payload))
=============================================================================
