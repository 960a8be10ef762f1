----------------------------- MODULE KvSession -----------------------------
(* The KV session container (graph/kvsession.rs): a header, one K/V blob a   *)
(* layer, the arena's bookkeeping, the caller's host state and a checksum,   *)
(* written and read word by word, and the save and load the allocator builds *)
(* from it (kv_save_with_host, kv_load_with_host, restore_session).          *)
(*                                                                           *)
(* A word is a tagged value: a number, a row of a region, a word of the host *)
(* state, or the checksum.  The checksum is taken to tell the files of the   *)
(* model apart, so it is the words it covers.                                *)
EXTENDS KvCells

VERSION == 2
FormatOfFlags == [f \in {0, 1, 2} |-> CASE f = 0 -> "f32" [] f = 1 -> "q8_0" [] f = 2 -> "f16"]
flags_of(format) == CHOOSE f \in {0, 1, 2} : FormatOfFlags[f] = format
Backends == {0, 1, 2}

U(n) == <<"u32", n>>
Row(v) == <<"row", v>>
Magic == <<"magic", 0>>
Sum(words) == <<"sum", words>>
IsU(w) == w[1] = "u32"

(* row_elems: one word an element, or 34 bytes a block of 32, in words.      *)
row_elems(format, n_embd) ==
    IF format = "q8_0" THEN ((((n_embd \div 32) * 34) + 3) \div 4) ELSE n_embd
layer_words(h) == h.n_ctx * h.row_elems

-----------------------------------------------------------------------------
(* --- writing -------------------------------------------------------------- *)
HeaderWords(h) ==
    <<Magic, U(h.version), U(flags_of(h.format)), U(h.backend), U(h.n_layer), U(h.n_ctx), U(h.n_embd), U(h.row_elems)>>

(* A region: row_elems words a cell, the row's content on each of them.      *)
Region(kv, h) == [i \in 1..layer_words(h) |-> Row(kv.data[(i - 1) \div h.row_elems])]
LayerWords(kv, h, layer) ==
    <<U(layer), U(layer_words(h)), U(layer_words(h))>> \o Region(kv, h) \o Region(kv, h)

InOrder(S) == SetToSortSeq(S, LAMBDA a, b : a < b)
SpanList(slot) == SetToSortSeq(Spans(slot), LAMBDA a, b : a.base < b.base)
Concat(f(_), seq) == FlattenSeq([i \in DOMAIN seq |-> f(seq[i])])

(* The defrag and copy-on-write counters travel along; nothing reads them back. *)
Counters == <<U(0), U(0), U(0), U(0)>>

write_state(kv, h) ==
    LET ids == InOrder(Live(kv))
        seqWords(s) == LET q == kv.seqs[s] IN
            <<U(s), U(q.start), U(q.cap), U(q.shared.cell), U(q.shared.rows), U(q.written)>>
        spanWords(s) == LET list == SpanList(kv.seqs[s]) IN
            <<U(s), U(Len(list))>> \o Concat(LAMBDA p : <<U(p.base), U(p.cell), U(p.len)>>, list)
        ownerWords(layer) ==
            <<U(layer), U(Cardinality({c \in Cells : kv.owner[c] # Free})), U(NCtx)>>
                \o [c \in 1..NCtx |-> <<"owner", kv.owner[c - 1]>>]
    IN  <<U(0), U(NCtx), U(Len(ids))>> \o Concat(seqWords, ids)
            \o <<U(Len(ids))>> \o Concat(spanWords, ids)
            \o <<U(h.n_layer)>> \o Concat(ownerWords, [i \in 1..h.n_layer |-> i - 1])
            \o Counters

(* kv_save_with_host: create, every layer, the state, the host, the sum.     *)
kv_save(kv, h, host) ==
    LET words == HeaderWords(h) \o Concat(LAMBDA l : LayerWords(kv, h, l), [i \in 1..h.n_layer |-> i - 1])
                     \o write_state(kv, h) \o <<U(Len(host))>> \o [i \in DOMAIN host |-> <<"host", host[i]>>]
    IN  Append(words, Sum(words))

-----------------------------------------------------------------------------
(* --- reading -------------------------------------------------------------- *)
(* A read takes words from at on; no Num is -1, which ends every check.      *)
Num(f, at) == IF at \in DOMAIN f /\ IsU(f[at]) THEN f[at][2] ELSE -1

(* open: the header's fields, refused one by one.                            *)
Header(f) ==
    [version |-> Num(f, 2), format |-> IF Num(f, 3) \in {0, 1, 2} THEN FormatOfFlags[Num(f, 3)] ELSE "unknown",
     backend |-> Num(f, 4), n_layer |-> Num(f, 5), n_ctx |-> Num(f, 6), n_embd |-> Num(f, 7), row_elems |-> Num(f, 8)]
open(f) ==
    LET h == Header(f) IN
    /\ Len(f) >= 8 /\ f[1] = Magic /\ h.version = VERSION /\ h.format # "unknown" /\ h.backend \in Backends
    /\ h.n_layer > 0 /\ h.n_ctx > 0 /\ h.n_embd > 0 /\ h.row_elems > 0
    /\ h.row_elems = row_elems(h.format, h.n_embd)

(* next_layer: layer i starts at LayerAt and declares the header's lengths.  *)
LayerAt(h, i) == 9 + i * (3 + 2 * layer_words(h))
next_layer(f, h, i) ==
    /\ Num(f, LayerAt(h, i)) >= 0
    /\ Num(f, LayerAt(h, i) + 1) = layer_words(h) /\ Num(f, LayerAt(h, i) + 2) = layer_words(h)
    /\ LayerAt(h, i + 1) - 1 <= Len(f)

(* read_state: where its parts begin and end, and whether they are all there *)
(* with the header's sizes.                                                  *)
read_state(f, h) ==
    LET at == LayerAt(h, h.n_layer)
        n == Num(f, at + 2)
        spansAt == at + 3 + 6 * n
        ends == FoldLeft(LAMBDA e, i : e + 2 + 3 * Max({0, Num(f, e + 1)}), spansAt + 1, [i \in 1..Max({0, n}) |-> i])
        layers == Num(f, ends)
        ownersAt(i) == ends + 1 + (i * (3 + h.n_ctx))
        end == ownersAt(Max({0, layers})) + Len(Counters)
    IN  [ok |-> /\ Num(f, at) >= 0 /\ Num(f, at + 1) = h.n_ctx /\ n >= 0 /\ Num(f, spansAt) = n
                /\ layers >= 0 /\ \A i \in 0..(layers - 1) : Num(f, ownersAt(i) + 2) = h.n_ctx
                /\ end - 1 <= Len(f),
         n |-> n, at |-> at, spansAt |-> spansAt, layersAt |-> ends, end |-> end]

(* Mutant of verify: the checksum is not compared.                           *)
verifyUnsummed(f) ==
    LET h == Header(f)
        st == read_state(f, h)
    IN  /\ open(f) /\ (\A i \in 0..(h.n_layer - 1) : next_layer(f, h, i)) /\ st.ok
        /\ Num(f, st.end) >= 0 /\ Len(f) >= st.end + Num(f, st.end)
(* verify: the whole file is walked before anything is applied, and nothing  *)
(* follows the checksum.                                                     *)
verify(f) ==
    LET h == Header(f)
        st == read_state(f, h)
        hostLen == Num(f, st.end)
    IN  /\ open(f) /\ (\A i \in 0..(h.n_layer - 1) : next_layer(f, h, i)) /\ st.ok
        /\ hostLen >= 0 /\ Len(f) = st.end + hostLen + 1
        /\ f[Len(f)] = Sum(Front(f))

(* The run table and the owners the words of a verified file describe.       *)
StateOf(f) ==
    LET h == Header(f)
        st == read_state(f, h)
        q(i) == st.at + 3 + 6 * (i - 1)
        ids == {Num(f, q(i)) : i \in 1..st.n}
        index(s) == CHOOSE i \in 1..st.n : Num(f, q(i)) = s
    IN  [seqs |-> [s \in ids |->
             [start |-> Num(f, q(index(s)) + 1), cap |-> Num(f, q(index(s)) + 2),
              shared |-> [cell |-> Num(f, q(index(s)) + 3), rows |-> Num(f, q(index(s)) + 4)],
              written |-> Num(f, q(index(s)) + 5)]],
         owner |-> [c \in 0..(h.n_ctx - 1) |-> f[st.layersAt + 4 + c][2]],
         data |-> [c \in 0..(h.n_ctx - 1) |-> f[LayerAt(h, 0) + 3 + c * h.row_elems][2]],
         layers |-> Num(f, st.layersAt)]
HostOf(f) ==
    LET end == read_state(f, Header(f)).end
    IN  [i \in 1..Num(f, end) |-> f[end + i][2]]

(* restore_session's refusals.                                               *)
restore_session(st) ==
    \A s \in DOMAIN st.seqs : LET q == st.seqs[s] IN
        /\ q.start + q.cap <= NCtx /\ q.written <= q.shared.rows + q.cap
        /\ \A p \in Spans(q) : p.base + p.len <= q.shared.rows + q.cap /\ p.cell + p.len <= NCtx

(* kv_load_with_host: refused unless it verifies and describes this run.     *)
Loadable(f, expect) ==
    /\ verify(f)
    /\ LET h == Header(f) IN
       /\ h.backend = expect.backend /\ h.n_ctx = expect.n_ctx /\ h.n_embd = expect.n_embd /\ h.format = expect.format
       /\ StateOf(f).layers = h.n_layer
    /\ restore_session(StateOf(f))
kv_load(f) == [k \in {"seqs", "owner", "data"} |-> StateOf(f)[k]]
=============================================================================
