----------------------------- MODULE Tokenizer ------------------------------
(* The tokenizer engines (tokenizer.rs): loading a vocabulary with its       *)
(* refusals, the encoders, decoding, and DRY breaker resolution.             *)
(*                                                                           *)
(* Text is a sequence of codepoints.  A vocabulary file is a record whose    *)
(* tokens, types and scores are indexed by token id (from 1; NoId is an      *)
(* absent role).  The spelling <0xXX> of a byte token is one symbol, the     *)
(* codepoint -1 - b.  A trie is the function from its entries to their ids,  *)
(* and the packed charsmap the function from a prefix to its replacement.    *)
EXTENDS PreTokenizer

NoId == 0
Panic == -1            \* the id a panicking lookup would have produced
SPM_SPACE == 9601      \* U+2581
DNA_KMER_MARKER == 57344
Special == {2, 3, 4}   \* the types UNKNOWN, CONTROL and USER_DEFINED
UserDefined == 4
ByteType == 6

Bytes(text) == FlattenSeq([i \in DOMAIN text |-> Utf8(text[i])])
PrefixAt(text, i, s) == i + Len(s) - 1 <= Len(text) /\ SubSeq(text, i, i + Len(s) - 1) = s
Escaped(text) == [i \in DOMAIN text |-> IF text[i] = 32 THEN SPM_SPACE ELSE text[i]]
Each(F(_), s) == [i \in DOMAIN s |-> F(s[i])]
OneByOne(text) == [i \in DOMAIN text |-> <<text[i]>>]

(* GPT-2's printable stand-in for each byte. *)
Printable(b) == b \in 33..126 \/ b \in 161..172 \/ b \in 174..255
byte_to_unicode ==
    [b \in 0..255 |-> IF Printable(b) THEN b ELSE 256 + Cardinality({x \in 0..(b - 1) : ~Printable(x)})]
unicode_to_byte == [c \in Range(byte_to_unicode) |-> CHOOSE b \in 0..255 : byte_to_unicode[b] = c]
byte_encode(text) == Each(LAMBDA b : byte_to_unicode[b], Bytes(text))

parse_spm_byte_token(text) == IF Len(text) = 1 /\ text[1] < 0 THEN -1 - text[1] ELSE -1

HexValue(b) == IF b >= 97 THEN b - 87 ELSE b - 48
unescape_rwkv_token(text) ==
    FoldLeft(LAMBDA s, b :
               CASE s.hex > 0 -> [s EXCEPT !.hex = @ - 1, !.acc = (@ * 16 + HexValue(b)) % 256,
                                           !.out = IF s.hex = 1 THEN Append(@, (s.acc * 16 + HexValue(b)) % 256)
                                                   ELSE @]
                 [] s.escaping -> [s EXCEPT !.escaping = FALSE, !.acc = 0,
                                            !.hex = IF b = 120 THEN 2 ELSE 0,
                                            !.out = CASE b = 116 -> Append(@, 9) [] b = 110 -> Append(@, 10)
                                                      [] b = 114 -> Append(@, 13) [] b = 120 -> @
                                                      [] OTHER -> Append(@, b)]
                 [] b = 92 -> [s EXCEPT !.escaping = TRUE]
                 [] OTHER -> [s EXCEPT !.out = Append(@, b)],
             [out |-> <<>>, escaping |-> FALSE, hex |-> 0, acc |-> 0], Bytes(text)).out

-----------------------------------------------------------------------------
(* --- VocabTrie ----------------------------------------------------------- *)
(* A later entry with the same text replaces an earlier one. *)
TrieOf(text) == [t \in Range(text) |-> Max({i \in DOMAIN text : text[i] = t})]
Longest(trie) == IF DOMAIN trie = {} THEN 0 ELSE Max({Len(t) : t \in DOMAIN trie})
(* The ends of the entries that start at position i of s. *)
matches(trie, s, i) ==
    {e \in i..Min({Len(s), i + Longest(trie) - 1}) : SubSeq(s, i, e) \in DOMAIN trie}
longest_prefix(trie, s, i) == IF matches(trie, s, i) = {} THEN 0 ELSE Max(matches(trie, s, i))

-----------------------------------------------------------------------------
(* --- Tokenizer::load ------------------------------------------------------ *)
BpeModels == {"gpt2", "whitespace", "hybriddna"}
Models == BpeModels \cup {"none", "llama", "bert", "t5", "rwkv", "plamo2", "gemma4"}

Ids(f) == DOMAIN f.tokens
ByteIds(f) == {i \in Ids(f) : f.types[i] = ByteType /\ parse_spm_byte_token(f.tokens[i]) >= 0}
spm_byte_to_id(f) == TrieOf([i \in ByteIds(f) |-> parse_spm_byte_token(f.tokens[i])])
AllBytes(f) == DOMAIN spm_byte_to_id(f) = 0..255
Unscored(f) == \A i \in Ids(f) : f.scores[i] = 0
OutOfRange(f) == f.unknown = NoId \/ f.unknown \notin Ids(f)

(* The bytes without a token that refuse a byte-level vocabulary: those that *)
(* occur in the spelling of some token and start none.                       *)
ByteLevelHoles(f) ==
    LET spelled == {Bytes(f.tokens[i]) : i \in {j \in Ids(f) : f.tokens[j] # <<>>}}
        missing == {b \in 0..255 : \A i \in Ids(f) : f.tokens[i] # <<byte_to_unicode[b]>>}
    IN  {b \in missing : (\E s \in spelled : \E k \in DOMAIN s : s[k] = b) /\ (\A s \in spelled : s[1] # b)}

RwkvTrie(f) == TrieOf([i \in Ids(f) |-> unescape_rwkv_token(f.tokens[i])])
RwkvStarts(f) == {t[1] : t \in DOMAIN RwkvTrie(f) \ {<<>>}}

Refused(f) ==
    CASE f.model \notin Models -> TRUE
      [] f.model = "none" -> FALSE
      [] f.model \in BpeModels -> from_gguf(f.pre) \notin Rules \/ f.merges = <<>> \/ ByteLevelHoles(f) # {}
      [] f.model = "llama" -> Unscored(f) \/ ~AllBytes(f)
      [] f.model = "rwkv" -> IF f.unknown = NoId THEN RwkvStarts(f) # 0..255 ELSE f.unknown \notin Ids(f)
      [] f.model = "plamo2" -> Ids(f) = {} \/ ~AllBytes(f)
      [] f.model = "gemma4" -> f.merges = <<>> \/ ~AllBytes(f)
      [] f.model = "t5" -> Unscored(f) \/ OutOfRange(f)
      [] f.model = "bert" -> OutOfRange(f)

(* A boolean key: "yes", "no" or absent. *)
Flag(value, default) == IF value = "absent" THEN default ELSE value = "yes"

(* The three tags of hybriddna must all be there for its block rule to run. *)
OpenTag == <<60, 100, 110, 97, 62>>
CloseTag == <<60, 47, 100, 110, 97, 62>>
OovTag == <<60, 111, 111, 118, 62>>
IsKmer(text) == text # <<>> /\ Last(text) = DNA_KMER_MARKER
Bare(text) == IF IsKmer(text) THEN Front(text) ELSE text

load(f) ==
    LET vocab == TrieOf(f.tokens)
        declared == {i \in Ids(f) : f.types[i] \in Special \/ (i \in f.roles /\ f.tokens[i] # <<>>)}
        tagged == {OpenTag, CloseTag, OovTag} \subseteq DOMAIN vocab
        normal == {i \in Ids(f) : f.types[i] = 1}
        rule == IF f.model = "gemma4" THEN "Gemma4"
                ELSE IF f.model \in BpeModels THEN from_gguf(f.pre) ELSE "refused"
        tried == CASE f.model = "plamo2" -> {i \in Ids(f) : f.types[i] # ByteType}
                   [] f.model = "t5" -> {i \in Ids(f) : f.types[i] \in {1, UserDefined, 5}}
                   [] OTHER -> {}
    IN  [model |-> f.model,
         token |-> IF f.model = "hybriddna" /\ tagged THEN [i \in Ids(f) |-> Bare(f.tokens[i])]
                   ELSE IF f.model = "none" THEN [i \in 1..f.vocab_size |-> <<>>] ELSE f.tokens,
         types |-> f.types, scores |-> f.scores, vocab |-> vocab, unk |-> f.unknown,
         merges |-> [p \in Range(f.merges) |-> Max({i \in DOMAIN f.merges : f.merges[i] = p})],
         special |-> TrieOf([i \in declared |-> f.tokens[i]]),
         pre |-> rule, ignore_merges |-> f.model \in BpeModels /\ ignores_merges(rule),
         bytes |-> spm_byte_to_id(f),
         trie |-> IF f.model = "rwkv" THEN RwkvTrie(f) ELSE TrieOf([i \in tried |-> f.tokens[i]]),
         user_defined |-> TrieOf([i \in {j \in Ids(f) : f.types[j] = UserDefined} |-> f.tokens[i]]),
         unknown_score |-> (IF normal = {} THEN 0 ELSE Min({f.scores[i] : i \in normal})) - 10,
         charsmap |-> f.charsmap,
         dna |-> f.model = "hybriddna" /\ tagged,
         kmers |-> TrieOf([i \in {j \in Ids(f) : IsKmer(f.tokens[j])} |-> Bytes(Bare(f.tokens[i]))]),
         add_space_prefix |-> Flag(f.space_prefix, f.model = "llama"),
         remove_extra_whitespaces |-> Flag(f.squeeze, FALSE),
         lowercase |-> Flag(f.lowercase, TRUE), strip_accents |-> Flag(f.strip, Flag(f.lowercase, TRUE))]

-----------------------------------------------------------------------------
(* --- byte-level and raw BPE ------------------------------------------------ *)
RECURSIVE MergeLoop(_, _)
(* Merge the pair of lowest rank, the leftmost of equals, until none is left. *)
MergeLoop(T, word) ==
    LET able == {i \in 1..(Len(word) - 1) : <<word[i], word[i + 1]>> \in DOMAIN T.merges}
        rank(i) == T.merges[<<word[i], word[i + 1]>>]
        idx == CHOOSE i \in able : \A j \in able : rank(i) < rank(j) \/ (rank(i) = rank(j) /\ i <= j)
    IN  IF able = {} THEN word
        ELSE MergeLoop(T, SubSeq(word, 1, idx - 1) \o <<word[idx] \o word[idx + 1]>>
                          \o SubSeq(word, idx + 2, Len(word)))

Lookup(vocab, key) == IF key \in DOMAIN vocab THEN vocab[key] ELSE Panic
byte_fallback(T, piece) == [i \in DOMAIN piece |-> Lookup(T.vocab, <<piece[i]>>)]
ByteTokens(T, text) == Each(LAMBDA b : Lookup(T.bytes, b), Bytes(text))

bpe_encode(T, piece) ==
    LET Id(w) == IF w \in DOMAIN T.vocab THEN <<T.vocab[w]>> ELSE byte_fallback(T, w)
    IN  FlattenSeq(Each(Id, MergeLoop(T, OneByOne(piece))))

encode_bpe(T, text) ==
    LET Mapped(piece) == IF T.ignore_merges /\ piece \in DOMAIN T.vocab THEN <<T.vocab[piece]>>
                         ELSE bpe_encode(T, piece)
        One(piece) == Mapped(byte_encode(piece))
    IN  FlattenSeq(Each(One, split(T.pre, text)))

bpe_encode_raw(T, piece) ==
    LET Id(w) == IF w \in DOMAIN T.vocab THEN <<T.vocab[w]>> ELSE ByteTokens(T, w)
    IN  FlattenSeq(Each(Id, MergeLoop(T, OneByOne(piece))))

gemma4_encode(T, text) ==
    LET One(p) == IF Range(p) = {10} /\ p \in DOMAIN T.vocab THEN <<T.vocab[p]>> ELSE bpe_encode_raw(T, p)
    IN  FlattenSeq(Each(One, split(T.pre, Escaped(text))))

(* --- SentencePiece ----------------------------------------------------------- *)
(* The merge queue holds the pairs seen so far; a pair one side of which has  *)
(* died or grown is stale and skipped when it is popped.                      *)
Pair(T, syms, l, r) ==
    LET joined == syms[l].text \o syms[r].text
    IN  IF joined \in DOMAIN T.vocab
        THEN {[score |-> T.scores[T.vocab[joined]], left |-> l, right |-> r, size |-> Len(Bytes(joined))]}
        ELSE {}
SizeOf(syms, i) == Len(Bytes(syms[i].text))

(* Mutant of Stale: only a dead side makes a pair stale, not a grown one. *)
StaleDeadOnly(syms, b) == syms[b.left].text = <<>> \/ syms[b.right].text = <<>>

Stale(syms, b) ==
    \/ syms[b.left].text = <<>> \/ syms[b.right].text = <<>>
    \/ SizeOf(syms, b.left) + SizeOf(syms, b.right) # b.size

RECURSIVE SpmMerge(_, _, _)
SpmMerge(T, syms, queue) ==
    LET top == CHOOSE b \in queue : \A c \in queue :
                   b.score > c.score \/ (b.score = c.score /\ b.left <= c.left)
        l == top.left
        next == syms[top.right].next
        merged == [i \in DOMAIN syms |->
                     CASE i = l -> [syms[l] EXCEPT !.text = @ \o syms[top.right].text, !.next = next]
                       [] i = top.right -> [syms[i] EXCEPT !.text = <<>>]
                       [] i = next -> [syms[i] EXCEPT !.prev = l]
                       [] OTHER -> syms[i]]
        fresh == (IF merged[l].prev = NoId THEN {} ELSE Pair(T, merged, merged[l].prev, l))
                 \cup (IF next = NoId THEN {} ELSE Pair(T, merged, l, next))
    IN  IF queue = {} THEN syms
        ELSE IF Stale(syms, top) THEN SpmMerge(T, syms, queue \ {top})
        ELSE SpmMerge(T, merged, (queue \ {top}) \cup fresh)

(* The pieces of a merge that left the vocabulary are not looked up again    *)
(* (rev_merge): a merge is only made into a token of the vocabulary.         *)
resegment(T, text) == IF text \in DOMAIN T.vocab THEN <<T.vocab[text]>> ELSE ByteTokens(T, text)

spm_encode(T, text) ==
    LET n == Len(text)
        syms == [i \in 1..n |-> [text |-> <<text[i]>>, prev |-> i - 1, next |-> IF i = n THEN NoId ELSE i + 1]]
        Segment(s) == IF s.text = <<>> THEN <<>> ELSE resegment(T, s.text)
    IN  FlattenSeq(Each(Segment, SpmMerge(T, syms, UNION {Pair(T, syms, i - 1, i) : i \in 2..n})))

(* --- RWKV, PLaMo-2 ------------------------------------------------------------ *)
RECURSIVE RwkvFrom(_, _, _)
RwkvFrom(T, bytes, i) ==
    LET e == longest_prefix(T.trie, bytes, i)
    IN  IF i > Len(bytes) THEN <<>>
        ELSE IF e = 0 THEN <<T.unk>> \o RwkvFrom(T, bytes, i + 1)
        ELSE <<T.trie[SubSeq(bytes, i, e)]>> \o RwkvFrom(T, bytes, e + 1)
rwkv_encode(T, text) == RwkvFrom(T, Bytes(text), 1)

INVALID_SCORE == -20000000
UNKNOWN_SCORE == -10000000
BOM == 65279

(* The cheapest way on from i: the candidates, longest first, then the byte  *)
(* fallback of one codepoint; a tie keeps the earlier one.                   *)
PlamoStep(T, cps, i, table) ==
    LET entry(e) == T.trie[SubSeq(cps, i, e)]
        valid == {e \in matches(T.trie, cps, i) : T.scores[entry(e)] > INVALID_SCORE}
        cost(e) == table[e + 1].cost - T.scores[entry(e)]
        best == CHOOSE e \in valid : \A o \in valid : cost(e) < cost(o) \/ (cost(e) = cost(o) /\ e >= o)
        fallback == table[i + 1].cost - UNKNOWN_SCORE
    IN  IF valid = {} \/ fallback < cost(best) THEN [cost |-> fallback, end |-> i, id |-> NoId]
        ELSE [cost |-> cost(best), end |-> best, id |-> entry(best)]

plamo2_encode(T, text) ==
    LET Path(cps, n, table) ==
            LET walk[i \in 1..(n + 1)] ==
                    IF i > n THEN <<>>
                    ELSE (IF table[i].id = NoId THEN ByteTokens(T, <<cps[i]>>) ELSE <<table[i].id>>)
                         \o walk[table[i].end + 1]
            IN  walk[1]
        Cheapest(cps, n) ==
            Path(cps, n, FoldLeft(LAMBDA t, k : (n - k + 1 :> PlamoStep(T, cps, n - k + 1, t)) @@ t,
                                  n + 1 :> [cost |-> 0, end |-> 0, id |-> NoId], [k \in 1..n |-> k]))
        Of(cps) == Cheapest(cps, Len(cps))
    IN  Of(IF text # <<>> /\ text[1] = BOM THEN Tail(text) ELSE text)

(* --- unigram ------------------------------------------------------------------- *)
(* What a position normalizes to and how far it reaches: a user-defined token *)
(* whole, else the longest charsmap prefix, else the codepoint itself.        *)
ugm_normalize_prefix(T, text, i) ==
    LET user == longest_prefix(T.user_defined, text, i)
        mapped == longest_prefix(T.charsmap, text, i)
    IN  IF user > 0 THEN [out |-> SubSeq(text, i, user), next |-> user + 1]
        ELSE IF mapped > 0 THEN [out |-> T.charsmap[SubSeq(text, i, mapped)], next |-> mapped + 1]
        ELSE [out |-> <<text[i]>>, next |-> i + 1]

RECURSIVE UgmReplaced(_, _, _)
UgmReplaced(T, text, i) ==
    IF i > Len(text) THEN <<>>
    ELSE ugm_normalize_prefix(T, text, i).out \o UgmReplaced(T, text, ugm_normalize_prefix(T, text, i).next)

ugm_normalize(T, text) ==
    FoldLeft(LAMBDA s, c :
               LET starts == c # 32 /\ ~s.word
                   mark == starts /\ ((T.add_space_prefix /\ ~s.prepended) \/ T.remove_extra_whitespaces)
               IN  [out |-> s.out \o (IF mark THEN <<SPM_SPACE>> ELSE <<>>)
                                  \o (IF c # 32 THEN <<c>>
                                      ELSE IF T.remove_extra_whitespaces THEN <<>> ELSE <<SPM_SPACE>>),
                    prepended |-> s.prepended \/ mark, word |-> c # 32],
             [out |-> <<>>, prepended |-> FALSE, word |-> FALSE], UgmReplaced(T, text, 1)).out

UgmScore(T, id) == IF T.types[id] = UserDefined THEN 0 ELSE T.scores[id]
Better(best, e, from, id, score) ==
    IF e \in DOMAIN best /\ best[e].score >= score THEN best
    ELSE (e :> [score |-> score, from |-> from, id |-> id]) @@ best

(* The Viterbi step at codepoint i: every entry that starts there, and the   *)
(* unknown token when none covers exactly that codepoint.                    *)
UgmStep(T, cps, best, i) ==
    LET ends == matches(T.trie, cps, i)
        found == FoldSet(LAMBDA e, b : Better(b, e, i - 1, T.trie[SubSeq(cps, i, e)],
                                              best[i - 1].score + UgmScore(T, T.trie[SubSeq(cps, i, e)])),
                         best, ends)
    IN  IF i \in ends THEN found ELSE Better(found, i, i - 1, T.unk, best[i - 1].score + T.unknown_score)

ugm_encode(T, text) ==
    LET Path(n, best) ==
            LET walk[i \in 0..n] == IF i = 0 THEN <<>> ELSE Append(walk[best[i].from], best[i].id)
            IN  FoldLeft(LAMBDA out, id : IF out # <<>> /\ id = T.unk /\ Last(out) = T.unk THEN out
                                          ELSE Append(out, id),
                         <<>>, walk[n])
        Of(cps) == Path(Len(cps), FoldLeft(LAMBDA b, i : UgmStep(T, cps, b, i),
                                           0 :> [score |-> 0, from |-> 0, id |-> T.unk], [i \in 1..Len(cps) |-> i]))
    IN  Of(ugm_normalize(T, text))

(* --- WordPiece ------------------------------------------------------------------ *)
IsPunctuation(c) == c \in {33, 39, 44, 46, 58, 59, 63}
is_chinese_char(c) == c \in 19968..40959 \/ c \in 13312..19903

(* The words of a text: marks and control characters dropped, punctuation,   *)
(* ASCII symbols and Chinese characters words of their own.                  *)
wpm_preprocess(T, text) ==
    LET chars == IF T.strip_accents THEN nfd(text) ELSE text
        open(words) == IF Last(words) = <<>> THEN words ELSE Append(words, <<>>)
        words == FoldLeft(LAMBDA w, c :
                   LET piece == IF T.lowercase THEN Lower(c) ELSE c
                   IN  CASE IsSpace(c) -> open(w)
                         [] c \in {0, 65533} \/ (T.strip_accents /\ is_accent_mark(c)) -> w
                         [] IsPunctuation(c) \/ (c < 127 /\ ~is_letter(c) /\ ~is_number(c) /\ c # 95)
                              \/ is_chinese_char(c) -> Front(open(w)) \o <<<<piece>>, <<>>>>
                         [] OTHER -> Front(w) \o <<Append(Last(w), piece)>>,
                 <<<<>>>>, chars)
    IN  IF Last(words) = <<>> THEN Front(words) ELSE words

(* Greedy longest match of one word; any gap makes the whole word unknown.   *)
RECURSIVE WpmWord(_, _, _)
WpmWord(T, word, i) ==
    LET e == longest_prefix(T.vocab, word, i)
    IN  IF i > Len(word) THEN <<>>
        ELSE IF e = 0 THEN <<NoId>> ELSE <<T.vocab[SubSeq(word, i, e)]>> \o WpmWord(T, word, e + 1)
wpm_encode(T, text) ==
    LET Known(ids) == IF Last(ids) = NoId THEN <<T.unk>> ELSE ids
        One(w) == Known(WpmWord(T, <<SPM_SPACE>> \o w, 1))
    IN  FlattenSeq(Each(One, wpm_preprocess(T, text)))

(* --- HybridDNA ------------------------------------------------------------------- *)
K == 6
Upper(b) == IF b \in 97..122 THEN b - 32 ELSE b
RECURSIVE Kmers(_, _)
Kmers(T, seq) ==
    LET Id(kmer) == IF kmer \in DOMAIN T.kmers THEN T.kmers[kmer] ELSE T.vocab[OovTag]
    IN  IF seq = <<>> THEN <<>>
        ELSE <<Id([i \in 1..K |-> IF i <= Len(seq) THEN seq[i] ELSE 65])>>
             \o Kmers(T, SubSeq(seq, K + 1, Len(seq)))
hybriddna_kmers(T, text) == Kmers(T, Each(Upper, Bytes(text)))

Find(text, s, from) ==
    LET at == {i \in from..(Len(text) - Len(s) + 1) : PrefixAt(text, i, s)}
    IN  IF at = {} THEN NoId ELSE Min(at)

RECURSIVE DnaFrom(_, _, _)
DnaFrom(T, text, pos) ==
    LET Block(content, close) ==
            <<T.vocab[OpenTag]>>
            \o hybriddna_kmers(T, SubSeq(text, content, IF close = NoId THEN Len(text) ELSE close - 1))
            \o (IF close = NoId THEN <<>>
                ELSE <<T.vocab[CloseTag]>> \o DnaFrom(T, text, close + Len(CloseTag)))
        Opened(content) == Block(content, Find(text, CloseTag, content))
        Plain(start) == encode_bpe(T, SubSeq(text, pos, IF start = NoId THEN Len(text) ELSE start - 1))
                        \o (IF start = NoId THEN <<>> ELSE Opened(start + Len(OpenTag)))
    IN  IF pos > Len(text) THEN <<>> ELSE Plain(IF T.dna THEN Find(text, OpenTag, pos) ELSE NoId)
(* Without its tags the vocabulary is a plain byte-level one. *)
hybriddna_encode(T, text) == DnaFrom(T, text, 1)

-----------------------------------------------------------------------------
(* --- encode and decode ------------------------------------------------------------- *)
(* encode_checked and decode_checked: a file without a vocabulary refuses.   *)
Tokenizes(T) == T.model # "none"
encode_text(T, text, prev_special) ==
    CASE text = <<>> \/ ~Tokenizes(T) -> <<>>
      [] T.model \in {"gpt2", "whitespace"} -> encode_bpe(T, text)
      [] T.model = "hybriddna" -> hybriddna_encode(T, text)
      [] T.model = "bert" -> wpm_encode(T, text)
      [] T.model = "t5" -> ugm_encode(T, text)
      [] T.model = "gemma4" -> gemma4_encode(T, text)
      [] T.model = "rwkv" -> rwkv_encode(T, text)
      [] T.model = "plamo2" -> plamo2_encode(T, text)
      [] T.model = "llama" ->
           spm_encode(T, (IF T.add_space_prefix /\ prev_special THEN <<SPM_SPACE>> ELSE <<>>) \o Escaped(text))

normalized(T, text) == IF T.pre # "refused" /\ applies_nfc(T.pre) THEN nfc(text) ELSE text

(* The first special token of a text: earliest, and of those the longest.    *)
SpecialAt(T, text) ==
    {s \in [at : DOMAIN text, text : DOMAIN T.special] : PrefixAt(text, s.at, s.text)}
FirstSpecial(T, text) ==
    CHOOSE s \in SpecialAt(T, text) : \A o \in SpecialAt(T, text) :
        s.at < o.at \/ (s.at = o.at /\ Len(s.text) >= Len(o.text))

(* Mutant of EncodeFrom: of two special tokens at one place the shorter wins. *)
EncodeFromShortest(T, text) ==
    LET s == CHOOSE x \in SpecialAt(T, text) : \A o \in SpecialAt(T, text) :
                 x.at < o.at \/ (x.at = o.at /\ Len(x.text) <= Len(o.text))
    IN  IF SpecialAt(T, text) = {} THEN encode_text(T, text, TRUE)
        ELSE encode_text(T, SubSeq(text, 1, s.at - 1), TRUE) \o <<T.special[s.text]>>
             \o encode_text(T, SubSeq(text, s.at + Len(s.text), Len(text)), TRUE)

RECURSIVE EncodeFrom(_, _)
EncodeFrom(T, text) ==
    LET s == FirstSpecial(T, text)
        found == SpecialAt(T, text) # {}
    IN  encode_text(T, IF found THEN SubSeq(text, 1, s.at - 1) ELSE text, TRUE)
        \o (IF found THEN <<T.special[s.text]>> \o EncodeFrom(T, SubSeq(text, s.at + Len(s.text), Len(text)))
            ELSE <<>>)
encode(T, text) == EncodeFrom(T, normalized(T, text))
encode_raw(T, text) == encode_text(T, normalized(T, text), TRUE)

Spaced(text) == FlattenSeq([i \in DOMAIN text |-> IF text[i] = SPM_SPACE THEN <<32>> ELSE Utf8(text[i])])

TokenBytes(T, id) ==
    LET text == T.token[id]
    IN  CASE T.model = "bert" -> IF T.types[id] \in Special THEN Bytes(text) ELSE Spaced(text)
          [] T.model = "rwkv" -> unescape_rwkv_token(text)
          [] T.model \in {"llama", "t5", "gemma4", "plamo2"} ->
               IF T.types[id] = ByteType /\ parse_spm_byte_token(text) >= 0
               THEN <<parse_spm_byte_token(text)>> ELSE Spaced(text)
          [] OTHER -> FlattenSeq([i \in DOMAIN text |->
                          IF text[i] \in DOMAIN unicode_to_byte THEN <<unicode_to_byte[text[i]]>>
                          ELSE Utf8(text[i])])
decode_bytes(T, ids) ==
    FlattenSeq([i \in DOMAIN ids |-> IF ids[i] \in DOMAIN T.token THEN TokenBytes(T, ids[i]) ELSE <<>>])

(* The part of a byte sequence that ends on a character boundary.            *)
RECURSIVE complete_utf8_prefix_len(_)
complete_utf8_prefix_len(bytes) ==
    LET b == bytes[1]
        len == CASE b < 128 -> 1 [] b \in 192..223 -> 2 [] b \in 224..239 -> 3 [] b \in 240..247 -> 4 [] OTHER -> 1
    IN  IF bytes = <<>> \/ len > Len(bytes) THEN 0
        ELSE len + complete_utf8_prefix_len(SubSeq(bytes, len + 1, Len(bytes)))

(* --- DRY breakers -------------------------------------------------------------------- *)
MAX_BREAKER_CHARS == 40
MAX_BREAKER_TAIL_TOKENS == 20
Holds(word, needle) == \E i \in 1..(Len(word) - Len(needle) + 1) : PrefixAt(word, i, needle)

(* Mutant of Overhangs: the match may stop on a mismatch inside the token.   *)
OverhangsAnywhere(word, needle) == {n \in 1..Len(needle) : \E p \in DOMAIN word : PrefixAt(word, p, SubSeq(needle, 1, n))}

(* How much of the breaker a token can end with, where it does not hold it.  *)
Overhangs(word, needle) ==
    {n \in 1..Min({Len(needle) - 1, Len(word)}) :
        SubSeq(word, Len(word) - n + 1, Len(word)) = SubSeq(needle, 1, n)}

(* The token sequences a breaker resolves to; a breaker that is empty, too   *)
(* long, unmatched, or cut inside a character is refused.                    *)
overlapping_token_sequences(T, breaker) ==
    LET chars(n) == {k \in 0..Len(breaker) : Len(Bytes(SubSeq(breaker, 1, k))) = n}
        Rest(n) == encode_raw(T, SubSeq(breaker, Max(chars(n)) + 1, Len(breaker)))
        Bounded(whole, tails) ==
            IF (whole = {} /\ tails = {}) \/ \E t \in tails : Len(t) > 1 + MAX_BREAKER_TAIL_TOKENS THEN {}
            ELSE {<<id>> : id \in whole} \cup tails
        Overlapping(whole, overlaps) ==
            IF \E c \in overlaps : chars(c[2]) = {} THEN {}
            ELSE Bounded(whole, {<<c[1]>> \o Rest(c[2]) : c \in overlaps})
        Among(words, needle, whole) ==
            Overlapping(whole, {c \in (DOMAIN words \ whole) \X (1..Len(needle)) : c[2] \in Overhangs(words[c[1]], needle)})
        Over(words, needle) == Among(words, needle, {id \in DOMAIN words : Holds(words[id], needle)})
    IN  IF breaker = <<>> \/ Len(breaker) > MAX_BREAKER_CHARS THEN {}
        ELSE Over([id \in DOMAIN T.token |-> decode_bytes(T, <<id>>)], Bytes(breaker))
resolve_sequence_breakers(T, breakers) ==
    LET All(each) == IF {} \in each THEN {} ELSE UNION each
    IN  All({overlapping_token_sequences(T, breakers[i]) : i \in DOMAIN breakers})

-----------------------------------------------------------------------------
(* --- references ---------------------------------------------------------------------- *)
(* What decoding a text's tokens should give back: the text as the engine    *)
(* normalizes it, with the space SentencePiece puts before each segment.     *)
RECURSIVE Rendered(_, _)
Rendered(T, text) ==
    LET s == FirstSpecial(T, text)
        plain(t) == IF t = <<>> THEN <<>> ELSE (IF T.model = "llama" /\ T.add_space_prefix THEN <<32>> ELSE <<>>) \o Bytes(t)
    IN  IF SpecialAt(T, text) = {} THEN plain(text)
        ELSE plain(SubSeq(text, 1, s.at - 1)) \o Bytes(s.text)
             \o Rendered(T, SubSeq(text, s.at + Len(s.text), Len(text)))

(* A DNA block comes back in capitals, padded with A to whole k-mers, an     *)
(* unknown k-mer as its tag.                                                 *)
RECURSIVE RenderedDna(_, _)
RenderedDna(T, text) ==
    LET Known(kmer) == IF kmer \in DOMAIN T.kmers THEN kmer ELSE OovTag
        Padded(block) == [j \in 1..((Len(block) + K - 1) \div K) |->
            Known([i \in 1..K |-> IF K * (j - 1) + i <= Len(block) THEN Upper(block[K * (j - 1) + i]) ELSE 65])]
        Block(rest, close) ==
            FlattenSeq(Padded(IF close = NoId THEN rest ELSE SubSeq(rest, 1, close - 1)))
            \o (IF close = NoId THEN <<>>
                ELSE CloseTag \o RenderedDna(T, SubSeq(rest, close + Len(CloseTag), Len(rest))))
        Opened(rest) == OpenTag \o Block(rest, Find(rest, CloseTag, 1))
        From(start) == IF start = NoId THEN text
                       ELSE SubSeq(text, 1, start - 1) \o Opened(SubSeq(text, start + Len(OpenTag), Len(text)))
    IN  From(Find(text, OpenTag, 1))

RECURSIVE RenderedWords(_, _)
(* Each word comes back after a space, or as the unknown token.              *)
RenderedWords(T, words) ==
    IF words = <<>> THEN {<<>>}
    ELSE {w \o rest : w \in {<<32>> \o Bytes(words[1]), decode_bytes(T, <<T.unk>>)},
                      rest \in RenderedWords(T, Tail(words))}

(* The lossless engines give back every text, special tokens included, the   *)
(* others what their normalization leaves of it; a stream of its bytes cut   *)
(* anywhere holds back only an unfinished character (encode, decode_bytes,            *)
(* complete_utf8_prefix_len).                                                *)
RoundTrip(T, text) ==
    LET Same(bytes) == CASE T.model = "bert" -> bytes \in RenderedWords(T, wpm_preprocess(T, text))
                         [] T.model = "hybriddna" -> bytes = RenderedDna(T, text)
                         [] OTHER -> bytes = Rendered(T, normalized(T, text))
        Streamed(bytes, ends) ==
            \A n \in 0..Len(bytes) : complete_utf8_prefix_len(SubSeq(bytes, 1, n)) = Max({e \in ends : e <= n})
        Anywhere(s) == Streamed(Bytes(s), {Len(Bytes(SubSeq(s, 1, k))) : k \in 0..Len(s)})
    IN  Same(decode_bytes(T, encode(T, text))) /\ Anywhere(normalized(T, text))

(* A text cut at the given positions, as pieces. *)
PiecesOf(text, cuts) ==
    LET bounds == SortSeq(Listed({0, Len(text)} \cup cuts), LAMBDA a, b : a < b)
    IN  [k \in 1..(Len(bounds) - 1) |-> SubSeq(text, bounds[k] + 1, bounds[k + 1])]
Segmentations(text) == {PiecesOf(text, cuts) : cuts \in SUBSET (1..(Len(text) - 1))}

(* The reading of one piece: its token and score, or none.                   *)
Reading(T, piece) ==
    LET known == piece \in DOMAIN T.trie
    IN  IF T.model = "t5"
        THEN IF known THEN {[ids |-> <<T.trie[piece]>>, score |-> UgmScore(T, T.trie[piece])]}
             ELSE IF Len(piece) = 1 THEN {[ids |-> <<T.unk>>, score |-> T.unknown_score]} ELSE {}
        ELSE (IF known /\ T.scores[T.trie[piece]] > INVALID_SCORE
              THEN {[ids |-> <<T.trie[piece]>>, score |-> T.scores[T.trie[piece]]]} ELSE {})
             \cup (IF Len(piece) = 1 THEN {[ids |-> ByteTokens(T, piece), score |-> UNKNOWN_SCORE]} ELSE {})

RECURSIVE Readings(_, _)
Readings(T, pieces) ==
    IF pieces = <<>> THEN {[ids |-> <<>>, score |-> 0]}
    ELSE {[ids |-> r.ids \o q.ids, score |-> r.score + q.score] :
             r \in Reading(T, pieces[1]), q \in Readings(T, Tail(pieces))}

Squeezed(T, ids) ==
    FoldLeft(LAMBDA out, id : IF out # <<>> /\ id = T.unk /\ Last(out) = T.unk THEN out ELSE Append(out, id),
             <<>>, ids)

RECURSIVE GreedyMerge(_, _)
(* SentencePiece without the queue: the best adjacent pair of the whole text, *)
(* the leftmost of equals, again and again.                                   *)
GreedyMerge(T, word) ==
    LET joined(i) == word[i] \o word[i + 1]
        able == {i \in 1..(Len(word) - 1) : joined(i) \in DOMAIN T.vocab}
        score(i) == T.scores[T.vocab[joined(i)]]
        at == CHOOSE i \in able : \A j \in able : score(i) > score(j) \/ (score(i) = score(j) /\ i <= j)
    IN  IF able = {} THEN word
        ELSE GreedyMerge(T, SubSeq(word, 1, at - 1) \o <<joined(at)>> \o SubSeq(word, at + 2, Len(word)))

(* The engines that score find the optimum they define: the Viterbi and the  *)
(* backward DP pick one of the best of all segmentations, and the queue of   *)
(* SentencePiece merges exactly as a search of the whole text would.         *)
BestSegmentation(T, text) ==
    IF T.model = "llama"
    THEN LET word == GreedyMerge(T, OneByOne(Escaped(text)))
         IN  spm_encode(T, Escaped(text)) = FlattenSeq([i \in DOMAIN word |-> resegment(T, word[i])])
    ELSE LET t == IF T.model = "t5" THEN ugm_normalize(T, text) ELSE text
             all == UNION {Readings(T, p) : p \in Segmentations(t)}
             best == Max({r.score : r \in all})
         IN  t = <<>> \/ encode_text(T, text, TRUE) \in {Squeezed(T, r.ids) : r \in {x \in all : x.score = best}}

(* A resolved breaker sequence spells the breaker from inside its head token *)
(* on, and every token that holds or ends with a start of the breaker heads  *)
(* one (resolve_sequence_breakers, overlapping_token_sequences).             *)
BreakersSpell(T, breaker) ==
    LET needle == Bytes(breaker)
        Begins(w) == \E n \in 1..Len(needle) : Len(w) >= n /\ SubSeq(w, Len(w) - n + 1, Len(w)) = SubSeq(needle, 1, n)
        Spell(seqs) ==
            seqs # {} =>
              /\ \A s \in seqs : Holds(decode_bytes(T, s), needle)
              /\ \A id \in DOMAIN T.token : Begins(decode_bytes(T, <<id>>)) => \E s \in seqs : s[1] = id
    IN  Spell(resolve_sequence_breakers(T, <<breaker>>))
=============================================================================
