---------------------------- MODULE PreTokenizer ----------------------------
(* Text before BPE (tokenizer.rs, tokenizer/nfc.rs): canonical composition  *)
(* and the split of a text into pre-tokenization pieces.  Text is a         *)
(* sequence of codepoints; the Unicode tables are cut to the characters the *)
(* runs use.                                                                *)
EXTENDS Codepoints, TLC

(* --- character classes ------------------------------------------------- *)
is_letter(c) ==
    \/ c \in 65..90 \/ c \in 97..122 \/ c \in {197, 233, 7865, 8491} \/ c \in 44032..55203
is_number(c) == c \in 48..57
is_accent_mark(c) == c \in {769, 778, 803}
IsSpace(c) == c \in {9, 10, 13, 32}
IsLineEnd(c) == c \in {10, 13}
Lower(c) == IF c \in 65..90 THEN c + 32 ELSE c

-----------------------------------------------------------------------------
(* --- canonical composition ---------------------------------------------- *)
SBase == 44032
LBase == 4352
VBase == 4449
TBase == 4519
LCount == 19
VCount == 21
TCount == 28
NCount == VCount * TCount
SCount == LCount * NCount

(* Decompositions of the table: A-ring, Angstrom, e-acute, e-dot-below.     *)
decomposition_of(c) ==
    CASE c = 197 -> <<65, 778>> [] c = 8491 -> <<197>> [] c = 233 -> <<101, 769>>
      [] c = 7865 -> <<101, 803>> [] OTHER -> <<>>
combining_class(c) == CASE c = 769 -> 230 [] c = 778 -> 230 [] c = 803 -> 220 [] OTHER -> 0
is_hangul_syllable(c) == c \in SBase..(SBase + SCount - 1)
is_hangul_jamo(c) ==
    \/ c \in LBase..(LBase + LCount - 1) \/ c \in VBase..(VBase + VCount - 1)
    \/ c \in (TBase + 1)..(TBase + TCount - 1)

RECURSIVE push_decomposed(_)
push_decomposed(c) ==
    LET s == c - SBase
        parts == decomposition_of(c)
    IN  IF is_hangul_syllable(c)
        THEN <<LBase + (s \div NCount), VBase + ((s % NCount) \div TCount)>>
             \o (IF s % TCount = 0 THEN <<>> ELSE <<TBase + (s % TCount)>>)
        ELSE IF parts = <<>> THEN <<c>>
        ELSE FlattenSeq([i \in DOMAIN parts |-> push_decomposed(parts[i])])
decompose(text) == FlattenSeq([i \in DOMAIN text |-> push_decomposed(text[i])])

(* Runs of marks are sorted by class, equal classes in their order: a       *)
(* character moves before the marks of a higher class right before it.      *)
canonical_order(cps) ==
    FoldLeft(LAMBDA out, c :
               LET k == combining_class(c)
                   passed == {n \in 0..Len(out) : \A i \in (Len(out) - n + 1)..Len(out) :
                                                     combining_class(out[i]) > k}
                   at == Len(out) - (IF k = 0 THEN 0 ELSE Max(passed))
               IN  SubSeq(out, 1, at) \o <<c>> \o SubSeq(out, at + 1, Len(out)),
             <<>>, cps)

compose_pair(a, b) ==
    CASE a \in LBase..(LBase + LCount - 1) /\ b \in VBase..(VBase + VCount - 1) ->
           SBase + ((a - LBase) * VCount + (b - VBase)) * TCount
      [] is_hangul_syllable(a) /\ (a - SBase) % TCount = 0 /\ b \in (TBase + 1)..(TBase + TCount - 1) ->
           a + (b - TBase)
      [] <<a, b>> = <<65, 778>> -> 197
      [] <<a, b>> = <<101, 769>> -> 233
      [] <<a, b>> = <<101, 803>> -> 7865
      [] OTHER -> -1
is_composition_second(c) == c \in {769, 778, 803}

(* Mutant of compose: a mark reaches the last starter whatever is between.  *)
composeUnblocked(cps) ==
    FoldLeft(LAMBDA s, c :
               LET made == IF s.starter = 0 THEN -1 ELSE compose_pair(s.out[s.starter], c)
               IN  IF made # -1 THEN [s EXCEPT !.out[s.starter] = made]
                   ELSE [out |-> Append(s.out, c), last |-> combining_class(c),
                         starter |-> IF combining_class(c) = 0 THEN Len(s.out) + 1 ELSE s.starter],
             [out |-> <<>>, starter |-> 0, last |-> 0], cps).out

(* A character joins the last starter unless one between them has a class   *)
(* at least as high; only a character that is kept sets the last class.     *)
compose(cps) ==
    FoldLeft(LAMBDA s, c :
               LET class == combining_class(c)
                   blocked == Len(s.out) > s.starter /\ s.last >= class
                   made == IF s.starter = 0 \/ blocked THEN -1 ELSE compose_pair(s.out[s.starter], c)
               IN  IF made # -1 THEN [s EXCEPT !.out[s.starter] = made]
                   ELSE [out |-> Append(s.out, c), last |-> class,
                         starter |-> IF class = 0 THEN Len(s.out) + 1 ELSE s.starter],
             [out |-> <<>>, starter |-> 0, last |-> 0], cps).out

needs_normalization(text) ==
    \E i \in DOMAIN text : \/ is_hangul_jamo(text[i]) \/ decomposition_of(text[i]) # <<>>
                           \/ combining_class(text[i]) # 0 \/ is_composition_second(text[i])
nfd(text) == canonical_order(decompose(text))
nfc(text) == IF needs_normalization(text) THEN compose(nfd(text)) ELSE text

-----------------------------------------------------------------------------
(* --- the split ---------------------------------------------------------- *)
Rules == {"Qwen2", "Qwen35", "LlamaBpe", "Lfm2", "SmaugDbrx", "JinaV1En", "Whitespace", "Gemma4"}
(* The rule tokenizer.ggml.pre names; any other value, or none, is refused. *)
from_gguf(pre) ==
    CASE pre \in {"qwen2", "deepseek-r1-qwen"} -> "Qwen2" [] pre = "qwen35" -> "Qwen35"
      [] pre \in {"llama-bpe", "llama3", "llama-v3", "falcon3", "falcon-h1", "pixtral", "midm-2.0",
                  "jina-v5-nano"} -> "LlamaBpe"
      [] pre \in {"smaug-bpe", "dbrx"} -> "SmaugDbrx" [] pre = "lfm2" -> "Lfm2"
      [] pre = "whitespace" -> "Whitespace" [] pre = "gemma4" -> "Gemma4"
      [] pre \in {"jina-v1-en", "mpt", "olmo", "jais", "trillion", "granite-docling"} -> "JinaV1En"
      [] OTHER -> "refused"
ignores_merges(rule) == rule \in {"LlamaBpe", "Lfm2"}
include_marks(rule) == rule = "Qwen35"
number_run(rule) == IF rule \in {"LlamaBpe", "Lfm2", "SmaugDbrx"} THEN 3 ELSE 1
applies_nfc(rule) == rule \in {"Qwen2", "Qwen35"}

Word(rule, c) == is_letter(c) \/ (include_marks(rule) /\ is_accent_mark(c))
Symbol(rule, c) == ~IsSpace(c) /\ ~Word(rule, c) /\ ~is_number(c)

(* The end of the run of characters satisfying P from position i on. *)
RunEnd(text, i, P(_)) == Min({j \in i..(Len(text) + 1) : j > Len(text) \/ ~P(text[j])})
AtEnd(text, i) == i > Len(text)
CharAt(text, i) == IF i <= Len(text) THEN text[i] ELSE -1

(* The length of a contraction ('s, 'll, ...) at i, 0 for none. *)
Contraction(text, i) ==
    LET one == Lower(CharAt(text, i + 1))
        two == <<one, Lower(CharAt(text, i + 2))>>
    IN  IF CharAt(text, i) # 39 THEN 0
        ELSE IF one \in {115, 116, 109, 100} THEN 2
        ELSE IF two \in {<<114, 101>>, <<118, 101>>, <<108, 108>>} THEN 3 ELSE 0

(* Mutant of Whitespaces: the last space is not left for the next piece. *)
WhitespacesGreedy(text, i, lines) == RunEnd(text, i, IsSpace)

(* Where a run of whitespace at i ends: after its last line end, or before  *)
(* its last character when text follows a run of two or more.               *)
Whitespaces(text, i, lines) ==
    LET j == RunEnd(text, i, IsSpace)
        breaks == {k \in i..(j - 1) : IsLineEnd(text[k])}
    IN  IF lines /\ breaks # {} THEN Max(breaks) + 1
        ELSE IF j - i > 1 /\ ~AtEnd(text, j) THEN j - 1 ELSE j

(* The end of the piece that starts at i, by the Qwen and Llama 3 scan.     *)
PieceEnd(rule, text, i) ==
    LET c == text[i]
        W(x) == Word(rule, x)
        Sym(x) == Symbol(rule, x)
        contraction == Contraction(text, i)
        from == IF c = 32 THEN i + 1 ELSE i
    IN  IF contraction > 0 THEN i + contraction
        ELSE IF ~IsLineEnd(c) /\ ~is_number(c) /\ (W(c) \/ W(CharAt(text, i + 1)))
        THEN RunEnd(text, i + 1, W)
        ELSE IF is_number(c) THEN Min({RunEnd(text, i, is_number), i + number_run(rule)})
        ELSE IF ~AtEnd(text, from) /\ Sym(text[from])
        THEN RunEnd(text, RunEnd(text, from, Sym), IsLineEnd)
        ELSE IF IsSpace(c) THEN Whitespaces(text, i, TRUE)
        ELSE i + 1

(* The same for the plain GPT-2 rule: one leading space, no line-end arm.   *)
JinaEnd(text, i) ==
    LET c == text[i]
        Sym(x) == Symbol("JinaV1En", x)
        contraction == Contraction(text, i)
        from == IF c = 32 /\ ~AtEnd(text, i + 1) THEN i + 1 ELSE i
        head == text[from]
    IN  IF contraction > 0 THEN i + contraction
        ELSE IF c = 39 THEN RunEnd(text, i + 1, Sym)
        ELSE IF is_letter(head) THEN RunEnd(text, from, is_letter)
        ELSE IF is_number(head) THEN RunEnd(text, from, is_number)
        ELSE IF Sym(head) THEN RunEnd(text, from, Sym)
        ELSE IF IsSpace(c) THEN Whitespaces(text, i, FALSE)
        ELSE i + 1

RECURSIVE SplitFrom(_, _, _)
SplitFrom(rule, text, i) ==
    LET Until(end) == (IF rule = "Whitespace" /\ IsSpace(text[i]) THEN <<>> ELSE <<SubSeq(text, i, end - 1)>>)
                      \o SplitFrom(rule, text, end)
    IN  IF AtEnd(text, i) THEN <<>>
        ELSE Until(CASE rule = "JinaV1En" -> JinaEnd(text, i)
                     [] rule = "Gemma4" -> RunEnd(text, i, LAMBDA x : (x = 10) = (text[i] = 10))
                     [] rule = "Whitespace" -> RunEnd(text, i, LAMBDA x : IsSpace(x) = IsSpace(text[i]))
                     [] OTHER -> PieceEnd(rule, text, i))
split(rule, text) == SplitFrom(rule, text, 1)

-----------------------------------------------------------------------------
(* Reference: the documented patterns, matched with ordered alternatives,   *)
(* greedy repetition and backtracking.  An item takes min..max characters   *)
(* of a class; "eow" is the lookahead (?!\S).                               *)
Take(P, min, max) == [class |-> P, min |-> min, max |-> max]
InClass(rule, k, c) ==
    CASE k = "word" -> Word(rule, c) [] k = "num" -> is_number(c) [] k = "sym" -> Symbol(rule, c)
      [] k = "sp" -> c = 32 [] k = "ws" -> IsSpace(c) [] k = "nl" -> IsLineEnd(c)
      [] k = "pre" -> ~IsLineEnd(c) /\ ~is_letter(c) /\ ~is_number(c)
Many == 99
Digits(rule) == IF number_run(rule) = 3 THEN <<Take("num", 1, 3)>> ELSE <<Take("num", 1, 1)>>
Pattern(rule) ==
    IF rule = "JinaV1En"
    THEN << <<Take("sp", 0, 1), Take("word", 1, Many)>>, <<Take("sp", 0, 1), Take("num", 1, Many)>>,
            <<Take("sp", 0, 1), Take("sym", 1, Many)>>, <<Take("ws", 1, Many), Take("eow", 0, 0)>>,
            <<Take("ws", 1, Many)>> >>
    ELSE << <<Take("pre", 0, 1), Take("word", 1, Many)>>, Digits(rule),
            <<Take("sp", 0, 1), Take("sym", 1, Many), Take("nl", 0, Many)>>,
            <<Take("ws", 0, Many), Take("nl", 1, Many)>>,
            <<Take("ws", 1, Many), Take("eow", 0, 0)>>, <<Take("ws", 1, Many)>> >>

RECURSIVE Match(_, _, _, _)
(* The end of the first match of the items at i, -1 for none.               *)
Match(rule, items, text, i) ==
    IF items = <<>> THEN i
    ELSE IF items[1].class = "eow"
    THEN IF AtEnd(text, i) \/ IsSpace(text[i]) THEN Match(rule, Tail(items), text, i) ELSE -1
    ELSE LET able == {n \in items[1].min..items[1].max :
                        /\ i + n <= Len(text) + 1
                        /\ \A j \in i..(i + n - 1) : InClass(rule, items[1].class, text[j])}
             good == {n \in able : Match(rule, Tail(items), text, i + n) # -1}
         IN  IF good = {} THEN -1 ELSE Match(rule, Tail(items), text, i + Max(good))

RefEnd(rule, text, i) ==
    LET p == Pattern(rule)
        fits == {k \in DOMAIN p : Match(rule, p[k], text, i) # -1}
    IN  IF Contraction(text, i) > 0 THEN i + Contraction(text, i)
        ELSE IF fits = {} THEN i + 1 ELSE Match(rule, p[Min(fits)], text, i)

RECURSIVE RefSplit(_, _, _)
RefSplit(rule, text, i) ==
    IF AtEnd(text, i) THEN <<>>
    ELSE <<SubSeq(text, i, RefEnd(rule, text, i) - 1)>> \o RefSplit(rule, text, RefEnd(rule, text, i))

(* Each piece is what the documented pattern of the rule matches there, so  *)
(* the pieces tile the text (PreTokenizer::split).                          *)
SplitMatchesPattern(rule, text) == split(rule, text) = RefSplit(rule, text, 1)

(* Canonically equivalent texts have one composed form, and it is stable:   *)
(* nfc of a text, of its decomposition and of its own result are the same.  *)
OneComposedForm(text) == nfc(text) = nfc(nfd(text)) /\ nfc(nfc(text)) = nfc(text) /\ nfd(nfc(text)) = nfd(text)
=============================================================================
