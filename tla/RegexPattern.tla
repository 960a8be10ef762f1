---------------------------- MODULE RegexPattern ----------------------------
(* The `pattern` and `format` keywords (grammar.rs): a regex, given as its  *)
(* characters, is compiled to the GBNF of the JSON strings whose decoded    *)
(* content it matches.  A JSON string may spell a character literally, with *)
(* a short escape or as \uXXXX, and the compiled class accepts each way.    *)
(* A result is [ok, i, e]: the text e and the position after it.            *)
EXTENDS Gbnf

Quote == 34
Dollar == 36
LPar == 40
RPar == 41
Star == 42
Plus == 43
Comma == 44
Minus == 45
Slash == 47
Colon == 58
Quest == 63
LBracket == 91
Backslash == 92
RBracket == 93
Caret == 94
LBrace == 123
Bar == 124
RBrace == 125
LowerU == 117
MaxRepeat == 1024

Lit(cps) == Item(Str(cps))
ClassOf(ranges) == Item(Class(FALSE, ranges))
Digit == Class(FALSE, <<<<48, 57>>>>)
HexDigit == Class(FALSE, <<<<48, 57>>, <<65, 70>>, <<97, 102>>>>)
NoText == [ok |-> FALSE, i |-> 0, e |-> Empty]
Refusal(i) == [ok |-> FALSE, i |-> i, e |-> Empty]
At(p, i) == IF i <= Len(p) THEN p[i] ELSE -1

-----------------------------------------------------------------------------
(* One decoded character of a set, in each of its JSON spellings. *)
plain_char_set(set) ==
    set_subtract(set, <<<<0, 31>>, <<Quote, Quote>>, <<Backslash, Backslash>>, <<SurLo, SurHi>>>>)

(* A class of hex digits, in either case, for nibble values. *)
hex_class(values) ==
    ClassOf(FlattenSeq(Listed({IF v < 10 THEN <<<<48 + v, 48 + v>>>>
                                 ELSE <<<<87 + v, 87 + v>>, <<55 + v, 55 + v>>>> : v \in values})))

Within(ranges, base, span) ==
    LET cut == [i \in DOMAIN ranges |-> <<Max({ranges[i][1], base}) - base,
                                          Min({ranges[i][2], base + span - 1}) - base>>]
    IN  SelectSeq(cut, LAMBDA r : r[1] <= r[2])

(* Exactly `nibbles` hex digits whose value is in the ranges: nibbles with  *)
(* the same subtree share a class, a full subtree is a repetition.          *)
RECURSIVE hex_expr(_, _)
hex_expr(ranges, nibbles) ==
    LET span == 16 ^ (nibbles - 1)
        sub == [hi \in 0..15 |-> Within(ranges, hi * span, span)]
        used == {hi \in 0..15 : sub[hi] # <<>>}
        Tree(s) == IF s = <<<<0, span - 1>>>> THEN Item(Rep(HexDigit, nibbles - 1, nibbles - 1))
                   ELSE hex_expr(s, nibbles - 1)
        trees == Listed({sub[hi] : hi \in used})
    IN  IF nibbles = 1 THEN hex_class({v \in 0..15 : set_contains(ranges, v)})
        ELSE Paren(JoinAlt([t \in DOMAIN trees |->
                     Cat(hex_class({hi \in used : sub[hi] = trees[t]}), Tree(trees[t]))]))

UEscape == Lit(<<Backslash, LowerU>>)

(* \uD8xx\uDCxx for every codepoint of the ranges, all above U+FFFF; high   *)
(* surrogates with the same low set are merged.                             *)
surrogate_pair_expr(ranges) ==
    LET low == [hi \in 0..1023 |-> Within(ranges, 65536 + hi * 1024, 1024)]
        used == {hi \in 0..1023 : low[hi] # <<>>}
        sets == Listed({low[hi] : hi \in used})
        Shift(rs, d) == [i \in DOMAIN rs |-> <<rs[i][1] + d, rs[i][2] + d>>]
        Runs(S) == Listed({<<a, Min({b \in S : b >= a /\ b + 1 \notin S})>> : a \in {x \in S : x - 1 \notin S}})
        Highs(s) == Shift(Ascending(Runs({h \in used : low[h] = s})), SurLo)
    IN  Paren(JoinAlt([k \in DOMAIN sets |->
            CatAll(<<UEscape, hex_expr(Highs(sets[k]), 4), UEscape, hex_expr(Shift(sets[k], 56320), 4)>>)]))

ShortEscapes == <<<<Quote, Quote>>, <<Backslash, Backslash>>, <<Slash, Slash>>, <<8, 98>>,
                  <<12, 102>>, <<10, 110>>, <<13, 114>>, <<9, 116>>>>

(* Mutant of char_set_rule: only the literal spelling is accepted. *)
char_set_ruleLiteral(ranges) ==
    LET plain == plain_char_set(merge_ranges(ranges))
    IN  IF plain = <<>> THEN NoText ELSE [ok |-> TRUE, i |-> 0, e |-> Paren(ClassOf(plain))]

char_set_rule(ranges) ==
    LET Escapes(short, bmp, high) ==
            [i \in DOMAIN short |-> Lit(<<Backslash, short[i][2]>>)]
            \o (IF bmp = <<>> THEN <<>> ELSE <<Cat(UEscape, hex_expr(bmp, 4))>>)
            \o (IF high = <<>> THEN <<>> ELSE <<surrogate_pair_expr(high)>>)
        Spelled(plain, escapes) ==
            Paren(JoinAlt((IF plain = <<>> THEN <<>> ELSE <<ClassOf(plain)>>)
                          \o (IF escapes = <<>> THEN <<>> ELSE <<Paren(JoinAlt(escapes))>>)))
        Rule(set) ==
            IF set = <<>> THEN NoText
            ELSE [ok |-> TRUE, i |-> 0,
                  e |-> Spelled(plain_char_set(set),
                                Escapes(SelectSeq(ShortEscapes, LAMBDA s : set_contains(set, s[1])),
                                        set_subtract(intersect(set, <<<<0, 65535>>>>), <<<<SurLo, SurHi>>>>),
                                        intersect(set, <<<<65536, MaxCp>>>>)))]
    IN  Rule(merge_ranges(ranges))

(* What stands for one character is read as its set, [ok, i, ranges], and   *)
(* written out by char_set_rule.                                            *)
OneOf(i, ranges) == [ok |-> TRUE, i |-> i, ranges |-> ranges]
NoSet(i) == [ok |-> FALSE, i |-> i, ranges |-> <<>>]
char_expr(i, cp) == OneOf(i, <<<<cp, cp>>>>)

-----------------------------------------------------------------------------
DigitSet == <<<<48, 57>>>>
WordSet == <<<<48, 57>>, <<65, 90>>, <<95, 95>>, <<97, 122>>>>
SpaceSet == <<<<9, 13>>, <<32, 32>>>>
(* d, w, s and their complements, by the letter after the backslash. *)
Shorthand(c) ==
    CASE c = 100 -> DigitSet [] c = 119 -> WordSet [] c = 115 -> SpaceSet
      [] c = 68 -> complement_ranges(DigitSet) [] c = 87 -> complement_ranges(WordSet)
      [] c = 83 -> complement_ranges(SpaceSet) [] OTHER -> <<>>

IsAlnum(c) == InRanges(c, <<<<48, 57>>, <<65, 90>>, <<97, 122>>>>)
HexVal(c) == CASE c \in 48..57 -> c - 48 [] c \in 65..70 -> c - 55 [] c \in 97..102 -> c - 87 [] OTHER -> -1

(* hex_char: n hex digits as a character; a lone surrogate is refused (-1). *)
hex_char(p, i, n) ==
    LET v == FoldLeft(LAMBDA a, k : IF a < 0 \/ HexVal(At(p, i + k - 1)) < 0 THEN -1
                                    ELSE a * 16 + HexVal(At(p, i + k - 1)),
                      0, [k \in 1..n |-> k])
    IN  IF v \in SurLo..SurHi THEN -1 ELSE v

(* The character an escape letter names: n, r, t, f, v or itself. *)
ControlEscape(c) ==
    CASE c = 110 -> 10 [] c = 114 -> 13 [] c = 116 -> 9 [] c = 102 -> 12 [] c = 118 -> 11 [] OTHER -> -1

(* A character written with a backslash, at i after it: <<codepoint, next>>; *)
(* -1 for the escapes that are refused.                                      *)
EscapedChar(p, i) ==
    LET c == At(p, i)
        n == IF c = 120 THEN 2 ELSE 4
    IN  IF ControlEscape(c) # -1 THEN <<ControlEscape(c), i + 1>>
        ELSE IF c \in {120, LowerU} THEN <<hex_char(p, i + 1, n), i + 1 + n>>
        ELSE IF c # -1 /\ ~IsAlnum(c) THEN <<c, i + 1>>
        ELSE <<-1, i>>

(* escape: outside a class, \0 is the null character as well. *)
escape(p, i) ==
    LET c == At(p, i)
        Char(ch) == IF ch[1] = -1 THEN NoSet(i) ELSE char_expr(ch[2], ch[1])
        Among(set) == IF set # <<>> THEN OneOf(i + 1, set)
                      ELSE Char(IF c = 48 /\ At(p, i + 1) \notin 48..57 THEN <<0, i + 1>> ELSE EscapedChar(p, i))
    IN  Among(Shorthand(c))

class_char(p, i) ==
    IF At(p, i) = Backslash THEN EscapedChar(p, i + 1) ELSE <<At(p, i), i + 1>>

(* `-` starts a range unless it is the class's last character. *)
RangeFollows(p, i) == At(p, i) = Minus /\ At(p, i + 1) \notin {RBracket, -1}

(* The members of a class from i on: [ok, i, ranges]. *)
RECURSIVE ClassMembers(_, _, _)
ClassMembers(p, i, ranges) ==
    LET To(lo, hi) == IF hi[1] < lo[1] THEN NoSet(i)
                      ELSE ClassMembers(p, hi[2], Append(ranges, <<lo[1], hi[1]>>))
        From(lo) == IF lo[1] = -1 THEN NoSet(i)
                    ELSE To(lo, IF RangeFollows(p, lo[2]) THEN class_char(p, lo[2] + 1) ELSE lo)
        Member(short) ==
            IF short = <<>> THEN From(class_char(p, i))
            ELSE IF RangeFollows(p, i + 2) THEN NoSet(i) ELSE ClassMembers(p, i + 2, ranges \o short)
    IN  IF At(p, i) = -1 THEN NoSet(i)
        ELSE IF At(p, i) = RBracket THEN OneOf(i + 1, ranges)
        ELSE Member(IF At(p, i) = Backslash THEN Shorthand(At(p, i + 1)) ELSE <<>>)

class(p, i) ==
    LET neg == At(p, i) = Caret
        Set(written) == IF neg THEN complement_ranges(written) ELSE written
        After(m) == IF ~m.ok \/ (m.ranges = <<>> /\ ~neg) THEN NoSet(i)
                    ELSE OneOf(m.i, Set(merge_ranges(m.ranges)))
    IN  After(ClassMembers(p, IF neg THEN i + 1 ELSE i, <<>>))

(* Every character but the line terminators. *)
DotSet == complement_ranges(<<<<10, 10>>, <<13, 13>>, <<8232, 8233>>>>)

-----------------------------------------------------------------------------
(* A run of decimal digits: <<value, next>>, value -1 when there is none.   *)
RECURSIVE Number(_, _, _)
Number(p, i, v) ==
    IF At(p, i) \notin 48..57 THEN <<v, i>>
    ELSE Number(p, i + 1, (IF v = -1 THEN 0 ELSE v) * 10 + (At(p, i) - 48))

(* quantifier: [m, n, i] with m = -1 for none and -2 for a refusal; a lazy  *)
(* `?` is dropped, a possessive `+` refused.                                *)
quantifier(p, i) ==
    LET c == At(p, i)
        Upto(lo, hi) == IF At(p, hi[2]) = RBrace THEN [m |-> lo[1], n |-> hi[1], i |-> hi[2] + 1]
                        ELSE [m |-> -2, n |-> 0, i |-> i]
        Braces(lo) == IF lo[1] # -1 /\ At(p, lo[2]) \in {RBrace, Comma}
                      THEN Upto(lo, IF At(p, lo[2]) = RBrace THEN lo ELSE Number(p, lo[2] + 1, -1))
                      ELSE [m |-> -2, n |-> 0, i |-> i]
        Marked(q) == IF q.m < 0 THEN q
                     ELSE IF At(p, q.i) = Plus THEN [q EXCEPT !.m = -2]
                     ELSE IF At(p, q.i) = Quest THEN [q EXCEPT !.i = @ + 1]
                     ELSE q
    IN  Marked(CASE c = Star -> [m |-> 0, n |-> Unbounded, i |-> i + 1]
                 [] c = Plus -> [m |-> 1, n |-> Unbounded, i |-> i + 1]
                 [] c = Quest -> [m |-> 0, n |-> 1, i |-> i + 1]
                 [] c = LBrace -> Braces(Number(p, i + 1, -1))
                 [] OTHER -> [m |-> -1, n |-> 0, i |-> i])

(* The GBNF parser's own limits on the repetition that is written out. *)
RepAllowed(q) == q.n = Unbounded \/ (q.n >= q.m /\ q.n <= MaxRepeat)

RECURSIVE RxAlternation(_, _, _), RxSequence(_, _, _), RxAtom(_, _)
RxAtom(p, i) ==
    LET c == At(p, i)
        Grouped(body) == IF body.ok /\ At(p, body.i) = RPar
                         THEN [ok |-> TRUE, i |-> body.i + 1, e |-> Paren(body.e)] ELSE Refusal(i)
        Rule(set) == IF set.ok THEN [char_set_rule(set.ranges) EXCEPT !.i = set.i] ELSE Refusal(i)
    IN  IF c = LPar
        THEN IF At(p, i + 1) = Quest /\ At(p, i + 2) # Colon THEN Refusal(i)
             ELSE Grouped(RxAlternation(p, IF At(p, i + 1) = Quest THEN i + 3 ELSE i + 1, <<>>))
        ELSE Rule(CASE c = LBracket -> class(p, i + 1)
                    [] c = 46 -> OneOf(i + 1, DotSet)
                    [] c \in {Caret, Dollar, Star, Plus, Quest, RPar} -> NoSet(i)
                    [] c = Backslash -> escape(p, i + 1)
                    [] OTHER -> char_expr(i + 1, c))

RxSequence(p, i, parts) ==
    LET Quantified(a, q) ==
            IF ~a.ok \/ q.m = -2 \/ ~RepAllowed(q) THEN Refusal(i)
            ELSE IF q.m = -1 THEN RxSequence(p, a.i, Append(parts, a.e))
            ELSE RxSequence(p, q.i, Append(parts, Item(Rep(Group(a.e), q.m, q.n))))
        After(a) == Quantified(a, quantifier(p, a.i))
    IN  IF At(p, i) \in {-1, Bar, RPar}
        THEN [ok |-> TRUE, i |-> i, e |-> IF parts = <<>> THEN Lit(<<>>) ELSE CatAll(parts)]
        ELSE After(RxAtom(p, i))

RxAlternation(p, i, branches) ==
    LET After(s, all) ==
            IF ~s.ok THEN s
            ELSE IF At(p, s.i) = Bar THEN RxAlternation(p, s.i + 1, all)
            ELSE [s EXCEPT !.e = IF Len(all) = 1 THEN all[1] ELSE Paren(JoinAlt(all))]
        Branch(s) == After(s, Append(branches, s.e))
    IN  Branch(RxSequence(p, i, <<>>))

(* Is there a `|` outside every group, class and escape? *)
RECURSIVE TopBar(_, _, _, _)
TopBar(p, i, depth, in_class) ==
    LET c == At(p, i)
    IN  IF c = -1 THEN FALSE
        ELSE IF c = Backslash THEN TopBar(p, i + 2, depth, in_class)
        ELSE IF in_class THEN TopBar(p, i + 1, depth, c # RBracket)
        ELSE IF c = LBracket THEN TopBar(p, i + 1, depth, TRUE)
        ELSE IF c = LPar THEN TopBar(p, i + 1, depth + 1, FALSE)
        ELSE IF c = RPar THEN TopBar(p, i + 1, IF depth > 0 THEN depth - 1 ELSE 0, FALSE)
        ELSE \/ c = Bar /\ depth = 0
             \/ TopBar(p, i + 1, depth, FALSE)
has_top_level_alternation(p) == TopBar(p, 1, 0, FALSE)

(* The backslashes right before position at are odd in number. *)
is_escaped(p, at) ==
    LET run == {k \in 0..(at - 1) : \A j \in (at - k)..(at - 1) : p[j] = Backslash}
    IN  Max(run) % 2 = 1

Quoted(e) == CatAll(<<Lit(<<Quote>>), e, Lit(<<Quote>>)>>)
AnyChars == Item(Rep(RuleRef("j-char"), 0, Unbounded))

(* Mutant of pattern_rule: a pattern is taken as the whole string whether   *)
(* or not it is anchored.                                                   *)
pattern_ruleAnchored(p) ==
    LET start == IF At(p, 1) = Caret THEN 2 ELSE 1
        Whole(body) == IF body.ok THEN [body EXCEPT !.e = Quoted(body.e)] ELSE NoText
    IN  Whole(RxAlternation(SubSeq(p, start, IF p # <<>> /\ Last(p) = Dollar THEN Len(p) - 1 ELSE Len(p)), 1, <<>>))

(* pattern_rule: a pattern matches a substring unless `^` or `$` anchors it; *)
(* with a top-level `|` the anchors stay in the text and are refused there.  *)
pattern_rule(p) ==
    LET Anchored(inner, from, to, body) ==
            IF ~(body.ok /\ body.i = Len(inner) + 1) THEN NoText
            ELSE IF from /\ to THEN [body EXCEPT !.e = Quoted(body.e)]
            ELSE IF ~from /\ ~to /\ body.e = Lit(<<>>) THEN [body EXCEPT !.e = Item(RuleRef("j-string"))]
            ELSE [body EXCEPT !.e = Quoted(CatAll(<<IF from THEN Empty ELSE AnyChars, Paren(body.e),
                                                    IF to THEN Empty ELSE AnyChars>>))]
        Whole(inner, from, to) == Anchored(inner, from, to, RxAlternation(inner, 1, <<>>))
        Inside(start, to) == Whole(SubSeq(p, start, IF to THEN Len(p) - 1 ELSE Len(p)), start = 2, to)
        After(start, bar) == Inside(start, ~bar /\ Len(p) >= start /\ Last(p) = Dollar /\ ~is_escaped(p, Len(p)))
        Top(bar) == After(IF ~bar /\ At(p, 1) = Caret THEN 2 ELSE 1, bar)
    IN  Top(has_top_level_alternation(p))

-----------------------------------------------------------------------------
(* format_rule: date, time, date-time and uuid. *)
Of(lo, hi) == Class(FALSE, <<<<lo, hi>>>>)
Dash == Lit(<<Minus>>)
TwoDigits(zero, rest) == Paren(JoinAlt(<<Cat(Lit(<<48>>), Item(Of(zero, 57)))>> \o rest))
Month == TwoDigits(49, <<Cat(Lit(<<49>>), Item(Of(48, 50)))>>)
Day == TwoDigits(49, <<Cat(Item(Of(49, 50)), Item(Digit)), Cat(Lit(<<51>>), Item(Of(48, 49)))>>)
Hour == Paren(JoinAlt(<<Cat(Item(Of(48, 49)), Item(Digit)), Cat(Lit(<<50>>), Item(Of(48, 51)))>>))
Sixty == Cat(Item(Of(48, 53)), Item(Digit))
ColonText == Lit(<<Colon>>)
GBNF_DATE == CatAll(<<Item(Rep(Digit, 4, 4)), Dash, Month, Dash, Day>>)
GBNF_TIME ==
    CatAll(<<Hour, ColonText, Sixty, ColonText, Sixty,
             Item(Rep(Group(Cat(Lit(<<46>>), Item(Rep(Digit, 3, 3)))), 0, 1)),
             Paren(JoinAlt(<<Lit(<<90>>),
                   CatAll(<<Paren(JoinAlt(<<Lit(<<Plus>>), Dash>>)), Hour, ColonText, Sixty>>)>>))>>)
Hexes(n) == Item(Rep(HexDigit, n, n))
GBNF_UUID == CatAll(<<Hexes(8), Dash, Hexes(4), Dash, Hexes(4), Dash, Hexes(4), Dash, Hexes(12)>>)

format_rule(name) ==
    LET Rule(body) == IF body = <<>> THEN NoText ELSE [ok |-> TRUE, i |-> 0, e |-> Quoted(body)]
    IN  Rule(CASE name = "date" -> GBNF_DATE
               [] name = "time" -> GBNF_TIME
               [] name = "date-time" -> CatAll(<<GBNF_DATE, Lit(<<84>>), GBNF_TIME>>)
               [] name \in {"uuid", "uuid1", "uuid2", "uuid3", "uuid4", "uuid5"} -> GBNF_UUID
               [] OTHER -> <<>>)
=============================================================================
