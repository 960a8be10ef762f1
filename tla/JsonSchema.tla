----------------------------- MODULE JsonSchema -----------------------------
(* The JSON Schema compiler (grammar.rs): a schema becomes GBNF rules whose *)
(* sentences are the texts of the JSON values the schema admits.            *)
(*                                                                          *)
(* A schema is a record of the keywords it uses; [bool |-> b] is a boolean  *)
(* schema, `type` a sequence of names, `properties` a sequence of           *)
(* <<name, schema>>.  A JSON value is [t, v]; text is a sequence of         *)
(* codepoints.  A result is [ok, e, st]: a refusal, or the text e and the   *)
(* compiler's state st = [rules, def_rules].                                *)
EXTENDS RegexPattern

Has(s, k) == k \in DOMAIN s
Get(s, k, default) == IF Has(s, k) THEN s[k] ELSE default
Ref(name) == Item(RuleRef(name))
Ws == Ref("j-ws")
Sign == Item(Rep(Str(<<Minus>>), 0, 1))
Many1(node) == Item(Rep(node, 1, Unbounded))
Many(node) == Item(Rep(node, 0, Unbounded))
Opt(node) == Item(Rep(node, 0, 1))
Comma3 == CatAll(<<Ws, Lit(<<Comma>>), Ws>>)
(* `open j-ws body j-ws close`, and parts joined with ` j-ws "," j-ws `.    *)
Wrap(open, body, close_) == CatAll(<<Lit(open), Ws, body, Ws, Lit(close_)>>)
JoinComma(parts) ==
    FoldLeftDomain(LAMBDA t, i : CatAll(<<t, IF i = 1 THEN Empty ELSE Comma3, parts[i]>>), Empty, parts)
True == <<116, 114, 117, 101>>
False == <<102, 97, 108, 115, 101>>
Null == <<110, 117, 108, 108>>

Elements(rule) == Cat(Ref(rule), Many(Group(Cat(Comma3, Ref(rule)))))
GENERIC_RULES ==
    LET ws == Class(FALSE, <<<<9, 9>>, <<10, 10>>, <<13, 13>>, <<32, 32>>>>)
    IN  ("j-ws" :> Many(ws))
     @@ ("j-char" :> JoinAlt(<<Item(Class(TRUE, <<<<0, 31>>, <<Quote, Quote>>, <<Backslash, Backslash>>>>)),
                               Cat(Lit(<<Backslash>>), Ref("j-esc"))>>))
     @@ ("j-esc" :> JoinAlt(<<ClassOf([i \in DOMAIN ShortEscapes |-> <<ShortEscapes[i][2], ShortEscapes[i][2]>>]),
                              CatAll(<<Lit(<<LowerU>>), Item(HexDigit), Item(HexDigit),
                                       Item(HexDigit), Item(HexDigit)>>)>>))
     @@ ("j-string" :> Quoted(AnyChars))
     @@ ("j-int" :> JoinAlt(<<Lit(<<48>>), Cat(Item(Of(49, 57)), Many(Digit))>>))
     @@ ("j-frac" :> Cat(Lit(<<46>>), Many1(Digit)))
     @@ ("j-exp" :> CatAll(<<ClassOf(<<<<69, 69>>, <<101, 101>>>>),
                             Opt(Class(FALSE, <<<<Plus, Plus>>, <<Minus, Minus>>>>)), Many1(Digit)>>))
     @@ ("j-number" :> CatAll(<<Sign, Ref("j-int"), Opt(RuleRef("j-frac")), Opt(RuleRef("j-exp"))>>))
     @@ ("j-integer" :> Cat(Sign, Ref("j-int")))
     @@ ("j-value" :> JoinAlt(<<Ref("j-object"), Ref("j-array"), Ref("j-string"), Ref("j-number"),
                                Lit(True), Lit(False), Lit(Null)>>))
     @@ ("j-object" :> JoinAlt(<<CatAll(<<Lit(<<LBrace>>), Ws, Lit(<<RBrace>>)>>),
                                 Wrap(<<LBrace>>, Elements("j-pair"), <<RBrace>>)>>))
     @@ ("j-pair" :> CatAll(<<Ref("j-string"), Ws, Lit(<<Colon>>), Ws, Ref("j-value")>>))
     @@ ("j-array" :> JoinAlt(<<CatAll(<<Lit(<<LBracket>>), Ws, Lit(<<RBracket>>)>>),
                                Wrap(<<LBracket>>, Elements("j-value"), <<RBracket>>)>>))

-----------------------------------------------------------------------------
(* Integers as a sign and decimal digits, so that the 64-bit limits fit.    *)
RECURSIVE Dec(_)
Dec(n) == IF n < 10 THEN <<48 + n>> ELSE Append(Dec(n \div 10), 48 + (n % 10))
Bound(n) == [neg |-> n < 0, mag |-> Dec(IF n < 0 THEN -n ELSE n)]
I64Max == [neg |-> FALSE, mag |-> <<57,50,50,51,51,55,50,48,51,54,56,53,52,55,55,53,56,48,55>>]
I64Min == [neg |-> TRUE, mag |-> <<57,50,50,51,51,55,50,48,51,54,56,53,52,55,55,53,56,48,56>>]
DigitsLeq(a, b) ==
    \/ Len(a) < Len(b)
    \/ /\ Len(a) = Len(b)
       /\ \A i \in DOMAIN a : a[i] > b[i] => \E j \in 1..(i - 1) : a[j] < b[j]
Leq(a, b) == IF a.neg # b.neg THEN a.neg
             ELSE IF a.neg THEN DigitsLeq(b.mag, a.mag) ELSE DigitsLeq(a.mag, b.mag)

RepeatDigit(d, n) == [i \in 1..n |-> d]
DigitsRep(n) == Item(Rep(Digit, n, n))

(* Digits of one length between lo and hi: the middle of the first digit    *)
(* where they differ, then the two edges, whose suffixes are bounded.       *)
RECURSIVE fixed_len_range(_, _)
fixed_len_range(lo, hi) ==
    LET i == Min({j \in DOMAIN lo : lo[j] # hi[j]})
        prefix == SubSeq(lo, 1, i - 1)
        rest == Len(lo) - i
        Edge(d, from, to) ==
            Cat(Lit(Append(prefix, d)), IF rest = 0 THEN Empty ELSE Paren(fixed_len_range(from, to)))
        middle == CatAll(<<IF prefix = <<>> THEN Empty ELSE Lit(prefix), Item(Of(lo[i] + 1, hi[i] - 1)),
                           IF rest = 0 THEN Empty ELSE DigitsRep(rest)>>)
    IN  IF lo = hi THEN Lit(lo)
        ELSE JoinAlt((IF hi[i] > lo[i] + 1 THEN <<middle>> ELSE <<>>)
                     \o <<Edge(lo[i], SubSeq(lo, i + 1, Len(lo)), RepeatDigit(57, rest)),
                          Edge(hi[i], RepeatDigit(48, rest), SubSeq(hi, i + 1, Len(hi)))>>)

OfLength(n) == Cat(Item(Of(49, 57)), DigitsRep(n - 1))
FirstOfLength(n) == <<49>> \o RepeatDigit(48, n - 1)
Lengths(from, to) == [k \in 1..(IF to < from THEN 0 ELSE to - from + 1) |-> OfLength(from + k - 1)]

uint_up_to(n) ==
    IF Len(n) = 1 THEN Item(Of(48, n[1]))
    ELSE JoinAlt(<<Lit(<<48>>), Item(Of(49, 57))>> \o Lengths(2, Len(n) - 1)
                 \o <<fixed_len_range(FirstOfLength(Len(n)), n)>>)

uint_range(lo, hi) ==
    IF lo = <<48>> THEN uint_up_to(hi)
    ELSE IF Len(lo) = Len(hi) THEN fixed_len_range(lo, hi)
    ELSE JoinAlt(<<fixed_len_range(lo, RepeatDigit(57, Len(lo)))>> \o Lengths(Len(lo) + 1, Len(hi) - 1)
                 \o <<fixed_len_range(FirstOfLength(Len(hi)), hi)>>)

Negatives(from, to) == Cat(Lit(<<Minus>>), Paren(uint_range(from, to)))
int_range_expr(lo, hi) ==
    LET Signed(negatives, positives) ==
            IF ~lo.neg THEN positives
            ELSE IF hi.neg THEN negatives
            ELSE IF hi.mag = <<48>> THEN JoinAlt(<<negatives, Lit(<<48>>)>>)
            ELSE Paren(JoinAlt(<<negatives, positives>>))
    IN  Signed(Negatives(IF hi.neg THEN hi.mag ELSE <<49>>, lo.mag),
               uint_range(IF lo.neg THEN <<48>> ELSE lo.mag, hi.mag))

-----------------------------------------------------------------------------
No(st) == [ok |-> FALSE, e |-> Empty, st |-> st]
Yes(e, st) == [ok |-> TRUE, e |-> e, st |-> st]
Keyed(r, st) == IF r.ok THEN Yes(r.e, st) ELSE No(st)

is_annotation(k) == k \in {"title", "description", "defs"}
Keys(s) == {k \in DOMAIN s : ~is_annotation(k)}
REFUSED_KEYWORDS ==
    {"contentEncoding", "contentMediaType", "multipleOf", "minProperties", "maxProperties",
     "propertyNames", "patternProperties", "dependentRequired", "dependentSchemas", "uniqueItems",
     "contains", "minContains", "maxContains", "not", "if", "then", "else",
     "unevaluatedProperties", "unevaluatedItems"}
STRING_ONLY_KEYWORDS == {"format", "minLength", "maxLength", "pattern"}
NUMERIC == {"minimum", "maximum", "exclusiveMinimum", "exclusiveMaximum"}
OBJECT_KEYWORDS == {"properties", "required", "additionalProperties"}
ARRAY_KEYWORDS == {"items", "prefixItems", "minItems", "maxItems"}
(* reject_mixed: a terminal keyword stands alone. *)
Alone(s, k) == Keys(s) = {k}

(* The JSON escapes of a string's characters. *)
EscapedText(s) ==
    FlattenSeq([i \in DOMAIN s |->
        CASE s[i] \in {Quote, Backslash} -> <<Backslash, s[i]>>
          [] s[i] = 10 -> <<Backslash, 110>> [] s[i] = 13 -> <<Backslash, 114>> [] s[i] = 9 -> <<Backslash, 116>>
          [] s[i] < 32 /\ s[i] \notin {9, 10, 13} ->
               <<Backslash, LowerU, 48, 48, 48 + (s[i] \div 16),
                 IF (s[i] % 16) < 10 THEN 48 + (s[i] % 16) ELSE 87 + (s[i] % 16)>>
          [] OTHER -> <<s[i]>>])
json_string_literal(s) == Lit(<<Quote>> \o EscapedText(s) \o <<Quote>>)

NumText(n) == (IF n < 0 THEN <<Minus>> ELSE <<>>) \o Bound(n).mag

(* The text of exactly this value; but the empty object doubles its braces  *)
(* (its string is no format string): `{{}}` is accepted for it, not `{}`.   *)
RECURSIVE literal_expr(_)
literal_expr(x) ==
    CASE x.t = "null" -> Lit(Null)
      [] x.t = "bool" -> Lit(IF x.v THEN True ELSE False)
      [] x.t = "num" -> Lit(NumText(x.v))
      [] x.t = "str" -> json_string_literal(x.v)
      [] x.t = "arr" ->
           IF x.v = <<>> THEN CatAll(<<Lit(<<LBracket>>), Ws, Lit(<<RBracket>>)>>)
           ELSE Wrap(<<LBracket>>, JoinComma([i \in DOMAIN x.v |-> literal_expr(x.v[i])]), <<RBracket>>)
      [] x.t = "obj" ->
           IF x.v = <<>> THEN CatAll(<<Lit(<<LBrace, LBrace>>), Ws, Lit(<<RBrace, RBrace>>)>>)
           ELSE Wrap(<<LBrace>>,
                     JoinComma([i \in DOMAIN x.v |->
                         CatAll(<<json_string_literal(x.v[i][1]), Ws, Lit(<<Colon>>), Ws,
                                  literal_expr(x.v[i][2])>>)]),
                     <<RBrace>>)

compile_string(s, st) ==
    LET lengths == Has(s, "minLength") \/ Has(s, "maxLength")
        given == {k \in {"pattern", "format"} : Has(s, k)} \cup (IF lengths THEN {"length"} ELSE {})
        m == Get(s, "minLength", 0)
        n == Get(s, "maxLength", Unbounded)
    IN  IF (n # Unbounded /\ m > n) \/ Cardinality(given) > 1 THEN No(st)
        ELSE IF Has(s, "format") THEN Keyed(format_rule(s.format), st)
        ELSE IF Has(s, "pattern") THEN Keyed(pattern_rule(s.pattern), st)
        ELSE IF m = 0 /\ n = Unbounded THEN Yes(Ref("j-string"), st)
        ELSE IF n > MaxRepeat THEN No(st)
        ELSE Yes(Quoted(Item(Rep(RuleRef("j-char"), m, n))), st)

integer_bound(s, inclusive, exclusive, delta, missing) ==
    IF Has(s, inclusive) THEN Bound(s[inclusive])
    ELSE IF Has(s, exclusive) THEN Bound(s[exclusive] + delta) ELSE missing

compile_integer(s, st) ==
    LET lo == integer_bound(s, "minimum", "exclusiveMinimum", 1, I64Min)
        hi == integer_bound(s, "maximum", "exclusiveMaximum", -1, I64Max)
    IN  IF \/ {"minimum", "exclusiveMinimum"} \subseteq DOMAIN s
           \/ {"maximum", "exclusiveMaximum"} \subseteq DOMAIN s
        THEN No(st)
        ELSE IF NUMERIC \cap DOMAIN s = {} THEN Yes(Ref("j-integer"), st)
        ELSE IF ~Leq(lo, hi) THEN No(st) ELSE Yes(int_range_expr(lo, hi), st)

-----------------------------------------------------------------------------
(* A branch of allOf with its local $ref chain followed, at most 8 deep.    *)
RECURSIVE resolve_branch(_, _, _)
resolve_branch(s, defs, depth) ==
    IF depth > 8 \/ Has(s, "bool") THEN [bool |-> FALSE]
    ELSE IF ~Has(s, "ref") THEN s
    ELSE IF ~Alone(s, "ref") \/ s.ref \notin DOMAIN defs THEN [bool |-> FALSE]
    ELSE resolve_branch(defs[s.ref], defs, depth + 1)

Names(s) == {Get(s, "properties", <<>>)[i][1] : i \in DOMAIN Get(s, "properties", <<>>)}
IsObjectSchema(s) ==
    /\ ~Has(s, "bool")
    /\ Get(s, "type", <<"object">>) = <<"object">>
    /\ Keys(s) \subseteq OBJECT_KEYWORDS \cup {"type"}
IsClosed(s) == Has(s, "additionalProperties") /\ s.additionalProperties = [bool |-> FALSE]

(* Properties in the order of their names (by first character). *)
ByName(props) == SortSeq(Listed(props), LAMBDA a, b : a[1][1] < b[1][1])

(* Mutant of Merged: a closed branch does not remove the others' names. *)
MergedOpen(branches) ==
    LET all == FlattenSeq([i \in DOMAIN branches |-> Get(branches[i], "properties", <<>>)])
        closed == {i \in DOMAIN branches : IsClosed(branches[i])}
    IN  ("type" :> <<"object">>)
        @@ ("properties" :> ByName(ToSet(all)))
        @@ ("required" :> UNION {Get(branches[i], "required", {}) : i \in DOMAIN branches})
        @@ (IF closed # {} THEN "additionalProperties" :> [bool |-> FALSE] ELSE << >>)

(* The object schema of all the branches: the declared properties that      *)
(* every closed branch declares too, and every required name.               *)
Permits(branches, name) == \A i \in DOMAIN branches : IsClosed(branches[i]) => name \in Names(branches[i])
Additional(branches) ==
    {branches[i].additionalProperties : i \in {j \in DOMAIN branches :
        Has(branches[j], "additionalProperties") /\ ~IsClosed(branches[j])}}
Merged(branches) ==
    LET all == FlattenSeq([i \in DOMAIN branches |-> Get(branches[i], "properties", <<>>)])
        kept == {p \in ToSet(all) : Permits(branches, p[1])}
        closed == \E i \in DOMAIN branches : IsClosed(branches[i])
        open == Additional(branches)
    IN  ("type" :> <<"object">>)
        @@ ("properties" :> ByName(kept))
        @@ ("required" :> UNION {Get(branches[i], "required", {}) : i \in DOMAIN branches})
        @@ (IF closed THEN "additionalProperties" :> [bool |-> FALSE]
            ELSE IF open # {} THEN "additionalProperties" :> (CHOOSE a \in open : TRUE) ELSE << >>)

(* What the merge refuses: a branch that is no object schema, a property    *)
(* declared twice differently, a required name a closed branch forbids, two *)
(* different open additionalProperties.                                     *)
Mergeable(branches) ==
    /\ branches # <<>>
    /\ \A i \in DOMAIN branches : IsObjectSchema(branches[i])
    /\ Cardinality(Additional(branches)) <= 1
    /\ \A i \in DOMAIN branches : \A n \in Get(branches[i], "required", {}) : Permits(branches, n)
    /\ LET p == Merged(branches).properties
       IN  \A i, j \in DOMAIN p : p[i][1] = p[j][1] => i = j

-----------------------------------------------------------------------------
(* The rules of an object whose members' texts are given: rest-i continues  *)
(* after an entry, first-i has emitted none; a required member is never     *)
(* skipped, and an extra entry is placed only where the next declared       *)
(* member is optional.                                                      *)
ObjectRules(hint, member, req, closed, extra) ==
    LET k == Len(member)
        Num(tag, i) == hint \o tag \o ToString(i)
        Done(i) == ~\E j \in (i + 1)..k : req[j]
        Skips(i) == i = k \/ ~req[i + 1]
        Extra == CatAll(<<Ref("j-string"), Ws, Lit(<<Colon>>), Ws, Paren(extra)>>)
        First(i) == IF i = k THEN Num("-rest-", k) ELSE Num("-first-", i)
        Alts(comma, i, skip) ==
            (IF Done(i) THEN <<Empty>> ELSE <<>>)
            \o (IF i < k THEN <<CatAll(<<comma, member[i + 1], Ref(Num("-rest-", i + 1))>>)>> ELSE <<>>)
            \o (IF i < k /\ Skips(i) THEN <<Ref(skip)>> ELSE <<>>)
            \o (IF ~closed /\ Skips(i) THEN <<CatAll(<<comma, Extra, Ref(Num("-rest-", i))>>)>> ELSE <<>>)
    IN  [rules |-> [n \in {Num("-rest-", i) : i \in 0..k} \cup {Num("-first-", i) : i \in 0..(k - 1)} |->
                      LET i == CHOOSE j \in 0..k : n \in {Num("-rest-", j), Num("-first-", j)}
                      IN  JoinAlt(IF n = Num("-rest-", i) THEN Alts(Comma3, i, Num("-rest-", i + 1))
                                  ELSE Alts(Empty, i, First(i + 1)))],
         first |-> First(0)]

(* The alternatives of an array: each length below the grow point with its  *)
(* own elements, then a head of the grow length and repeated items.         *)
ArrayAlts(elem, closed, items, lo, hi) ==
    LET p == Len(elem)
        Core(n) == JoinComma([i \in 1..n |-> IF i <= p THEN elem[i] ELSE items])
        Exact(n) == IF n = 0 THEN CatAll(<<Lit(<<LBracket>>), Ws, Lit(<<RBracket>>)>>)
                    ELSE Wrap(<<LBracket>>, Core(n), <<RBracket>>)
        Exacts(from, to) == [k \in 1..(IF to < from THEN 0 ELSE to - from + 1) |-> Exact(from + k - 1)]
        grow == Max({lo, p, 1})
        more == Group(Cat(Comma3, items))
        tail == IF hi = Unbounded THEN Many(more)
                ELSE IF hi = grow THEN Empty ELSE Item(Rep(more, 0, hi - grow))
    IN  IF closed THEN Exacts(lo, IF hi = Unbounded THEN p ELSE Min({hi, p}))
        ELSE Exacts(lo, IF hi = Unbounded THEN p - 1 ELSE Min({hi, p - 1}))
             \o (IF p = 0 /\ lo = 0 THEN <<Exact(0)>> ELSE <<>>)
             \o (IF hi = Unbounded \/ hi >= grow
                 THEN <<Wrap(<<LBracket>>, Cat(Core(grow), tail), <<RBracket>>)>> ELSE <<>>)

AltOf(alts) == IF Len(alts) = 1 THEN alts[1] ELSE JoinAlt([i \in DOMAIN alts |-> Paren(alts[i])])

(* The texts of several schemas, compiled in order: [ok, es, st].           *)
RECURSIVE compile(_, _, _, _)
CompileList(ss, hints, defs, st) ==
    FoldLeftDomain(LAMBDA a, i :
        LET r == compile(ss[i], hints[i], defs, a.st)
        IN  [ok |-> a.ok /\ r.ok, es |-> Append(a.es, r.e), st |-> r.st],
        [ok |-> TRUE, es |-> <<>>, st |-> st], ss)
Hints(hint, n) == [i \in 1..n |-> hint \o ToString(i - 1)]

compile_object(s, hint, defs, st) ==
    LET props == Get(s, "properties", <<>>)
        required == Get(s, "required", {})
        extra == compile(Get(s, "additionalProperties", [bool |-> TRUE]), hint \o "-additional", defs, st)
        closed == IsClosed(s)
        bodies == CompileList([i \in DOMAIN props |-> props[i][2]],
                              [i \in DOMAIN props |-> hint \o "-prop-" \o ToString(props[i][1])],
                              defs, IF closed THEN st ELSE extra.st)
        member == [i \in DOMAIN props |->
                      CatAll(<<json_string_literal(props[i][1]), Ws, Lit(<<Colon>>), Ws, Paren(bodies.es[i])>>)]
        Object(made) == Yes(Wrap(<<LBrace>>, Ref(made.first), <<RBrace>>),
                            [bodies.st EXCEPT !.rules = made.rules @@ @])
    IN  IF ~(required \subseteq Names(s)) \/ ~bodies.ok \/ ~(closed \/ extra.ok) THEN No(st)
        ELSE Object(ObjectRules(hint, member, [i \in DOMAIN props |-> props[i][1] \in required], closed, extra.e))

compile_array(s, hint, defs, st) ==
    LET prefix == Get(s, "prefixItems", <<>>)
        closed == Has(s, "items") /\ s.items = [bool |-> FALSE]
        items == IF closed THEN Yes(Ref("j-value"), st)
                 ELSE compile(Get(s, "items", [bool |-> TRUE]), hint \o "-items", defs, st)
        elems == CompileList(prefix, Hints(hint \o "-prefix-", Len(prefix)), defs, items.st)
        lo == Get(s, "minItems", 0)
        hi == Get(s, "maxItems", Unbounded)
        Array(alts) == IF alts = <<>> THEN No(st) ELSE Yes(AltOf(alts), elems.st)
    IN  IF \/ hi # Unbounded /\ (lo > hi \/ hi - Max({lo, Len(prefix), 1}) > MaxRepeat)
           \/ Len(prefix) > 64 \/ ~items.ok \/ ~elems.ok
        THEN No(st) ELSE Array(ArrayAlts(elems.es, closed, items.e, lo, hi))

(* A definition gets its rule before its body, so that it may refer to itself. *)
resolve_ref(name, defs, st) ==
    LET rule == "def-" \o name
        r == compile(defs[name], rule, defs, [st EXCEPT !.def_rules = @ \cup {name}])
    IN  IF name \in st.def_rules THEN Yes(Ref(rule), st)
        ELSE IF name \notin DOMAIN defs THEN No(st)
        ELSE IF ~r.ok THEN r
        ELSE Yes(Ref(rule), [r.st EXCEPT !.rules = (rule :> r.e) @@ @])

CompileUnion(ss, hints, defs, st) ==
    LET l == CompileList(ss, hints, defs, st)
    IN  IF l.ok /\ ss # <<>> THEN Yes(JoinAlt([i \in DOMAIN l.es |-> Paren(l.es[i])]), l.st) ELSE No(st)

CompileTyped(s, t, hint, defs, st) ==
    CASE t = "object" -> compile_object(s, hint, defs, st)
      [] t = "array" -> compile_array(s, hint, defs, st)
      [] t = "string" -> compile_string(s, st)
      [] t = "number" -> IF NUMERIC \cap DOMAIN s # {} THEN No(st) ELSE Yes(Ref("j-number"), st)
      [] t = "integer" -> compile_integer(s, st)
      [] t = "boolean" -> Yes(JoinAlt(<<Lit(True), Lit(False)>>), st)
      [] t = "null" -> Yes(Lit(Null), st)
      [] OTHER -> No(st)

(* The keywords a schema uses fit the types it declares. *)
Consistent(s, types) ==
    /\ OBJECT_KEYWORDS \cap DOMAIN s # {} => types = <<>> \/ "object" \in ToSet(types)
    /\ ARRAY_KEYWORDS \cap DOMAIN s # {} => types = <<>> \/ "array" \in ToSet(types)
    /\ STRING_ONLY_KEYWORDS \cap DOMAIN s # {} => types = <<"string">>

compile_all_of(list, hint, defs, st) ==
    LET branches == [i \in DOMAIN list |-> resolve_branch(list[i], defs, 0)]
    IN  IF Mergeable(branches) THEN compile_object(Merged(branches), hint, defs, st) ELSE No(st)

compile(s, hint, defs, st) ==
    LET types == Get(s, "type", <<>>)
        union == {k \in {"anyOf", "oneOf"} : Has(s, k)}
        key == IF "anyOf" \in union THEN "anyOf" ELSE "oneOf"
    IN  IF Has(s, "bool") THEN IF s.bool THEN Yes(Ref("j-value"), st) ELSE No(st)
        ELSE IF Has(s, "ref") THEN IF Alone(s, "ref") THEN resolve_ref(s.ref, defs, st) ELSE No(st)
        ELSE IF REFUSED_KEYWORDS \cap DOMAIN s # {} THEN No(st)
        ELSE IF Has(s, "allOf")
        THEN IF Keys(s) \subseteq {"allOf", "type"} /\ types \in {<<>>, <<"object">>}
             THEN compile_all_of(s.allOf, hint, defs, st) ELSE No(st)
        ELSE IF Has(s, "const") THEN IF Alone(s, "const") THEN Yes(literal_expr(s.const), st) ELSE No(st)
        ELSE IF Has(s, "enum")
        THEN IF Alone(s, "enum") /\ s.enum # <<>>
             THEN Yes(AltOf([i \in DOMAIN s.enum |-> literal_expr(s.enum[i])]), st) ELSE No(st)
        ELSE IF union # {}
        THEN IF Alone(s, key) THEN CompileUnion(s[key], Hints(hint \o "-" \o key \o "-", Len(s[key])), defs, st)
             ELSE No(st)
        ELSE IF ~Consistent(s, types) THEN No(st)
        ELSE IF Len(types) > 1
        THEN CompileUnion([i \in DOMAIN types |-> [s EXCEPT !.type = <<types[i]>>]],
                          [i \in DOMAIN types |-> hint], defs, st)
        ELSE IF types # <<>> THEN CompileTyped(s, types[1], hint, defs, st)
        ELSE IF OBJECT_KEYWORDS \cap DOMAIN s # {} THEN compile_object(s, hint, defs, st)
        ELSE IF ARRAY_KEYWORDS \cap DOMAIN s # {} THEN compile_array(s, hint, defs, st)
        ELSE Yes(Ref("j-value"), st)

compile_schema_to_gbnf(s) ==
    LET Rooted(r) == [ok |-> r.ok, rules |-> ("root" :> r.e) @@ r.st.rules]
    IN  Rooted(compile(s, "root", Get(s, "defs", << >>), [rules |-> GENERIC_RULES, def_rules |-> {}]))

-----------------------------------------------------------------------------
(* Reference: which values a schema admits, by the meaning of its keywords; *)
(* a schema without `type` is of the type its keywords are for, and         *)
(* `matched` holds the strings that match its pattern or have its format.   *)
RECURSIVE TextOf(_)
Joined(ts) == FoldLeftDomain(LAMBDA a, i : a \o (IF i = 1 THEN <<>> ELSE <<Comma>>) \o ts[i], <<>>, ts)
StringText(s) == <<Quote>> \o EscapedText(s) \o <<Quote>>
TextOf(x) ==
    CASE x.t = "null" -> Null
      [] x.t = "bool" -> IF x.v THEN True ELSE False
      [] x.t = "num" -> NumText(x.v)
      [] x.t = "str" -> StringText(x.v)
      [] x.t = "arr" -> <<LBracket>> \o Joined([i \in DOMAIN x.v |-> TextOf(x.v[i])]) \o <<RBracket>>
      [] x.t = "obj" -> <<LBrace>> \o Joined([i \in DOMAIN x.v |->
                            StringText(x.v[i][1]) \o <<Colon>> \o TextOf(x.v[i][2])]) \o <<RBrace>>

TypeNames(x) ==
    CASE x.t = "null" -> {"null"} [] x.t = "bool" -> {"boolean"} [] x.t = "num" -> {"integer", "number"}
      [] x.t = "str" -> {"string"} [] x.t = "arr" -> {"array"} [] x.t = "obj" -> {"object"}

RECURSIVE Valid(_, _, _, _)
Valid(s, x, defs, matched) ==
    LET props == Get(s, "properties", <<>>)
        prefix == Get(s, "prefixItems", <<>>)
        Sub(t, y) == Valid(t, y, defs, matched)
    IN  IF Has(s, "bool") THEN s.bool
        ELSE IF Has(s, "ref") THEN Sub(defs[s.ref], x)
        ELSE /\ Has(s, "allOf") => \A i \in DOMAIN s.allOf : Sub(s.allOf[i], x)
             /\ Has(s, "anyOf") => \E i \in DOMAIN s.anyOf : Sub(s.anyOf[i], x)
             /\ Has(s, "oneOf") => \E i \in DOMAIN s.oneOf : Sub(s.oneOf[i], x)
             /\ Has(s, "const") => TextOf(x) = TextOf(s.const)
             /\ Has(s, "enum") => \E i \in DOMAIN s.enum : TextOf(x) = TextOf(s.enum[i])
             /\ Has(s, "type") => ToSet(s.type) \cap TypeNames(x) # {}
             /\ ~Has(s, "type") /\ OBJECT_KEYWORDS \cap DOMAIN s # {} => x.t = "obj"
             /\ ~Has(s, "type") /\ ARRAY_KEYWORDS \cap DOMAIN s # {} => x.t = "arr"
             /\ Has(s, "minimum") /\ x.t = "num" => x.v >= s.minimum
             /\ Has(s, "maximum") /\ x.t = "num" => x.v <= s.maximum
             /\ Has(s, "exclusiveMinimum") /\ x.t = "num" => x.v > s.exclusiveMinimum
             /\ Has(s, "exclusiveMaximum") /\ x.t = "num" => x.v < s.exclusiveMaximum
             /\ Has(s, "minLength") /\ x.t = "str" => Len(x.v) >= s.minLength
             /\ Has(s, "maxLength") /\ x.t = "str" => Len(x.v) <= s.maxLength
             /\ Has(s, "pattern") /\ x.t = "str" => x.v \in matched
             /\ Has(s, "format") /\ x.t = "str" => x.v \in matched
             /\ Has(s, "minItems") /\ x.t = "arr" => Len(x.v) >= s.minItems
             /\ Has(s, "maxItems") /\ x.t = "arr" => Len(x.v) <= s.maxItems
             /\ x.t = "arr" => \A i \in DOMAIN x.v :
                   IF i <= Len(prefix) THEN Sub(prefix[i], x.v[i])
                   ELSE Sub(Get(s, "items", [bool |-> TRUE]), x.v[i])
             /\ x.t = "obj" =>
                   /\ \A n \in Get(s, "required", {}) : \E i \in DOMAIN x.v : x.v[i][1] = n
                   /\ \A i \in DOMAIN x.v :
                        IF x.v[i][1] \in Names(s)
                        THEN \A j \in DOMAIN props : props[j][1] = x.v[i][1] => Sub(props[j][2], x.v[i][2])
                        ELSE Sub(Get(s, "additionalProperties", [bool |-> TRUE]), x.v[i][2])
=============================================================================
