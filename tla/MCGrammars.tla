------------------------------ MODULE MCGrammars ------------------------------
(* Bounded inputs for grammars, JSON schemas, tool calls and forced calls.    *)
EXTENDS ForcedCalls

-----------------------------------------------------------------------------
(* Grammars and a vocabulary for Grammar: pieces that cut characters, that  *)
(* span them, that are empty, invalid or end the generation.                *)

(* "a", "b", and the bytes of U+00E9 (C3 A9) and U+0800 (E0 A0 80).         *)
SmallVocab == <<<<97>>, <<98>>, <<97, 98>>, <<195>>, <<169>>, <<98, 195>>, <<169, 97>>,
                <<224>>, <<160>>, <<128>>, <<>>, <<255>>, <<0>>>>

Made(source, eog) ==
    [source |-> source, rules |-> [n \in DOMAIN source |-> Compile(source[n])],
     pieces |-> SmallVocab, eog |-> eog]

Sources == {
    [root |-> Cat(Item(Rep(Group(JoinAlt(<<Lit(<<97>>), Lit(<<233>>)>>)), 1, Unbounded)), Lit(<<98>>))],
    [root |-> JoinAlt(<<CatAll(<<Lit(<<97>>), Item(RuleRef("root")), Lit(<<98>>)>>), Empty>>)],
    [root |-> CatAll(<<Item(Rep(Class(TRUE, <<<<97, 97>>>>), 1, 2)), Item(RuleRef("e"))>>),
     e |-> Item(Rep(Str(<<97>>), 0, 1))],
    [root |-> Item(Rep(Class(FALSE, <<<<2048, 2050>>, <<97, 98>>>>), 0, Unbounded))],
    [root |-> CatAll(<<Item(AnyCp), Item(Rep(Group(JoinAlt(<<Empty, Lit(<<97>>)>>)), 2, Unbounded))>>)],
    [root |-> JoinAlt(<<Lit(<<97>>), Lit(<<97, 98>>), Item(RuleRef("x"))>>),
     x |-> Cat(Item(Rep(Str(<<98>>), 2, 3)), Lit(<<97>>))] }

Gs == {Made(s, {13}) : s \in Sources}
-----------------------------------------------------------------------------
(* Schemas compiled and compared with the reference on small JSON values.   *)

N(n) == [t |-> "num", v |-> n]
S(s) == [t |-> "str", v |-> s]
Nul == [t |-> "null", v |-> <<>>]
Tru == [t |-> "bool", v |-> TRUE]
Arr(xs) == [t |-> "arr", v |-> xs]
Obj(ps) == [t |-> "obj", v |-> ps]
A == <<97>>
B == <<98>>
C == <<99>>
E == <<233>>

Scalars == {Nul, Tru, N(0), N(3), N(-12), S(<<>>), S(A), S(A \o B)}
Few == {Tru, N(3), N(-12), S(A)}
Numbers == {N(n) : n \in -30..130}
Arrays == {Arr(<<>>)} \cup {Arr(<<x>>) : x \in Scalars} \cup {Arr(<<x, y>>) : x, y \in Few}
          \cup {Arr(<<x, y, x>>) : x, y \in {N(3), S(A)}}
Objects == {Obj(<<>>)} \cup {Obj(<<<<k, x>>>>) : k \in {A, B, C}, x \in Few}
           \cup {Obj(<<<<k[1], x>>, <<k[2], y>>>>) : k \in {<<A, B>>, <<B, A>>, <<A, C>>, <<B, C>>}, x, y \in Few}
           \cup {Obj(<<<<A, x>>, <<B, y>>, <<C, N(3)>>>>) : x, y \in {N(3), S(A)}}
           \cup {Obj(<<<<A, Obj(<<<<A, N(3)>>>>)>>>>), Obj(<<<<A, Arr(<<N(3)>>)>>>>)}
Strings == {S(s) : s \in SeqOf({97, 98, 233}, 2)} \cup {S(<<34>>), S(<<97, 10>>), S(<<66>>), S(<<97, 97, 98>>), S(<<65536>>)}
Values == Scalars \cup Numbers \cup Arrays \cup Objects \cup Strings

(* The whole text with every string character written \uXXXX. *)
Hex4(c) == [i \in 1..4 |-> LET d == (c \div (16 ^ (4 - i))) % 16 IN IF d < 10 THEN 48 + d ELSE 55 + d]
U(c) == <<Backslash, LowerU>> \o Hex4(c)
Escaped(s) == <<Quote>> \o FlattenSeq([i \in DOMAIN s |->
                 IF s[i] < 65536 THEN U(s[i])
                 ELSE U(55296 + ((s[i] - 65536) \div 1024)) \o U(56320 + ((s[i] - 65536) % 1024))]) \o <<Quote>>
Spellings(x) == {TextOf(x)} \cup (IF x.t = "str" /\ x.v # <<65536>> THEN {Escaped(x.v)} ELSE {})

(* Declared members in the declared order (a merged schema's in the order   *)
(* of their names), then the others.                                        *)
Rank(s, n) == LET p == Get(s, "properties", <<>>) at == {i \in DOMAIN p : p[i][1] = n}
              IN  IF at = {} THEN Len(p) + 1 ELSE Min(at)
Canonical(s, x) ==
    x.t = "obj" => \A i, j \in DOMAIN x.v : i < j =>
        IF Has(s, "allOf") THEN x.v[i][1][1] <= x.v[j][1][1]
        ELSE Rank(s, x.v[i][1]) <= Rank(s, x.v[j][1])

IntT == [type |-> <<"integer">>]
StrT == [type |-> <<"string">>]
Props(ps) == [properties |-> ps]
Closed == [additionalProperties |-> [bool |-> FALSE]]
Plain(s) == [s |-> s, matched |-> {}]
(* A pattern and the strings, among the candidates, that it matches.        *)
Pat(p, strings) == [s |-> [type |-> <<"string">>, pattern |-> p], matched |-> strings]
AllStrings == {x.v : x \in {y \in Values : y.t = "str"}}

SchemaCases == <<
    Plain([bool |-> TRUE]),
    Plain([type |-> <<"integer">>, minimum |-> -12, maximum |-> 117]),
    Plain([type |-> <<"integer">>, exclusiveMinimum |-> 4, exclusiveMaximum |-> 93]),
    Plain([type |-> <<"integer">>, minimum |-> -25, maximum |-> 0]),
    Plain([type |-> <<"integer">>, minimum |-> -29, exclusiveMaximum |-> -3]),
    Plain([type |-> <<"integer">>, minimum |-> 9, maximum |-> 101]),
    Plain([type |-> <<"integer", "null">>]),
    Plain([type |-> <<"number">>]),
    Plain([type |-> <<"boolean">>]),
    Plain([enum |-> <<Nul, N(3), S(A \o B), S(<<34>>), Arr(<<Tru, N(3)>>)>>]),
    Plain([const |-> Obj(<<<<A, N(3)>>, <<B, Tru>>>>)]),
    Plain([const |-> Obj(<<>>)]),
    Plain([enum |-> <<N(3), Obj(<<>>), Arr(<<>>)>>]),
    Plain([anyOf |-> <<IntT, StrT>>]),
    Plain([oneOf |-> <<[type |-> <<"null">>], [type |-> <<"array">>, maxItems |-> 1]>>]),
    Plain([type |-> <<"string">>, minLength |-> 1, maxLength |-> 2]),
    Plain([type |-> <<"string">>, minLength |-> 2]),
    Plain([type |-> <<"array">>]),
    Plain([items |-> IntT, minItems |-> 1, maxItems |-> 2]),
    Plain([items |-> IntT, minItems |-> 2]),
    Plain([items |-> [anyOf |-> <<IntT, StrT>>], maxItems |-> 2]),
    Plain([prefixItems |-> <<StrT, IntT>>, items |-> [bool |-> FALSE]]),
    Plain([prefixItems |-> <<StrT>>, items |-> IntT, maxItems |-> 2]),
    Plain([prefixItems |-> <<IntT, StrT>>, items |-> IntT, minItems |-> 1]),
    Plain([maxItems |-> 0]),
    Plain(Closed @@ Props(<<<<A, IntT>>, <<B, StrT>>>>)),
    Plain(Closed @@ Props(<<<<A, IntT>>, <<B, [bool |-> TRUE]>>>>) @@ [required |-> {B}]),
    Plain(Closed @@ Props(<<<<A, IntT>>, <<B, IntT>>, <<C, IntT>>>>) @@ [required |-> {A, C}]),
    Plain(Props(<<<<A, IntT>>>>) @@ [required |-> {A}]),
    Plain(Props(<<<<A, IntT>>>>)),
    Plain([type |-> <<"object">>]),
    Plain(Props(<<<<A, IntT>>>>) @@ [required |-> {A}, additionalProperties |-> StrT]),
    Plain([allOf |-> <<Props(<<<<A, IntT>>>>) @@ [required |-> {A}],
                       Props(<<<<B, StrT>>>>) @@ [required |-> {B}]>>]),
    Plain([allOf |-> <<Closed @@ Props(<<<<A, IntT>>, <<B, StrT>>>>),
                       Closed @@ Props(<<<<B, StrT>>, <<C, IntT>>>>)>>]),
    Plain([allOf |-> <<[ref |-> "d"], Closed @@ Props(<<<<A, IntT>>, <<B, StrT>>>>)>>,
           defs |-> [d |-> Props(<<<<B, StrT>>>>) @@ [required |-> {B}]]]),
    Plain([ref |-> "tree", defs |-> [tree |-> Closed @@ Props(<<<<A, [anyOf |-> <<[ref |-> "tree"], IntT>>]>>>>)]]),
    Pat(<<Caret, 97, Plus, 98, Quest, Dollar>>, AllStrings \cap {A, <<97, 97>>, <<97, 98>>, <<97, 97, 98>>}),
    Pat(<<97>>, {s \in AllStrings : 97 \in ToSet(s)}),
    Pat(<<Caret, LBracket, Caret, 97, RBracket>>, {s \in AllStrings : s # <<>> /\ s[1] # 97}),
    Pat(<<LPar, 97, Bar, 233, RPar, LBrace, 50, RBrace, Dollar>>,
        {s \in AllStrings : Len(s) >= 2 /\ \A i \in {Len(s) - 1, Len(s)} : s[i] \in {97, 233}}),
    Pat(<<Caret, Backslash, 119, Backslash, 87, Star, Dollar>>,
        {s \in AllStrings : s # <<>> /\ s[1] \in {65, 66, 97, 98}
                             /\ \A i \in 2..Len(s) : s[i] \notin {97, 98, 66}}),
    Pat(<<98, Bar, Backslash, LowerU, 48, 48, 101, 57>>, {s \in AllStrings : ToSet(s) \cap {98, 233} # {}})
  >>

(* Near misses of a value's text: cut short, a comma before the first       *)
(* entry, the braces of an object doubled.                                  *)
NearMisses(x) ==
    LET t == TextOf(x)
    IN  (IF x.t \in {"str", "arr", "obj"} THEN {Front(t)} ELSE {})
        \cup (IF x.t \in {"arr", "obj"} THEN {<<t[1], Comma>> \o Tail(t)} ELSE {})
        \cup (IF x.t = "obj" THEN {<<LBrace>> \o t \o <<RBrace>>} ELSE {})

(* On one value: the grammar accepts it exactly when the schema admits it,  *)
(* in each spelling of its characters (an enum's in its one literal) and    *)
(* with its members in the declared order; no near miss is accepted.        *)
AcceptsAsValid(case, rules, x) ==
    LET s == case.s
        valid == Valid(s, x, Get(s, "defs", << >>), case.matched)
    IN  \A w \in Spellings(x) :
            /\ Sentence(rules, w) => valid
            /\ valid /\ Canonical(s, x) /\ (Has(s, "enum") => w = TextOf(x)) => Sentence(rules, w)
RefusesNearMisses(rules, x) == \A w \in NearMisses(x) : ~Sentence(rules, w)

(* What the compiler is for: the grammar of a schema is its language, an    *)
(* enum's or const's "exactly this JSON value" (grammar.rs, literal_expr).  *)
(* The code does not keep it on the three kinds of schema named below.      *)
SchemaExact(case, compiled, x) ==
    compiled.ok /\ AcceptsAsValid(case, compiled.rules, x) /\ RefusesNearMisses(compiled.rules, x)

(* literal_expr doubles the braces of an empty object.                      *)
EmptyLiteral(s, x) ==
    x = Obj(<<>>) /\ x \in (IF Has(s, "const") THEN {s.const} ELSE ToSet(Get(s, "enum", <<>>)))
(* compile_object, where undeclared entries may come and a declared member  *)
(* may be skipped or none is declared: past the last member an entry has a  *)
(* comma even when it is the first, and an entry may take the name of a     *)
(* skipped member with any value.                                           *)
OpenEntry(s, x) ==
    /\ x.t = "obj" /\ x.v # <<>>
    /\ Get(s, "type", <<>>) = <<"object">> \/ OBJECT_KEYWORDS \cap DOMAIN s # {}
    /\ ~IsClosed(s) /\ (Get(s, "required", {}) = {} \/ Get(s, "required", {}) # Names(s))
(* compile_array joins the alternatives of an item without parentheses.     *)
UnionItem(s) ==
    \E i \in (IF Has(s, "items") THEN {s.items} ELSE {}) \cup ToSet(Get(s, "prefixItems", <<>>)) :
        \E k \in {"anyOf", "oneOf", "enum", "type"} : Has(i, k) /\ Len(i[k]) > 1

(* The compiled grammar is the schema's language, on values and near        *)
(* misses, but for: the empty object as a literal, the entries of an open   *)
(* object that does not require all it declares, and arrays whose items     *)
(* have several alternatives (grammar.rs, compile, literal_expr,            *)
(* compile_object, compile_array).                                          *)
SchemaLanguageOf(case, compiled, x) ==
    SchemaExact(case, compiled, x) \/ EmptyLiteral(case.s, x) \/ OpenEntry(case.s, x) \/ UnionItem(case.s)
-----------------------------------------------------------------------------
(* Forced calls over small tools and argument values.                       *)

fA == <<97>>
fB == <<98>>
fN(n) == [t |-> "num", v |-> n]
fS(s) == [t |-> "str", v |-> s]
fT == [t |-> "bool", v |-> TRUE]
fArr(xs) == [t |-> "arr", v |-> xs]
fObj(ps) == [t |-> "obj", v |-> ps]
ToolF == [name |-> <<102>>, parameters |->
            <<[type |-> <<"object">>, additionalProperties |-> [bool |-> FALSE], required |-> {fA, fB},
               properties |-> <<<<fA, [type |-> <<"integer">>]>>, <<fB, [enum |-> <<fS(<<120>>), fN(12), fT>>]>>>>]>>]
ToolG == [name |-> <<103>>, parameters |->
            <<[type |-> <<"object">>, required |-> {fA}, properties |-> <<<<fA, [type |-> <<"boolean">>]>>>>]>>]
ToolH == [name |-> <<104>>, parameters |->
            <<[properties |-> <<<<fA, [type |-> <<"array">>, items |-> [type |-> <<"string">>]]>>,
                                <<fB, [anyOf |-> <<[type |-> <<"null">>],
                                                   [type |-> <<"object">>, required |-> {fA},
                                                    properties |-> <<<<fA, [type |-> <<"number">>]>>>>]>>]>>>>,
               required |-> {fA, fB}, additionalProperties |-> [bool |-> FALSE]]>>]
ToolsFor(f) == IF f.shape = "XmlFunction" THEN <<ToolF, ToolG>> ELSE <<ToolF, ToolG, ToolH>>
Flat == <<fN(-1), fN(12), fS(<<120>>), fS(<<>>), fT>>
Deep == <<fArr(<<>>), fArr(<<fS(<<120>>), fS(<<>>)>>), fArr(<<fN(1)>>), [t |-> "null", v |-> <<>>],
          fObj(<<<<fA, fN(0)>>>>), fObj(<<<<fA, fS(<<120>>)>>>>)>>
Pool(f) == IF f.shape = "XmlFunction" THEN Flat ELSE Flat \o Deep
ArgsFor(f) ==
    LET vs == Pool(f)
    IN  <<fObj(<<>>)>> \o [i \in DOMAIN vs |-> fObj(<<<<fA, vs[i]>>>>)] \o [i \in DOMAIN vs |-> fObj(<<<<fB, vs[i]>>>>)]
        \o FlattenSeq([i \in DOMAIN vs |-> [j \in DOMAIN vs |-> fObj(<<<<fA, vs[i]>>, <<fB, vs[j]>>>>)]])
(* Strings that spell the tags. *)
TagSpellers(f) == [i \in 1..6 |-> fObj(<<<<fA, fS(<<f.open, f.close, <<Quote>>, <<Backslash, Quote>> \o f.close, <<RBrace>>, <<120, 32, 120>>>>[i])>>>>)]
ReadBackArgs(f) == ArgsFor(f) \o TagSpellers(f)
ArgTable == [i \in DOMAIN FORMATS |-> ReadBackArgs(FORMATS[i])]
NArgs(i) == Len(ArgTable[i]) - 6
ForcedNames(i) == {<<>>, <<102>>} \cup (IF FORMATS[i].shape = "XmlFunction" THEN {} ELSE {<<104>>})
GrammarTable == [i \in DOMAIN FORMATS |-> [n \in ForcedNames(i) |-> forced_call_grammar(FORMATS[i], ToolsFor(FORMATS[i]), n)]]
ForcedInputs == UNION {{i} \X ForcedNames(i) \X {<<102>>, <<103>>, <<104>>, <<105>>} \X (1..NArgs(i)) : i \in DOMAIN FORMATS}
ReadBackInputs == UNION {{i} \X (1..Len(ArgTable[i])) : i \in DOMAIN FORMATS}
-----------------------------------------------------------------------------
(* Completions put together from the pieces each row's parser tells apart.  *)

x == 120
n == 110
a == 97
sp == 32
f1 == 102
Str1(s) == <<Quote>> \o s \o <<Quote>>
(* {"n":"f", "<key>":{"x":<v>}} *)
ObjText(key, v) == <<LBrace>> \o Str1(<<n>>) \o <<Colon>> \o Str1(<<f1>>) \o <<Comma, sp>> \o Str1(key)
                   \o <<Colon, LBrace>> \o Str1(<<x>>) \o <<Colon>> \o v \o <<RBrace, RBrace>>
(* A whole call as the row writes it, its one string argument holding s.    *)
CallText(r, s) ==
    CASE r.shape = "ObjectThenClose" -> r.open \o ObjText(r.args_key, Str1(s)) \o <<10>> \o r.close
      [] r.shape = "ArrayAtEos" -> r.open \o <<LBracket>> \o ObjText(r.args_key, Str1(s)) \o <<RBracket>>
      [] r.shape = "NameThenArgs" -> r.open \o <<f1>> \o r.marker \o <<LBrace>> \o Str1(<<x>>) \o <<Colon>>
                                     \o Str1(s) \o <<RBrace>>
      [] r.shape = "ObjectUntilNextOpen" -> r.open \o ObjText(r.args_key, Str1(s))
      [] r.shape = "XmlFunction" -> r.open \o r.marker \o <<f1, Gt>> \o ParameterOpen \o <<x, Gt>> \o s
                                    \o ParameterClose \o FunctionClose \o r.close
      [] r.shape = "CallThenJson" -> r.open \o r.marker \o <<f1, LBrace, x, Colon>> \o GQuote \o s \o GQuote
                                     \o <<RBrace>> \o r.close
(* The string spells the row's closing tag, where the row allows it. *)
Tricky(r) == IF r.shape \in {"XmlFunction", "CallThenJson"} THEN r.close
             ELSE IF r.close = <<>> THEN <<Backslash, Quote>> \o r.open ELSE <<Backslash, Quote>> \o r.close
Half(w) == SubSeq(w, 1, Len(w) - 4)
Pieces(r) == {<<x>>, <<sp>>, <<r.open[1]>>, SubSeq(r.open, 1, 2), CallText(r, Tricky(r)), Half(CallText(r, <<x>>)),
              IF r.shape = "ObjectUntilNextOpen" THEN r.marker ELSE <<10, r.open[1], x>>}
Odd(r) == {r.open, r.open \o <<x>>, r.open \o r.marker \o <<Gt>>, CallText(r, <<x>>) \o r.open,
           r.open \o <<LBrace, RBrace>> \o r.close, r.open \o <<LBracket, RBracket>>,
           r.open \o <<f1>> \o r.marker \o Null, r.open \o <<f1>> \o r.marker \o <<Minus, 49, 50>>,
           r.open \o r.marker \o <<f1, LBrace, x, Colon, Minus, 49, Comma, RBrace>> \o r.close,
           r.open \o r.marker \o <<f1, LBrace, x, Colon, LBracket, 49, Comma>> \o True \o <<RBracket, RBrace, sp>>,
           r.open \o ObjText(r.args_key, <<Minus, 49, 46, 53, 101, Plus, 50>>) \o r.close,
           CallText(r, <<x>>) \o <<sp, Semi, sp>> \o CallText(r, <<x>>),
           r.open \o <<sp>> \o ObjText(<<x>>, Str1(<<x>>)) \o r.close}
TextsOf(r) == LET whole == CallText(r, Tricky(r))
              IN  Odd(r) \cup {p \o q : p, q \in Pieces(r)} \cup {whole \o p \o <<x>> : p \in Pieces(r)}
                  \cup {<<x, sp>> \o whole \o p : p \in {<<sp, x>>, <<sp, r.open[1]>>}}
MCCompletions == UNION {{FORMATS[i]} \X TextsOf(FORMATS[i]) : i \in DOMAIN FORMATS}
=============================================================================
