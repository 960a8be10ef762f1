---------------------------- MODULE ForcedCalls -----------------------------
(* The grammar of `tool_choice` (server/toolcall.rs, forced_call_grammar):  *)
(* the text of one call to a selected tool, written as the format row       *)
(* writes calls, its arguments admitted by the tool's schema.               *)
(* A tool is [name, parameters]; parameters = <<>> when it declares none.   *)
EXTENDS ToolCalls

(* The literals of the rows' grammars: `{"n": "`, `", "a": `, `}`.          *)
GrammarShape(f) ==
    LET obj == <<LBrace, Quote, f.name_key[1], Quote, Colon, 32, Quote>>
        args == <<Quote, Comma, 32, Quote, f.args_key[1], Quote, Colon, 32>>
    IN  CASE f.shape = "ObjectThenClose" ->
               [open |-> f.open \o <<10>> \o obj, between |-> args, close |-> <<RBrace, 10>> \o f.close]
          [] f.shape = "ArrayAtEos" ->
               [open |-> f.open \o <<32, LBracket>> \o obj, between |-> args, close |-> <<RBrace, RBracket>>]
          [] f.shape = "ObjectUntilNextOpen" ->
               [open |-> f.open \o obj, between |-> args, close |-> <<RBrace>>]
          [] f.shape = "NameThenArgs" -> [open |-> f.open, between |-> f.marker, close |-> <<>>]

AnyObject == [type |-> <<"object">>]
selected_tools(tools, forced) ==
    LET picked == SelectSeq(tools, LAMBDA t : forced = <<>> \/ t.name = forced)
    IN  [i \in DOMAIN picked |->
            [picked[i] EXCEPT !.parameters = IF @ = <<>> THEN AnyObject ELSE @[1]]]

(* The GBNF parts: a literal, free text up to a tag, either boolean.        *)
FreeText == Many(Class(TRUE, <<<<Lt, Lt>>>>))
EitherBool == JoinAlt(<<Lit(True), Lit(False)>>)
ScalarText(v) == IF v.t = "num" THEN NumText(v.v) ELSE IF v.t = "bool" THEN (IF v.v THEN True ELSE False) ELSE v.v
AnyRefused(rs) == \E i \in DOMAIN rs : ~rs[i].ok
Texts(rs) == [i \in DOMAIN rs |-> rs[i].e]
Text(e) == [ok |-> TRUE, e |-> e]
Unwritable == [ok |-> FALSE, e |-> Empty]

-----------------------------------------------------------------------------
(* XML: every declared parameter once, in order, each value flat text.      *)
Annotations == {"description", "title"}
XML_OBJECT_KEYWORDS == {"type", "properties", "required", "additionalProperties"} \cup Annotations
XML_VALUE_KEYWORDS == {"type", "enum", "const"} \cup Annotations

xml_scalar_text(v) ==
    IF v.t \in {"null", "arr", "obj"} \/ (v.t = "str" /\ Lt \in ToSet(v.v)) THEN Unwritable
    ELSE Text(Lit(ScalarText(v)))

xml_enum_rule(values) ==
    LET rs == [i \in DOMAIN values |-> xml_scalar_text(values[i])]
    IN  IF values = <<>> \/ AnyRefused(rs) THEN Unwritable ELSE Text(JoinAlt(Texts(rs)))

xml_value_rule(s) ==
    LET ty == Get(s, "type", <<"string">>)
    IN  IF Has(s, "bool") THEN IF s.bool THEN Text(FreeText) ELSE Unwritable
        ELSE IF ~(DOMAIN s \subseteq XML_VALUE_KEYWORDS) THEN Unwritable
        ELSE IF Has(s, "enum") THEN xml_enum_rule(s.enum)
        ELSE IF Has(s, "const") THEN xml_scalar_text(s.const)
        ELSE CASE ty = <<"string">> -> Text(FreeText)
               [] ty = <<"integer">> -> Text(Ref("j-integer"))
               [] ty = <<"number">> -> Text(Ref("j-number"))
               [] ty = <<"boolean">> -> Text(EitherBool)
               [] OTHER -> Unwritable

(* Mutant of XmlEntry: the value's alternatives are not parenthesised. *)
XmlEntryBare(name, value) ==
    CatAll(<<Ws, Lit(ParameterOpen \o name \o <<Gt>>), value, Lit(ParameterClose)>>)

XmlEntry(name, value) ==
    CatAll(<<Ws, Lit(ParameterOpen \o name \o <<Gt>>), Paren(value), Lit(ParameterClose)>>)

xml_parameters(s) ==
    LET props == Get(s, "properties", <<>>)
        Placeable(name) == {Lt, Gt} \cap ToSet(name) = {} /\ Trim(name) = name
        Entries(rs) == IF AnyRefused(rs) THEN Unwritable
                       ELSE Text(CatAll([i \in DOMAIN props |-> XmlEntry(props[i][1], rs[i].e)]))
    IN  IF Has(s, "bool") THEN [ok |-> s.bool, e |-> Empty]
        ELSE IF \/ ~(DOMAIN s \subseteq XML_OBJECT_KEYWORDS)
                \/ Get(s, "type", <<"object">>) # <<"object">>
                \/ Has(s, "properties") /\ ~(Get(s, "required", {}) \subseteq Names(s))
                \/ \E i \in DOMAIN props : ~Placeable(props[i][1])
        THEN Unwritable
        ELSE Entries([i \in DOMAIN props |-> xml_value_rule(props[i][2])])

xml_call_alternative(f, name, s) ==
    LET Around(params) ==
            IF ~params.ok THEN Unwritable
            ELSE Text(CatAll(<<Lit(f.open), Ws, Lit(f.marker), Lit(name), Lit(<<Gt>>), params.e,
                               Ws, Lit(FunctionClose), Ws, Lit(f.close)>>))
    IN  Around(xml_parameters(s))

-----------------------------------------------------------------------------
(* The Gemma dialect: bare keys, <|"|> strings. *)
GColon == CatAll(<<Ws, Lit(<<Colon>>), Ws>>)
push_gemma_rules ==
       ("g-string" :> CatAll(<<Lit(GQuote), FreeText, Lit(GQuote)>>))
    @@ ("g-key" :> JoinAlt(<<Many1(Class(FALSE, <<<<48, 57>>, <<65, 90>>, <<95, 95>>, <<97, 122>>>>)), Ref("g-string")>>))
    @@ ("g-pair" :> CatAll(<<Ref("g-key"), GColon, Ref("g-value")>>))
    @@ ("g-object" :> JoinAlt(<<CatAll(<<Lit(<<LBrace>>), Ws, Lit(<<RBrace>>)>>),
                                Wrap(<<LBrace>>, Elements("g-pair"), <<RBrace>>)>>))
    @@ ("g-array" :> JoinAlt(<<CatAll(<<Lit(<<LBracket>>), Ws, Lit(<<RBracket>>)>>),
                               Wrap(<<LBracket>>, Elements("g-value"), <<RBracket>>)>>))
    @@ ("g-value" :> JoinAlt(<<Ref("g-object"), Ref("g-array"), Ref("g-string"), Ref("j-number"),
                               Lit(True), Lit(False), Lit(Null)>>))

GEMMA_KEYWORDS == {"type", "enum", "const", "anyOf", "oneOf", "items", "schema"} \cup OBJECT_KEYWORDS \cup Annotations
is_gemma_annotation(k) == k \in Annotations \cup {"schema"}
Constraints(s) == {k \in DOMAIN s : ~is_gemma_annotation(k)}

gemma_key(name) ==
    IF Lt \in ToSet(name) THEN Unwritable
    ELSE IF name # <<>> /\ ToSet(name) \subseteq KeyChars THEN Text(Lit(name))
    ELSE Text(Lit(GQuote \o name \o GQuote))

gemma_literal(v) ==
    IF v.t \in {"arr", "obj"} \/ (v.t = "str" /\ Lt \in ToSet(v.v)) THEN Unwritable
    ELSE Text(Lit(IF v.t = "str" THEN GQuote \o v.v \o GQuote ELSE IF v.t = "null" THEN Null ELSE ScalarText(v)))

(* Nested objects and arrays are rules of their own in the code; here their *)
(* text is placed in parentheses, which binds the same way.                 *)
RECURSIVE GemmaValue(_)
GemmaList(ss) == [i \in DOMAIN ss |-> GemmaValue(ss[i])]
GemmaUnion(rs) == IF rs = <<>> \/ AnyRefused(rs) THEN Unwritable ELSE Text(JoinAlt(Texts(rs)))

GemmaObject(s) ==
    LET props == Get(s, "properties", <<>>)
        keys == [i \in DOMAIN props |-> gemma_key(props[i][1])]
        values == GemmaList([i \in DOMAIN props |-> props[i][2]])
        entries == [i \in DOMAIN props |-> CatAll(<<keys[i].e, GColon, Paren(values[i].e)>>)]
    IN  IF ~(Get(s, "required", {}) \subseteq Names(s)) \/ AnyRefused(keys) \/ AnyRefused(values) THEN Unwritable
        ELSE Text(Paren(IF entries = <<>> THEN CatAll(<<Lit(<<LBrace>>), Ws, Lit(<<RBrace>>)>>)
                        ELSE Wrap(<<LBrace>>, JoinComma(entries), <<RBrace>>)))

GemmaArray(s) ==
    LET item == GemmaValue(s.items)
        one == Paren(item.e)
    IN  IF ~Has(s, "items") THEN Text(Ref("g-array"))
        ELSE IF ~item.ok THEN Unwritable
        ELSE Text(Paren(JoinAlt(<<CatAll(<<Lit(<<LBracket>>), Ws, Lit(<<RBracket>>)>>),
                                  Wrap(<<LBracket>>, Cat(one, Many(Group(Cat(Comma3, one)))), <<RBracket>>)>>)))

GemmaValue(s) ==
    LET ty == Get(s, "type", <<>>)
        union == {"anyOf", "oneOf"} \cap DOMAIN s
        hasObject == OBJECT_KEYWORDS \cap DOMAIN s # {}
    IN  IF Has(s, "bool") THEN IF s.bool THEN Text(Ref("g-value")) ELSE Unwritable
        ELSE IF ~(DOMAIN s \subseteq GEMMA_KEYWORDS) THEN Unwritable
        ELSE IF {"enum", "const"} \cap DOMAIN s # {}
        THEN IF Cardinality(Constraints(s) \ {"type"}) > 1 THEN Unwritable
             ELSE IF Has(s, "const") THEN gemma_literal(s.const)
             ELSE GemmaUnion([i \in DOMAIN s.enum |-> gemma_literal(s.enum[i])])
        ELSE IF union # {}
        THEN IF Cardinality(Constraints(s)) > 1 THEN Unwritable
             ELSE GemmaUnion(GemmaList(s[CHOOSE k \in union : TRUE]))
        ELSE IF \/ Len(ty) > 1
                \/ ty # <<>> /\ ((ty # <<"object">> /\ hasObject) \/ (ty # <<"array">> /\ Has(s, "items")))
        THEN Unwritable
        ELSE CASE ty = <<"object">> \/ (ty = <<>> /\ hasObject) -> GemmaObject(s)
               [] ty = <<"array">> \/ (ty = <<>> /\ ~hasObject /\ Has(s, "items")) -> GemmaArray(s)
               [] ty = <<>> /\ ~hasObject /\ ~Has(s, "items") -> Text(Ref("g-value"))
               [] ty = <<"string">> -> Text(Ref("g-string"))
               [] ty = <<"integer">> -> Text(Ref("j-integer"))
               [] ty = <<"number">> -> Text(Ref("j-number"))
               [] ty = <<"boolean">> -> Text(EitherBool)
               [] ty = <<"null">> -> Text(Lit(Null))
               [] OTHER -> Unwritable

(* The parameters themselves must be an object. *)
GemmaRoot(s) ==
    IF Has(s, "bool") THEN IF s.bool THEN Text(Ref("g-object")) ELSE Unwritable
    ELSE IF \/ ~(DOMAIN s \subseteq GEMMA_KEYWORDS)
            \/ {"anyOf", "oneOf", "enum", "const", "items"} \cap DOMAIN s # {}
            \/ Get(s, "type", <<"object">>) # <<"object">>
    THEN Unwritable
    ELSE IF ~Has(s, "type") /\ OBJECT_KEYWORDS \cap DOMAIN s = {} THEN Text(Ref("g-object"))
    ELSE GemmaValue(s)

-----------------------------------------------------------------------------
(* [ok, rules]: one root alternative per selected tool. *)
JsonAlternative(f, tool, i, st) ==
    LET g == GrammarShape(f)
        rule == "args-" \o ToString(i - 1)
        Around(r) ==
            [ok |-> r.ok, st |-> [r.st EXCEPT !.rules = (rule :> r.e) @@ @],
             e |-> CatAll(<<Lit(g.open), Lit(tool.name), Lit(g.between), Ref(rule),
                            IF g.close = <<>> THEN Empty ELSE Lit(g.close)>>)]
    IN  Around(compile(tool.parameters, rule, Get(tool.parameters, "defs", << >>), st))

GemmaAlternative(f, tool) ==
    LET Around(args) ==
            [ok |-> args.ok, e |-> CatAll(<<Lit(f.open), Lit(f.marker), Lit(tool.name), args.e, Lit(f.close)>>)]
    IN  Around(GemmaRoot(tool.parameters))

CallAlternative(f, tool, i, st) ==
    CASE f.shape = "XmlFunction" -> xml_call_alternative(f, tool.name, tool.parameters) @@ [st |-> st]
      [] f.shape = "CallThenJson" -> GemmaAlternative(f, tool) @@ [st |-> st]
      [] OTHER -> JsonAlternative(f, tool, i, st)

forced_call_grammar(f, tools, forced) ==
    LET chosen == selected_tools(tools, forced)
        st0 == [rules |-> GENERIC_RULES @@ push_gemma_rules, def_rules |-> {}]
        Added(a, r) == [ok |-> a.ok /\ r.ok, alts |-> Append(a.alts, r.e), st |-> r.st]
        Rooted(made) == [ok |-> made.ok, rules |-> ("root" :> JoinAlt(made.alts)) @@ made.st.rules]
    IN  Rooted(FoldLeftDomain(LAMBDA a, i : Added(a, CallAlternative(f, chosen[i], i, a.st)),
                              [ok |-> chosen # <<>>, alts |-> <<>>, st |-> st0], chosen))

-----------------------------------------------------------------------------
(* Reference: a call as the row's template writes it. *)
RECURSIVE GemmaText(_)
GemmaText(y) ==
    CASE y.t = "str" -> GQuote \o y.v \o GQuote
      [] y.t = "arr" -> <<LBracket>> \o Joined([i \in DOMAIN y.v |-> GemmaText(y.v[i])]) \o <<RBracket>>
      [] y.t = "obj" -> <<LBrace>> \o Joined([i \in DOMAIN y.v |->
                            y.v[i][1] \o <<Colon>> \o GemmaText(y.v[i][2])]) \o <<RBrace>>
      [] OTHER -> TextOf(y)
XmlText(y) == FlattenSeq([i \in DOMAIN y.v |-> ParameterOpen \o y.v[i][1] \o <<Gt>> \o ScalarText(y.v[i][2]) \o ParameterClose])
Written(f, name, y) ==
    CASE f.shape = "XmlFunction" -> f.open \o f.marker \o name \o <<Gt>> \o XmlText(y) \o FunctionClose \o f.close
      [] f.shape = "CallThenJson" -> f.open \o f.marker \o name \o GemmaText(y) \o f.close
      [] OTHER -> LET g == GrammarShape(f) IN g.open \o name \o g.between \o TextOf(y) \o g.close

(* The arguments a client should see for it. *)
RECURSIVE Denotes(_)
Denotes(y) ==
    CASE y.t = "obj" -> V("obj", FoldLeft(LAMBDA m, e : (e[1] :> Denotes(e[2])) @@ m, << >>, y.v))
      [] y.t = "arr" -> V("arr", [i \in DOMAIN y.v |-> Denotes(y.v[i])])
      [] y.t = "str" -> y
      [] y.t = "num" -> V("num", NumText(y.v))
      [] OTHER -> V("lit", TextOf(y))
Arguments(f, y) ==
    CASE f.shape = "XmlFunction" -> V("obj", FoldLeft(LAMBDA m, e : (e[1] :> ScalarText(e[2])) @@ m, << >>, y.v))
      [] f.shape = "CallThenJson" -> Denotes(y)
      [] OTHER -> TextOf(y)

(* Every call written the row's way is read back: its name and arguments,   *)
(* nothing of it in the content, whatever its strings spell (parse_block,   *)
(* GemmaJson, xml_step against the rows of format.rs).                      *)
CallReadBack(f, name, y) ==
    LET Read(p) == ~p.error /\ p.content = <<>> /\ p.calls = <<Call(name, Arguments(f, y))>>
    IN  Read(parse_completion(Written(f, name, y), f))

(* Under a forced call the model can only write what the parser reads as    *)
(* one call to a selected tool, with arguments its schema admits; and every *)
(* admitted value with all its declared members can be written              *)
(* (forced_call_grammar: "extraction and the constraint agree").            *)
ForcedCallParses(f, tools, forced, g, w) ==
    LET OneCall(p) ==
            /\ ~p.error /\ p.content = <<>> /\ Len(p.calls) = 1
            /\ \E i \in DOMAIN tools : /\ tools[i].name = p.calls[1].name
                                      /\ forced \in {<<>>, tools[i].name}
    IN  g.ok /\ Sentence(g.rules, w) => OneCall(parse_completion(w, f))

ForcedCallAdmits(f, tools, forced, g, name, y, others) ==
    LET Whole(q) == [i \in DOMAIN y.v |-> y.v[i][1]] = [i \in DOMAIN q |-> q[i][1]]
        (* The values z that are written as y is, and the tools t that admit them. *)
        Same(ws) == {z \in {y} \cup ToSet(others) : ws[z] = ws[y]}
        Admitted(s, same) == {a \in ToSet(s) \X same : a[1].name = name /\ Valid(a[1].parameters, a[2], << >>, {})}
        Agree(possible, admitted) ==
            /\ possible => admitted # {}
            /\ (\E a \in admitted : a[2] = y /\ Whole(Get(a[1].parameters, "properties", <<>>))) => possible
        Judged(ws) == Agree(Sentence(g.rules, ws[y]), Admitted(selected_tools(tools, forced), Same(ws)))
    IN  g.ok /\ Judged([z \in {y} \cup ToSet(others) |-> Written(f, name, z)])
=============================================================================
