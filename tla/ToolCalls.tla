----------------------------- MODULE ToolCalls ------------------------------
(* Reading tool calls out of a completion (server/toolcall.rs).  The text   *)
(* arrives in chunks cut anywhere; the parser keeps what is not final in    *)
(* `buf` and hands out content and calls.  One row of the format table says *)
(* how a model family writes a call.                                        *)
(*                                                                          *)
(* The rows' tags keep their structure and shared prefixes but are          *)
(* shortened: <tool_call> is "<T>", </parameter> "</P>", [TOOL_CALLS] "[T]",*)
(* the keys "name" and "arguments" are "n" and "a".  Arguments that the     *)
(* code keeps as source text are that text; a map it would serialise again  *)
(* is a function from keys to values.                                       *)
EXTENDS JsonSchema

Lt == 60
Gt == 62
Semi == 59
Tag(c) == <<Lt, c, Gt>>
EndTag(c) == <<Lt, Slash, c, Gt>>
Field(c) == <<Lt, c, 61>>
Bracketed(c) == <<LBracket, c, RBracket>>

Row(shape, anchors, without, open, close_, marker, args_key) ==
    [shape |-> shape, anchors |-> anchors, without |-> without, open |-> open, close |-> close_,
     marker |-> marker, name_key |-> <<110>>, args_key |-> <<args_key>>]
QWEN == Row("ObjectThenClose", {Tag(84)}, {}, Tag(84), EndTag(84), <<>>, 97)
MISTRAL_NEMO == Row("ArrayAtEos", {Bracketed(84)}, {Bracketed(65)}, Bracketed(84), <<>>, <<>>, 97)
MISTRAL3 == Row("NameThenArgs", {Bracketed(84), Bracketed(65)}, {}, Bracketed(84), <<>>, Bracketed(65), 97)
LLAMA31 == Row("ObjectUntilNextOpen", {<<Lt, Bar, 80>>}, {}, <<Lt, Bar, 80>>, <<>>, <<Semi>>, 112)
QWEN35 == Row("XmlFunction", {Tag(84), Field(70)}, {}, Tag(84), EndTag(84), Field(70), 97)
GEMMA4 == Row("CallThenJson", {<<Lt, Bar, 84>>, <<99, Colon>>}, {}, <<Lt, Bar, 84>>, <<Lt, 84, Bar>>,
              <<99, Colon>>, 97)
FunctionClose == EndTag(70)
ParameterOpen == Field(80)
ParameterClose == EndTag(80)
GQuote == <<Lt, Bar, Quote>>
FORMATS == <<GEMMA4, QWEN35, MISTRAL3, MISTRAL_NEMO, LLAMA31, QWEN>>

-----------------------------------------------------------------------------
(* Positions in a text.  Past the end there is Nothing. *)
Nothing == -1
Space == {9, 10, 13, 32}
From(w, i) == SubSeq(w, i, Len(w))
CharAt(w, i) == IF i <= Len(w) THEN w[i] ELSE Nothing
Starts(w, i, tag) == i + Len(tag) - 1 <= Len(w) /\ \A k \in DOMAIN tag : w[i + k - 1] = tag[k]
(* The text ends inside a tag that would start here. *)
CutIn(w, i, tag) == i \in (Len(w) - Len(tag) + 1)..Len(w) /\ IsPrefix(From(w, i), tag)
Finds(w, i, tag) == {j \in i..Len(w) : Starts(w, j, tag)}
Skip(w, i) == IF CharAt(w, i) \notin Space THEN i ELSE Min({j \in i..(Len(w) + 1) : CharAt(w, j) \notin Space})
TrimStart(w) == From(w, Skip(w, 1))
TrimEnd(w) == SubSeq(w, 1, Max({i \in DOMAIN w : w[i] \notin Space} \cup {0}))
Trim(w) == TrimStart(TrimEnd(w))

Comments == <<<<LBrace, 35>>, <<35, RBrace>>>>
RECURSIVE without_jinja_comments(_)
without_jinja_comments(w) ==
    LET opens == Finds(w, 1, Comments[1])
        closes == Finds(w, Min(opens) + 2, Comments[2])
    IN  IF opens = {} THEN w
        ELSE SubSeq(w, 1, Min(opens) - 1)
             \o (IF closes = {} THEN <<>> ELSE without_jinja_comments(From(w, Min(closes) + 2)))

Holds(w, tag) == Finds(w, 1, tag) # {}
(* The first row whose anchors the template mentions; 0 when none does. *)
detect(template) ==
    LET w == without_jinja_comments(template)
        fits == {i \in DOMAIN FORMATS : /\ \A a \in FORMATS[i].anchors : Holds(w, a)
                                        /\ \A a \in FORMATS[i].without : ~Holds(w, a)}
    IN  IF fits = {} THEN 0 ELSE Min(fits)

(* A template that spells a row's anchors selects that row, whatever other   *)
(* format a comment of it mentions (detect: the more specific row is first). *)
Mentions(row) == FlattenSeq(SetToSeq(row.anchors))
RowDetected(i) ==
    \A row \in Range(FORMATS) :
        detect(Comments[1] \o Mentions(row) \o Comments[2] \o Mentions(FORMATS[i])) = i

-----------------------------------------------------------------------------
(* JSON values at a position: "serde" for JSON proper, "gemma" for the      *)
(* lenient dialect.  A result is the value and the position after it, Eof   *)
(* when the text ends too early, or Bad.  A member keeps its source text.   *)
Eof == [st |-> "eof"]
Bad == [st |-> "bad"]
Got(v, at) == [st |-> "ok", v |-> v, at |-> at]
V(t, v) == [t |-> t, v |-> v]

Unescaped(s) ==
    FoldLeft(LAMBDA a, c :
        IF a.esc THEN LET hit == {i \in DOMAIN ShortEscapes : ShortEscapes[i][2] = c}
                      IN  [ok |-> a.ok /\ hit # {}, esc |-> FALSE,
                           s |-> IF hit = {} THEN a.s ELSE Append(a.s, ShortEscapes[Min(hit)][1])]
        ELSE IF c = Backslash THEN [a EXCEPT !.esc = TRUE]
        ELSE [a EXCEPT !.ok = @ /\ c >= 32, !.s = Append(@, c)],
        [ok |-> TRUE, esc |-> FALSE, s |-> <<>>], s)

(* The closing quotes of a string opened at i: those after an even number   *)
(* of backslashes.                                                          *)
Closing(w, i) ==
    {j \in (i + 1)..Len(w) : /\ w[j] = Quote
                             /\ LET b == Max({k \in i..(j - 1) : w[k] # Backslash})
                                IN  ((j - 1 - b) % 2) = 0}

(* Mutant of ReadString: the first quote ends the string. *)
ReadStringUnescaped(w, i) ==
    LET ends == {j \in (i + 1)..Len(w) : w[j] = Quote}
    IN  IF ends = {} THEN Eof ELSE Got(V("str", SubSeq(w, i + 1, Min(ends) - 1)), Min(ends) + 1)

ReadString(w, i) ==
    LET delims == Finds(w, i + 3, GQuote)
        ends == Closing(w, i)
        s == Unescaped(SubSeq(w, i + 1, Min(ends) - 1))
    IN  IF Starts(w, i, GQuote)
        THEN IF delims = {} THEN Eof ELSE Got(V("str", SubSeq(w, i + 3, Min(delims) - 1)), Min(delims) + 3)
        ELSE IF CharAt(w, i) # Quote THEN Bad
        ELSE IF ends = {} THEN Eof
        ELSE IF s.ok THEN Got(V("str", s.s), Min(ends) + 1) ELSE Bad

(* The lenient dialect waits at the end of the buffer for the digit that    *)
(* must follow a sign, a point or an exponent; serde_json calls such a      *)
(* number a syntax error, not an end of file.                               *)
NumberChars == (48..57) \cup {Minus, Plus, 46, 69, 101}
IsNumber(s) == Sentence(("root" :> Ref("j-number")) @@ GENERIC_RULES, s)
ReadNumber(d, w, i) ==
    LET at == Min({j \in i..(Len(w) + 1) : CharAt(w, j) \notin NumberChars})
        s == SubSeq(w, i, at - 1)
    IN  IF d = "gemma" /\ at > Len(w) /\ Last(s) \notin 48..57 THEN Eof
        ELSE IF IsNumber(s) THEN Got(V("num", s), at) ELSE Bad

KeyChars == (48..57) \cup (65..90) \cup (97..122) \cup {95}
ReadKey(d, w, i) ==
    LET at == Min({j \in i..(Len(w) + 1) : CharAt(w, j) \notin KeyChars})
    IN  IF CharAt(w, i) = Quote \/ (d = "gemma" /\ Starts(w, i, GQuote)) THEN ReadString(w, i)
        ELSE IF d = "serde" THEN Bad
        ELSE IF CutIn(w, i, GQuote) THEN Eof
        ELSE IF at = i THEN Bad ELSE Got(V("str", SubSeq(w, i, at - 1)), at)

(* `seen` is what the object or array holds so far; a closing bracket may   *)
(* follow a comma only in the lenient dialect.                              *)
RECURSIVE ReadValue(_, _, _), ReadObject(_, _, _, _), ReadArray(_, _, _, _)
ReadObject(d, w, i, seen) ==
    LET j == Skip(w, i)
        Separated(n, all) == CASE CharAt(w, n) = Nothing -> Eof
                          [] CharAt(w, n) = Comma -> ReadObject(d, w, n + 1, all)
                          [] CharAt(w, n) = RBrace -> Got(V("obj", all), n + 1)
                          [] OTHER -> Bad
        Member(k, from, x) ==
            IF x.st # "ok" THEN x
            ELSE Separated(Skip(w, x.at), (k :> [v |-> x.v, raw |-> SubSeq(w, from, x.at - 1)]) @@ seen)
        Named(k, from) == Member(k, from, ReadValue(d, w, from))
        Colons(k, colon) ==
            IF CharAt(w, colon) # Colon THEN IF colon > Len(w) THEN Eof ELSE Bad
            ELSE Named(k.v.v, Skip(w, colon + 1))
        WithKey(k) == IF k.st # "ok" THEN k ELSE Colons(k, Skip(w, k.at))
    IN  CASE CharAt(w, j) = Nothing -> Eof
          [] CharAt(w, j) = RBrace /\ (d = "gemma" \/ CharAt(w, i - 1) = LBrace) -> Got(V("obj", seen), j + 1)
          [] OTHER -> WithKey(ReadKey(d, w, j))

ReadArray(d, w, i, seen) ==
    LET j == Skip(w, i)
        Separated(n, all) == CASE CharAt(w, n) = Nothing -> Eof
                          [] CharAt(w, n) = Comma -> ReadArray(d, w, n + 1, all)
                          [] CharAt(w, n) = RBracket -> Got(V("arr", all), n + 1)
                          [] OTHER -> Bad
        Element(x) == IF x.st # "ok" THEN x ELSE Separated(Skip(w, x.at), Append(seen, x.v))
    IN  CASE CharAt(w, j) = Nothing -> Eof
          [] CharAt(w, j) = RBracket /\ (d = "gemma" \/ CharAt(w, i - 1) = LBracket) -> Got(V("arr", seen), j + 1)
          [] OTHER -> Element(ReadValue(d, w, j))

Literals == {True, False, Null}
ReadValue(d, w, i) ==
    LET j == Skip(w, i)
        whole == {t \in Literals : Starts(w, j, t)}
    IN  CASE CharAt(w, j) = Nothing -> Eof
          [] CharAt(w, j) = Quote \/ (d = "gemma" /\ Starts(w, j, GQuote)) -> ReadString(w, j)
          [] d = "gemma" /\ CutIn(w, j, GQuote) -> Eof
          [] CharAt(w, j) = LBrace -> ReadObject(d, w, j + 1, << >>)
          [] CharAt(w, j) = LBracket -> ReadArray(d, w, j + 1, <<>>)
          [] CharAt(w, j) \in {Minus} \cup (48..57) -> ReadNumber(d, w, j)
          [] OTHER -> IF whole # {} THEN LET t == CHOOSE t \in whole : TRUE IN Got(V("lit", t), j + Len(t))
                      ELSE IF \E t \in Literals : CutIn(w, j, t) THEN Eof ELSE Bad

-----------------------------------------------------------------------------
(* A call out of a value the code read: [ok, calls]. *)
Refused == [ok |-> FALSE, calls |-> <<>>]
Calls(cs) == [ok |-> TRUE, calls |-> cs]
Call(name, arguments) == [name |-> name, arguments |-> arguments]

(* A string argument is its decoded text, anything else its source. *)
ArgumentText(x, raw) == IF x.t = "str" THEN x.v ELSE raw

call_from_object(x, f) ==
    LET name == x.v[f.name_key].v
        args == x.v[f.args_key]
    IN  IF \/ x.t # "obj"
           \/ ~({f.name_key, f.args_key} \subseteq DOMAIN x.v)
           \/ name.t # "str" \/ Trim(name.v) = <<>> \/ args.raw = Null
        THEN Refused
        ELSE Calls(<<Call(name.v, ArgumentText(args.v, args.raw))>>)

parse_call_array(x, f) ==
    LET each == [i \in DOMAIN x.v |-> call_from_object(x.v[i], f)]
    IN  IF x.t # "arr" \/ x.v = <<>> \/ (\E i \in DOMAIN x.v : ~each[i].ok) THEN Refused
        ELSE Calls(FlattenSeq([i \in DOMAIN each |-> each[i].calls]))

call_from_arguments(name, x, raw) ==
    IF raw = Null THEN Refused ELSE Calls(<<Call(name, ArgumentText(x, raw))>>)

(* What a map means once serialised: the members' values. *)
RECURSIVE Meaning(_)
Meaning(x) ==
    CASE x.t = "obj" -> V("obj", [k \in DOMAIN x.v |-> Meaning(x.v[k].v)])
      [] x.t = "arr" -> V("arr", [i \in DOMAIN x.v |-> Meaning(x.v[i])])
      [] OTHER -> x
call_from_value(name, x) == Calls(<<Call(name, Meaning(x))>>)
xml_call(name, args) == Calls(<<Call(name, V("obj", args))>>)

-----------------------------------------------------------------------------
(* The parser: buf, in_block, after_call, error, and what it has handed     *)
(* out.  A step answers [p, go]: go says it may take another.               *)
NewParser == [buf |-> <<>>, in_block |-> FALSE, after_call |-> FALSE, error |-> FALSE,
              content |-> <<>>, calls |-> <<>>]
Stop(p) == [p |-> p, go |-> FALSE]
Go(p) == [p |-> p, go |-> TRUE]
Fail(p) == Stop([p EXCEPT !.error = TRUE])
(* More text may complete it; at the end of the completion it is truncated. *)
Wait(p, eos) == IF eos THEN Fail(p) ELSE Stop(p)

(* The calls are handed out and the text before `at` is consumed. *)
Emit(p, found, at, inside) ==
    IF ~found.ok THEN Fail(p)
    ELSE Go([p EXCEPT !.calls = @ \o found.calls, !.buf = From(@, at), !.in_block = inside,
                      !.after_call = IF inside THEN @ ELSE TRUE])

(* Mutant of Ended: a complete call is handed out before its close arrives, *)
(* and the rest of the buffer dropped.                                      *)
EndedEarly(p, found, at, tag, inside, eos) ==
    IF Starts(p.buf, at, tag) THEN Emit(p, found, at + Len(tag), inside)
    ELSE IF at > Len(p.buf) \/ CutIn(p.buf, at, tag) THEN Emit(p, found, Len(p.buf) + 1, FALSE)
    ELSE Fail(p)

(* What follows a complete call must be `tag`; at the end of the completion *)
(* a part of it, or nothing, will do.                                       *)
Ended(p, found, at, tag, inside, eos) ==
    IF Starts(p.buf, at, tag) THEN Emit(p, found, at + Len(tag), inside)
    ELSE IF at > Len(p.buf) \/ CutIn(p.buf, at, tag)
    THEN IF eos THEN Emit(p, found, Len(p.buf) + 1, FALSE) ELSE Stop(p)
    ELSE Fail(p)

-----------------------------------------------------------------------------
longest_suffix_prefix(w, tag) ==
    Max({k \in 1..Min({Len(tag) - 1, Len(w)}) : From(w, Len(w) - k + 1) = SubSeq(tag, 1, k)} \cup {0})

(* Mutant of Held: only the tag's beginning is held, not the space before. *)
HeldTagOnly(p, f) ==
    IF p.after_call /\ Trim(p.buf) = <<>> THEN Len(p.buf) ELSE longest_suffix_prefix(p.buf, f.open)

(* What may still turn out to belong to a call: a suffix that could become  *)
(* the opening tag with the space before it; after a call, all-space text.  *)
Held(p, f) ==
    LET k == longest_suffix_prefix(p.buf, f.open)
        before == SubSeq(p.buf, 1, Len(p.buf) - k)
    IN  IF p.after_call /\ Trim(p.buf) = <<>> THEN Len(p.buf) ELSE k + Len(before) - Len(TrimEnd(before))

content_step(p, f, eos) ==
    LET opens == Finds(p.buf, 1, f.open)
        Leading(w) == IF p.after_call THEN TrimStart(w) ELSE w
        cut == Len(p.buf) - (IF eos THEN 0 ELSE Held(p, f))
    IN  IF opens # {}
        THEN Go([p EXCEPT !.content = @ \o TrimEnd(Leading(SubSeq(p.buf, 1, Min(opens) - 1))),
                          !.buf = From(@, Min(opens) + Len(f.open)),
                          !.in_block = TRUE, !.after_call = FALSE])
        ELSE IF cut = 0 THEN Stop(p)
        ELSE Stop([p EXCEPT !.content = @ \o Leading(SubSeq(p.buf, 1, cut)),
                            !.buf = From(@, cut + 1), !.after_call = FALSE])

(* Parameters from position i up to the function's close: the map and the   *)
(* position after it.                                                       *)
RECURSIVE XmlParameters(_, _, _)
XmlParameters(w, i, args) ==
    LET j == Skip(w, i)
        named == Finds(w, j, <<Gt>>)
        key == Trim(SubSeq(w, j + Len(ParameterOpen), Min(named) - 1))
        ends == Finds(w, Min(named) + 1, ParameterClose)
        text == Trim(SubSeq(w, Min(named) + 1, Min(ends) - 1))
    IN  IF Starts(w, j, FunctionClose) THEN Got(args, j + Len(FunctionClose))
        ELSE IF Starts(w, j, ParameterOpen)
        THEN IF named = {} THEN Eof
             ELSE IF key = <<>> THEN Bad
             ELSE IF ends = {} THEN Eof
             ELSE XmlParameters(w, Min(ends) + Len(ParameterClose), (key :> text) @@ args)
        ELSE IF j > Len(w) \/ CutIn(w, j, ParameterOpen) \/ CutIn(w, j, FunctionClose) THEN Eof ELSE Bad

(* A step that read r: hold on Eof, refuse on Bad. *)
Unread(p, r, eos) == IF r.st = "eof" THEN Wait(p, eos) ELSE Fail(p)

xml_step(p, f, eos) ==
    LET w == p.buf
        j == Skip(w, 1)
        ends == Finds(w, j + Len(f.marker), <<Gt>>)
        name == Trim(SubSeq(w, j + Len(f.marker), Min(ends) - 1))
        Read(r) == IF r.st # "ok" THEN Unread(p, r, eos)
                   ELSE Ended(p, xml_call(name, r.v), Skip(w, r.at), f.close, FALSE, eos)
    IN  IF ~Starts(w, j, f.marker) THEN IF CutIn(w, j, f.marker) THEN Wait(p, eos) ELSE Fail(p)
        ELSE IF ends = {} THEN Wait(p, eos)
        ELSE IF name = <<>> THEN Fail(p)
        ELSE Read(XmlParameters(w, Min(ends) + 1, << >>))

(* Where the JSON of a block begins; the shapes below are given what is     *)
(* read there, r.                                                           *)
BodyAt(w, f) ==
    CASE f.shape = "NameThenArgs" -> Skip(w, Min(Finds(w, Skip(w, 1), f.marker)) + Len(f.marker))
      [] f.shape = "CallThenJson" -> Min(Finds(w, Skip(w, 1) + Len(f.marker), <<LBrace>>))
      [] OTHER -> 1
Body(w, f) == ReadValue(IF f.shape = "CallThenJson" THEN "gemma" ELSE "serde", w, BodyAt(w, f))

name_args_step(p, f, eos, r) ==
    LET w == p.buf
        j == Skip(w, 1)
        marks == Finds(w, j, f.marker)
        name == Trim(SubSeq(w, j, Min(marks) - 1))
    IN  IF marks = {} THEN Wait(p, eos)
        ELSE IF name = <<>> THEN Fail(p)
        ELSE IF r.st # "ok" THEN Unread(p, r, eos)
        ELSE Ended(p, call_from_arguments(name, r.v, SubSeq(w, BodyAt(w, f), r.at - 1)),
                   Skip(w, r.at), f.open, TRUE, eos)

call_then_json_step(p, f, eos, r) ==
    LET w == p.buf
        j == Skip(w, 1)
        braces == Finds(w, j + Len(f.marker), <<LBrace>>)
        name == Trim(SubSeq(w, j + Len(f.marker), Min(braces) - 1))
    IN  IF ~Starts(w, j, f.marker) THEN IF CutIn(w, j, f.marker) THEN Wait(p, eos) ELSE Fail(p)
        ELSE IF braces = {} THEN Wait(p, eos)
        ELSE IF name = <<>> THEN Fail(p)
        ELSE IF r.st # "ok" THEN Unread(p, r, eos)
        ELSE Ended(p, call_from_value(name, r.v), Skip(w, r.at), f.close, FALSE, eos)

(* The JSON body of the three other shapes; a separator and the next        *)
(* opening tag may follow an object of ObjectUntilNextOpen.                 *)
json_step(p, f, eos, r) ==
    LET w == p.buf
        Separated(tail) == IF Starts(w, tail, f.marker) THEN Skip(w, tail + Len(f.marker)) ELSE tail
        Object(found, tail) ==
            CASE f.shape = "ObjectThenClose" -> Ended(p, found, tail, f.close, FALSE, eos)
              [] f.shape = "ObjectUntilNextOpen" ->
                    IF ~found.ok THEN Fail(p) ELSE Ended(p, found, Separated(tail), f.open, TRUE, eos)
    IN  IF r.st # "ok" THEN Unread(p, r, eos)
        ELSE IF f.shape = "ArrayAtEos" THEN Emit(p, parse_call_array(r.v, f), r.at, FALSE)
        ELSE Object(call_from_object(r.v, f), Skip(w, r.at))

block_step(p, f, eos) ==
    LET WithBody(r) == CASE f.shape = "NameThenArgs" -> name_args_step(p, f, eos, r)
                         [] f.shape = "CallThenJson" -> call_then_json_step(p, f, eos, r)
                         [] OTHER -> json_step(p, f, eos, r)
    IN  IF Trim(p.buf) = <<>> THEN Wait(p, eos)
        ELSE IF f.shape = "XmlFunction" THEN xml_step(p, f, eos)
        ELSE WithBody(Body(p.buf, f))

RECURSIVE pump(_, _, _)
pump(p, f, eos) ==
    LET After(r) == IF r.go THEN pump(r.p, f, eos) ELSE r.p
    IN  After(IF p.in_block THEN block_step(p, f, eos) ELSE content_step(p, f, eos))

Advance(p, f, chunk, eos) == IF p.error THEN p ELSE pump([p EXCEPT !.buf = @ \o chunk], f, eos)
feed(p, f, chunk) == Advance(p, f, chunk, FALSE)
finish(p, f) == Advance(p, f, <<>>, TRUE)
(* All of the text, then the end. *)
parse_completion(w, f) ==
    FoldLeft(LAMBDA p, eos : Advance(p, f, IF eos THEN <<>> ELSE w, eos), NewParser, <<FALSE, TRUE>>)

-----------------------------------------------------------------------------
CONSTANTS Completions,          \* the <<row, completion>> pairs considered
          Chunks                \* the lengths of a chunk, besides all the rest

VARIABLES reply, fed, parser, over
toolVars == <<reply, fed, parser, over>>

Init == /\ reply \in Completions
        /\ fed = 0 /\ parser = NewParser /\ over = FALSE

(* The generation loop hands over the next n characters. *)
Feed(n) ==
    /\ ~over /\ fed + n <= Len(reply[2])
    /\ parser' = feed(parser, reply[1], SubSeq(reply[2], fed + 1, fed + n))
    /\ fed' = fed + n
    /\ UNCHANGED <<reply, over>>

Finish ==
    /\ ~over /\ fed = Len(reply[2])
    /\ parser' = finish(parser, reply[1]) /\ over' = TRUE
    /\ UNCHANGED <<reply, fed>>

Next == Finish \/ \E n \in (Chunks \cup {Len(reply[2]) - fed}) \ {0} : Feed(n)
Spec == Init /\ [][Next]_toolVars

(* The chunk that made the parser refuse ended inside a number, where only  *)
(* a digit may follow.                                                      *)
RefusedInNumber ==
    LET w == parser.buf
    IN  /\ parser.error /\ reply[1].shape \notin {"CallThenJson", "XmlFunction"}
        /\ \E i \in DOMAIN w : /\ w[i] \in {Minus} \cup (48..57) /\ (i = 1 \/ w[i - 1] \notin NumberChars)
                               /\ \A j \in i..Len(w) : w[j] \in NumberChars
                               /\ w[Len(w)] \notin 48..57

SameAs(whole, refused) ==
    /\ ~whole.error => /\ parser.error => refused
                       /\ IsPrefix(parser.content, whole.content)
                       /\ IsPrefix(parser.calls, whole.calls)
    /\ over /\ ~refused => /\ parser.error = whole.error
                           /\ ~whole.error => parser.content = whole.content /\ parser.calls = whole.calls

(* What the module says: "the generation loop emits text in arbitrary UTF-8 *)
(* chunks", and the body of a block is read "only once the JSON value is    *)
(* complete", so the chunks make no difference.  In the rows serde_json     *)
(* reads, a chunk that ends after the sign of a number does (raw_value_len).*)
ChunksNeverMatter == SameAs(parse_completion(reply[2], reply[1]), FALSE)

(* However the text is cut into chunks, what was handed out so far is the   *)
(* beginning of what the whole text read at once gives, and at the end it   *)
(* is all of it; the two refuse the same texts, but for the chunk that ends *)
(* inside a number of a JSON row, which is refused (feed, finish, and the   *)
(* non-streaming parse_completion).                                         *)
ChunkingInvisible == SameAs(parse_completion(reply[2], reply[1]), RefusedInNumber)
=============================================================================
