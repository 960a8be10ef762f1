-------------------------------- MODULE Gbnf --------------------------------
(* GBNF expressions (grammar.rs): how the text binds, what program          *)
(* emit_node compiles an expression to, and what it means.                  *)
(*                                                                          *)
(* GBNF text is modelled after lexing: an expression is the sequence of its *)
(* `|` branches, a branch the sequence of its items, so that writing one    *)
(* text after another (Cat) binds exactly as the parser would bind it.      *)
EXTENDS Codepoints, TLC

Str(cps) == [k |-> "Str", cps |-> cps]
Class(neg, ranges) == [k |-> "Class", neg |-> neg, ranges |-> Ascending(ranges)]
AnyCp == [k |-> "Any"]
RuleRef(name) == [k |-> "Ref", name |-> name]
Unbounded == -1
Rep(item, m, n) == [k |-> "Rep", item |-> item, m |-> m, n |-> n]

(* One item, a parenthesised text, the empty text. *)
Item(i) == <<<<i>>>>
Group(e) == [k |-> "Alt", branches |-> e]
Paren(e) == Item(Group(e))
Empty == <<<<>>>>

(* a followed by b in the text; the texts of several joined with " | ".     *)
Cat(a, b) == Front(a) \o <<Last(a) \o b[1]>> \o Tail(b)
CatAll(texts) == FoldLeft(Cat, Empty, texts)
JoinAlt(texts) == FlattenSeq(texts)

-----------------------------------------------------------------------------
(* emit_node: the instructions of a node placed at address `at`. *)
RECURSIVE EmitNode(_, _), EmitSeq(_, _), EmitAlt(_, _)

EmitSeq(items, at) ==
    FoldLeft(LAMBDA prog, i : prog \o EmitNode(i, at + Len(prog)), <<>>, items)

EmitAlt(branches, at) ==
    IF Len(branches) = 1 THEN EmitSeq(branches[1], at)
    ELSE LET body == EmitSeq(branches[1], at + 1)
             next == at + Len(body) + 2
             rest == EmitAlt(Tail(branches), next)
         IN  <<[k |-> "Split", a |-> at + 1, b |-> next]>> \o body
             \o <<[k |-> "Jump", a |-> next + Len(rest)]>> \o rest

(* `x?` at an address: a branch around one copy. *)
EmitOpt(node, at) ==
    LET body == EmitNode(node, at + 1)
    IN  <<[k |-> "Split", a |-> at + 1, b |-> at + 1 + Len(body)]>> \o body

EmitNode(node, at) ==
    CASE node.k = "Str" -> [i \in DOMAIN node.cps |-> [k |-> "Cp", cp |-> node.cps[i]]]
      [] node.k \in {"Class", "Any"} -> <<node>>
      [] node.k = "Ref" -> <<[k |-> "Call", rule |-> node.name]>>
      [] node.k = "Alt" -> EmitAlt(node.branches, at)
      [] node.k = "Rep" ->
           LET must == EmitSeq([i \in 1..node.m |-> node.item], at)
               loop == at + Len(must)
               body == EmitNode(node.item, loop + 1)
           IN  IF node.n = Unbounded
               THEN must \o <<[k |-> "Split", a |-> loop + 1, b |-> loop + Len(body) + 2]>>
                    \o body \o <<[k |-> "Jump", a |-> loop]>>
               ELSE FoldLeft(LAMBDA prog, i : prog \o EmitOpt(node.item, at + Len(prog)),
                             must, [i \in 1..(node.n - node.m) |-> i])

Compile(body) == Append(EmitAlt(body, 1), [k |-> "Ret"])

-----------------------------------------------------------------------------
(* Reference: the positions a text can have reached after an expression     *)
(* that starts at position i, by the meaning of each construct.             *)
RECURSIVE Ends(_, _, _, _), SeqEnds(_, _, _, _), RepEnds(_, _, _, _, _)
SeqEnds(rules, items, w, starts) ==
    IF items = <<>> THEN starts
    ELSE SeqEnds(rules, Tail(items), w, UNION {Ends(rules, items[1], w, i) : i \in starts})

RepEnds(rules, node, w, starts, done) ==
    LET more == UNION {Ends(rules, node.item, w, i) : i \in starts}
    IN  IF node.n # Unbounded /\ done = node.n THEN starts
        ELSE IF done < node.m THEN RepEnds(rules, node, w, more, done + 1)
        ELSE IF more \subseteq starts THEN starts
        ELSE RepEnds(rules, node, w, starts \cup more, done + 1)

Ends(rules, node, w, i) ==
    CASE node.k = "Str" -> IF IsPrefix(node.cps, SubSeq(w, i, Len(w))) THEN {i + Len(node.cps)} ELSE {}
      [] node.k = "Class" -> IF i <= Len(w) /\ InRanges(w[i], node.ranges) # node.neg THEN {i + 1} ELSE {}
      [] node.k = "Any" -> IF i <= Len(w) THEN {i + 1} ELSE {}
      [] node.k = "Ref" -> Ends(rules, Group(rules[node.name]), w, i)
      [] node.k = "Alt" -> UNION {SeqEnds(rules, node.branches[b], w, {i}) : b \in DOMAIN node.branches}
      [] node.k = "Rep" -> RepEnds(rules, node, w, {i}, 0)

Sentence(rules, w) == (Len(w) + 1) \in Ends(rules, RuleRef("root"), w, 1)
=============================================================================
