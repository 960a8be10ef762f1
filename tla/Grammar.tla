------------------------------ MODULE Grammar ------------------------------
(* Grammar-constrained decoding (grammar.rs): compiled rules run as a set   *)
(* of call stacks over the codepoints of the sampled pieces, and the token  *)
(* mask of each state.                                                      *)
EXTENDS Gbnf

(* A compiled grammar: [rules: name -> program, pieces: id -> bytes, eog].  *)
(* A frame is <<rule, pc>>; a stack is a sequence of frames, current last.  *)
CONSTANTS MaxStackDepth, MaxStacks

Inst(g, st) == g.rules[Last(st)[1]][Last(st)[2]]
SetPc(st, pc) == [st EXCEPT ![Len(st)] = <<@[1], pc>>]

(* Where one stack goes without consuming; the stack itself when it waits   *)
(* for input or has finished the root rule.                                 *)
Flow(g, st) ==
    LET i == Inst(g, st)
    IN  CASE i.k = "Split" -> {SetPc(st, i.a), SetPc(st, i.b)}
          [] i.k = "Jump" -> {SetPc(st, i.a)}
          [] i.k = "Call" -> {Append(SetPc(st, Last(st)[2] + 1), <<i.rule, 1>>)}
          [] i.k = "Ret" -> IF Len(st) = 1 THEN {st} ELSE {Front(st)}
          [] OTHER -> {st}

RECURSIVE Closure(_, _, _)
Closure(g, work, seen) ==
    IF work = {} \/ \E st \in work : Len(st) > MaxStackDepth THEN seen \cup work
    ELSE LET all == seen \cup work
         IN  Closure(g, UNION {Flow(g, st) : st \in work} \ all, all)

(* close: the stacks that wait for input or have finished; refused when the *)
(* recursion consumes nothing or the stacks are too many.                   *)
close(g, stacks) ==
    LET Kept(all, out) == [ok |-> (\A st \in all : Len(st) <= MaxStackDepth) /\ Cardinality(out) <= MaxStacks,
                           stacks |-> out]
        Of(all) == Kept(all, {st \in all : Len(st) <= MaxStackDepth /\ Flow(g, st) = {st}})
    IN  Of(Closure(g, stacks, {}))

Consumes(i, cp) ==
    CASE i.k = "Cp" -> i.cp = cp
      [] i.k = "Any" -> TRUE
      [] i.k = "Class" -> InRanges(cp, i.ranges) # i.neg
      [] OTHER -> FALSE

step(g, stacks, cp) ==
    LET Closed(next) == IF next = {} THEN [ok |-> FALSE, stacks |-> {}] ELSE close(g, next)
    IN  Closed({SetPc(st, Last(st)[2] + 1) : st \in {s \in stacks : Consumes(Inst(g, s), cp)}})

(* any_stack_accepts_plain_range: can a stack consume a codepoint of lo..hi? *)
AcceptsRange(g, stacks, r) ==
    \E st \in stacks :
        LET i == Inst(g, st)
        IN  CASE i.k = "Any" -> TRUE
              [] i.k = "Cp" -> i.cp \in r[1]..r[2]
              [] i.k = "Class" -> IF i.neg THEN ~covers(i.ranges, r[1], r[2])
                                  ELSE \E j \in DOMAIN i.ranges :
                                         i.ranges[j][1] <= r[2] /\ i.ranges[j][2] >= r[1]
              [] OTHER -> FALSE

(* Mutant of partial_can_complete: every cut character is let through. *)
partial_can_completeAlways(g, stacks, partial) == TRUE

partial_can_complete(g, stacks, partial) ==
    \E r \in ToSet(completion_range(partial)) :
        \E part \in ToSet(non_surrogate_parts(r[1], r[2])) : AcceptsRange(g, stacks, part)

(* consume: the carried bytes and the piece, codepoint by codepoint; the    *)
(* tail of an incomplete character is carried on.                           *)
RECURSIVE Walk(_, _, _)
Walk(g, stacks, bytes) ==
    LET fail == [ok |-> FALSE, stacks |-> {}, partial |-> <<>>]
        On(s, n) == IF s.ok THEN Walk(g, s.stacks, SubSeq(bytes, n + 1, Len(bytes))) ELSE fail
        Char(d) == CASE d.k = "Cp" -> On(step(g, stacks, d.cp), d.n)
                     [] d.k = "Incomplete" ->
                          IF partial_can_complete(g, stacks, bytes)
                          THEN [ok |-> TRUE, stacks |-> stacks, partial |-> bytes] ELSE fail
                     [] d.k = "Invalid" -> fail
    IN  IF bytes = <<>> THEN [ok |-> TRUE, stacks |-> stacks, partial |-> <<>>] ELSE Char(decode_at(bytes))

consume(g, key, bytes) == Walk(g, key.stacks, key.partial \o bytes)

state_key_accepting(g, key) ==
    /\ ~key.done /\ key.partial = <<>>
    /\ \E st \in key.stacks : Len(st) = 1 /\ Inst(g, st).k = "Ret"

(* from_gbnf checks that every rule's start can be closed. *)
Compiles(g) == \A r \in DOMAIN g.rules : close(g, {<<<<r, 1>>>>}).ok

InitialKey(g) == [stacks |-> close(g, {<<<<"root", 1>>>>}).stacks, partial |-> <<>>, done |-> FALSE]

-----------------------------------------------------------------------------
(* The mask.  first_codepoints: what the frontier can consume next, unless  *)
(* it is wide.                                                              *)
first_codepoints(g, stacks) ==
    LET insts == {Inst(g, st) : st \in stacks}
        Ranges(i) == IF i.k = "Cp" THEN (IF i.cp \in SurLo..SurHi THEN <<>> ELSE <<<<i.cp, i.cp>>>>)
                     ELSE FlattenSeq([j \in DOMAIN i.ranges |->
                            non_surrogate_parts(i.ranges[j][1], i.ranges[j][2])])
        narrow == {i \in insts : i.k \in {"Cp", "Class"}}
    IN  [wide |-> \E i \in insts : i.k = "Any" \/ (i.k = "Class" /\ i.neg),
         ranges |-> merge_ranges(FlattenSeq(Listed({Ranges(i) : i \in narrow})))]

Width(ranges) == FoldLeft(LAMBDA n, r : n + (r[2] - r[1] + 1), 0, ranges)

Ids(g) == DOMAIN g.pieces
Indexed(g) == {id \in Ids(g) \ g.eog : g.pieces[id] # <<>>}

(* TokenIndex::build: the tokens that start with one codepoint, and those   *)
(* whose first character is cut.                                            *)
BucketIds(g) == {id \in Indexed(g) : decode_at(g.pieces[id]).k = "Cp"}
Buckets(g) == {decode_at(g.pieces[id]).cp : id \in BucketIds(g)}
Headless(g) == {id \in Indexed(g) : decode_at(g.pieces[id]).k = "Incomplete"}

allows(g, key, id) == Walk(g, key.stacks, g.pieces[id]).ok

eog_bits(g, key, accepting) == IF key.done \/ accepting THEN g.eog ELSE {}

mask_whole(g, key, accepting) ==
    eog_bits(g, key, accepting)
    \cup IF key.done THEN {} ELSE {id \in Indexed(g) : consume(g, key, g.pieces[id]).ok}

(* Few accepted codepoints: their buckets; else one range test per bucket.  *)
mask_buckets(g, key, accepting, ranges) ==
    LET Hit(buckets) == {cp \in buckets : IF Width(ranges) <= Cardinality(buckets)
                                          THEN InRanges(cp, ranges) ELSE set_contains(ranges, cp)}
        Within(hit) == {id \in BucketIds(g) : decode_at(g.pieces[id]).cp \in hit}
    IN  eog_bits(g, key, accepting)
        \cup {id \in Headless(g) \cup Within(Hit(Buckets(g))) : allows(g, key, id)}

(* Mutant of PlansWhole: a carried partial character goes through the index. *)
PlansWholeUnlessDone(g, key) ==
    LET f == first_codepoints(g, key.stacks)
    IN  key.done \/ f.wide \/ Width(f.ranges) >= Cardinality(Ids(g))

PlansWhole(g, key) ==
    LET f == first_codepoints(g, key.stacks)
    IN  key.partial # <<>> \/ key.done \/ f.wide \/ Width(f.ranges) >= Cardinality(Ids(g))

ComputeMask(g, key, accepting) ==
    IF PlansWhole(g, key) THEN mask_whole(g, key, accepting)
    ELSE mask_buckets(g, key, accepting, first_codepoints(g, key.stacks).ranges)

-----------------------------------------------------------------------------
CONSTANTS Grammars, MaxMaskCache, MaxPieces   \* MaxPieces bounds a run's length

VARIABLES g,          \* the run's grammar
          key,        \* StateKey: stacks, carried bytes, done
          accepting,
          cache,      \* masks by state
          mask,       \* mask of the present state, or {} before it is asked for
          pieces      \* the pieces accepted so far

vars == <<g, key, accepting, cache, mask, pieces>>

NoMask == {-1}

Init ==
    /\ g \in Grammars /\ Compiles(g)
    /\ key = InitialKey(g) /\ accepting = state_key_accepting(g, key)
    /\ cache = <<>> /\ mask = NoMask /\ pieces = <<>>

(* mask: served from the cache, or computed and cached; a full cache is     *)
(* cleared first.                                                           *)
Mask ==
    /\ mask = NoMask
    /\ mask' = IF key \in DOMAIN cache THEN cache[key] ELSE ComputeMask(g, key, accepting)
    /\ cache' = IF key \in DOMAIN cache THEN cache
                ELSE (key :> mask') @@ (IF Cardinality(DOMAIN cache) >= MaxMaskCache THEN <<>> ELSE cache)
    /\ UNCHANGED <<g, key, accepting, pieces>>

(* Mutant of EndRun: the masks of the states before the end stay cached     *)
(* under a key that does not record the end.                                *)
EndRunOpen(id) ==
    /\ id \in g.eog /\ accepting
    /\ accepting' = FALSE /\ cache' = <<>> /\ mask' = NoMask
    /\ UNCHANGED <<g, key, pieces>>

(* accept_token for an end-of-generation token. *)
EndRun(id) ==
    /\ id \in g.eog /\ accepting
    /\ key' = [key EXCEPT !.done = TRUE]
    /\ accepting' = FALSE /\ cache' = <<>> /\ mask' = NoMask
    /\ UNCHANGED <<g, pieces>>

Accepts(id) ==
    /\ ~key.done
    /\ IF id \in g.eog THEN accepting
       ELSE g.pieces[id] # <<>> /\ consume(g, key, g.pieces[id]).ok

(* accept_token: the successor state, or an error that changes nothing.     *)
AcceptToken(id) ==
    /\ mask # NoMask /\ ~key.done /\ Len(pieces) < MaxPieces
    /\ \/ EndRun(id)
       \/ \E c \in {consume(g, key, g.pieces[id])} :
             /\ id \notin g.eog /\ g.pieces[id] # <<>> /\ c.ok
             /\ key' = [stacks |-> c.stacks, partial |-> c.partial, done |-> FALSE]
             /\ accepting' = state_key_accepting(g, key')
             /\ mask' = NoMask /\ pieces' = Append(pieces, id)
             /\ UNCHANGED <<g, cache>>

Next == Mask \/ \E id \in Ids(g) : AcceptToken(id)

-----------------------------------------------------------------------------
(* The codepoints of a byte sequence, up to a cut or invalid ending. *)
RECURSIVE Decoded(_)
Decoded(bytes) ==
    IF bytes = <<>> \/ decode_at(bytes).k # "Cp" THEN <<>>
    ELSE <<decode_at(bytes).cp>> \o Decoded(SubSeq(bytes, decode_at(bytes).n + 1, Len(bytes)))

Text == FlattenSeq([i \in DOMAIN pieces |-> g.pieces[pieces[i]]])

(* The mask admits exactly the tokens accept_token would take: whichever    *)
(* walk computed it, whether it came from the cache, in the middle of a     *)
(* character split between tokens, and after the end of generation.         *)
MaskIsAcceptance ==
    mask # NoMask /\ ~key.done => mask = {id \in Ids(g) : Accepts(id)}

(* The state is accepting exactly when the text so far is a sentence of the *)
(* grammar by its meaning: the compiled program, the stack machine and the  *)
(* byte decoding agree with the expression that was written.                *)
AcceptingIsSentence ==
    ~key.done => (accepting <=> key.partial = <<>> /\ Sentence(g.source, Decoded(Text)))

(* A run the mask steers never comes to a state without a legal token: a    *)
(* cut character is only admitted when some codepoint can complete it (the  *)
(* vocabularies of the runs hold every byte their grammars need).           *)
NeverStranded == mask # NoMask => mask # {}
=============================================================================
