---------------------------- MODULE Conversation ----------------------------
(* The CLI conversation (conversation.rs and run_conversation in main.rs):   *)
(* an append-only token stream over the session's KV rows, rendered one turn *)
(* at a time, with overflow handling, /regen, /clear and the session files.  *)
(*                                                                           *)
(* A text is a sequence of characters; the chat template wraps each message  *)
(* in its role's marker and the end-of-turn marker.  Tokens are characters,  *)
(* markers and one merged token, so that a sampled spelling need not be the  *)
(* one encode would give.  What the model samples is any token.              *)
EXTENDS Integers, Sequences, FiniteSets, SequencesExt, FiniteSetsExt

CONSTANTS n_ctx,        \* rows of the session
          n_predict,    \* tokens a turn may generate
          Inputs,       \* what the user types
          StopStrings,  \* stop strings, as texts
          System,       \* the --system prompt, <<>> for none
          Depth,        \* --spec-draft-n
          Turns         \* bound: commands in one run

Ch == {1, 2}
ASSUME ConversationAssumption == n_ctx \in Nat \ {0} /\ n_predict \in Nat \ {0} /\ Depth \in Nat
(* What is typed and set is text; empty stop strings are skipped.            *)
ASSUME TextAssumption == Inputs \subseteq Seq(Ch) /\ System \in Seq(Ch) /\ StopStrings \subseteq Seq(Ch) \ {<<>>}

Merged == 5
Mark == [system |-> 10, user |-> 11, assistant |-> 12]
Eot == 13
Sampled == Ch \cup {Merged}

(* A fold from the left, each result bound before the next step reads it.    *)
The(S) == CHOOSE x \in S : TRUE
Through(op(_, _), base, seq) ==
    LET f[n \in 0..Len(seq)] == IF n = 0 THEN base ELSE The({op(r, seq[n]) : r \in {f[n - 1]}})
    IN  f[Len(seq)]

(* decode_bytes and encode: two 1s in a row are spelled by the merged token. *)
decode(tokens) == FlattenSeq([i \in DOMAIN tokens |-> IF tokens[i] = Merged THEN <<1, 1>> ELSE <<tokens[i]>>])
Spelled(out, ch) ==
    IF ch = 1 /\ out # <<>> /\ Last(out) = 1 THEN Append(Front(out), Merged) ELSE Append(out, ch)
encode(text) == Through(Spelled, <<>>, text)

(* The template: render_messages_with and the delta format_single finds.     *)
RenderOne(m) == <<Mark[m[1]]>> \o m[2] \o <<Eot>>
render(messages, add_generation_prompt) ==
    FlattenSeq([i \in DOMAIN messages |-> RenderOne(messages[i])])
        \o (IF add_generation_prompt THEN <<Mark.assistant>> ELSE <<>>)
format_single(input) == RenderOne(<<"user", input>>) \o <<Mark.assistant>>

VARIABLES c,        \* the conversation and the rows of its engine; odd marks the cases
                    \* in which the stream is known to leave the render
          phase,    \* "idle", "generate", "rounds", "exited" or "crashed"
          gen,      \* the turn being generated in rounds
          disk,     \* the session files: history and KV companion
          turns,    \* commands so far
          drafting, \* --spec-draft is given and the draft loaded
          slipped   \* a drafting reply cut at n_predict left the position beside the end
                    \* of the stream, and the conversation was not rendered again since
vars == <<c, phase, gen, disk, turns, drafting, slipped>>

Fresh == [messages |-> IF System = <<>> THEN <<>> ELSE <<<<"system", System>>>>, stream |-> <<>>, pos |-> 0,
          turn_pos |-> 0, need |-> FALSE, rows |-> <<>>, written |-> 0, odd |-> FALSE]
None == [none |-> TRUE]
NoHistory == <<<<"none", <<>>>>>>
NoTurn == [seed |-> 0, n |-> 0, full |-> <<>>]

Init ==
    /\ c = Fresh /\ phase = "idle" /\ gen = NoTurn /\ turns = 0 /\ drafting \in BOOLEAN /\ slipped = FALSE
    /\ disk = [history |-> NoHistory, kv |-> None]

-----------------------------------------------------------------------------
(* --- the engine --------------------------------------------------------------- *)
Overwritten(rows, tokens, at) ==
    LET new == at..(at + Len(tokens) - 1)
    IN  [q \in new \cup DOMAIN rows |-> IF q \in new THEN tokens[q - at + 1] ELSE rows[q]]
Forward(s, tokens, at) ==
    [s EXCEPT !.rows = Overwritten(@, tokens, at),
              !.written = Max({@, at + Len(tokens)})]
Fed(s, tokens) ==
    [Forward(s, tokens, s.pos) EXCEPT !.stream = @ \o tokens, !.pos = @ + Len(tokens)]
reset_cache(s) == [s EXCEPT !.rows = <<>>, !.written = 0]
(* A forward at a position past the context fails the graph's assert!(maxp < *)
(* n_ctx), and with it the process: nothing is saved.                        *)
Crash == phase' = "crashed" /\ gen' = NoTurn /\ UNCHANGED <<c, disk, drafting, slipped>>

rehydrate_full(s, tokens) ==
    Fed([reset_cache(s) EXCEPT !.stream = <<>>, !.pos = 0, !.turn_pos = 0, !.odd = FALSE], tokens)

(* --- overflow ------------------------------------------------------------------ *)
Users(messages) == {i \in DOMAIN messages : messages[i][1] = "user"}
(* The oldest turn that is not the newest: its first message and its length. *)
oldest_droppable_turn(messages) ==
    LET i == Min(Users(messages))
    IN  IF Cardinality(Users(messages)) < 2 THEN <<0, 0>>
        ELSE <<i, IF messages[i + 1][1] = "assistant" THEN 2 ELSE 1>>
Drop(messages, first, count) == SubSeq(messages, 1, first - 1) \o SubSeq(messages, first + count, Len(messages))

(* Drop the oldest turns until the render fits, or none is left to drop.     *)
DropOneMore(messages, p) ==
    LET left == IF p.count = 0 THEN messages ELSE Drop(messages, p.first, p.count)
        t == oldest_droppable_turn(left)
    IN  IF Len(encode(render(left, TRUE))) <= n_ctx \/ t[2] = 0 THEN p
        ELSE [first |-> t[1], count |-> p.count + t[2]]
plan_overflow_drop(messages) ==
    Through(LAMBDA p, m : DropOneMore(messages, p), [first |-> 0, count |-> 0], messages)

(* Mutant of stream_boundary: the render is not compared with the stream.    *)
stream_boundaryUnverified(s, upto) == Len(encode(render(SubSeq(s.messages, 1, upto), FALSE)))
(* Where message upto+1 starts in the stream, -1 when the messages before it *)
(* do not encode to a prefix of it.                                          *)
stream_boundary(s, upto) ==
    LET toks == encode(render(SubSeq(s.messages, 1, upto), FALSE))
    IN  IF upto = 0 THEN 0 ELSE IF IsPrefix(toks, s.stream) THEN Len(toks) ELSE -1
overflow_region(s, p) ==
    LET from == stream_boundary(s, p.first - 1)
        to == stream_boundary(s, p.first - 1 + p.count)
    IN  IF from >= 0 /\ to > from THEN <<from, to - from>> ELSE <<>>

(* Mutant of kv_rm: the rows after the region keep their positions.          *)
kv_rmUnmoved(s, start, len) ==
    [s EXCEPT !.rows = [q \in 0..(s.written - len - 1) |-> s.rows[q]], !.written = @ - len]

(* Remove the rows of a region; later rows move down to their new positions. *)
kv_rm(s, start, len) ==
    [s EXCEPT !.rows = [q \in 0..(s.written - len - 1) |-> s.rows[IF q < start THEN q ELSE q + len]],
              !.written = @ - len]

(* The retained rows keep their place when the dropped region is known, the  *)
(* result fits and the engine can move rows; otherwise the retained messages *)
(* are rendered and prefilled again.                                         *)
Overflow(s, delta, p, shift) ==
    LET region == overflow_region(s, p)
        kept == [s EXCEPT !.messages = Drop(@, p.first, p.count)]
        fits == /\ region # <<>> /\ region[1] + region[2] <= s.pos
                /\ s.pos - region[2] + (IF s.need THEN 1 ELSE 0) + Len(delta) <= n_ctx
        cut == [kv_rm(kept, region[1], region[2]) EXCEPT
                  !.stream = SubSeq(@, 1, region[1]) \o SubSeq(@, region[1] + region[2] + 1, Len(@)),
                  !.pos = s.pos - region[2]]
        closed == IF s.need THEN Fed(cut, <<Eot>>) ELSE cut
    IN  IF shift /\ ~drafting /\ fits THEN [Fed(closed, delta) EXCEPT !.turn_pos = closed.pos, !.need = FALSE]
        ELSE [rehydrate_full(kept, encode(render(kept.messages, TRUE))) EXCEPT !.need = FALSE]

-----------------------------------------------------------------------------
(* --- a user turn ------------------------------------------------------------------ *)
(* A turn that did not end in EOG is closed before the next input.           *)
Closed(s) == IF s.need /\ s.pos < n_ctx THEN [Fed(s, <<Eot>>) EXCEPT !.need = FALSE] ELSE s

(* The prompt is in the rows; a whole render puts the position right again.  *)
Generating(s) ==
    IF s.pos > n_ctx THEN Crash
    ELSE /\ c' = s /\ phase' = "generate" /\ slipped' = (slipped /\ s.turn_pos > 0)
         /\ UNCHANGED <<gen, disk, drafting>>
UserTurn(input) ==
    /\ phase = "idle" /\ turns < Turns /\ turns' = turns + 1
    /\ LET s == Closed(c)
           delta == encode(format_single(input))
           full == [s EXCEPT !.messages = Append(@, <<"user", input>>)]
           toks == encode(render(full.messages, TRUE))
           p == plan_overflow_drop(full.messages)
       IN  \E matched \in BOOLEAN, shift \in BOOLEAN :
           IF ~matched THEN Generating(rehydrate_full(full, toks))
           ELSE IF s.pos + (IF s.need THEN 1 ELSE 0) + Len(delta) > n_ctx
           THEN IF p.count = 0
                THEN /\ c' = [s EXCEPT !.need = ~(c.need /\ c.pos < n_ctx), !.odd = @ \/ ~c.need]
                     /\ UNCHANGED <<phase, gen, disk, drafting, slipped>>
                ELSE Generating(Overflow(full, delta, p, shift))
           ELSE IF s.pos = 0 THEN Generating(rehydrate_full(full, toks))
           ELSE Generating(Fed([full EXCEPT !.turn_pos = s.pos], delta))

(* /regen: roll back to where the turn's delta began and replay it; at 0 the *)
(* whole conversation is rendered.                                           *)
Regen ==
    /\ phase = "idle" /\ turns < Turns /\ turns' = turns + 1
    /\ c.messages # <<>> /\ Last(c.messages)[1] = "assistant"
    /\ LET back == [c EXCEPT !.messages = Front(@), !.stream = SubSeq(@, 1, Min({c.turn_pos, Len(@)})), !.pos = c.turn_pos, !.need = FALSE]
           toks == IF c.turn_pos = 0 THEN encode(render(back.messages, TRUE))
                   ELSE encode(format_single(Last(back.messages)[2]))
       IN  IF back.pos + Len(toks) > n_ctx
           THEN /\ c' = [back EXCEPT !.odd = TRUE] /\ UNCHANGED <<phase, gen, disk, drafting, slipped>>
           ELSE Generating(Fed(back, toks))

(* /clear keeps the first system message; its caller resets the cache.       *)
FirstSystem(messages) ==
    LET at == {i \in DOMAIN messages : messages[i][1] = "system"}
    IN  IF at = {} THEN <<>> ELSE <<messages[Min(at)]>>
clear ==
    /\ phase = "idle" /\ turns < Turns /\ turns' = turns + 1
    /\ c' = [Fresh EXCEPT !.messages = FirstSystem(c.messages)] /\ slipped' = FALSE
    /\ UNCHANGED <<phase, gen, disk, drafting>>

-----------------------------------------------------------------------------
(* --- generation -------------------------------------------------------------------- *)
(* The text length kept when a stop string ends the text, -1 otherwise.      *)
match_stop_suffix(text) ==
    LET starts == {Len(text) - Len(s) : s \in {t \in StopStrings : IsSuffix(t, text)}}
    IN  IF starts = {} THEN -1 ELSE Min(starts)
Ends(text) == match_stop_suffix(text) # -1
Said(s, text, need) == [s EXCEPT !.messages = Append(@, <<"assistant", text>>), !.need = need]
(* The turn ends; slip: it left the position beside the end of the stream.   *)
Done(s, strange, slip) ==
    /\ c' = [s EXCEPT !.odd = @ \/ strange] /\ slipped' = (slipped \/ slip)
    /\ phase' = "idle" /\ gen' = NoTurn /\ UNCHANGED <<disk, drafting>>

(* generate_assistant_with_logits: the sampled tokens w enter the stream one *)
(* by one until EOG, a stop string, n_predict or the end of the context.     *)
Plain ==
    /\ phase = "generate" /\ ~drafting /\ UNCHANGED turns
    /\ \E k \in 0..Min({n_predict, Max({0, n_ctx - c.pos})}) : \E w \in [1..k -> Sampled] :
         LET open == \A j \in 1..(k - 1) : ~Ends(decode(SubSeq(w, 1, j)))
             text == decode(w)
             cut == match_stop_suffix(text)
         IN  /\ open
             /\ \/ /\ ~Ends(text) /\ (k = n_predict \/ c.pos + k >= n_ctx)
                   /\ Done(Said(Fed(c, w), text, TRUE), FALSE, FALSE)
                \/ /\ ~Ends(text) /\ k < n_predict /\ c.pos + k < n_ctx
                   /\ Done(Said(Fed(c, Append(w, Eot)), text, FALSE), FALSE, FALSE)
                \/ /\ k > 0 /\ Ends(text)
                   /\ Done(Said(Fed(c, Front(w)), SubSeq(text, 1, cut), TRUE), cut # Len(decode(Front(w))), FALSE)

(* The grammar allows no token: the turn ends in an error with what was      *)
(* generated still in the stream and no message for it.  A drafting turn can *)
(* only fail at its seed (the grammar, or mirostat, which rounds refuse).    *)
GrammarStuck ==
    /\ phase = "generate" /\ (drafting \/ c.pos < n_ctx) /\ UNCHANGED turns
    /\ \E k \in 0..(IF drafting THEN 0 ELSE Min({n_predict - 1, n_ctx - c.pos - 1})) : \E w \in [1..k -> Sampled] :
         (\A j \in 1..k : ~Ends(decode(SubSeq(w, 1, j)))) /\ Done(Fed(c, w), TRUE, FALSE)

(* generate_assistant_spec: the seed is in the stream but not in the rows    *)
(* until the next round writes it.  The loop's first exits come before the   *)
(* check that the seed ended the turn, and write it once more.               *)
Seed ==
    /\ phase = "generate" /\ drafting /\ UNCHANGED turns
    /\ \E t \in Sampled \cup {Eot} :
         LET text == decode(<<t>>)
             cut == match_stop_suffix(text)
             past == [Forward(c, <<t>>, c.pos) EXCEPT !.pos = @ + 1]
         IN  IF t = Eot
             THEN IF c.pos + 1 >= n_ctx THEN Crash ELSE Done(Said(Fed(c, <<Eot>>), <<>>, FALSE), FALSE, FALSE)
             ELSE IF Ends(text)
             THEN IF c.pos >= n_ctx THEN Crash
                  ELSE Done(Said(IF n_predict = 1 THEN past ELSE c, SubSeq(text, 1, cut), TRUE), cut # 0 \/ n_predict = 1, n_predict = 1)
             ELSE /\ c' = [c EXCEPT !.stream = Append(@, t)] /\ phase' = "rounds"
                  /\ gen' = [seed |-> t, n |-> 1, full |-> text]
                  /\ UNCHANGED <<disk, drafting, slipped>>

(* A round writes the seed and d proposals and emits some of them and one    *)
(* more token; each goes through the same checks.  Cut at n_predict, it      *)
(* moves the position by the tokens it consumed and leaves out the seed.     *)
Round ==
    /\ phase = "rounds" /\ UNCHANGED turns
    /\ IF c.pos >= n_ctx THEN Crash
       ELSE IF gen.n >= n_predict
       THEN Done(Said([Forward(c, <<gen.seed>>, c.pos) EXCEPT !.pos = @ + 1], gen.full, TRUE), FALSE, FALSE)
       ELSE LET d == Min({Depth, Max({0, n_ctx - (c.pos + 1)})}) IN
            \E a \in 0..d : \E out \in [1..(a + 1) -> Sampled \cup {Eot}], rest \in [1..(d - a) -> Sampled] :
            LET proposals == SubSeq(out, 1, a) \o rest
                s == Forward(c, <<gen.seed>> \o proposals, c.pos)
                text(i) == gen.full \o decode(SubSeq(out, 1, i))
                ends == {i \in DOMAIN out : gen.n + i - 1 >= n_predict \/ out[i] = Eot \/ Ends(text(i))}
                i == Min(ends)
                said(n) == [s EXCEPT !.stream = @ \o SubSeq(out, 1, n)]
            IN  IF ends = {}
                THEN /\ c' = [said(a + 1) EXCEPT !.pos = @ + a + 1]
                     /\ gen' = [seed |-> Last(out), n |-> gen.n + a + 1, full |-> text(a + 1)]
                     /\ UNCHANGED <<phase, disk, drafting, slipped>>
                ELSE IF gen.n + i - 1 >= n_predict
                THEN Done(Said([said(i - 1) EXCEPT !.pos = @ + i - 1], text(i - 1), TRUE), TRUE, TRUE)
                ELSE IF out[i] = Eot
                THEN IF i = Len(out) /\ c.pos + i >= n_ctx THEN Crash
                     ELSE LET w == IF i = Len(out) THEN Forward(said(i), <<Eot>>, c.pos + i) ELSE said(i)
                          IN  Done(Said([w EXCEPT !.pos = @ + i + 1], text(i - 1), FALSE), FALSE, FALSE)
                ELSE Done(Said([said(i - 1) EXCEPT !.pos = @ + i], SubSeq(text(i), 1, match_stop_suffix(text(i))), TRUE),
                          match_stop_suffix(text(i)) # Len(text(i - 1)), FALSE)

-----------------------------------------------------------------------------
(* --- the session files ------------------------------------------------------------- *)
(* On exit the history is written over the old file, then, whatever came of  *)
(* that, the KV companion with the host snapshot.  A crash or a failed write *)
(* leaves either as it was or torn, and a torn one is not read.  A drafting  *)
(* session saves no companion.                                               *)
Saved == [host |-> [c EXCEPT !.rows = <<>>, !.written = 0], rows |-> c.rows, written |-> c.written]
save_session ==
    /\ phase = "idle" /\ phase' = "exited"
    /\ \E history \in {disk.history, NoHistory, c.messages},
          kv \in IF drafting THEN {disk.kv} ELSE {disk.kv, None, Saved} :
         disk' = [history |-> history, kv |-> kv]
    /\ UNCHANGED <<c, gen, turns, drafting, slipped>>

(* Mutant of Resumable: the history file is not compared.                    *)
ResumableBlind(kv, history) == kv # None /\ kv.host.pos = kv.written /\ kv.host.pos = Len(kv.host.stream)
(* restore_snapshot refuses a position the stream or the context denies.     *)
restore_snapshot(host) == host.pos = Len(host.stream) /\ host.pos <= n_ctx /\ host.turn_pos <= host.pos
(* resume_from_kv_companion: the companion is used when it is whole, agrees  *)
(* with the history file and covers exactly the rows it holds.               *)
Resumable(kv, history) ==
    /\ kv # None /\ (history # NoHistory => history = kv.host.messages)
    /\ kv.host.pos = kv.written /\ restore_snapshot(kv.host)
load_history(messages) ==
    rehydrate_full([Fresh EXCEPT !.messages = messages], encode(render(messages, FALSE)))
(* run_conversation starts: resume, or render the history again.             *)
Start ==
    /\ phase \in {"exited", "crashed"} /\ turns < Turns /\ drafting' \in BOOLEAN /\ slipped' = FALSE
    /\ LET s == IF ~drafting' /\ Resumable(disk.kv, disk.history)
                THEN [disk.kv.host EXCEPT !.rows = disk.kv.rows, !.written = disk.kv.written]
                ELSE IF disk.history # NoHistory THEN load_history(disk.history) ELSE Fresh
       IN  IF s.pos > n_ctx THEN phase' = "crashed" /\ UNCHANGED c ELSE phase' = "idle" /\ c' = s
    /\ UNCHANGED <<gen, disk, turns>>

Next == (\E input \in Inputs : UserTurn(input)) \/ Regen \/ clear \/ Plain \/ GrammarStuck \/ Seed \/ Round \/ save_session \/ Start
Spec == Init /\ [][Next]_vars

-----------------------------------------------------------------------------
(* Type correctness: the stream, its position and the rows written so far.   *)
TypeOK ==
    /\ phase \in {"idle", "generate", "rounds", "exited", "crashed"} /\ {c.need, c.odd, slipped} \subseteq BOOLEAN
    /\ DOMAIN c.rows = 0..(c.written - 1)
    /\ \A i \in DOMAIN c.stream : c.stream[i] \in Sampled \cup {10, 11, 12, 13}

(* The mirror is the KV: after every turn each stream token sits in its own  *)
(* row, through refusals, errors, stops, rollbacks, removals and restarts    *)
(* (stream_tokens, "Host-side mirror of the full token stream in the KV").   *)
(* Only a drafting reply cut at n_predict breaks it, until the conversation  *)
(* is rendered again (PositionIsStreamLength).                               *)
MirrorMatchesRows ==
    phase = "idle" /\ ~slipped =>
        /\ c.pos = Len(c.stream)
        /\ \A i \in DOMAIN c.stream : i - 1 \in DOMAIN c.rows /\ c.rows[i - 1] = c.stream[i]

(* The stream spells the conversation: with the pending end-of-turn marker   *)
(* it is the render of the messages, however the tokens were sampled         *)
(* (the KV consistency invariant of the module).                             *)
StreamSpellsConversation ==
    phase = "idle" /\ ~c.odd /\ c.stream # <<>> =>
        decode(c.stream) \o (IF c.need THEN <<Eot>> ELSE <<>>) = render(c.messages, FALSE)

(* A restart continues the conversation of the history file, whatever the    *)
(* crash left of the companion.                                              *)
ResumeKeepsHistory ==
    [][(phase \in {"exited", "crashed"} /\ phase' = "idle" /\ disk.history # NoHistory) => c'.messages = disk.history]_vars

(* "stream_tokens == a token prefix of tokenize(render(messages, false))":   *)
(* the invariant as the module states it, without exceptions.                *)
StreamIsRender ==
    phase = "idle" => IsPrefix(decode(c.stream), render(c.messages, FALSE))

(* "The next write position (strong invariant: == stream_tokens.len())": as  *)
(* the field's comment states it, which the round cut at n_predict breaks.   *)
PositionIsStreamLength ==
    phase = "idle" => c.pos = Len(c.stream)

(* Text that does not fit is refused (plan_overflow_drop: "the caller        *)
(* reports `ContextFull`") and re-seeding "is always safe": no session dies  *)
(* of a context that is full.                                                *)
ContextRespected ==
    phase # "crashed"
=============================================================================
