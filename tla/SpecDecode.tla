----------------------------- MODULE SpecDecode -----------------------------
(* Greedy decoding over position-addressed KV rows and the speculative round *)
(* that commits several tokens per target forward (spec.rs).                 *)
(*                                                                           *)
(* A model is a constant operator: the token its filtered logits rank first, *)
(* given what attention reads (the rows below the fed position and the row   *)
(* itself) and the penalty window.  The draft model is arbitrary: whatever   *)
(* it proposes, and however stale its own cache is, shows only in the        *)
(* proposals, which the round takes as any sequence of tokens.               *)
EXTENDS Integers, Sequences, FiniteSets, SequencesExt, FiniteSetsExt
LOCAL INSTANCE TLC
Sampling == INSTANCE Sampler

CONSTANTS Token,               \* token ids
          PenaltyWindow,       \* REPEAT_LAST_N of sampler.rs
          Predict(_, _, _)     \* the target's pick: model, context, window

ASSUME SpecDecodeAssumption == PenaltyWindow \in Nat \ {0}

(* Rows as they stand when position p is the newest one: what a forward that *)
(* feeds p attends to.  Rows are numbered from 0.                            *)
Context(rows, p) == [i \in 1..(p + 1) |-> rows[i - 1]]
Write(rows, p, tokens) == [q \in p..(p + Len(tokens) - 1) |-> tokens[q - p + 1]] @@ rows

(* Mutant of push_capped: the window keeps every token of the generation.    *)
push_cappedNever(window, t) == Append(window, t)
push_capped(window, t) == Sampling!recent_window(Append(window, t), PenaltyWindow)

(* Mutant of accept_loop: a rejected proposal does not end the round.        *)
accept_loopPast(m, rows, pos, proposals, window) ==
    FoldLeft(LAMBDA s, i :
               LET t == Predict(m, Context(rows, pos + i), s.window)
               IN  IF ~s.open THEN s
                   ELSE [window |-> push_capped(s.window, t), out |-> Append(s.out, t),
                         open |-> TRUE],
             [window |-> window, out |-> <<>>, open |-> TRUE], [i \in 1..(Len(proposals) + 1) |-> i - 1])

(* Row i of the verify forward predicts position pos+i+1; it is sampled only *)
(* while every proposal before it was the target's own pick, and the first   *)
(* pick that differs ends the round.                                         *)
accept_loop(m, rows, pos, proposals, window) ==
    FoldLeft(LAMBDA s, i :
               LET t == Predict(m, Context(rows, pos + i), s.window)
               IN  IF ~s.open THEN s
                   ELSE [window |-> push_capped(s.window, t), out |-> Append(s.out, t),
                         open |-> i < Len(proposals) /\ t = proposals[i + 1]],
             [window |-> window, out |-> <<>>, open |-> TRUE], [i \in 1..(Len(proposals) + 1) |-> i - 1])

(* One round from the seed at pos: the verify forward writes the seed and    *)
(* the proposals, accepted or not, and the picks are emitted.                *)
round(m, rows, seed, pos, proposals, window) ==
    LET written == Write(rows, pos, <<seed>> \o proposals)
        s == accept_loop(m, written, pos, proposals, window)
    IN  [rows |-> written, window |-> s.window, out |-> s.out]

(* Depth of a round: what is left of the context bounds it; the adaptive     *)
(* controller may settle on any depth its acceptance and cost estimates      *)
(* favour, a static one is used in full.                                     *)
horizon(pos, n_ctx) == Max({0, n_ctx - (pos + 1)})
pick(d_max, room) == IF Min({d_max, room}) = 0 THEN {0} ELSE 1..Min({d_max, room})
Depths(draft_n, adaptive, room) == IF adaptive THEN pick(draft_n, room) ELSE {Min({draft_n, room})}

-----------------------------------------------------------------------------
(* The sequential decode a round stands for: each pick follows from the      *)
(* prompt, the picks before it and the window they leave.                    *)
Greedy(m, prompt, n) ==
    LET Step(out, k) == Append(out, Predict(m, prompt \o out, Sampling!recent_window(prompt \o out, PenaltyWindow)))
    IN  FoldLeft(Step, <<>>, [k \in 1..n |-> k])
=============================================================================
