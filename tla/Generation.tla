----------------------------- MODULE Generation -----------------------------
(* The serial worker (server/chat.rs): worker_loop_serial takes one job at a *)
(* time and generate_seq decodes it on the slot's own rows, plainly or in    *)
(* speculative rounds.  The loop holds one job, so the first slot is always  *)
(* the idle one it picks and the only one it ever uses.                      *)
(*                                                                           *)
(* Sampling is greedy.  Text is the bytes the tokens decode to; a stop token *)
(* decodes to nothing.                                                       *)
EXTENDS SpecDecode
LOCAL INSTANCE TLC
Text == INSTANCE Tokenizer

CONSTANTS Targets,         \* the target models to choose from
          Prompts,         \* tokenized prompts
          Limits,          \* max_tokens values, -1 for none
          Stops,           \* sets of stop strings
          Eog,             \* stop tokens
          BytesOf,         \* token -> its bytes
          n_ctx_slot,      \* rows of the slot
          draft_n,         \* speculative depth
          Jobs             \* bound: jobs served in one run

ASSUME GenerationAssumption == n_ctx_slot \in Nat \ {0} /\ draft_n \in Nat /\ Eog \subseteq Token

VARIABLES model,           \* the loaded target
          spec,            \* "off", "static" or "adaptive"
          rows,            \* the slot's KV rows: position -> token, Torn once half written
          cached_tokens,   \* the record of what the rows hold
          job,             \* the job being served, or NoJob
          run,             \* its decode state
          reply,           \* its last answer
          served,          \* jobs taken so far
          torn             \* a forward has failed in this slot's life
vars == <<model, spec, rows, cached_tokens, job, run, reply, served, torn>>

NoJob == [prompt |-> <<>>]
NoReply == [kind |-> "none"]
Torn == -1
Idle == [phase |-> "idle"]

(* --- who serves --------------------------------------------------------------- *)
batch_mode(requested, device) ==
    CASE requested = "1" -> "Batched"
      [] requested = "0" -> "Serial"
      [] OTHER -> IF device \in {"cuda", "metal"} THEN "Batched" ELSE "Serial"

(* worker_loop leaves a job to the batched engine when no draft is           *)
(* configured; a draft that is refused leaves its slot without one.          *)
worker_loop(requested, device, cfg) ==
    IF cfg = "off" /\ batch_mode(requested, device) = "Batched" THEN {} ELSE {cfg, "off"}

Init ==
    /\ model \in Targets
    /\ \E requested \in {"unset", "0", "1"}, device \in {"cpu", "cuda"}, cfg \in {"off", "static", "adaptive"} :
          spec \in worker_loop(requested, device, cfg)
    /\ rows = <<>> /\ cached_tokens = <<>>
    /\ job = NoJob /\ run = Idle /\ reply = NoReply /\ served = 0 /\ torn = FALSE

(* --- prefix reuse ------------------------------------------------------------------ *)
common_prefix_len(cached, prompt) ==
    Max({n \in 0..Min({Len(cached), Len(prompt)}) : \A i \in 1..n : cached[i] = prompt[i]})

(* The first position fed: the last token always is, for its logits.         *)
prefill_span(nt, reuse) == Min({reuse, Max({0, nt - 1})})

-----------------------------------------------------------------------------
(* --- taking a job ------------------------------------------------------------ *)
Answer(r) == /\ reply' = r /\ job' = NoJob /\ run' = Idle
Refusal(why) == [kind |-> "err", why |-> why]

(* A job is received; generate_spec and generate_seq refuse it before they   *)
(* touch a row.                                                              *)
Refused(j) ==
    CASE spec # "off" /\ j.mirostat -> "mirostat"
      [] spec # "off" /\ j.grammar -> "grammar"
      [] j.prompt = <<>> -> "empty"
      [] Len(j.prompt) > n_ctx_slot -> "exceed_context"
      [] OTHER -> "no"
Receive ==
    /\ job = NoJob /\ served < Jobs
    /\ served' = served + 1
    /\ \E p \in Prompts, m \in Limits, s \in Stops, mirostat \in BOOLEAN, grammar \in BOOLEAN :
          LET j == [prompt |-> p, max |-> m, stops |-> s, mirostat |-> mirostat, grammar |-> grammar]
          IN  IF Refused(j) # "no" THEN Answer(Refusal(Refused(j)))
              ELSE /\ mirostat = FALSE /\ grammar = FALSE
                   /\ job' = j /\ run' = [phase |-> "prefill"] /\ reply' = NoReply
    /\ UNCHANGED <<model, spec, rows, cached_tokens, torn>>

(* Mutant of Prefill: the record keeps the tokens of the previous job.       *)
PrefillKeepingRecord ==
    /\ run.phase = "prefill"
    /\ LET nt == Len(job.prompt)
           reuse == IF spec = "off" THEN common_prefix_len(cached_tokens, job.prompt) ELSE 0
           from == prefill_span(nt, reuse)
           fed == SubSeq(job.prompt, from + 1, nt)
       IN  /\ rows' = Write(rows, from, fed)
           /\ cached_tokens' = IF spec = "off" /\ reuse < Len(cached_tokens) THEN cached_tokens ELSE job.prompt
           /\ run' = [phase |-> "decode", pos |-> nt, window |-> Sampling!recent_window(job.prompt, PenaltyWindow),
                      seed |-> <<>>, out |-> <<>>, full |-> <<>>, emitted |-> 0]
    /\ UNCHANGED <<model, spec, job, reply, served, torn>>

(* Feed what the record does not cover; record the prompt on the plain path. *)
Prefill ==
    /\ run.phase = "prefill"
    /\ LET nt == Len(job.prompt)
           reuse == IF spec = "off" THEN common_prefix_len(cached_tokens, job.prompt) ELSE 0
           from == prefill_span(nt, reuse)
           fed == SubSeq(job.prompt, from + 1, nt)
       IN  /\ rows' = Write(rows, from, fed)
           /\ cached_tokens' = IF spec = "off" THEN job.prompt ELSE <<>>
           /\ run' = [phase |-> "decode", pos |-> nt, window |-> Sampling!recent_window(job.prompt, PenaltyWindow),
                      seed |-> <<>>, out |-> <<>>, full |-> <<>>, emitted |-> 0]
    /\ UNCHANGED <<model, spec, job, reply, served, torn>>

(* The forward panics part way: guarded_forward makes it an error, the rows  *)
(* it was writing are left torn and the record as it was.                    *)
PrefillFails ==
    /\ run.phase = "prefill"
    /\ LET nt == Len(job.prompt)
           from == prefill_span(nt, IF spec = "off" THEN common_prefix_len(cached_tokens, job.prompt) ELSE 0)
       IN  rows' = Write(rows, from, [i \in 1..(nt - from) |-> Torn])
    /\ torn' = TRUE /\ Answer(Refusal("inference panicked"))
    /\ UNCHANGED <<model, spec, cached_tokens, served>>

-----------------------------------------------------------------------------
(* --- one decode iteration ---------------------------------------------------------- *)
complete_utf8_prefix_len(bytes) == Text!complete_utf8_prefix_len(bytes)
match_stop_suffix(buf, stops) == Sampling!match_stop_suffix(buf, stops)

(* What the handler has been sent: the bytes up to emitted.                  *)
Sent(r) == SubSeq(r.full, 1, r.emitted)
AtLimit(r) == (job.max >= 0 /\ Len(r.out) >= job.max)
Finish(r, reason) == [kind |-> "finish", reason |-> reason, tokens |-> r.out, text |-> Sent(r)]

(* A sampled token that is not a stop token goes into the text.  A completed *)
(* stop string ends the turn with the text cut at its start, or where the    *)
(* text was already sent; otherwise whole characters are sent.               *)
Stopped(r) == match_stop_suffix(r.full, job.stops) # -1
Flushed(r) ==
    IF Stopped(r) THEN [r EXCEPT !.emitted = Max({@, match_stop_suffix(r.full, job.stops)})]
    ELSE [r EXCEPT !.emitted = @ + complete_utf8_prefix_len(SubSeq(r.full, @ + 1, Len(r.full)))]

(* Mutant of Taken: every byte is sent as soon as it is sampled.             *)
TakenUnheld(r, t) ==
    LET s == [r EXCEPT !.out = Append(@, t), !.full = @ \o BytesOf[t]] IN [s EXCEPT !.emitted = Len(s.full)]
Taken(r, t) == Flushed([r EXCEPT !.out = Append(@, t), !.full = @ \o BytesOf[t]])

(* The plain body: sample, stop or send, then feed the token at its row.     *)
Decode ==
    /\ run.phase = "decode" /\ spec = "off"
    /\ UNCHANGED <<model, spec, served, torn>>
    /\ IF AtLimit(run) \/ run.pos >= n_ctx_slot
       THEN /\ Answer(Finish(run, "length")) /\ UNCHANGED <<rows, cached_tokens>>
       ELSE LET t == Predict(model, Context(rows, run.pos - 1), run.window)
                r == Taken(run, t)
            IN  IF t \in Eog THEN Answer(Finish(run, "stop")) /\ UNCHANGED <<rows, cached_tokens>>
                ELSE IF Stopped(r) THEN Answer(Finish(r, "stop")) /\ UNCHANGED <<rows, cached_tokens>>
                ELSE /\ rows' = Write(rows, run.pos, <<t>>)
                     /\ cached_tokens' = Append(cached_tokens, t)
                     /\ run' = [r EXCEPT !.pos = @ + 1, !.window = push_capped(@, t)]
                     /\ UNCHANGED <<job, reply>>

(* The same iteration with the forward failing: its row is left torn.        *)
DecodeFails ==
    /\ run.phase = "decode" /\ spec = "off" /\ ~AtLimit(run) /\ run.pos < n_ctx_slot
    /\ LET t == Predict(model, Context(rows, run.pos - 1), run.window)
       IN  t \notin Eog /\ ~Stopped(Taken(run, t))
    /\ rows' = Write(rows, run.pos, <<Torn>>) /\ torn' = TRUE
    /\ Answer(Refusal("inference panicked"))
    /\ UNCHANGED <<model, spec, cached_tokens, served>>

(* The first speculative iteration samples the seed from the prefill's row.  *)
Seed ==
    /\ run.phase = "decode" /\ spec # "off" /\ run.seed = <<>>
    /\ UNCHANGED <<model, spec, rows, cached_tokens, served, torn>>
    /\ IF AtLimit(run) \/ run.pos >= n_ctx_slot THEN Answer(Finish(run, "length"))
       ELSE LET t == Predict(model, Context(rows, run.pos - 1), run.window)
                r == Taken(run, t)
            IN  IF t \in Eog THEN Answer(Finish(run, "stop"))
                ELSE IF Stopped(r) THEN Answer(Finish(r, "stop"))
                ELSE /\ run' = [r EXCEPT !.seed = <<t>>, !.window = push_capped(@, t)]
                     /\ UNCHANGED <<job, reply>>

(* The tokens of a round go through the same checks in order; the first that *)
(* ends the turn leaves the rest.                                            *)
Consume(r, toks) ==
    FoldLeft(LAMBDA s, t :
               IF s.end # "no" THEN s
               ELSE IF AtLimit(s.run) THEN [s EXCEPT !.end = "length"]
               ELSE IF t \in Eog THEN [s EXCEPT !.end = "stop"]
               ELSE LET n == Taken(s.run, t) IN [run |-> n, end |-> IF Stopped(n) THEN "stop" ELSE "no"],
             [run |-> r, end |-> "no"], toks)
Round ==
    /\ run.phase = "decode" /\ spec # "off" /\ run.seed # <<>>
    /\ UNCHANGED <<model, spec, cached_tokens, served, torn>>
    /\ IF AtLimit(run) \/ run.pos >= n_ctx_slot THEN Answer(Finish(run, "length")) /\ UNCHANGED rows
       ELSE \E d \in Depths(draft_n, spec = "adaptive", horizon(run.pos, n_ctx_slot)) :
            \E proposals \in [1..d -> Token] :
              LET q == round(model, rows, run.seed[1], run.pos, proposals, run.window)
                  s == Consume(run, q.out)
              IN  /\ rows' = q.rows
                  /\ IF s.end # "no" THEN Answer(Finish(s.run, s.end))
                     ELSE /\ run' = [s.run EXCEPT !.pos = @ + Len(q.out), !.window = q.window, !.seed = <<Last(q.out)>>]
                          /\ UNCHANGED <<job, reply>>

-----------------------------------------------------------------------------
(* The client goes away: the next send fails and the job ends in an error.   *)
(* Only a token that lengthens the sent text sends; the record stands.       *)
Disconnected ==
    /\ run.phase = "decode" /\ run.pos < n_ctx_slot /\ ~AtLimit(run)
    /\ LET t == Predict(model, Context(rows, run.pos - 1), run.window)
       IN  (spec = "off" \/ run.seed = <<>>) /\ t \notin Eog /\ Taken(run, t).emitted > run.emitted
    /\ Answer(Refusal("client disconnected"))
    /\ UNCHANGED <<model, spec, rows, cached_tokens, served, torn>>

(* A panic outside the guarded forwards (run_job_isolated): a speculative    *)
(* round calls both models directly and may leave the rows it was verifying  *)
(* torn.  The worker survives and the record is cleared.                     *)
Panicked ==
    /\ run.phase = "decode"
    /\ Answer(Refusal("internal error"))
    /\ rows' \in {rows} \cup (IF run.seed = <<>> \/ run.pos >= n_ctx_slot THEN {}
                            ELSE {Write(rows, run.pos, [i \in 1..(d + 1) |-> Torn]) :
                                    d \in Depths(draft_n, spec = "adaptive", horizon(run.pos, n_ctx_slot))})
    /\ cached_tokens' = <<>>
    /\ UNCHANGED <<model, spec, served, torn>>

Step == Receive \/ Prefill \/ Decode \/ Seed \/ Round
Faults == PrefillFails \/ DecodeFails \/ Disconnected \/ Panicked
Next == Step \/ Faults
Spec == Init /\ [][Next]_vars

-----------------------------------------------------------------------------
(* Type correctness of the worker's state.                                   *)
TypeOK ==
    /\ spec \in {"off", "static", "adaptive"} /\ served \in 0..Jobs
    /\ DOMAIN rows = {} \/ \E n \in 0..(n_ctx_slot - 1) : DOMAIN rows = 0..n
    /\ Len(cached_tokens) <= n_ctx_slot /\ ToSet(cached_tokens) \subseteq Token
    /\ job = NoJob <=> run.phase = "idle"

(* The record never claims a row that holds another token, whatever jobs,    *)
(* disconnects and panics came before, as long as no forward failed:         *)
(* "Prefix reuse is safe because of this comparison".                        *)
RecordMatchesRows ==
    ~torn => \A i \in DOMAIN cached_tokens : i - 1 \in DOMAIN rows /\ rows[i - 1] = cached_tokens[i]

(* What sequential greedy decoding of the prompt gives: tokens up to the     *)
(* first stop token, the limit, the end of the context or a stop string, and *)
(* the whole characters before it.                                           *)
Reference(j, room) ==
    LET n == IF j.max >= 0 THEN Min({j.max, room}) ELSE room
        picks == Greedy(model, j.prompt, n)
        ended == {k \in 1..n : picks[k] \in Eog}
        said == IF ended = {} THEN picks ELSE SubSeq(picks, 1, Min(ended) - 1)
        bytes(k) == FlattenSeq([i \in 1..k |-> BytesOf[said[i]]])
        hits == {k \in DOMAIN said : match_stop_suffix(bytes(k), j.stops) # -1}
        k == IF hits = {} THEN Len(said) ELSE Min(hits)
        whole(b) == complete_utf8_prefix_len(b)
        cut == IF hits = {} THEN whole(bytes(k)) ELSE Max({whole(bytes(k - 1)), match_stop_suffix(bytes(k), j.stops)})
    IN  [kind |-> "finish", tokens |-> SubSeq(said, 1, k), text |-> SubSeq(bytes(k), 1, cut),
         reason |-> IF hits # {} \/ ended # {} THEN "stop" ELSE "length"]

(* A job that runs to its end gives the client exactly the sequential reply, *)
(* on whatever rows earlier jobs left and however the rounds went; a         *)
(* speculative reply that fills the context is one token longer.             *)
ReplyIsSequential ==
    [][(job # NoJob /\ job' = NoJob /\ reply'.kind = "finish" /\ ~torn) =>
         LET nt == Len(job.prompt)
             room == n_ctx_slot - nt + (IF spec # "off" /\ nt < n_ctx_slot THEN 1 ELSE 0)
         IN  reply' = Reference(job, room)]_vars

(* "Mirrors generate_seq token-for-token (the identity contract)": the       *)
(* speculative reply is the sequential one.                                  *)
SpecIdentity ==
    [][(job # NoJob /\ job' = NoJob /\ reply'.kind = "finish" /\ ~torn) =>
         reply' = Reference(job, n_ctx_slot - Len(job.prompt))]_vars

(* "`cached_tokens` is cleared on every error below: a failed request may    *)
(* have written part of a row".                                              *)
RecordMatchesRowsAlways ==
    \A i \in DOMAIN cached_tokens : i - 1 \in DOMAIN rows /\ rows[i - 1] = cached_tokens[i]
=============================================================================
