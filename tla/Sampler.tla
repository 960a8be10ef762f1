------------------------------ MODULE Sampler -------------------------------
(* The sampling pipeline (sampler.rs): bias, penalties and DRY, the grammar  *)
(* mask, then the filters and the draw.                                      *)
(*                                                                           *)
(* A row of logits is a function 1..n -> Int with NegInf for a masked entry. *)
(* The base of the softmax only scales logits, so it is 2 here: a weight is  *)
(* 2^logit, a probability the share of the weights, and every comparison of  *)
(* the code is exact.  p-values are quarters (4 = 1.0, filter off).  The rng *)
(* is a choice: each filter and draw yields the set of its outcomes.         *)
EXTENDS Integers, Sequences, FiniteSets, SequencesExt, FiniteSetsExt, TLC

NegInf == -1000
REPEAT_LAST_N == 64
Off == 4
(* SamplerConfig::default in these units (top_p of 0.95 is under four        *)
(* quarters); a configuration overrides what it sets.                        *)
Default == [temp |-> 1, top_k |-> 40, top_p |-> 3, repeat |-> 1, frequency |-> 0, presence |-> 0, min_p |-> -1,
            typical_p |-> Off, dry |-> [multiplier |-> 0, base |-> 2, allowed |-> 2, last_n |-> 64, breakers |-> <<>>],
            xtc_probability |-> 0, xtc_threshold |-> 2, mirostat |-> 0, mu |-> 10, bias |-> <<>>]
Live(row) == {i \in DOMAIN row : row[i] > NegInf}
Weight(row, i) == 2 ^ (row[i] - Min({row[j] : j \in Live(row)}))
Total(row, S) == MapThenSumSet(LAMBDA i : Weight(row, i), S)
Only(row, keep) == [i \in DOMAIN row |-> IF i \in keep THEN row[i] ELSE NegInf]

(* Candidates by falling probability, equal ones by index. *)
softmax_desc(row) ==
    SortSeq(SelectSeq([i \in DOMAIN row |-> i], LAMBDA i : row[i] > NegInf),
            LAMBDA a, b : row[a] > row[b] \/ (row[a] = row[b] /\ a < b))

(* The shortest prefix of the candidates with more than p of the mass.       *)
Nucleus(row, order, p) ==
    LET mass(k) == Total(row, {order[i] : i \in 1..k})
        enough == {k \in DOMAIN order : 4 * mass(k) > p * Total(row, Live(row))}
    IN  {order[i] : i \in 1..(IF enough = {} THEN Len(order) ELSE Min(enough))}

-----------------------------------------------------------------------------
(* --- the deterministic prefix: bias, penalties, DRY ------------------------ *)
apply_logit_bias(row, bias) ==
    FoldLeft(LAMBDA r, b : IF b[1] \in Live(r) THEN [r EXCEPT ![b[1]] = @ + b[2]] ELSE r, row, bias)

Count(prev, t) == Cardinality({i \in DOMAIN prev : prev[i] = t})
apply_penalties(row, prev, repeat, frequency, presence) ==
    LET shifted(t) == row[t] - Count(prev, t) * frequency - presence
        scaled(v) == IF repeat <= 1 THEN v ELSE IF v <= 0 THEN v * repeat ELSE v \div repeat
    IN  [t \in DOMAIN row |-> IF t \in Live(row) /\ Count(prev, t) > 0 THEN scaled(shifted(t)) ELSE row[t]]

recent_window(tokens, n) == SubSeq(tokens, Max({1, Len(tokens) - n + 1}), Len(tokens))

(* The token i places before the end of the window. *)
rat(tokens, i) == tokens[Len(tokens) - i]

(* How far back a repetition may reach: to the nearest restart sequence.     *)
RepLimit(tokens, n, breakers) ==
    LET Hit(i, b) == /\ b # <<>> /\ b[1] = rat(tokens, i) /\ Len(b) - 1 <= i
                     /\ \A k \in 2..Len(b) : b[k] = rat(tokens, i - (k - 1))
        at == {i \in 0..(n - 1) : \E j \in DOMAIN breakers : Hit(i, breakers[j])}
        i == Min(at)
        first == breakers[Min({j \in DOMAIN breakers : Hit(i, breakers[j])})]
    IN  IF at = {} THEN n ELSE i - (Len(first) - 1)

(* The first place from i on where the window and its shift by k differ.     *)
Mismatch(tokens, n, i, k) ==
    Min({n} \cup {j \in i..(n - 1) : rat(tokens, j) # rat(tokens, j - k)})

(* Mutant of RepeatCounts: the box is copied when it ends exactly at its     *)
(* right edge, where the repeat may go on.                                   *)
RepeatCountsCopied(tokens, n, limit) ==
    FoldLeft(LAMBDA s, k :
               LET fresh == Mismatch(tokens, n, k, k)
                   box == s.rt - k + 1
               IN  IF k > s.rt
                   THEN [s EXCEPT !.z = (k :> Min({fresh - k, limit})) @@ @,
                                  !.lt = IF fresh > k THEN k ELSE @, !.rt = IF fresh > k THEN fresh - 1 ELSE @]
                   ELSE [s EXCEPT !.z = (k :> Min({s.z[k - s.lt], box, limit})) @@ @],
             [z |-> <<>>, lt |-> 0, rt |-> 0], [k \in 1..(n - 1) |-> k]).z

(* For each distance k the length of the suffix that repeats there, by the   *)
(* reverse Z-algorithm: inside the box lt..rt an earlier count is reused.    *)
RepeatCounts(tokens, n, limit) ==
    FoldLeft(LAMBDA s, k :
               LET fresh == Mismatch(tokens, n, k, k)
                   box == s.rt - k + 1
                   copied == s.z[k - s.lt]
                   further == Mismatch(tokens, n, s.rt + 1, k)
               IN  IF k > s.rt
                   THEN [s EXCEPT !.z = (k :> Min({fresh - k, limit})) @@ @,
                                  !.lt = IF fresh > k THEN k ELSE @, !.rt = IF fresh > k THEN fresh - 1 ELSE @]
                   ELSE IF copied < box THEN [s EXCEPT !.z = (k :> Min({copied, limit})) @@ @]
                   ELSE [z |-> (k :> Min({further - k, limit})) @@ s.z, lt |-> k, rt |-> further - 1],
             [z |-> <<>>, lt |-> 0, rt |-> 0], [k \in 1..(n - 1) |-> k]).z

(* The longest repeat each token would extend, for the tokens DRY penalizes. *)
(* The clamp of the exponent, which keeps base^n finite in f32, is left out: *)
(* the integers here do not overflow.                                        *)
DryRepeats(tokens, dry, n, limit, count) ==
    LET long == {k \in 1..(n - 1) : count[k] >= dry.allowed}
        exempt == {t \in ToSet(tokens) : <<t>> \in ToSet(dry.breakers)}
    IN  IF n <= dry.allowed \/ limit < dry.allowed THEN <<>>
        ELSE [t \in {rat(tokens, k - 1) : k \in long} \ exempt |->
                Max({count[k] : k \in {j \in long : rat(tokens, j - 1) = t}})]
apply_dry(row, tokens, dry) ==
    LET n == Min({Len(tokens), dry.last_n})
        limit == RepLimit(tokens, n, dry.breakers)
        repeats == DryRepeats(tokens, dry, n, limit, RepeatCounts(tokens, n, limit))
    IN  IF dry.multiplier = 0 \/ dry.base < 1 \/ dry.last_n = 0 THEN row
        ELSE [t \in DOMAIN row |-> IF t \in Live(row) /\ t \in DOMAIN repeats
                                   THEN row[t] - dry.multiplier * dry.base ^ (repeats[t] - dry.allowed)
                                   ELSE row[t]]

apply_deterministic_filters(row, cfg, prev) ==
    LET penalized == apply_penalties(apply_logit_bias(row, cfg.bias), prev, cfg.repeat, cfg.frequency, cfg.presence)
    IN  IF cfg.dry.multiplier > 0 THEN apply_dry(penalized, prev, cfg.dry) ELSE penalized

-----------------------------------------------------------------------------
(* --- filters ------------------------------------------------------------------ *)
sample_greedy(row) == CHOOSE i \in DOMAIN row : \A j \in DOMAIN row : row[i] > row[j] \/ (row[i] = row[j] /\ i <= j)

apply_top_k(row, k) ==
    IF k = 0 \/ k >= Len(row) THEN row
    ELSE LET sorted == SortSeq(row, LAMBDA a, b : a > b)
         IN  Only(row, {i \in DOMAIN row : row[i] >= sorted[k]})

apply_top_p(row, p) == IF p <= 0 \/ p >= Off \/ Live(row) = {} THEN row ELSE Only(row, Nucleus(row, softmax_desc(row), p))

(* min_p = 2^-d: a token within d of the best logit stays, so the best does  *)
(* without the rescue the code has for a p above 1.                          *)
apply_min_p(row, d) ==
    IF d = -1 \/ Live(row) = {} THEN row
    ELSE Only(row, {i \in Live(row) : row[i] >= Max({row[j] : j \in Live(row)}) - d})

(* Candidates by the distance of their surprisal from the entropy.           *)
apply_typical(row, p) ==
    LET cand == softmax_desc(row)
        all == Total(row, Live(row))
        mean == MapThenSumSet(LAMBDA i : Weight(row, i) * row[i], Live(row))
        score(i) == LET d == mean - row[i] * all IN IF d < 0 THEN 0 - d ELSE d
        place(i) == CHOOSE k \in DOMAIN cand : cand[k] = i
        order == SortSeq(cand, LAMBDA a, b : score(a) < score(b) \/ (score(a) = score(b) /\ place(a) < place(b)))
    IN  IF p >= Off \/ Len(cand) <= 1 THEN row ELSE Only(row, Nucleus(row, order, p))

(* Mutant of XtcDropped: the last choice above the threshold goes too.       *)
XtcDroppedAll(row, cand, threshold) ==
    {i \in ToSet(cand) : 4 * Weight(row, i) >= threshold * Total(row, Live(row))}

(* The candidates above the threshold but the last of them. *)
XtcDropped(row, cand, threshold) ==
    LET above == {k \in DOMAIN cand : 4 * Weight(row, cand[k]) >= threshold * Total(row, Live(row))}
    IN  {cand[k] : k \in {j \in above : j + 1 \in above}}
apply_xtc(row, probability, threshold) ==
    LET cand == softmax_desc(row)
        dropped == Only(row, DOMAIN row \ XtcDropped(row, cand, threshold))
    IN  IF probability = 0 \/ threshold > 2 \/ Len(cand) < 2 THEN {row}
        ELSE IF probability = Off THEN {dropped} ELSE {row, dropped}

Filtered(row, cfg) ==
    apply_xtc(apply_min_p(apply_top_p(apply_typical(apply_top_k(row, cfg.top_k), cfg.typical_p), cfg.top_p), cfg.min_p),
              cfg.xtc_probability, cfg.xtc_threshold)

(* The draw by inverse CDF.  In f32 the running sum of three or more shares  *)
(* can end two units below 1, under the largest number the rng draws (logits *)
(* 0, 2.75, 2.5 do; two shares never do): the last id is returned then, even *)
(* one that was masked.                                                      *)
sample_temperature(row) == Live(row) \cup (IF Cardinality(Live(row)) > 2 THEN {Len(row)} ELSE {})
(* Mirostat: the candidates no more than mu bits surprising, at least one;   *)
(* version 1 keeps the top k of an estimate that may be any k.               *)
sample_mirostat_v2(row, mu) ==
    LET cand == softmax_desc(row)
        fits(i) == IF mu < 0 THEN FALSE ELSE Total(row, Live(row)) <= Weight(row, i) * 2 ^ mu
        over == {k \in DOMAIN cand : ~fits(cand[k])}
    IN  {cand[k] : k \in 1..Max({1, IF over = {} THEN Len(cand) ELSE Min(over) - 1})}
sample_mirostat_v1(row) == UNION {Live(apply_top_k(row, k)) : k \in 1..Len(row)}

(* apply_token_mask and the pipeline: what may be sampled under a mask, {}   *)
(* for the refusal when the mask leaves nothing.                             *)
apply_token_mask(row, mask) == Only(row, mask)
sample_with_config_grammar(row, cfg, prev, mask) ==
    LET masked == apply_token_mask(apply_deterministic_filters(row, cfg, prev), mask)
    IN  IF Live(masked) = {} THEN {}
        ELSE IF cfg.temp = 0 THEN {sample_greedy(masked)}
        ELSE UNION {CASE cfg.mirostat = 0 -> sample_temperature(r)
                      [] cfg.mirostat = 1 -> sample_mirostat_v1(r)
                      [] cfg.mirostat = 2 -> sample_mirostat_v2(r, cfg.mu) : r \in Filtered(masked, cfg)}

(* SamplerConfig::validate, for the knobs the configuration has.             *)
validate(cfg) ==
    /\ {cfg.typical_p, cfg.top_p, cfg.xtc_probability} \subseteq 0..Off /\ cfg.xtc_threshold \in 0..2
    /\ cfg.repeat >= 0 /\ cfg.dry.multiplier >= 0
    /\ cfg.dry.multiplier > 0 => cfg.dry.base >= 1 /\ cfg.dry.allowed >= 1 /\ cfg.dry.last_n > 0
    /\ \A i \in DOMAIN cfg.bias : cfg.bias[i][2] \in -100..100
validate_logit_bias(cfg, n_vocab) == \A i \in DOMAIN cfg.bias : cfg.bias[i][1] <= n_vocab

(* The end of the text kept when a stop string has just been completed, -1   *)
(* while none has.                                                           *)
match_stop_suffix(buf, stops) ==
    LET starts == {Len(buf) - Len(s) : s \in {t \in stops : t # <<>> /\ Len(t) <= Len(buf)
                                                  /\ SubSeq(buf, Len(buf) - Len(t) + 1, Len(buf)) = t}}
    IN  IF starts = {} THEN -1 ELSE Min(starts)

-----------------------------------------------------------------------------
(* DRY's counts are the longest repeats a direct comparison finds, capped at *)
(* the restart limit (apply_dry, step 2).                                    *)
DryCountsRepeats(tokens, breakers) ==
    LET n == Len(tokens)
        limit == RepLimit(tokens, n, breakers)
        direct(k) == Max({m \in 0..(n - k) : \A j \in 0..(m - 1) : rat(tokens, j) = rat(tokens, j + k)})
    IN  \A k \in 1..(n - 1) : RepeatCounts(tokens, n, limit)[k] = Min({direct(k), limit})

(* No chain of filters empties the distribution or revives a masked token,   *)
(* and without XTC the best token survives them all (Filtered).              *)
FiltersKeepAChoice(row, cfg) ==
    Live(row) # {} =>
        \A r \in Filtered(row, cfg) :
            /\ Live(r) # {} /\ \A i \in Live(r) : r[i] = row[i]
            /\ cfg.xtc_probability = 0 /\ cfg.typical_p = Off => sample_greedy(r) = sample_greedy(row)

(* What the pipeline's comment and docs/GRAMMAR-DESIGN.md say: "no forbidden *)
(* token can be selected".  The code does not keep it: when the shares of    *)
(* three or more allowed tokens add up to less than the number drawn, the    *)
(* temperature draw returns the last id of the vocabulary, allowed or not.   *)
DrawsAllowed(row, cfg, prev, mask) == sample_with_config_grammar(row, cfg, prev, mask) \subseteq mask

(* Whatever the bias, the penalties and the way of drawing, one token is     *)
(* sampled unless the mask leaves none, and it is one the grammar allows: a  *)
(* greedy or mirostat draw always, a temperature draw but for the last id,   *)
(* which its rounding can return (sample_with_config_grammar).               *)
ForbiddenOnlyByRounding(row, cfg, prev, mask) ==
    LET drawn == sample_with_config_grammar(row, cfg, prev, mask)
        rounds == cfg.temp # 0 /\ cfg.mirostat = 0 /\ Cardinality(Live(row) \cap mask) > 2
    IN  /\ drawn = {} <=> Live(row) \cap mask = {}
        /\ drawn \ mask \subseteq (IF rounds THEN {Len(row)} ELSE {})
=============================================================================
