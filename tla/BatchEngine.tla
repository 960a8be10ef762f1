----------------------------- MODULE BatchEngine -----------------------------
(***************************************************************************)
(* Continuous batching (server/batch.rs): slots that keep a conversation's *)
(* K/V rows between requests, admission with prefix reuse across slots,    *)
(* elastic slot capacity, chunked prefill with interleaved decode steps,   *)
(* and the decode step that forwards every pending token in one batch.     *)
(*                                                                         *)
(* The engine runs on one worker thread, so an action is what happens      *)
(* between two forwards.  Slot i owns sequence i.  A row's content is the  *)
(* token prefix it was computed from: the row of position p attends to the *)
(* rows before it, so a wrong row below makes it wrong too.  The sampler,  *)
(* the client and the device are nondeterministic.                         *)
(***************************************************************************)
EXTENDS KvCells

CONSTANTS Tokens,          \* tokens a prompt is made of and the sampler can commit
          Prompts,         \* the prompts clients send
          MaxTokens,       \* the max_tokens clients send, -1 for unbounded
          MaxJobs,         \* requests admitted, a bound on the run
          MaxArrivals,     \* requests one admission takes, a bound on the run
          NBatch,          \* prefill chunk (MINFER_N_BATCH), 0 for no chunking
          MaxPrefillBatch, \* MAX_PREFILL_BATCH
          MaxBatch,        \* MAX_BATCH
          Gathers,         \* gathers_kv_map: share a prefix in place, else copy it
          GroupPrefill,    \* prefill_batch_ok: FALSE with a CUDA device
          Faults           \* the forwards that may fail: of {"prefill", "decode"}

ASSUME EngineAssumption ==
    /\ Prompts \subseteq Seq(Tokens) /\ <<>> \notin Prompts
    /\ MaxTokens \subseteq Int /\ MaxJobs \in Nat /\ MaxArrivals \in Nat
    /\ NBatch \in Nat /\ MaxPrefillBatch \in Nat /\ MaxBatch \in Nat \ {0}
    /\ Gathers \in BOOLEAN /\ GroupPrefill \in BOOLEAN
    /\ Faults \subseteq {"prefill", "decode"}
    /\ SeqIds = 1 .. Cardinality(SeqIds) /\ NoRow = <<>>
    /\ Cardinality(SeqIds) \in 1 .. NCtx

Slots == SeqIds
Idle == [prompt |-> <<>>]
NoPrefill == [slot |-> 0]
None == <<>>

VARIABLES kv,       \* the cell store
          slots,    \* SlotState of each slot: start, cap, cached_tokens, run
          todo,     \* placed jobs admit has still to submit
          pre,      \* the chunked prefill submit_on is in the middle of
          fresh,    \* serve_loop has admitted and not stepped yet
          tally     \* jobs admitted, and jobs answered exceed_context

vars == <<kv, slots, todo, pre, fresh, tally>>

\* A run: its request, the tokens it has committed, the position its next row
\* takes (current_pos) and the committed token not forwarded yet (needs_forward).
Run(job) == [prompt |-> job.prompt, max |-> job.max, out |-> <<>>,
             pos |-> Len(job.prompt), pend |-> None]

Running(i) == slots[i].run # Idle
Busy == \E i \in Slots : Running(i)
IdleSlots == {i \in Slots : ~Running(i)}
HasPendingDecode == \E i \in Slots : Running(i) /\ slots[i].run.pend # None

Jobs == [prompt : Prompts, max : MaxTokens]

-----------------------------------------------------------------------------
(* Sizing a slot. *)

WantedCells(nt, max, cap) ==
    LET headroom == IF max < 0 THEN cap ELSE max
    IN  Max({nt, Min({nt + headroom, NCtx})})

\* apply_run_moves for the runs that moved; the slot adopts the run it was given.
FollowMoves(ss, before, after, idx) ==
    [i \in Slots |->
        IF i = idx THEN [ss[i] EXCEPT !.start = after.seqs[i].start, !.cap = after.seqs[i].cap]
        ELSE IF i \in Live(after) /\ after.seqs[i].start # before.seqs[i].start
             THEN [ss[i] EXCEPT !.start = after.seqs[i].start]
        ELSE ss[i]]

\* Mutant of Reclaim: a slot that is generating is released too.
ReclaimBusyToo(st, idx, need) ==
    Through(LAMBDA acc, j :
               IF j = idx \/ acc.slots[j].cap = 0 \/ FreeCells(acc.kv) >= need
               THEN acc
               ELSE [kv |-> ReleaseSeq(acc.kv, j),
                     slots |-> [acc.slots EXCEPT ![j].cached = <<>>, ![j].cap = 0]],
            st, [j \in 1 .. Cardinality(Slots) |-> j])

\* Idle runs are released in slot order until the arena has `need` free cells.
Reclaim(st, idx, need) ==
    Through(LAMBDA acc, j :
               IF \/ j = idx \/ acc.slots[j].run # Idle \/ acc.slots[j].cap = 0
                  \/ FreeCells(acc.kv) >= need
               THEN acc
               ELSE [kv |-> ReleaseSeq(acc.kv, j),
                     slots |-> [acc.slots EXCEPT ![j].cached = <<>>, ![j].cap = 0]],
            st, [j \in 1 .. Cardinality(Slots) |-> j])

\* The slot takes the run it was given, or keeps what it had.
Adopt(old, res, idx) ==
    [kv |-> res.kv,
     slots |-> IF res.ok THEN FollowMoves(old.slots, old.kv, res.kv, idx) ELSE old.slots]

Grown(st, idx, want) ==
    IF st.slots[idx].cap = 0
    THEN The({Adopt(st, res, idx) : res \in {KvReserveSeqWithDefrag(st.kv, idx, want)}})
    ELSE The({The({Adopt(rest, res, idx) : res \in {KvSetCapWithDefrag(rest.kv, idx, want)}}) :
                 rest \in {Reclaim(st, idx, want - st.slots[idx].cap)}})

EnsureSlotCapacity(st, idx, wanted) ==
    IF wanted = 0 \/ st.slots[idx].cap >= Min({wanted, NCtx}) THEN st
    ELSE Grown(st, idx, Min({wanted, NCtx}))

-----------------------------------------------------------------------------
(* Prefix reuse. *)

\* Mutant of CommonPrefixLen: lengths are compared, tokens are not.
ShorterLen(a, b) == Min({Len(a), Len(b)})

CommonPrefixLen(a, b) ==
    Cardinality({n \in DOMAIN a \cap DOMAIN b : \A i \in 1 .. n : a[i] = b[i]})

\* prefill_span: at least the last prompt token is fed.
FeedFrom(ss, i, prompt) == Min({CommonPrefixLen(ss[i].cached, prompt), Len(prompt) - 1})

\* shared_prefix: the longest usable prefix, its first holder in slot order.
Usable(ss, i, prompt) ==
    IF ss[i].cached = <<>> THEN 0
    ELSE Min({CommonPrefixLen(ss[i].cached, prompt), Len(prompt) - 1})

Donors(ss, idx, prompt, own) ==
    {j \in Slots \ {idx} : Usable(ss, j, prompt) > own}

BestDonor(ss, idx, prompt, own) ==
    LET best == Max({Usable(ss, j, prompt) : j \in Donors(ss, idx, prompt, own)})
    IN  Min({j \in Donors(ss, idx, prompt, own) : Usable(ss, j, prompt) = best})

\* copy_prefix_from: share or copy the donor's rows and take over its tokens.
CopyPrefixFrom(st, src, idx, rows, own) ==
    The({[kv |-> res.kv, from |-> IF res.ok THEN rows ELSE own,
          slots |-> IF res.ok
                    THEN [st.slots EXCEPT ![idx].cached = SubSeq(st.slots[src].cached, 1, rows)]
                    ELSE st.slots] :
            res \in {IF Gathers THEN SharePrefix(st.kv, src, idx, rows)
                                ELSE KvCopyPrefix(st.kv, src, idx, rows)}})

StartFrom(st, idx, prompt) ==
    LET own == FeedFrom(st.slots, idx, prompt)
    IN  IF Donors(st.slots, idx, prompt, own) = {}
        THEN [kv |-> st.kv, slots |-> st.slots, from |-> own]
        ELSE The({CopyPrefixFrom(st, src, idx, Usable(st.slots, src, prompt), own) :
                     src \in {BestDonor(st.slots, idx, prompt, own)}})

-----------------------------------------------------------------------------
(* Forwards. *)

\* The rows a group computes: each one from the row below it, read from the arena.
Rows(store, s, pos, toks) ==
    LET below == IF pos = 0 THEN <<>> ELSE RowAt(store, s, pos - 1)
    IN  [i \in 1 .. Len(toks) |-> below \o SubSeq(toks, 1, i)]

Computed(store, batch) ==
    [i \in DOMAIN batch |->
        [batch[i] EXCEPT !.vals = Rows(store, batch[i].seq, batch[i].pos, batch[i].vals)]]

\* The arena after a forward that stored the rows of the groups in `done`.
Stored(batch, filled, done) ==
    IF ~filled.ok THEN filled.kv
    ELSE StoreRows(filled.kv, Computed(filled.kv, batch), done)

\* install_run.
Installed(ss, idx, job) == [ss EXCEPT ![idx].cached = job.prompt, ![idx].run = Run(job)]

-----------------------------------------------------------------------------
(* Admission. *)

\* Each job takes the free slot with the longest match, ties to the lowest index.
Match(i, job) == CommonPrefixLen(slots[i].cached, job.prompt)

Place(js) ==
    Through(LAMBDA acc, job :
               LET free == IdleSlots \ {p.slot : p \in Range(acc)}
                   best == {i \in free : \A k \in free : Match(k, job) <= Match(i, job)}
               IN  Append(acc, [slot |-> Min(best), job |-> job]),
            <<>>, js)

GroupCap == IF NBatch = 0 THEN MaxPrefillBatch ELSE Min({NBatch, MaxPrefillBatch})

\* What admit compares with the cap: the sum of feed_span's first component.
GroupTotal(placed) ==
    FoldLeft(LAMBDA n, p : n + FeedFrom(slots, p.slot, p.job.prompt), 0, placed)

Grouped(placed) == Len(placed) > 1 /\ GroupTotal(placed) <= GroupCap /\ GroupPrefill

MayAdmit(js) ==
    /\ pre = NoPrefill /\ todo = <<>>
    /\ fresh => ~Busy
    /\ Len(js) <= Cardinality(IdleSlots)
    /\ tally.admitted + Len(js) <= MaxJobs

\* admit, one job at a time: the placed jobs are then submitted in order.
AdmitEach(placed) ==
    /\ ~Grouped(placed)
    /\ todo' = placed
    /\ UNCHANGED <<kv, slots, pre>>

\* prefill_group's preparation of one job; a prompt over the slot's capacity
\* gives the whole group up.
Prepare(acc, p) ==
    LET nt == Len(p.job.prompt)
        sized(st) == EnsureSlotCapacity([kv |-> st.kv, slots |-> st.slots], p.slot,
                         WantedCells(nt, p.job.max, st.slots[p.slot].cap))
        joined(st, after) ==
            [ok |-> nt <= after.slots[p.slot].cap, kv |-> after.kv, slots |-> after.slots,
             batch |-> Append(acc.batch, [seq |-> p.slot, pos |-> st.from,
                                          vals |-> SubSeq(p.job.prompt, st.from + 1, nt)])]
    IN  IF ~acc.ok THEN acc
        ELSE The({The({joined(st, after) : after \in {sized(st)}}) :
                     st \in {StartFrom([kv |-> acc.kv, slots |-> acc.slots], p.slot, p.job.prompt)}})

Prepared(placed) ==
    Through(Prepare, [ok |-> TRUE, kv |-> kv, slots |-> slots, batch |-> <<>>], placed)

\* prefill_group: one forward for every placed prompt, then every run installed.
AdmitGroup(placed) ==
    /\ Grouped(placed)
    /\ \E prep \in {Prepared(placed)} :
          /\ prep.ok
          /\ slots' = Through(LAMBDA ss, p : Installed(ss, p.slot, p.job), prep.slots, placed)
          /\ \E filled \in {FillBatchInputs(prep.kv, prep.batch)} :
                filled.ok /\ kv' = Stored(prep.batch, filled, DOMAIN prep.batch)
    /\ UNCHANGED <<todo, pre>>

\* A group that cannot be prepared, filled or computed is rejected whole.
AdmitGroupFails(placed) ==
    /\ Grouped(placed)
    /\ \E prep \in {Prepared(placed)} :
          /\ slots' = prep.slots
          /\ IF prep.ok
             THEN \E filled \in {FillBatchInputs(prep.kv, prep.batch)},
                     done \in SUBSET DOMAIN prep.batch :
                        /\ ~filled.ok \/ "prefill" \in Faults
                        /\ kv' = Stored(prep.batch, filled, done)
             ELSE kv' = prep.kv
    /\ UNCHANGED <<todo, pre>>

\* submit_on up to its first forward: size the slot, refuse a prompt that does
\* not fit, find the rows to start from.  Its checks for an unknown or a busy slot
\* never fire: admit gave it an idle one (TypeOK).
SubmitOn ==
    /\ pre = NoPrefill /\ todo # <<>>
    /\ \E p \in {Head(todo)} : \E nt \in {Len(p.job.prompt)} :
       \E sized \in {EnsureSlotCapacity([kv |-> kv, slots |-> slots], p.slot,
                        WantedCells(nt, p.job.max, slots[p.slot].cap))} :
          \/ /\ nt > sized.slots[p.slot].cap
             /\ kv' = sized.kv /\ slots' = sized.slots
             /\ tally' = [tally EXCEPT !.refused = @ + 1]
             /\ UNCHANGED pre
          \/ /\ nt <= sized.slots[p.slot].cap
             /\ \E st \in {StartFrom(sized, p.slot, p.job.prompt)} :
                   /\ kv' = st.kv /\ slots' = st.slots
                   /\ pre' = [slot |-> p.slot, job |-> p.job, from |-> st.from, tick |-> FALSE]
             /\ UNCHANGED tally
    /\ todo' = Tail(todo)
    /\ UNCHANGED fresh

\* prefill_chunks: the next span of the prompt.
ChunkEnd ==
    IF NBatch = 0 THEN Len(pre.job.prompt) ELSE Min({pre.from + NBatch, Len(pre.job.prompt)})

Chunk == <<[seq |-> pre.slot, pos |-> pre.from,
            vals |-> SubSeq(pre.job.prompt, pre.from + 1, ChunkEnd)]>>

\* One prefill forward.  After the last the run is installed; before it, a
\* decode step is due when another run has a token waiting.
PrefillChunk ==
    /\ pre # NoPrefill /\ ~pre.tick
    /\ \E filled \in {FillBatchInputs(kv, Chunk)} :
          /\ filled.ok
          /\ kv' = Stored(Chunk, filled, {1})
    /\ IF ChunkEnd = Len(pre.job.prompt)
       THEN /\ slots' = Installed(slots, pre.slot, pre.job)
            /\ pre' = NoPrefill
       ELSE /\ pre' = [pre EXCEPT !.from = ChunkEnd, !.tick = HasPendingDecode]
            /\ UNCHANGED slots
    /\ UNCHANGED <<todo, fresh, tally>>

\* A prefill forward that fails answers the job and leaves the slot as it is.
PrefillFails ==
    /\ pre # NoPrefill /\ ~pre.tick
    /\ \E filled \in {FillBatchInputs(kv, Chunk)} :
          /\ ~filled.ok \/ "prefill" \in Faults
          /\ \E done \in SUBSET {1} : kv' = Stored(Chunk, filled, done)
    /\ pre' = NoPrefill
    /\ UNCHANGED <<slots, todo, fresh, tally>>

-----------------------------------------------------------------------------
(* The decode step. *)

\* The first MaxBatch slots, in slot order, with a committed-but-unwritten token.
BatchRows ==
    Through(LAMBDA rows, i :
               IF Running(i) /\ slots[i].run.pend # None /\ Len(rows) < MaxBatch
               THEN Append(rows, i) ELSE rows,
            <<>>, [i \in 1 .. Cardinality(Slots) |-> i])

DecodeBatch ==
    [r \in DOMAIN BatchRows |->
        LET i == BatchRows[r]
        IN  [seq |-> i, pos |-> slots[i].run.pos, vals |-> slots[i].run.pend]]

\* Mutant of Forwarded: the mirror misses the token.
ForwardedUnrecorded(slot) == [slot EXCEPT !.run.pos = @ + 1, !.run.pend = None]

\* The forward wrote the pending token's row: the mirror and current_pos follow.
Forwarded(slot) ==
    [slot EXCEPT !.cached = @ \o slot.run.pend,
                 !.run.pos = @ + 1, !.run.pend = None]

Ended(slot) == [slot EXCEPT !.run = Idle]
Failed(slot) == [slot EXCEPT !.run = Idle, !.cached = <<>>]

\* advance, with finish or fail behind it: every way one slot's step can end.
\* The sampler commits a token, or ends the turn (a stop token, a stop string,
\* an exhausted grammar); a client that left fails the run.
Advanced(slot) ==
    LET run == slot.run
        committed(t) == Append(run.out, t)
    IN  IF (run.max >= 0 /\ Len(run.out) >= run.max) \/ run.pos >= slot.cap
        THEN {Ended(slot), Failed(slot)}
        ELSE {Ended(slot), Failed(slot)}
             \cup {[slot EXCEPT !.run.out = committed(t), !.run.pend = <<t>>] :
                      t \in {u \in Tokens : /\ ~(run.max >= 0 /\ Len(run.out) + 1 >= run.max)
                                            /\ run.pos + 1 < slot.cap}}

\* Who calls tick: serve_loop between admissions, or submit_on between chunks.
MayTick == Busy /\ IF pre = NoPrefill THEN todo = <<>> ELSE pre.tick

AfterTick ==
    /\ fresh' = IF pre = NoPrefill THEN FALSE ELSE fresh
    /\ pre' = IF pre = NoPrefill THEN pre ELSE [pre EXCEPT !.tick = FALSE]
    /\ UNCHANGED <<todo, tally>>

\* Every slot after the step: the batch's rows are forwarded, every run advances.
Stepped ==
    LET forwarded == [i \in Slots |->
                        IF i \in Range(BatchRows) THEN Forwarded(slots[i]) ELSE slots[i]]
        ends == [i \in Slots |-> IF Running(i) THEN Advanced(forwarded[i]) ELSE {slots[i]}]
    IN  {next \in [Slots -> UNION Range(ends)] : \A i \in Slots : next[i] \in ends[i]}

Tick ==
    /\ MayTick
    /\ \E batch \in {DecodeBatch} : \E filled \in {FillBatchInputs(kv, batch)} :
          /\ filled.ok
          /\ kv' = Stored(batch, filled, DOMAIN batch)
    /\ slots' \in Stepped
    /\ AfterTick

\* A failed decode forward: fail_batch answers the rows of the batch and only those.
TickFails ==
    /\ MayTick
    /\ BatchRows # <<>>
    /\ \E batch \in {DecodeBatch} : \E filled \in {FillBatchInputs(kv, batch)} :
          /\ ~filled.ok \/ "decode" \in Faults
          /\ \E done \in SUBSET DOMAIN batch : kv' = Stored(batch, filled, done)
    /\ slots' = [i \in Slots |-> IF i \in Range(BatchRows) THEN Failed(slots[i]) ELSE slots[i]]
    /\ AfterTick

-----------------------------------------------------------------------------
\* BatchEngine::new: the arena is cut into equal runs, packed from cell 0.
Init ==
    LET cap == NCtx \div Cardinality(Slots)
    IN  /\ kv = [EmptyStore EXCEPT !.seqs = [i \in Slots |-> SeqSlot((i - 1) * cap, cap)]]
        /\ slots = [i \in Slots |-> [start |-> (i - 1) * cap, cap |-> cap,
                                     cached |-> <<>>, run |-> Idle]]
        /\ todo = <<>> /\ pre = NoPrefill /\ fresh = FALSE
        /\ tally = [admitted |-> 0, refused |-> 0]

Arrivals == UNION {[1 .. n -> Jobs] : n \in 1 .. MaxArrivals}

\* serve_loop waits for a job while it has nothing to step and nothing to submit.
Wait == ~Busy /\ pre = NoPrefill /\ todo = <<>> /\ UNCHANGED vars

Admit ==
    \E js \in Arrivals :
        /\ MayAdmit(js)
        /\ \E placed \in {Place(js)} :
              AdmitEach(placed) \/ AdmitGroup(placed) \/ AdmitGroupFails(placed)
        /\ fresh' = TRUE
        /\ tally' = [tally EXCEPT !.admitted = @ + Len(js)]
Submit == SubmitOn \/ PrefillChunk \/ PrefillFails
Step == Tick \/ TickFails

Next == Admit \/ Submit \/ Step \/ Wait

Spec == Init /\ [][Next]_vars
-----------------------------------------------------------------------------
(* Types of the store, the slots and the admission state; a prefill is      *)
(* never in progress on a slot that already generates, which is the busy    *)
(* check of submit_on.                                                      *)
TypeOK ==
    /\ Live(kv) \subseteq Slots
    /\ kv.data \in [Cells -> Seq(Tokens)]
    /\ \A i \in Slots :
          /\ slots[i].start \in Cells /\ slots[i].cap \in 0 .. NCtx
          /\ slots[i].cached \in Seq(Tokens)
          /\ Running(i) => /\ slots[i].run.pos \in 0 .. NCtx
                           /\ Len(slots[i].run.pend) <= 1
    /\ \A n \in DOMAIN todo : todo[n].slot \in Slots /\ todo[n].job \in Jobs
    /\ pre # NoPrefill => pre.slot \in Slots /\ ~Running(pre.slot)

(* Row i of a slot holds the token prefix its mirror records up to i, for   *)
(* every slot that is not in the middle of its own prefill: what admission  *)
(* compares prompts with (cached_tokens) is what attention will read.       *)
RowsHoldMirror ==
    \A i \in Slots : i # pre.slot =>
        \A n \in 1 .. Len(slots[i].cached) :
            i \in Live(kv) /\ RowAt(kv, i, n - 1) = SubSeq(slots[i].cached, 1, n)

(* What a client has been sent is what the cache holds: the mirror, plus    *)
(* the one token waiting for its forward, is the prompt plus every token    *)
(* committed so far, so none is lost or written twice.                      *)
CommittedTokensWritten ==
    \A i \in Slots : Running(i) =>
        slots[i].cached \o slots[i].run.pend = slots[i].run.prompt \o slots[i].run.out

(* A run never outgrows its slot: it has a run of cells at least as large   *)
(* as the slot believes, and its next token's row lies inside it, whatever  *)
(* was reclaimed, resized and moved around it.                              *)
RunFitsReservation ==
    \A i \in Slots : Running(i) =>
        /\ slots[i].run.pos <= slots[i].cap
        /\ slots[i].run.pend # None => slots[i].run.pos < slots[i].cap
        /\ i \in Live(kv) /\ slots[i].cap <= kv.seqs[i].cap

(* A request every slot's capacity together could hold is not refused for   *)
(* its length while nothing runs: idle capacity is reclaimed for it.        *)
IdleEngineServes ==
    [][(~Busy /\ tally'.refused > tally.refused) =>
            Len(Head(todo).job.prompt) > NCtx]_vars

(* A prefill forward never feeds more tokens than the chunk and the group   *)
(* cap allow.                                                               *)
GroupFitsCap ==
    [][\A js \in Arrivals : MayAdmit(js) /\ AdmitGroup(Place(js)) =>
            FoldLeft(LAMBDA n, g : n + Len(g.vals), 0, Prepared(Place(js)).batch) <= GroupCap]_vars

=============================================================================
