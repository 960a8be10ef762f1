------------------------------- MODULE KvArena -------------------------------
(***************************************************************************)
(* The KV arena as its callers see it: the calls BatchEngine makes on the  *)
(* GraphAllocator, in any order.  log is what a caller has been told each  *)
(* sequence holds (SlotState.cached_tokens in the engine): a sequence of   *)
(* its own, which no call on another sequence may change.                  *)
(***************************************************************************)
EXTENDS KvCells

CONSTANTS Vals,       \* contents a forward can store in a row
          MaxFeed,    \* rows one group of a batch feeds, at most
          Callers     \* the settings considered: the sequences in use, how many
                      \* of them one batch feeds (1 or 2), whether the device
                      \* reads prefixes in place (Device::gathers_attn_map and
                      \* no MINFER_NO_KV_SHARE), and pin: callers spare the
                      \* rows another sequence reads in place and lend no rows
                      \* they borrowed, which the code asks of nobody

ASSUME ArenaAssumption ==
    /\ MaxFeed \in Nat \ {0} /\ NoRow \notin Vals
    /\ Callers \subseteq [seqs : SUBSET SeqIds, groups : {1, 2}, share : BOOLEAN, pin : BOOLEAN]

VARIABLES kv, log,
          by          \* who calls: one of Callers, for good

vars == <<kv, log, by>>

Init == kv = EmptyStore /\ log = [s \in SeqIds |-> <<>>] /\ by \in Callers

\* kv_reserve_seq_with_defrag: a slot that holds no run asks for one.
Reserve(s, cap) ==
    /\ s \notin Live(kv)
    /\ kv' = KvReserveSeqWithDefrag(kv, s, cap).kv
    /\ UNCHANGED <<log, by>>

\* No other sequence reads the rows s holds from position pos on.
Unread(s, pos) ==
    \A t \in Live(kv) \ {s} : \A p \in Positions(kv.seqs[s]) :
        p >= pos => CellOf(kv.seqs[s], p) \notin SharedCells(kv.seqs[t])

\* kv_release_seq: the caller forgets what the run held.
Release(s) ==
    /\ s \in Live(kv)
    /\ by.pin => Unread(s, 0)
    /\ kv' = ReleaseSeq(kv, s)
    /\ log' = [log EXCEPT ![s] = <<>>]
    /\ UNCHANGED by

\* kv_set_cap_with_defrag, in either direction.
Resize(s, cap) ==
    /\ s \in Live(kv)
    /\ kv' = KvSetCapWithDefrag(kv, s, cap).kv
    /\ UNCHANGED <<log, by>>

\* copy_prefix_from: dst starts from the first rows of src, shared or copied.
Borrow(src, dst, rows) ==
    /\ src # dst /\ dst \in Live(kv)
    /\ rows \in 1 .. Len(log[src])
    /\ (by.share /\ by.pin) => kv.seqs[src].shared.rows = 0
    /\ LET res == IF by.share THEN SharePrefix(kv, src, dst, rows)
                           ELSE KvCopyPrefix(kv, src, dst, rows)
       IN  /\ kv' = res.kv
           /\ log' = IF res.ok THEN [log EXCEPT ![dst] = SubSeq(log[src], 1, rows)] ELSE log
    /\ UNCHANGED by

\* A group continues its sequence, or rewinds it to a prefix it still holds.
Groups == {g \in [seq : Live(kv), pos : 0 .. NCtx, vals : UNION {[1 .. n -> Vals] : n \in 1 .. MaxFeed}] :
              g.pos <= Len(log[g.seq])}

\* One sequence's prefill chunk, or one row for each of two sequences.
Batches == {<<g>> : g \in Groups}
           \cup {b \in {f \in Groups : Len(f.vals) = 1} \X {f \in Groups : Len(f.vals) = 1} :
                    by.groups > 1 /\ b[1].seq < b[2].seq}

Logged(g) == SubSeq(log[g.seq], 1, g.pos) \o g.vals

InBatch(batch) == {batch[i].seq : i \in DOMAIN batch}

\* A forward that succeeds: fill_batch_inputs, then every row is stored.
Forward(batch, filled) ==
    /\ filled.ok
    /\ kv' = StoreRows(filled.kv, batch, DOMAIN batch)
    /\ log' = [s \in SeqIds |->
          IF s \in InBatch(batch) THEN Logged(CHOOSE g \in Range(batch) : g.seq = s) ELSE log[s]]
    /\ UNCHANGED by

\* A forward that fails, in the fill or in the kernels after some rows were
\* stored: the caller drops what every sequence of the batch held.
ForwardFails(batch, filled, done) ==
    /\ kv' = IF filled.ok THEN StoreRows(filled.kv, batch, done) ELSE filled.kv
    /\ log' = [s \in SeqIds |-> IF s \in InBatch(batch) THEN <<>> ELSE log[s]]
    /\ UNCHANGED by

Next ==
    \/ \E s \in by.seqs, cap \in 1 .. NCtx : Reserve(s, cap) \/ Resize(s, cap)
    \/ \E s \in by.seqs : Release(s)
    \/ \E src, dst \in by.seqs, rows \in 1 .. NCtx : Borrow(src, dst, rows)
    \/ \E batch \in Batches :
          /\ by.pin => \A i \in DOMAIN batch : Unread(batch[i].seq, batch[i].pos)
          /\ \E filled \in {FillBatchInputs(kv, batch)} :
                \/ Forward(batch, filled)
                \/ \E done \in SUBSET DOMAIN batch : ForwardFails(batch, filled, done)

Spec == Init /\ [][Next]_vars
-----------------------------------------------------------------------------
(* Types: run table, owner stamps, row contents and what callers were told. *)
TypeOK ==
    /\ Live(kv) \subseteq SeqIds
    /\ kv.seqs \in [Live(kv) -> SeqSlots]
    /\ kv.owner \in [Cells -> SeqIds \cup {Free}]
    /\ kv.data \in [Cells -> Vals \cup {NoRow}]
    /\ log \in [SeqIds -> Seq(Vals)]
    /\ by \in Callers

(* Runs never overlap and never leave the arena, through any sequence of    *)
(* reservations, resizes, compactions and failures: overlapping runs would  *)
(* let one conversation overwrite another's cache.                          *)
RunsDisjoint ==
    /\ \A s \in Live(kv) : RunCells(kv.seqs[s]) \subseteq Cells
    /\ \A s, t \in Live(kv) : s # t => RunCells(kv.seqs[s]) \cap RunCells(kv.seqs[t]) = {}

(* Every position a sequence has written lies in the arena cells its span   *)
(* list covers (written <= shared rows + cap).                              *)
WrittenCovered ==
    \A s \in Live(kv) : \A p \in 0 .. kv.seqs[s].written - 1 :
        p \in Positions(kv.seqs[s]) /\ CellOf(kv.seqs[s], p) \in Cells

(* Isolation: every sequence reads back, at every position, exactly what    *)
(* its own calls stored there, whatever was reserved, released, resized,    *)
(* compacted, borrowed, rewound or failed for the others.                   *)
RowsHoldLog ==
    \A s \in SeqIds : \A i \in 1 .. Len(log[s]) :
        s \in Live(kv) /\ RowAt(kv, s, i - 1) = log[s][i]

(* The owner table mirrors the run table: a stamped cell lies inside the    *)
(* run of the live sequence whose stamp it carries, so release, resize and  *)
(* compaction leave no stamp behind and move none to another's cells.       *)
OwnersMatchRuns ==
    \A c \in Cells : kv.owner[c] # Free =>
        kv.owner[c] \in Live(kv) /\ c \in RunCells(kv.seqs[kv.owner[c]])
=============================================================================
