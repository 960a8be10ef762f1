------------------------------- MODULE KvCells -------------------------------
(***************************************************************************)
(* The KV cell store: the run table of KvCache (graph/kvcache.rs) and the  *)
(* operations GraphAllocator (graph/alloc.rs) drives it with.              *)
(*                                                                         *)
(* A store is a record                                                     *)
(*   seqs   the run table: a function from the live sequences to SeqSlots  *)
(*   owner  the sequence stamped on each cell, Free when there is none     *)
(*   data   what the K/V row of each cell holds, NoRow before any write    *)
(* One layer stands for all of them: they share one run table and every    *)
(* copy, stamp and write is repeated on each.  The span lists are derived  *)
(* from the run table, as refresh_spans derives them.                      *)
(*                                                                         *)
(* Every operation returns [ok, kv]: an Err keeps whatever the code had    *)
(* already changed when it returned.                                       *)
(***************************************************************************)
EXTENDS Integers, Sequences, FiniteSets, FiniteSetsExt, SequencesExt

CONSTANTS NCtx,     \* cells in the arena
          SeqIds,   \* sequence identifiers: integers, ordered like BTreeMap keys
          Free,     \* the owner of an unowned cell
          NoRow,    \* the content of a cell that was never written
          Defrag    \* FALSE when MINFER_NO_KV_DEFRAG is set

ASSUME NCtxAssumption == NCtx \in Nat \ {0}
ASSUME SeqIdsAssumption == SeqIds \subseteq Nat /\ IsFiniteSet(SeqIds)
ASSUME MarksAssumption == Free \notin SeqIds /\ Defrag \in BOOLEAN

Cells == 0 .. NCtx - 1

\* The member of a singleton.  {F(x) : x \in {e}} binds e to x before F is evaluated.
The(S) == CHOOSE x \in S : TRUE

\* A fold from the left, each result bound before the next step reads it.
Through(op(_, _), base, seq) ==
    LET f[n \in 0 .. Len(seq)] ==
            IF n = 0 THEN base ELSE The({op(r, seq[n]) : r \in {f[n - 1]}})
    IN  f[Len(seq)]

Ok(kv) == [ok |-> TRUE, kv |-> kv]
Err(kv) == [ok |-> FALSE, kv |-> kv]

-----------------------------------------------------------------------------
(* Runs, spans and the cells they resolve to. *)

SeqSlots == [start : Cells, cap : 1 .. NCtx,
             shared : [cell : Cells, rows : 0 .. NCtx], written : 0 .. 2 * NCtx]

SeqSlot(start, cap) ==
    [start |-> start, cap |-> cap, shared |-> [cell |-> 0, rows |-> 0], written |-> 0]

PrivateWritten(slot) == Max({0, slot.written - slot.shared.rows})

Live(kv) == DOMAIN kv.seqs

\* The span list of a run: the prefix read in place, then the private run.
Spans(slot) ==
    {sp \in {[base |-> 0, cell |-> slot.shared.cell, len |-> slot.shared.rows],
             [base |-> slot.shared.rows, cell |-> slot.start, len |-> slot.cap]} :
        sp.len > 0}

Positions(slot) == 0 .. slot.shared.rows + slot.cap - 1

CellOf(slot, pos) ==
    IF pos < slot.shared.rows THEN slot.shared.cell + pos
                              ELSE slot.start + (pos - slot.shared.rows)

\* The first span that covers the cell decides, so a prefix read in place wins.
PosOfCell(slot, cell) ==
    IF cell \in slot.shared.cell .. slot.shared.cell + slot.shared.rows - 1
        THEN cell - slot.shared.cell
        ELSE slot.shared.rows + (cell - slot.start)

RunCells(slot) == slot.start .. slot.start + slot.cap - 1
SharedCells(slot) == slot.shared.cell .. slot.shared.cell + slot.shared.rows - 1

\* Mutant of Occupied: a reserved run counts as free until its rows are written.
OccupiedWhenWritten(kv) == {c \in Cells : kv.owner[c] # Free}

\* Cells of any live sequence's address space: reservations and shared prefixes.
Occupied(kv) ==
    UNION {sp.cell .. sp.cell + sp.len - 1 : sp \in UNION {Spans(kv.seqs[s]) : s \in Live(kv)}}

\* The capacities of some sequences, counted cell by cell.
CapCells(kv, S) == UNION {{s} \X (0 .. kv.seqs[s].cap - 1) : s \in S}

ReservedCells(kv) == Cardinality(CapCells(kv, Live(kv)))
FreeCells(kv) == Max({0, NCtx - ReservedCells(kv)})

SetSlot(kv, s, slot) ==
    [kv EXCEPT !.seqs = [t \in Live(kv) \cup {s} |-> IF t = s THEN slot ELSE @[t]]]

-----------------------------------------------------------------------------
(* Reserving and releasing. *)

FirstFit(kv, cap) ==
    {c \in Cells : c + cap <= NCtx /\ (c .. c + cap - 1) \cap Occupied(kv) = {}}

ReserveSeq(kv, s, cap) ==
    IF cap = 0 THEN Err(kv)
    ELSE IF s \in Live(kv)
        THEN IF kv.seqs[s].cap >= cap THEN Ok(kv) ELSE Err(kv)
    ELSE IF FirstFit(kv, cap) = {} THEN Err(kv)
    ELSE Ok(SetSlot(kv, s, SeqSlot(Min(FirstFit(kv, cap)), cap)))

\* Mutant of ReleaseSeq: the stamps outlive the run.
ReleaseSeqKeepingStamps(kv, s) ==
    [kv EXCEPT !.seqs = [t \in Live(kv) \ {s} |-> @[t]]]

ReleaseSeq(kv, s) ==
    IF s \notin Live(kv) THEN kv
    ELSE [kv EXCEPT
            !.seqs = [t \in Live(kv) \ {s} |-> @[t]],
            !.owner = [c \in Cells |->
                IF c \in RunCells(kv.seqs[s]) /\ @[c] = s THEN Free ELSE @[c]]]

-----------------------------------------------------------------------------
(* Compaction: the plan, its order, the row copies and the renumbering. *)

\* Runs are packed from cell 0 in ascending (start, seq) order.
Precedes(kv, r, s) ==
    \/ kv.seqs[r].start < kv.seqs[s].start
    \/ kv.seqs[r].start = kv.seqs[s].start /\ r < s

PackedStart(kv, s) == Cardinality(CapCells(kv, {r \in Live(kv) : Precedes(kv, r, s)}))

\* Contiguous cells the plan has opened once s is packed: up to the next run.
GapAfter(kv, s) ==
    LET later == {kv.seqs[r].start : r \in {q \in Live(kv) : Precedes(kv, s, q)}}
    IN  Min(later \cup {NCtx}) - (PackedStart(kv, s) + kv.seqs[s].cap)

\* need = 0 stands for None (compact fully): a reservation never asks for 0.
CompactionPlan(kv, need) ==
    LET enough == {s \in Live(kv) : need > 0 /\ GapAfter(kv, s) >= need}
        reached == {s \in Live(kv) : \A r \in enough : ~Precedes(kv, r, s)}
    IN  {[seq |-> s, from |-> kv.seqs[s].start, to |-> PackedStart(kv, s),
          rows |-> PrivateWritten(kv.seqs[s])] :
            s \in {r \in reached : kv.seqs[r].start # PackedStart(kv, r)}}

\* Mutant of MovesFirst: bottom-up whatever the direction.
MovesFirstBottomUp(a, b) == a.from < b.from

\* order_moves: upward moves top-down, then downward moves bottom-up.
MovesFirst(a, b) ==
    IF a.to > a.from /\ b.to > b.from THEN a.from > b.from
    ELSE IF a.to <= a.from /\ b.to <= b.from THEN a.from < b.from
    ELSE a.to > a.from

OrderMoves(moves) ==
    LET before(m) == {x \in moves : MovesFirst(x, m)}
    IN  [k \in 1 .. Cardinality(moves) |-> CHOOSE m \in moves : Cardinality(before(m)) = k - 1]

\* Backend::copy_cells: an overlap-safe copy of rows inside one region.
CopyCells(f, to, from, rows) ==
    [c \in Cells |-> IF c \in to .. to + rows - 1 THEN f[from + (c - to)] ELSE f[c]]

\* apply_moves refuses a table whose runs would overlap or leave the arena.
PlannedStart(kv, moves, s) ==
    IF \E m \in moves : m.seq = s THEN (CHOOSE m \in moves : m.seq = s).to
                                  ELSE kv.seqs[s].start

MovesValid(kv, moves) ==
    LET run(s) == PlannedStart(kv, moves, s) .. PlannedStart(kv, moves, s) + kv.seqs[s].cap - 1
    IN  /\ \A m \in moves : m.rows <= kv.seqs[m.seq].cap
        /\ \A s \in Live(kv) : run(s) \subseteq Cells
        /\ \A s, t \in Live(kv) : s # t => run(s) \cap run(t) = {}

\* One move: the stamps follow the rows, and what the rows left is freed.
MovedStamps(owner, m) ==
    LET stamps == CopyCells(owner, m.to, m.from, m.rows)
        landed == m.to .. m.to + m.rows - 1
        swept == IF m.rows = 0 THEN {}
                 ELSE Min({m.to, m.from}) .. Max({m.to, m.from}) + m.rows - 1
    IN  [c \in Cells |-> IF c \in swept \ landed /\ stamps[c] = m.seq THEN Free ELSE stamps[c]]

\* The run is renumbered, and so is every shared prefix inside the moved rows;
\* one that straddles them is an Err, before any prefix is renumbered.
MovedRows(m) == m.from .. m.from + m.rows - 1

Readers(kv, m) == {s \in Live(kv) \ {m.seq} : SharedCells(kv.seqs[s]) \cap MovedRows(m) # {}}

Straddled(kv, m) == \E s \in Readers(kv, m) : ~(SharedCells(kv.seqs[s]) \subseteq MovedRows(m))

Renumbered(kv, m, s) ==
    IF s = m.seq THEN [kv.seqs[s] EXCEPT !.start = m.to]
    ELSE IF s \in Readers(kv, m) /\ ~Straddled(kv, m)
         THEN [kv.seqs[s] EXCEPT !.shared.cell = m.to + (@ - m.from)]
    ELSE kv.seqs[s]

ApplyMove(res, m) ==
    IF ~res.ok THEN res
    ELSE [ok |-> ~Straddled(res.kv, m),
          kv |-> [res.kv EXCEPT !.owner = MovedStamps(@, m),
                                !.seqs = [s \in Live(res.kv) |-> Renumbered(res.kv, m, s)]]]

\* Rows are copied first, in order_moves' order, then the table is renumbered.
CopyRuns(kv, ordered) ==
    [kv EXCEPT !.data = Through(LAMBDA d, m : CopyCells(d, m.to, m.from, m.rows), @, ordered)]

MoveRuns(kv, moves) ==
    The({IF MovesValid(kv, moves) THEN Through(ApplyMove, Ok(CopyRuns(kv, ordered)), ordered)
                                  ELSE Err(CopyRuns(kv, ordered)) :
            ordered \in {OrderMoves(moves)}})

\* Reserve; failing that, compact and reserve once more.
Compacted(kv, moves) == IF ~Defrag \/ moves = {} THEN Err(kv) ELSE MoveRuns(kv, moves)

KvReserveSeqWithDefrag(kv, s, cap) ==
    IF ReserveSeq(kv, s, cap).ok THEN ReserveSeq(kv, s, cap)
    ELSE The({IF res.ok THEN ReserveSeq(res.kv, s, cap) ELSE res :
                 res \in {Compacted(kv, CompactionPlan(kv, cap))}})

\* Mutant of SetCapRefused: a run may shrink below what it has written.
SetCapRefusedOnGrowth(kv, s, cap) ==
    \/ s \notin Live(kv)
    \/ cap > kv.seqs[s].cap /\ ReservedCells(kv) - kv.seqs[s].cap + cap > NCtx

\* KvCache::set_cap's refusals.
SetCapRefused(kv, s, cap) ==
    \/ s \notin Live(kv)
    \/ cap < kv.seqs[s].cap /\ cap > 0 /\ cap < PrivateWritten(kv.seqs[s])
    \/ cap > kv.seqs[s].cap /\ ReservedCells(kv) - kv.seqs[s].cap + cap > NCtx

\* The new size in the run table; then every gap is closed.  A failed move keeps
\* the new size, and so does a refused defrag once the run is gone.
Resized(kv, s, cap) == IF cap = 0 THEN ReleaseSeq(kv, s) ELSE [kv EXCEPT !.seqs[s].cap = cap]

Repacked(kv, resized, moves, cap) ==
    IF moves = {} THEN [ok |-> cap > 0, kv |-> resized]
    ELSE IF ~Defrag THEN Err(IF cap = 0 THEN resized ELSE kv)
    ELSE The({[ok |-> res.ok /\ cap > 0, kv |-> res.kv] : res \in {MoveRuns(resized, moves)}})

KvSetCapWithDefrag(kv, s, cap) ==
    IF SetCapRefused(kv, s, cap) THEN Err(kv)
    ELSE IF cap = kv.seqs[s].cap THEN Ok(kv)
    ELSE The({Repacked(kv, resized, CompactionPlan(resized, 0), cap) :
                 resized \in {Resized(kv, s, cap)}})

-----------------------------------------------------------------------------
(* Writing rows: ownership, prefix copies, prefix shares, copy-on-write. *)

\* own_range: stamp the cells and raise the written extent to their positions.
OwnCells(kv, s, cells) ==
    [kv EXCEPT
        !.owner = [c \in Cells |-> IF c \in cells THEN s ELSE @[c]],
        !.seqs[s].written = Max({@} \cup {PosOfCell(kv.seqs[s], c) + 1 : c \in cells})]

\* own_positions: the positions before the first uncovered one are stamped.
OwnPositions(kv, s, from, n) ==
    LET slot == kv.seqs[s]
        covered == {p \in from .. from + n - 1 : p \in Positions(slot)}
    IN  [ok |-> covered = from .. from + n - 1,
         kv |-> OwnCells(kv, s, {CellOf(slot, p) : p \in covered})]

KvCopyPrefix(kv, src, dst, rows) ==
    IF rows = 0 THEN Ok(kv)
    ELSE IF \/ src \notin Live(kv) \/ dst \notin Live(kv)
            \/ kv.seqs[src].shared.rows > 0
            \/ rows > kv.seqs[src].written
            \/ rows > kv.seqs[dst].cap
         THEN Err(kv)
    ELSE LET from == kv.seqs[src].start
             to == kv.seqs[dst].start
         IN  IF from = to THEN Ok(kv)
             ELSE Ok(OwnCells([kv EXCEPT !.data = CopyCells(@, to, from, rows)],
                              dst, to .. to + rows - 1))

SharePrefix(kv, src, dst, rows) ==
    IF \/ rows = 0 \/ src = dst \/ src \notin Live(kv) \/ dst \notin Live(kv)
       \/ kv.seqs[src].written < rows
       \/ kv.seqs[dst].shared.rows > 0 \/ kv.seqs[dst].written > 0
       \/ CellOf(kv.seqs[src], rows - 1) # CellOf(kv.seqs[src], 0) + rows - 1
    THEN Err(kv)
    ELSE Ok([kv EXCEPT
        !.seqs[dst].shared = [cell |-> CellOf(kv.seqs[src], 0), rows |-> rows],
        !.seqs[dst].written = rows])

\* Mutant of KvPrivateRowFor: the store goes through the shared prefix.
KvPrivateRowForSkipped(kv, s, t) == Ok(kv)

\* A store at position t gives the share up from t on: the rows the sequence
\* wrote shift up inside its own run so that they keep their positions.
KvPrivateRowFor(kv, s, t) ==
    IF s \notin Live(kv) \/ t >= kv.seqs[s].shared.rows THEN Ok(kv)
    ELSE LET slot == kv.seqs[s]
             d == slot.shared.rows - t
             rows == PrivateWritten(slot)
             to == slot.start + d
             stamps == CopyCells(kv.owner, to, slot.start, rows)
         IN  IF rows + d > slot.cap THEN Err(kv)
             ELSE Ok([kv EXCEPT
                 !.data = CopyCells(@, to, slot.start, rows),
                 !.owner = [c \in Cells |->
                     IF c \in slot.start .. to - 1 /\ stamps[c] = s THEN Free ELSE stamps[c]],
                 !.seqs[s].shared.rows = t])

-----------------------------------------------------------------------------
(* A forward.  A batch is a sequence of groups [seq, pos, vals]: vals are   *)
(* the rows written from position pos on.                                   *)

\* Every copy-on-write runs before the first cell is resolved.
CopyOnWrite(kv, batch) ==
    Through(LAMBDA res, g : IF res.ok THEN KvPrivateRowFor(res.kv, g.seq, g.pos) ELSE res,
             Ok(kv), batch)

\* A sequence without a run is refused unless it is alone: then it takes the arena.
OwnGroup(kv, g, alone) ==
    IF g.seq \in Live(kv) THEN OwnPositions(kv, g.seq, g.pos, Len(g.vals))
    ELSE IF alone /\ ReserveSeq(kv, g.seq, NCtx).ok
         THEN OwnPositions(ReserveSeq(kv, g.seq, NCtx).kv, g.seq, g.pos, Len(g.vals))
    ELSE Err(kv)

FillBatchInputs(kv, batch) ==
    Through(LAMBDA res, g : IF res.ok THEN OwnGroup(res.kv, g, Len(batch) = 1) ELSE res,
             CopyOnWrite(kv, batch), batch)

\* The kernels store the rows of the groups in `done` at the resolved cells.
StoreRows(kv, batch, done) ==
    LET rows == UNION {{<<i, p>> : p \in batch[i].pos .. batch[i].pos + Len(batch[i].vals) - 1} :
                        i \in done}
        at(c) == {r \in rows : CellOf(kv.seqs[batch[r[1]].seq], r[2]) = c}
        val(r) == batch[r[1]].vals[r[2] - batch[r[1]].pos + 1]
    IN  [kv EXCEPT !.data = [c \in Cells |->
            IF at(c) = {} THEN @[c] ELSE val(CHOOSE r \in at(c) : TRUE)]]

\* What sequence s reads at position pos.
RowAt(kv, s, pos) == kv.data[CellOf(kv.seqs[s], pos)]

EmptyStore == [seqs |-> [s \in {} |-> SeqSlot(0, 0)],
               owner |-> [c \in Cells |-> Free],
               data |-> [c \in Cells |-> NoRow]]
=============================================================================
