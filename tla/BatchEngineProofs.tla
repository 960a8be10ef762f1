-------------------------- MODULE BatchEngineProofs --------------------------
(***************************************************************************)
(* Runs of the batch engine never outgrow the cells reserved for them, and *)
(* no committed token is lost, for every number of slots, context size,    *)
(* prompt, chunk size and fault, whether prefixes are copied or read in    *)
(* place.  What the proofs need of the arena is only how many cells each   *)
(* sequence has: the first part says what each call does to that.          *)
(***************************************************************************)
EXTENDS BatchEngine, KvCellsProofs, SequenceTheorems

-----------------------------------------------------------------------------
(* Capacities in the arena. *)

(* A slot of the run table, whatever its numbers. *)
HasSlot(sl) ==
    /\ sl = SlotOf(sl.start, sl.cap, sl.shared.cell, sl.shared.rows, sl.written)
    /\ sl.cap \in Nat

(* A store whose run table has a slot for each live sequence. *)
Table(st) ==
    /\ st = StoreOf(st.seqs, st.owner, st.data)
    /\ Live(st) \subseteq SeqIds
    /\ st.seqs = [s \in Live(st) |-> st.seqs[s]]
    /\ \A s \in Live(st) : HasSlot(st.seqs[s])

(* Every sequence of a keeps its run and its capacity in b. *)
KeepsCaps(a, b) ==
    /\ Table(b)
    /\ \A t \in Live(a) : t \in Live(b) /\ b.seqs[t].cap = a.seqs[t].cap

(* b has the runs of a, but for the one of s. *)
OnlyTouches(a, b, s) ==
    /\ Table(b) /\ Live(b) \subseteq Live(a) \cup {s}
    /\ \A t \in Live(a) \ {s} : t \in Live(b) /\ b.seqs[t].cap = a.seqs[t].cap

(* A store with one part replaced. *)
LEMMA StoreForm ==
  ASSUME NEW st, st = StoreOf(st.seqs, st.owner, st.data), NEW T, NEW O, NEW D
  PROVE  /\ [st EXCEPT !.seqs = T] = StoreOf(T, st.owner, st.data)
         /\ [st EXCEPT !.data = D] = StoreOf(st.seqs, st.owner, D)
         /\ [st EXCEPT !.seqs = T, !.owner = O] = StoreOf(T, O, st.data)
         /\ [st EXCEPT !.owner = O, !.seqs = T] = StoreOf(T, O, st.data)
<1> DEFINE A == st.seqs
           B == st.owner
           C == st.data
           v == [st EXCEPT !.seqs = T]
           w == [st EXCEPT !.data = D]
           x == [st EXCEPT !.seqs = T, !.owner = O]
           y == [st EXCEPT !.owner = O, !.seqs = T]
<1>1. st = [seqs |-> A, owner |-> B, data |-> C]
  BY DEF StoreOf
<1> HIDE DEF A, B, C
<1>2. /\ v \in [seqs : {T}, owner : {B}, data : {C}]
      /\ w \in [seqs : {A}, owner : {B}, data : {D}]
      /\ x \in [seqs : {T}, owner : {O}, data : {C}]
      /\ y \in [seqs : {T}, owner : {O}, data : {C}]
  BY <1>1
<1> HIDE DEF v, w, x, y
<1>3. /\ v = StoreOf(T, B, C) /\ w = StoreOf(A, B, D) /\ x = StoreOf(T, O, C)
      /\ y = StoreOf(T, O, C)
  BY <1>2 DEF StoreOf
<1> QED
  BY <1>3 DEF v, w, x, y, A, B, C

(* A store from its parts has a run table. *)
LEMMA TableOf ==
  ASSUME NEW D \in SUBSET SeqIds, NEW T, T = [s \in D |-> T[s]], \A s \in D : HasSlot(T[s]),
         NEW O, NEW E
  PROVE  /\ Table(StoreOf(T, O, E)) /\ Live(StoreOf(T, O, E)) = D
         /\ StoreOf(T, O, E).seqs = T
<1> DEFINE st == StoreOf(T, O, E)
<1>1. st.seqs = T /\ st.owner = O /\ st.data = E
  BY DEF StoreOf
<1>2. DOMAIN T = D
  OBVIOUS
<1>3. Live(st) = D
  BY <1>1, <1>2 DEF Live
<1> HIDE DEF st
<1>4. st = StoreOf(st.seqs, st.owner, st.data)
  BY <1>1 DEF st
<1> QED
  BY <1>1, <1>3, <1>4 DEF Table, st

(* A slot with another start, another shared prefix, or another extent. *)
LEMMA SlotKept ==
  ASSUME NEW sl, HasSlot(sl), NEW x, NEW n \in Nat
  PROVE  /\ HasSlot([sl EXCEPT !.start = x]) /\ [sl EXCEPT !.start = x].cap = sl.cap
         /\ HasSlot([sl EXCEPT !.shared.cell = x]) /\ [sl EXCEPT !.shared.cell = x].cap = sl.cap
         /\ HasSlot([sl EXCEPT !.shared.rows = x]) /\ [sl EXCEPT !.shared.rows = x].cap = sl.cap
         /\ HasSlot([sl EXCEPT !.written = x]) /\ [sl EXCEPT !.written = x].cap = sl.cap
         /\ HasSlot([sl EXCEPT !.cap = n]) /\ [sl EXCEPT !.cap = n].cap = n
<1> DEFINE a == sl.start
           b == sl.cap
           c == sl.shared.cell
           d == sl.shared.rows
           e == sl.written
           p == [sl EXCEPT !.start = x]
           q == [sl EXCEPT !.shared.cell = x]
           r == [sl EXCEPT !.shared.rows = x]
           u == [sl EXCEPT !.written = x]
           v == [sl EXCEPT !.cap = n]
<1>1. sl = SlotOf(a, b, c, d, e) /\ b \in Nat
  BY DEF HasSlot
<1> HIDE DEF a, b, c, d, e
<1>2. /\ [[cell |-> c, rows |-> d] EXCEPT !.cell = x] = [cell |-> x, rows |-> d]
      /\ [[cell |-> c, rows |-> d] EXCEPT !.rows = x] = [cell |-> c, rows |-> x]
  OBVIOUS
<1>3. /\ p \in [start : {x}, cap : {b}, shared : {[cell |-> c, rows |-> d]}, written : {e}]
      /\ q \in [start : {a}, cap : {b}, shared : {[cell |-> x, rows |-> d]}, written : {e}]
      /\ r \in [start : {a}, cap : {b}, shared : {[cell |-> c, rows |-> x]}, written : {e}]
      /\ u \in [start : {a}, cap : {b}, shared : {[cell |-> c, rows |-> d]}, written : {x}]
      /\ v \in [start : {a}, cap : {n}, shared : {[cell |-> c, rows |-> d]}, written : {e}]
  BY <1>1, <1>2 DEF SlotOf
<1> HIDE DEF p, q, r, u, v
<1>4. /\ p = SlotOf(x, b, c, d, e) /\ q = SlotOf(a, b, x, d, e) /\ r = SlotOf(a, b, c, x, e)
      /\ u = SlotOf(a, b, c, d, x) /\ v = SlotOf(a, n, c, d, e)
  BY <1>3 DEF SlotOf
<1>5. ASSUME NEW a1, NEW b1 \in Nat, NEW c1, NEW d1, NEW e1
      PROVE  HasSlot(SlotOf(a1, b1, c1, d1, e1)) /\ SlotOf(a1, b1, c1, d1, e1).cap = b1
  BY SlotForm DEF HasSlot
<1>6. /\ HasSlot(p) /\ p.cap = b /\ HasSlot(q) /\ q.cap = b /\ HasSlot(r) /\ r.cap = b
      /\ HasSlot(u) /\ u.cap = b /\ HasSlot(v) /\ v.cap = n
  BY <1>1, <1>4, <1>5
<1> QED
  BY <1>6 DEF p, q, r, u, v, b

(* The store with another slot for s. *)
WithSlot(st, s, sl, O, D) == StoreOf([st.seqs EXCEPT ![s] = sl], O, D)

(* Replacing the slot of s touches only the run of s. *)
LEMMA WithSlotTable ==
  ASSUME NEW st, Table(st), NEW s \in Live(st), NEW sl, HasSlot(sl), NEW O, NEW D
  PROVE  /\ Table(WithSlot(st, s, sl, O, D)) /\ Live(WithSlot(st, s, sl, O, D)) = Live(st)
         /\ WithSlot(st, s, sl, O, D).seqs[s] = sl
         /\ \A t \in Live(st) \ {s} : WithSlot(st, s, sl, O, D).seqs[t] = st.seqs[t]
<1> DEFINE T == [st.seqs EXCEPT ![s] = sl]
<1>1. st.seqs = [t \in Live(st) |-> st.seqs[t]] /\ Live(st) \subseteq SeqIds
  BY DEF Table
<1>2. /\ T = [t \in Live(st) |-> T[t]] /\ T[s] = sl
      /\ \A t \in Live(st) \ {s} : T[t] = st.seqs[t]
  BY <1>1
<1> HIDE DEF T
<1>3. \A t \in Live(st) : HasSlot(T[t])
  BY <1>2 DEF Table
<1>4. Table(StoreOf(T, O, D)) /\ Live(StoreOf(T, O, D)) = Live(st) /\ StoreOf(T, O, D).seqs = T
  BY <1>1, <1>2, <1>3, TableOf
<1> QED
  BY <1>2, <1>4 DEF WithSlot, T

(* The updates of one slot that the calls make. *)
LEMMA CapForm ==
  ASSUME NEW st, st = StoreOf(st.seqs, st.owner, st.data), NEW s, NEW w
  PROVE  [st EXCEPT !.seqs[s].cap = w]
              = WithSlot(st, s, [st.seqs[s] EXCEPT !.cap = w], st.owner, st.data)
<1>1. [st EXCEPT !.seqs[s].cap = w]
            = [st EXCEPT !.seqs = [st.seqs EXCEPT ![s] = [st.seqs[s] EXCEPT !.cap = w]]]
  BY DEF StoreOf
<1> QED
  BY <1>1, StoreForm DEF WithSlot

LEMMA WrittenForm ==
  ASSUME NEW st, st = StoreOf(st.seqs, st.owner, st.data), NEW s, NEW w, NEW O
  PROVE  [st EXCEPT !.owner = O, !.seqs[s].written = w]
              = WithSlot(st, s, [st.seqs[s] EXCEPT !.written = w], O, st.data)
<1>1. [st EXCEPT !.owner = O, !.seqs[s].written = w]
            = [st EXCEPT !.owner = O, !.seqs = [st.seqs EXCEPT ![s] = [st.seqs[s] EXCEPT !.written = w]]]
  BY DEF StoreOf
<1> QED
  BY <1>1, StoreForm DEF WithSlot

(* own_range keeps every capacity. *)
LEMMA OwnCellsCaps ==
  ASSUME NEW st, Table(st), NEW s \in Live(st), NEW cells
  PROVE  KeepsCaps(st, OwnCells(st, s, cells)) /\ Live(OwnCells(st, s, cells)) = Live(st)
<1> DEFINE O == [c \in Cells |-> IF c \in cells THEN s ELSE st.owner[c]]
           w == Max({st.seqs[s].written} \cup {PosOfCell(st.seqs[s], c) + 1 : c \in cells})
           sl == [st.seqs[s] EXCEPT !.written = w]
<1>1. st = StoreOf(st.seqs, st.owner, st.data) /\ HasSlot(st.seqs[s])
  BY DEF Table
<1>2. OwnCells(st, s, cells) = [st EXCEPT !.owner = O, !.seqs[s].written = w]
  BY DEF OwnCells
<1> HIDE DEF O, w
<1>3. OwnCells(st, s, cells) = WithSlot(st, s, sl, O, st.data)
  BY <1>1, <1>2, WrittenForm
<1>4. HasSlot(sl) /\ sl.cap = st.seqs[s].cap
  BY <1>1, SlotKept
<1> HIDE DEF sl
<1> QED
  BY <1>3, <1>4, WithSlotTable DEF KeepsCaps

(* kv_set_cap's new size in the run table. *)
LEMMA ResizedCaps ==
  ASSUME NEW st, Table(st), NEW s \in Live(st), NEW cap \in Nat, cap > 0
  PROVE  /\ OnlyTouches(st, Resized(st, s, cap), s) /\ Live(Resized(st, s, cap)) = Live(st)
         /\ Resized(st, s, cap).seqs[s].cap = cap
<1> DEFINE sl == [st.seqs[s] EXCEPT !.cap = cap]
<1>1. st = StoreOf(st.seqs, st.owner, st.data) /\ HasSlot(st.seqs[s])
  BY DEF Table
<1>2. Resized(st, s, cap) = WithSlot(st, s, sl, st.owner, st.data)
  <2>1. Resized(st, s, cap) = [st EXCEPT !.seqs[s].cap = cap]
    BY DEF Resized
  <2> QED
    BY <1>1, <2>1, CapForm
<1>3. HasSlot(sl) /\ sl.cap = cap
  BY <1>1, SlotKept
<1> HIDE DEF sl
<1> QED
  BY <1>2, <1>3, WithSlotTable DEF OnlyTouches

(* kv_copy_prefix and share_prefix keep every capacity. *)
LEMMA CopyCaps ==
  ASSUME NEW st, Table(st), NEW src, NEW dst, NEW rows
  PROVE  /\ KeepsCaps(st, KvCopyPrefix(st, src, dst, rows).kv)
         /\ Live(KvCopyPrefix(st, src, dst, rows).kv) = Live(st)
<1> DEFINE res == KvCopyPrefix(st, src, dst, rows)
           from == st.seqs[src].start
           to == st.seqs[dst].start
           D == CopyCells(st.data, to, from, rows)
           moved == [st EXCEPT !.data = D]
<1>1. \/ res.kv = st
      \/ dst \in Live(st) /\ res.kv = OwnCells(moved, dst, to .. to + rows - 1)
  BY DEF KvCopyPrefix, Ok, Err
<1>2. KeepsCaps(st, st)
  BY DEF KeepsCaps
<1>3. KeepsCaps(st, moved) /\ Live(moved) = Live(st)
  <2> HIDE DEF D
  <2>1. moved = StoreOf(st.seqs, st.owner, D)
    BY StoreForm DEF Table
  <2>2. Table(StoreOf(st.seqs, st.owner, D)) /\ Live(StoreOf(st.seqs, st.owner, D)) = Live(st)
        /\ StoreOf(st.seqs, st.owner, D).seqs = st.seqs
    BY TableOf DEF Table
  <2> QED
    BY <2>1, <2>2 DEF KeepsCaps
<1> HIDE DEF moved, res
<1>4. ASSUME dst \in Live(st), NEW cells
      PROVE  KeepsCaps(moved, OwnCells(moved, dst, cells)) /\ Live(OwnCells(moved, dst, cells)) = Live(st)
  BY <1>3, <1>4, OwnCellsCaps DEF KeepsCaps
<1>5. KeepsCaps(st, res.kv) /\ Live(res.kv) = Live(st)
  BY <1>1, <1>2, <1>3, <1>4 DEF KeepsCaps
<1> QED
  BY <1>5 DEF res

LEMMA ShareCaps ==
  ASSUME NEW st, Table(st), NEW src, NEW dst, NEW rows
  PROVE  /\ KeepsCaps(st, SharePrefix(st, src, dst, rows).kv)
         /\ Live(SharePrefix(st, src, dst, rows).kv) = Live(st)
<1> DEFINE res == SharePrefix(st, src, dst, rows)
           x == CellOf(st.seqs[src], 0)
           q == [st EXCEPT !.seqs[dst].shared = [cell |-> x, rows |-> rows],
                           !.seqs[dst].written = rows]
<1>1. res.kv = st \/ (dst \in Live(st) /\ res.kv = q)
  BY DEF SharePrefix, Ok, Err
<1>2. KeepsCaps(st, st)
  BY DEF KeepsCaps
<1>3. ASSUME dst \in Live(st) PROVE KeepsCaps(st, q) /\ Live(q) = Live(st)
  <2> DEFINE sl == [st.seqs[dst] EXCEPT !.shared = [cell |-> x, rows |-> rows], !.written = rows]
             a == st.seqs[dst].start
             b == st.seqs[dst].cap
  <2> HIDE DEF x
  <2>1. /\ st = StoreOf(st.seqs, st.owner, st.data) /\ HasSlot(st.seqs[dst])
        /\ st.seqs = [t \in Live(st) |-> st.seqs[t]]
    BY <1>3 DEF Table
  <2>2. q = [st EXCEPT !.seqs = [st.seqs EXCEPT ![dst] = sl]]
    <3>1. q = [st EXCEPT !.seqs = [[st.seqs EXCEPT ![dst].shared = [cell |-> x, rows |-> rows]]
                                     EXCEPT ![dst].written = rows]]
      BY <2>1 DEF StoreOf
    <3>2. [[st.seqs EXCEPT ![dst].shared = [cell |-> x, rows |-> rows]] EXCEPT ![dst].written = rows]
            = [st.seqs EXCEPT ![dst] = sl]
      BY <1>3, <2>1
    <3> QED
      BY <3>1, <3>2
  <2>3. sl = SlotOf(a, b, x, rows, rows) /\ b \in Nat
    <3> DEFINE old == st.seqs[dst]
               c == old.shared.cell
               d == old.shared.rows
               e == old.written
               z == [old EXCEPT !.shared = [cell |-> x, rows |-> rows], !.written = rows]
    <3>1. b \in Nat /\ old = [start |-> a, cap |-> b, shared |-> [cell |-> c, rows |-> d], written |-> e]
      BY <2>1 DEF HasSlot, SlotOf
    <3> HIDE DEF a, b, c, d, e, old
    <3>2. z \in [start : {a}, cap : {b}, shared : {[cell |-> x, rows |-> rows]}, written : {rows}]
      BY <3>1
    <3> HIDE DEF z
    <3>3. z = SlotOf(a, b, x, rows, rows)
      BY <3>2 DEF SlotOf
    <3> QED
      BY <3>1, <3>3 DEF z, old
  <2> HIDE DEF sl
  <2>4. HasSlot(sl) /\ sl.cap = b
    <3> HIDE DEF a, b
    <3> QED
      BY <2>3, SlotForm DEF HasSlot
  <2>5. q = WithSlot(st, dst, sl, st.owner, st.data)
    BY <2>1, <2>2, StoreForm DEF WithSlot
  <2>6. /\ Table(q) /\ Live(q) = Live(st) /\ q.seqs[dst] = sl
        /\ \A t \in Live(st) \ {dst} : q.seqs[t] = st.seqs[t]
    <3> HIDE DEF q
    <3> QED
      BY <1>3, <2>4, <2>5, WithSlotTable
  <2> HIDE DEF q
  <2> QED
    BY <2>4, <2>6 DEF KeepsCaps
<1> HIDE DEF q, res
<1>4. KeepsCaps(st, res.kv) /\ Live(res.kv) = Live(st)
  BY <1>1, <1>2, <1>3
<1> QED
  BY <1>4 DEF res

(* KeepsCaps and OnlyTouches chain. *)
LEMMA CapsChain ==
  ASSUME NEW a, NEW b, NEW c, NEW s
  PROVE  /\ KeepsCaps(a, b) /\ KeepsCaps(b, c) => KeepsCaps(a, c)
         /\ OnlyTouches(a, b, s) /\ OnlyTouches(b, c, s) => OnlyTouches(a, c, s)
         /\ KeepsCaps(a, b) /\ Live(b) = Live(a) => OnlyTouches(a, b, s)
BY DEF KeepsCaps, OnlyTouches

(* One renumbering keeps every capacity, a refused one included. *)
LEMMA ApplyMoveCaps ==
  ASSUME NEW res, Table(res.kv), NEW m
  PROVE  KeepsCaps(res.kv, ApplyMove(res, m).kv) /\ Live(ApplyMove(res, m).kv) = Live(res.kv)
<1> DEFINE st == res.kv
           D == Live(st)
           T == [s \in D |-> Renumbered(st, m, s)]
           O == MovedStamps(st.owner, m)
<1>1. ApplyMove(res, m).kv = st \/ ApplyMove(res, m).kv = [st EXCEPT !.owner = O, !.seqs = T]
  BY DEF ApplyMove
<1>2. KeepsCaps(st, st)
  BY DEF KeepsCaps
<1>3. \A s \in D : HasSlot(T[s]) /\ T[s].cap = st.seqs[s].cap
  <2> SUFFICES ASSUME NEW s \in D
               PROVE  HasSlot(Renumbered(st, m, s)) /\ Renumbered(st, m, s).cap = st.seqs[s].cap
    OBVIOUS
  <2> DEFINE sl == st.seqs[s]
             x == m.to + (sl.shared.cell - m.from)
  <2>1. HasSlot(sl)
    BY DEF Table
  <2>2. \/ Renumbered(st, m, s) = sl \/ Renumbered(st, m, s) = [sl EXCEPT !.start = m.to]
        \/ Renumbered(st, m, s) = [sl EXCEPT !.shared.cell = x]
    BY DEF Renumbered
  <2> HIDE DEF sl, x
  <2>3. 0 \in Nat
    OBVIOUS
  <2> DEFINE y == m.to
             u == [sl EXCEPT !.start = y]
             v == [sl EXCEPT !.shared.cell = x]
  <2> HIDE DEF y
  <2>5. HasSlot(u) /\ u.cap = sl.cap /\ HasSlot(v) /\ v.cap = sl.cap
    BY <2>1, <2>3, SlotKept
  <2>6. Renumbered(st, m, s) \in {sl, u, v}
    BY <2>2 DEF y
  <2> HIDE DEF u, v
  <2>4. HasSlot(Renumbered(st, m, s)) /\ Renumbered(st, m, s).cap = sl.cap
    BY <2>1, <2>5, <2>6
  <2> QED
    BY <2>4 DEF sl
<1>4. T = [s \in D |-> T[s]] /\ D \in SUBSET SeqIds
  BY DEF Table
<1> HIDE DEF T, O
<1>5. [st EXCEPT !.owner = O, !.seqs = T] = StoreOf(T, O, st.data)
  BY StoreForm DEF Table
<1> HIDE DEF D
<1>6. /\ Table(StoreOf(T, O, st.data)) /\ Live(StoreOf(T, O, st.data)) = D
      /\ StoreOf(T, O, st.data).seqs = T
  BY <1>3, <1>4, TableOf
<1>7. KeepsCaps(st, StoreOf(T, O, st.data))
  BY <1>3, <1>6 DEF KeepsCaps, D
<1> QED
  BY <1>1, <1>2, <1>5, <1>6, <1>7 DEF D

(* A store with other rows has the same runs. *)
LEMMA DataCaps ==
  ASSUME NEW st, Table(st), NEW D
  PROVE  KeepsCaps(st, [st EXCEPT !.data = D]) /\ Live([st EXCEPT !.data = D]) = Live(st)
<1>1. [st EXCEPT !.data = D] = StoreOf(st.seqs, st.owner, D)
  BY StoreForm DEF Table
<1>2. /\ Table(StoreOf(st.seqs, st.owner, D)) /\ Live(StoreOf(st.seqs, st.owner, D)) = Live(st)
      /\ StoreOf(st.seqs, st.owner, D).seqs = st.seqs
  BY TableOf DEF Table
<1> QED
  BY <1>1, <1>2 DEF KeepsCaps

(* The renumbering loop, step by step. *)
MoveTrace(g, base, ord) ==
    /\ g[0] = base
    /\ \A n \in 1 .. Len(ord) : g[n] = MoveStep(0, g[n - 1], ord[n])
    /\ MoveLoop!Fold(0, base, ord) = g[Len(ord)]

LEMMA MoveUnfolds ==
  ASSUME NEW base, NEW ord, Len(ord) \in Nat
  PROVE  \E g : MoveTrace(g, base, ord)
BY MoveLoop!FoldUnfolds DEF MoveTrace

(* move_runs keeps every capacity, whether it succeeds, is refused by its   *)
(* checks or stops at a prefix that straddles a move.                       *)
LEMMA MoveRunsCaps ==
  ASSUME NEW st, Table(st), NEW moves, IsFiniteSet(moves)
  PROVE  KeepsCaps(st, MoveRuns(st, moves).kv) /\ Live(MoveRuns(st, moves).kv) = Live(st)
<1> DEFINE ord == OrderMoves(moves)
           q == CopyRuns(st, ord)
           N == Cardinality(moves)
<1>1. N \in Nat
  BY FS_CardinalityType
<1>2. Len(ord) = N
  <2> DEFINE F(k) == CHOOSE m \in moves : Cardinality({x \in moves : MovesFirst(x, m)}) = k - 1
  <2>1. ord = [k \in 1 .. N |-> F(k)]
    BY DEF OrderMoves
  <2> HIDE DEF F, N, ord
  <2> QED
    BY <1>1, <2>1
<1>3. \/ MoveRuns(st, moves) = Err(q)
      \/ MoveRuns(st, moves) = Through(ApplyMove, Ok(q), ord)
  BY DEF MoveRuns, The
<1>4. KeepsCaps(st, q) /\ Live(q) = Live(st)
  BY DataCaps DEF CopyRuns
<1> HIDE DEF ord, q, N
<1>5. Through(ApplyMove, Ok(q), ord) = MoveLoop!Fold(0, Ok(q), ord)
  BY DEF Through, MoveLoop!Fold, MoveStep, The, MoveLoop!The
<1>6. PICK g : MoveTrace(g, Ok(q), ord)
  <2> DEFINE base == Ok(q)
  <2> HIDE DEF base
  <2>1. \E g : MoveTrace(g, base, ord)
    BY <1>1, <1>2, MoveUnfolds
  <2> QED
    BY <2>1 DEF base
<1> DEFINE T == {n \in 0 .. N : KeepsCaps(st, g[n].kv) /\ Live(g[n].kv) = Live(st)}
<1>7. g[0].kv = q
  BY <1>6 DEF MoveTrace, Ok
<1>8. 0 \in T
  BY <1>1, <1>4, <1>7
<1>9. ASSUME NEW n \in 0 .. N - 1, n \in T PROVE n + 1 \in T
  <2>1. n + 1 \in 1 .. Len(ord) /\ (n + 1) - 1 = n /\ n + 1 \in 0 .. N
    BY <1>1, <1>2
  <2>2. g[n + 1] = ApplyMove(g[n], ord[n + 1])
    BY <1>6, <2>1 DEF MoveTrace, MoveStep
  <2>3. KeepsCaps(st, g[n].kv) /\ Live(g[n].kv) = Live(st) /\ Table(g[n].kv)
    BY <1>9 DEF KeepsCaps
  <2>4. KeepsCaps(g[n].kv, g[n + 1].kv) /\ Live(g[n + 1].kv) = Live(g[n].kv)
    BY <2>2, <2>3, ApplyMoveCaps
  <2>5. KeepsCaps(st, g[n + 1].kv) /\ Live(g[n + 1].kv) = Live(st)
    BY <2>3, <2>4, CapsChain
  <2> QED
    BY <2>1, <2>5
<1> HIDE DEF T
<1>10. \A n \in 0 .. N : n \in T
  BY <1>1, <1>8, <1>9, Induct
<1>11. N \in T
  BY <1>1, <1>10
<1>12. KeepsCaps(st, g[N].kv) /\ Live(g[N].kv) = Live(st)
  BY <1>11 DEF T
<1>13. MoveLoop!Fold(0, Ok(q), ord) = g[N]
  BY <1>2, <1>6 DEF MoveTrace
<1> QED
  BY <1>3, <1>4, <1>5, <1>12, <1>13 DEF Err

(* A compaction plan is a finite set of moves. *)
LEMMA PlanFinite ==
  ASSUME NEW st, Table(st), NEW need
  PROVE  IsFiniteSet(CompactionPlan(st, need))
<1> DEFINE F(s) == [seq |-> s, from |-> st.seqs[s].start, to |-> PackedStart(st, s),
                    rows |-> PrivateWritten(st.seqs[s])]
<1>1. PICK R : R \in SUBSET Live(st) /\ CompactionPlan(st, need) = {F(s) : s \in R}
  <2> DEFINE enough == {s \in Live(st) : need > 0 /\ GapAfter(st, s) >= need}
             reached == {s \in Live(st) : \A r \in enough : ~Precedes(st, r, s)}
             Q == {r \in reached : st.seqs[r].start # PackedStart(st, r)}
  <2>1. CompactionPlan(st, need) = {F(s) : s \in Q}
    BY DEF CompactionPlan
  <2>2. Q \in SUBSET Live(st)
    OBVIOUS
  <2> HIDE DEF Q, F
  <2> QED
    BY <2>1, <2>2
<1> HIDE DEF F
<1>2. IsFiniteSet(R)
  BY <1>1, SeqIdsAssumption, FS_Subset DEF Table
<1>3. IsFiniteSet({F(s) : s \in R})
  <2> DEFINE f == [s \in R |-> F(s)]
             I == {F(s) : s \in R}
  <2>1. f \in Surjection(R, I)
    BY DEF Surjection
  <2> HIDE DEF f, I
  <2>2. IsFiniteSet(I)
    BY <1>2, <2>1, FS_Surjection
  <2> QED
    BY <2>2 DEF I
<1> QED
  BY <1>1, <1>3

(* A reservation touches only the run it makes, and has the asked cells     *)
(* when it succeeds.                                                        *)
LEMMA ReserveSeqCaps ==
  ASSUME NEW st, Table(st), NEW s \in SeqIds, NEW cap \in Nat
  PROVE  /\ OnlyTouches(st, ReserveSeq(st, s, cap).kv, s)
         /\ ReserveSeq(st, s, cap).ok =>
               s \in Live(ReserveSeq(st, s, cap).kv) /\ ReserveSeq(st, s, cap).kv.seqs[s].cap >= cap
         /\ s \in Live(st) => ReserveSeq(st, s, cap).kv = st
<1> DEFINE res == ReserveSeq(st, s, cap)
           c == Min(FirstFit(st, cap))
           sl == SeqSlot(c, cap)
           T == [t \in Live(st) \cup {s} |-> IF t = s THEN sl ELSE st.seqs[t]]
           q == StoreOf(T, st.owner, st.data)
<1>1. OnlyTouches(st, st, s)
  BY DEF OnlyTouches
<1>2. \/ res = Err(st)
      \/ res = Ok(st) /\ s \in Live(st) /\ st.seqs[s].cap >= cap
      \/ s \notin Live(st) /\ res = Ok(SetSlot(st, s, sl))
  BY DEF ReserveSeq
<1>3. ASSUME s \notin Live(st)
      PROVE  OnlyTouches(st, SetSlot(st, s, sl), s) /\ s \in Live(SetSlot(st, s, sl))
             /\ SetSlot(st, s, sl).seqs[s].cap = cap
  <2>1. sl = SlotOf(c, cap, 0, 0, 0)
    BY DEF SeqSlot, SlotOf
  <2> HIDE DEF c, sl
  <2>2. HasSlot(sl) /\ sl.cap = cap
    BY <2>1, SlotForm DEF HasSlot
  <2>3. SetSlot(st, s, sl) = [st EXCEPT !.seqs = T]
    BY DEF SetSlot
  <2>4. /\ T = [t \in Live(st) \cup {s} |-> T[t]] /\ Live(st) \cup {s} \in SUBSET SeqIds
        /\ T[s] = sl /\ \A t \in Live(st) : T[t] = st.seqs[t]
    BY <1>3 DEF Table
  <2> HIDE DEF T
  <2>5. SetSlot(st, s, sl) = q
    BY <2>3, StoreForm DEF Table
  <2>6. \A t \in Live(st) \cup {s} : HasSlot(T[t])
    BY <2>2, <2>4 DEF Table
  <2>7. Table(q) /\ Live(q) = Live(st) \cup {s} /\ q.seqs = T
    BY <2>4, <2>6, TableOf
  <2> HIDE DEF q
  <2> QED
    BY <2>2, <2>4, <2>5, <2>7 DEF OnlyTouches
<1> HIDE DEF res, sl
<1>4. /\ OnlyTouches(st, res.kv, s)
      /\ res.ok => s \in Live(res.kv) /\ res.kv.seqs[s].cap >= cap
      /\ s \in Live(st) => res.kv = st
  BY <1>1, <1>2, <1>3 DEF Ok, Err
<1> QED
  BY <1>4 DEF res

(* The same for a reservation that may compact first. *)
LEMMA ReserveCaps ==
  ASSUME NEW st, Table(st), NEW s \in SeqIds, NEW cap \in Nat,
         NEW res, res = KvReserveSeqWithDefrag(st, s, cap)
  PROVE  /\ OnlyTouches(st, res.kv, s)
         /\ res.ok => s \in Live(res.kv) /\ res.kv.seqs[s].cap >= cap
<1> DEFINE moves == CompactionPlan(st, cap)
           once == ReserveSeq(st, s, cap)
           mid == Compacted(st, moves)
<1>1. res = IF once.ok THEN once ELSE IF mid.ok THEN ReserveSeq(mid.kv, s, cap) ELSE mid
  <2> HIDE DEF mid
  <2>1. The({IF r.ok THEN ReserveSeq(r.kv, s, cap) ELSE r : r \in {mid}})
          = IF mid.ok THEN ReserveSeq(mid.kv, s, cap) ELSE mid
    BY DEF The
  <2> QED
    BY <2>1 DEF KvReserveSeqWithDefrag, mid
<1>2. KeepsCaps(st, mid.kv) /\ Live(mid.kv) = Live(st)
  <2>1. mid = Err(st) \/ mid = MoveRuns(st, moves)
    BY DEF Compacted
  <2>2. KeepsCaps(st, st)
    BY DEF KeepsCaps
  <2>3. KeepsCaps(st, MoveRuns(st, moves).kv) /\ Live(MoveRuns(st, moves).kv) = Live(st)
    BY PlanFinite, MoveRunsCaps
  <2> HIDE DEF mid, moves
  <2> QED
    BY <2>1, <2>2, <2>3 DEF Err
<1>3. OnlyTouches(st, once.kv, s) /\ (once.ok => s \in Live(once.kv) /\ once.kv.seqs[s].cap >= cap)
  BY ReserveSeqCaps
<1> DEFINE last == ReserveSeq(mid.kv, s, cap)
<1>4. OnlyTouches(mid.kv, last.kv, s) /\ (last.ok => s \in Live(last.kv) /\ last.kv.seqs[s].cap >= cap)
  <2>1. Table(mid.kv)
    BY <1>2 DEF KeepsCaps
  <2> HIDE DEF mid
  <2> QED
    BY <2>1, ReserveSeqCaps
<1> HIDE DEF once, mid, last
<1>5. OnlyTouches(st, mid.kv, s)
  BY <1>2, CapsChain
<1>6. OnlyTouches(st, last.kv, s)
  BY <1>4, <1>5, CapsChain
<1>7. res \in {once, last, mid} /\ (res.ok => res \in {once, last})
  BY <1>1 DEF last
<1> QED
  BY <1>3, <1>4, <1>5, <1>6, <1>7

(* A resize touches only its run; it succeeds with the asked capacity, and  *)
(* where it fails the run keeps its old capacity or has the asked one.      *)
LEMMA SetCapCaps ==
  ASSUME NEW st, Table(st), NEW s \in SeqIds, NEW cap \in Nat, cap > 0,
         NEW res, res = KvSetCapWithDefrag(st, s, cap)
  PROVE  /\ OnlyTouches(st, res.kv, s)
         /\ res.ok => s \in Live(st) /\ s \in Live(res.kv) /\ res.kv.seqs[s].cap = cap
         /\ s \in Live(st) => s \in Live(res.kv) /\ res.kv.seqs[s].cap \in {st.seqs[s].cap, cap}
<1>1. OnlyTouches(st, st, s)
  BY DEF OnlyTouches
<1>2. CASE SetCapRefused(st, s, cap)
  <2>1. res = Err(st)
    BY <1>2 DEF KvSetCapWithDefrag
  <2> QED
    BY <1>1, <2>1 DEF Err
<1>3. CASE ~SetCapRefused(st, s, cap) /\ cap = st.seqs[s].cap
  <2>1. res = Ok(st) /\ s \in Live(st)
    BY <1>3 DEF KvSetCapWithDefrag, SetCapRefused
  <2> QED
    BY <1>1, <1>3, <2>1 DEF Ok
<1>4. CASE ~SetCapRefused(st, s, cap) /\ cap # st.seqs[s].cap
  <2> DEFINE resized == Resized(st, s, cap)
             moves == CompactionPlan(resized, 0)
             moved == MoveRuns(resized, moves)
  <2>1. s \in Live(st)
    BY <1>4 DEF SetCapRefused
  <2>2. res = Repacked(st, resized, moves, cap)
    <3> HIDE DEF resized
    <3>1. The({Repacked(st, r, CompactionPlan(r, 0), cap) : r \in {resized}})
            = Repacked(st, resized, CompactionPlan(resized, 0), cap)
      BY DEF The
    <3> QED
      BY <1>4, <3>1 DEF KvSetCapWithDefrag, resized
  <2>3. OnlyTouches(st, resized, s) /\ Live(resized) = Live(st) /\ resized.seqs[s].cap = cap
    BY <2>1, ResizedCaps
  <2> HIDE DEF resized
  <2>4. KeepsCaps(resized, moved.kv) /\ Live(moved.kv) = Live(resized)
    <3>1. Table(resized)
      BY <2>3 DEF OnlyTouches
    <3> QED
      BY <3>1, PlanFinite, MoveRunsCaps
  <2>5. \/ res.kv = resized
        \/ res.kv = st /\ ~res.ok
        \/ res.kv = moved.kv
    <3> HIDE DEF moves
    <3>1. The({[ok |-> r.ok /\ cap > 0, kv |-> r.kv] : r \in {moved}}) = [ok |-> moved.ok /\ cap > 0, kv |-> moved.kv]
      <4> HIDE DEF moved
      <4> QED
        BY DEF The
    <3> HIDE DEF moved
    <3>2. \/ res = [ok |-> cap > 0, kv |-> resized]
          \/ res = Err(IF cap = 0 THEN resized ELSE st)
          \/ res = [ok |-> moved.ok /\ cap > 0, kv |-> moved.kv]
      BY <2>2, <3>1 DEF Repacked, moved
    <3> QED
      BY <3>2 DEF Err
  <2> HIDE DEF moved, moves
  <2>6. OnlyTouches(resized, moved.kv, s)
    BY <2>4, CapsChain
  <2>7. OnlyTouches(st, moved.kv, s)
    BY <2>3, <2>6, CapsChain
  <2>8. s \in Live(moved.kv) /\ moved.kv.seqs[s].cap = cap
    BY <2>1, <2>3, <2>4 DEF KeepsCaps
  <2> QED
    BY <1>1, <2>1, <2>3, <2>5, <2>7, <2>8
<1> QED
  BY <1>2, <1>3, <1>4

(* A release takes the run of s and no other. *)
LEMMA ReleaseCaps ==
  ASSUME NEW st, Table(st), NEW s
  PROVE  OnlyTouches(st, ReleaseSeq(st, s), s) /\ s \notin Live(ReleaseSeq(st, s))
<1>1. CASE s \notin Live(st)
  BY <1>1 DEF ReleaseSeq, OnlyTouches
<1>2. CASE s \in Live(st)
  <2> DEFINE D == Live(st) \ {s}
             T == [t \in D |-> st.seqs[t]]
             O == [c \in Cells |-> IF c \in RunCells(st.seqs[s]) /\ st.owner[c] = s THEN Free ELSE st.owner[c]]
             q == StoreOf(T, O, st.data)
  <2>1. ReleaseSeq(st, s) = [st EXCEPT !.seqs = T, !.owner = O]
    BY <1>2 DEF ReleaseSeq
  <2>2. /\ T = [t \in D |-> T[t]] /\ D \in SUBSET SeqIds /\ \A t \in D : T[t] = st.seqs[t]
    BY DEF Table
  <2> HIDE DEF T, O
  <2>3. ReleaseSeq(st, s) = q
    BY <2>1, StoreForm DEF Table
  <2>4. \A t \in D : HasSlot(T[t])
    BY <2>2 DEF Table
  <2> HIDE DEF D
  <2>5. Table(q) /\ Live(q) = D /\ q.seqs = T
    BY <2>2, <2>4, TableOf
  <2> HIDE DEF q
  <2> QED
    BY <2>2, <2>3, <2>5 DEF OnlyTouches, D
<1> QED
  BY <1>1, <1>2

(* Giving up a share from position t on keeps every capacity. *)
LEMMA PrivateRowCaps ==
  ASSUME NEW st, Table(st), NEW s, NEW t
  PROVE  KeepsCaps(st, KvPrivateRowFor(st, s, t).kv) /\ Live(KvPrivateRowFor(st, s, t).kv) = Live(st)
<1> DEFINE slot == st.seqs[s]
           d == slot.shared.rows - t
           rows == PrivateWritten(slot)
           to == slot.start + d
           stamps == CopyCells(st.owner, to, slot.start, rows)
           D == CopyCells(st.data, to, slot.start, rows)
           O == [c \in Cells |-> IF c \in slot.start .. to - 1 /\ stamps[c] = s THEN Free ELSE stamps[c]]
           q == [st EXCEPT !.data = D, !.owner = O, !.seqs[s].shared.rows = t]
           res == KvPrivateRowFor(st, s, t)
<1>1. res.kv = st \/ (s \in Live(st) /\ res.kv = q)
  BY DEF KvPrivateRowFor, Ok, Err
<1>2. KeepsCaps(st, st)
  BY DEF KeepsCaps
<1>3. ASSUME s \in Live(st) PROVE KeepsCaps(st, q) /\ Live(q) = Live(st)
  <2> HIDE DEF D, O
  <2> DEFINE sl == [st.seqs[s] EXCEPT !.shared.rows = t]
  <2>1. st = StoreOf(st.seqs, st.owner, st.data) /\ HasSlot(st.seqs[s]) /\ 0 \in Nat
    BY <1>3 DEF Table
  <2>2. HasSlot(sl) /\ sl.cap = st.seqs[s].cap
    BY <2>1, SlotKept
  <2>3. q = WithSlot(st, s, sl, O, D)
    <3> DEFINE T == [st.seqs EXCEPT ![s] = sl]
    <3>1. q = [st EXCEPT !.data = D, !.owner = O, !.seqs = T]
      BY <2>1 DEF StoreOf
    <3> HIDE DEF q, T
    <3> DEFINE A == st.seqs
               B == st.owner
               C == st.data
    <3>2. st = [seqs |-> A, owner |-> B, data |-> C]
      BY <2>1 DEF StoreOf
    <3> HIDE DEF A, B, C
    <3>3. q \in [seqs : {T}, owner : {O}, data : {D}]
      BY <3>1, <3>2
    <3>4. q = StoreOf(T, O, D)
      BY <3>3 DEF StoreOf
    <3> QED
      BY <3>4 DEF WithSlot, T
  <2> HIDE DEF sl, q
  <2>4. /\ Table(q) /\ Live(q) = Live(st) /\ q.seqs[s] = sl
        /\ \A u \in Live(st) \ {s} : q.seqs[u] = st.seqs[u]
    BY <1>3, <2>2, <2>3, WithSlotTable
  <2> QED
    BY <2>2, <2>4 DEF KeepsCaps
<1> HIDE DEF q, res
<1>4. KeepsCaps(st, res.kv) /\ Live(res.kv) = Live(st)
  BY <1>1, <1>2, <1>3
<1> QED
  BY <1>4 DEF res

(* Stamping a group keeps every capacity; only a group that is alone may    *)
(* take a run, any other needs one.                                         *)
LEMMA OwnGroupCaps ==
  ASSUME NEW st, Table(st), NEW g, g.seq \in SeqIds, NEW alone,
         NEW res, res = OwnGroup(st, g, alone)
  PROVE  /\ KeepsCaps(st, res.kv)
         /\ ~alone => Live(res.kv) = Live(st) /\ (res.ok => g.seq \in Live(st))
<1> DEFINE s == g.seq
           one == ReserveSeq(st, s, NCtx)
           Own(k) == OwnPositions(k, s, g.pos, Len(g.vals))
<1>1. \/ s \in Live(st) /\ res = Own(st)
      \/ s \notin Live(st) /\ alone /\ one.ok /\ res = Own(one.kv)
      \/ s \notin Live(st) /\ res = Err(st)
  BY DEF OwnGroup
<1>2. ASSUME NEW k, Table(k), s \in Live(k)
      PROVE  KeepsCaps(k, Own(k).kv) /\ Live(Own(k).kv) = Live(k)
  <2>1. \E cells : Own(k).kv = OwnCells(k, s, cells)
    BY DEF OwnPositions
  <2> QED
    BY <1>2, <2>1, OwnCellsCaps
<1>3. KeepsCaps(st, st)
  BY DEF KeepsCaps
<1>4. ASSUME s \notin Live(st), one.ok
      PROVE  KeepsCaps(st, one.kv) /\ Table(one.kv) /\ s \in Live(one.kv)
  <2>1. NCtx \in Nat
    BY NCtxAssumption
  <2>2. OnlyTouches(st, one.kv, s) /\ s \in Live(one.kv)
    BY <1>4, <2>1, ReserveSeqCaps
  <2> HIDE DEF one, s
  <2> QED
    BY <1>4, <2>2 DEF OnlyTouches, KeepsCaps
<1> HIDE DEF Own, one, s
<1>5. CASE s \in Live(st) /\ res = Own(st)
  BY <1>2, <1>5 DEF s
<1>6. CASE s \notin Live(st) /\ alone /\ one.ok /\ res = Own(one.kv)
  <2>1. KeepsCaps(st, one.kv) /\ KeepsCaps(one.kv, res.kv)
    BY <1>2, <1>4, <1>6
  <2> QED
    BY <1>6, <2>1, CapsChain
<1>7. CASE s \notin Live(st) /\ res = Err(st)
  BY <1>3, <1>7 DEF Err
<1> QED
  BY <1>1, <1>5, <1>6, <1>7

(* The groups of a batch are sequences the arena knows. *)
Batch(batch) == Len(batch) \in Nat /\ \A i \in 1 .. Len(batch) : batch[i].seq \in SeqIds

(* All copy-on-writes of a batch keep every capacity. *)
LEMMA CopyOnWriteCaps ==
  ASSUME NEW st, Table(st), NEW batch, Len(batch) \in Nat
  PROVE  KeepsCaps(st, CopyOnWrite(st, batch).kv) /\ Live(CopyOnWrite(st, batch).kv) = Live(st)
<1> DEFINE N == Len(batch)
<1>1. CopyOnWrite(st, batch) = CowLoop!Fold(0, Ok(st), batch)
  BY DEF CopyOnWrite, Through, CowLoop!Fold, CowStep, The, CowLoop!The
<1>2. PICK g : CowTrace(g, Ok(st), batch)
  <2> DEFINE base == Ok(st)
  <2> HIDE DEF base
  <2>1. \E g : CowTrace(g, base, batch)
    BY CowUnfolds
  <2> QED
    BY <2>1 DEF base
<1> DEFINE T == {n \in 0 .. N : KeepsCaps(st, g[n].kv) /\ Live(g[n].kv) = Live(st)}
<1>3. 0 \in T
  <2>1. g[0].kv = st
    BY <1>2 DEF CowTrace, Ok
  <2> QED
    BY <2>1 DEF KeepsCaps
<1>4. ASSUME NEW n \in 0 .. N - 1, n \in T PROVE n + 1 \in T
  <2>1. n + 1 \in 1 .. Len(batch) /\ (n + 1) - 1 = n /\ n + 1 \in 0 .. N
    OBVIOUS
  <2>2. g[n + 1] = CowStep(0, g[n], batch[n + 1])
    BY <1>2, <2>1 DEF CowTrace
  <2>3. KeepsCaps(st, g[n].kv) /\ Live(g[n].kv) = Live(st) /\ Table(g[n].kv)
    BY <1>4 DEF KeepsCaps
  <2> DEFINE next == KvPrivateRowFor(g[n].kv, batch[n + 1].seq, batch[n + 1].pos)
  <2>4. g[n + 1] = g[n] \/ g[n + 1] = next
    BY <2>2 DEF CowStep
  <2>5. KeepsCaps(g[n].kv, next.kv) /\ Live(next.kv) = Live(g[n].kv)
    BY <2>3, PrivateRowCaps
  <2> HIDE DEF next
  <2>6. KeepsCaps(st, g[n + 1].kv) /\ Live(g[n + 1].kv) = Live(st)
    BY <2>3, <2>4, <2>5, CapsChain
  <2> QED
    BY <2>1, <2>6
<1> HIDE DEF T
<1>5. \A n \in 0 .. N : n \in T
  <2> HIDE DEF N
  <2>1. N \in Nat
    BY DEF N
  <2> QED
    BY <1>3, <1>4, <2>1, Induct
<1>6. N \in T
  BY <1>5
<1>7. CowLoop!Fold(0, Ok(st), batch) = g[N]
  BY <1>2 DEF CowTrace
<1> QED
  BY <1>1, <1>6, <1>7 DEF T

(* fill_batch_inputs keeps every capacity, on success and on Err; a batch   *)
(* of several groups passes only when each has its run.                     *)
LEMMA FillCaps ==
  ASSUME NEW st, Table(st), NEW batch, Batch(batch), NEW res, res = FillBatchInputs(st, batch)
  PROVE  /\ KeepsCaps(st, res.kv)
         /\ Len(batch) # 1 /\ res.ok => \A i \in 1 .. Len(batch) : batch[i].seq \in Live(st)
<1> DEFINE N == Len(batch)
           alone == N = 1
           cow == CopyOnWrite(st, batch)
<1>1. res = OwnLoop!Fold(alone, cow, batch)
  <2> HIDE DEF cow
  <2> QED
    BY DEF FillBatchInputs, Through, OwnLoop!Fold, OwnStep, The, OwnLoop!The, cow
<1>2. KeepsCaps(st, cow.kv) /\ Live(cow.kv) = Live(st)
  BY CopyOnWriteCaps DEF Batch
<1> HIDE DEF cow
<1>3. PICK g : OwnTrace(g, alone, cow, batch)
  <2> HIDE DEF alone
  <2> QED
    BY OwnUnfolds DEF Batch
<1> DEFINE P(n) == /\ KeepsCaps(st, g[n].kv)
                   /\ ~alone => /\ Live(g[n].kv) = Live(st)
                                /\ g[n].ok => \A i \in 1 .. n : batch[i].seq \in Live(st)
           T == {n \in 0 .. N : P(n)}
<1>4. N \in Nat
  BY DEF Batch
<1> HIDE DEF N, alone
<1>5. 0 \in T
  <2>1. g[0] = cow
    BY <1>3 DEF OwnTrace
  <2> QED
    BY <1>2, <1>4, <2>1
<1>6. ASSUME NEW n \in 0 .. N - 1, n \in T PROVE n + 1 \in T
  <2>1. n + 1 \in 1 .. N /\ (n + 1) - 1 = n /\ n + 1 \in 0 .. N /\ n \in Nat
    BY <1>4
  <2>2. g[n + 1] = OwnStep(alone, g[n], batch[n + 1])
    BY <1>3, <2>1 DEF OwnTrace, N
  <2>3. P(n) /\ Table(g[n].kv)
    BY <1>6 DEF KeepsCaps
  <2> DEFINE next == OwnGroup(g[n].kv, batch[n + 1], alone)
  <2>4. \/ g[n + 1] = g[n] /\ ~g[n].ok
        \/ g[n + 1] = next /\ g[n].ok
    BY <2>2 DEF OwnStep
  <2>5. batch[n + 1].seq \in SeqIds
    BY <2>1 DEF Batch, N
  <2>6. /\ KeepsCaps(g[n].kv, next.kv)
        /\ ~alone => Live(next.kv) = Live(g[n].kv) /\ (next.ok => batch[n + 1].seq \in Live(g[n].kv))
    BY <2>3, <2>5, OwnGroupCaps
  <2> HIDE DEF next
  <2>7. CASE g[n + 1] = g[n] /\ ~g[n].ok
    BY <2>1, <2>3, <2>7
  <2>8. CASE g[n + 1] = next /\ g[n].ok
    <3>1. KeepsCaps(st, g[n + 1].kv)
      BY <2>3, <2>6, <2>8, CapsChain
    <3>2. ASSUME ~alone, g[n + 1].ok, NEW i \in 1 .. n + 1 PROVE batch[i].seq \in Live(st)
      <4>1. i \in 1 .. n \/ i = n + 1
        BY <2>1
      <4> QED
        BY <2>3, <2>6, <2>8, <3>2, <4>1
    <3> QED
      BY <2>1, <2>3, <2>6, <2>8, <3>1, <3>2
  <2> QED
    BY <2>4, <2>7, <2>8
<1> HIDE DEF T
<1>7. \A n \in 0 .. N : n \in T
  BY <1>4, <1>5, <1>6, Induct
<1>8. P(N)
  BY <1>4, <1>7 DEF T
<1>9. res = g[N]
  BY <1>1, <1>3 DEF OwnTrace, N
<1> QED
  BY <1>8, <1>9 DEF N, alone

(* The rows a forward stores change no run. *)
LEMMA StoredCaps ==
  ASSUME NEW st, Table(st), NEW batch, Batch(batch), NEW done, NEW filled,
         filled = FillBatchInputs(st, batch)
  PROVE  KeepsCaps(st, Stored(batch, filled, done))
<1>1. KeepsCaps(st, filled.kv) /\ Table(filled.kv)
  BY FillCaps DEF KeepsCaps
<1>2. \E D : Stored(batch, filled, done) \in {filled.kv, [filled.kv EXCEPT !.data = D]}
  BY DEF Stored, StoreRows
<1>3. PICK D : Stored(batch, filled, done) \in {filled.kv, [filled.kv EXCEPT !.data = D]}
  BY <1>2
<1>4. KeepsCaps(filled.kv, [filled.kv EXCEPT !.data = D])
  BY <1>1, DataCaps
<1>5. KeepsCaps(st, [filled.kv EXCEPT !.data = D])
  BY <1>1, <1>4, CapsChain
<1> QED
  BY <1>1, <1>3, <1>5

-----------------------------------------------------------------------------
(* The engine's slots. *)

(* What a run is made of; no run has the empty prompt of an idle slot. *)
RunRec == [prompt : Prompts, max : MaxTokens, out : Seq(Tokens), pos : Nat \ {0},
           pend : Seq(Tokens)]

SlotRec(a, b, c, d) == [start |-> a, cap |-> b, cached |-> c, run |-> d]

(* A slot, whatever cells it has. *)
Shaped(sl) ==
    /\ sl = SlotRec(sl.start, sl.cap, sl.cached, sl.run)
    /\ sl.cap \in Nat /\ sl.run \in RunRec \cup {Idle}

(* The rows of a run, the next one included, fit the capacity of its slot. *)
HasRoom(sl) ==
    sl.run # Idle => /\ sl.cached \in Seq(Tokens) /\ sl.run.pos <= sl.cap
                     /\ sl.run.pend # None => sl.run.pos < sl.cap

(* The capacity a slot believes it has is there. *)
Backs(k, i, sl) == sl.cap > 0 => i \in Live(k) /\ sl.cap <= k.seqs[i].cap

(* A cell store and the slots that use it. *)
Sound(k, ss) ==
    /\ Table(k) /\ ss = [i \in Slots |-> ss[i]]
    /\ \A i \in Slots : Shaped(ss[i]) /\ HasRoom(ss[i]) /\ Backs(k, i, ss[i])

(* Slot j keeps what it has, or was idle and has been released. *)
KeepsSlot(ss, tt, m, j) ==
    \/ tt[j].cap = ss[j].cap /\ tt[j].cached = ss[j].cached
    \/ ss[j].run = Idle /\ j \notin Live(m)

(* m and tt are what k and ss become while slot idx is being made ready.    *)
Around(k, ss, m, tt, idx) ==
    /\ Sound(m, tt) /\ Live(m) \subseteq Live(k) \cup {idx}
    /\ \A j \in Slots : tt[j].run = ss[j].run
    /\ \A j \in Slots \ {idx} : KeepsSlot(ss, tt, m, j)

LEMMA AroundRefl ==
  ASSUME NEW k, NEW ss, Sound(k, ss), NEW idx
  PROVE  Around(k, ss, k, ss, idx)
BY DEF Around, KeepsSlot

LEMMA AroundChain ==
  ASSUME NEW k, NEW ss, NEW m, NEW tt, NEW n, NEW uu, NEW idx,
         Around(k, ss, m, tt, idx), Around(m, tt, n, uu, idx)
  PROVE  Around(k, ss, n, uu, idx)
<1>1. ASSUME NEW j \in Slots \ {idx} PROVE KeepsSlot(ss, uu, n, j)
  BY DEF Around, KeepsSlot
<1> QED
  BY <1>1 DEF Around

(* The updates of a slot: a run it was given, nothing at all, a prefix, a   *)
(* prompt and its run.                                                      *)
Given(sl, x, y) == [sl EXCEPT !.start = x, !.cap = y]
Emptied(sl) == [sl EXCEPT !.cached = <<>>, !.cap = 0]
Hosting(sl, x, y) == [sl EXCEPT !.cached = x, !.run = y]

LEMMA SlotForms ==
  ASSUME NEW sl, sl = SlotRec(sl.start, sl.cap, sl.cached, sl.run), NEW x
  PROVE  /\ [sl EXCEPT !.start = x] = SlotRec(x, sl.cap, sl.cached, sl.run)
         /\ [sl EXCEPT !.cached = x] = SlotRec(sl.start, sl.cap, x, sl.run)
         /\ [sl EXCEPT !.run = x] = SlotRec(sl.start, sl.cap, sl.cached, x)
         /\ Emptied(sl) = SlotRec(sl.start, 0, <<>>, sl.run)
         /\ Failed(sl) = SlotRec(sl.start, sl.cap, <<>>, Idle)
<1> DEFINE a == sl.start
           b == sl.cap
           c == sl.cached
           d == sl.run
           e == <<>>
           z == 0
           q == [sl EXCEPT !.start = x]
           r == [sl EXCEPT !.cached = x]
           s == [sl EXCEPT !.run = x]
           t == [sl EXCEPT !.cached = e, !.cap = z]
           v == [sl EXCEPT !.run = Idle, !.cached = e]
<1>1. sl = [start |-> a, cap |-> b, cached |-> c, run |-> d]
  BY DEF SlotRec
<1> HIDE DEF a, b, c, d, e, z
<1>2. /\ q \in [start : {x}, cap : {b}, cached : {c}, run : {d}]
      /\ r \in [start : {a}, cap : {b}, cached : {x}, run : {d}]
      /\ s \in [start : {a}, cap : {b}, cached : {c}, run : {x}]
      /\ t \in [start : {a}, cap : {z}, cached : {e}, run : {d}]
      /\ v \in [start : {a}, cap : {b}, cached : {e}, run : {Idle}]
  BY <1>1
<1> HIDE DEF q, r, s, t, v
<1>3. /\ q = SlotRec(x, b, c, d) /\ r = SlotRec(a, b, x, d)
      /\ s = SlotRec(a, b, c, x) /\ t = SlotRec(a, z, e, d)
      /\ v = SlotRec(a, b, e, Idle)
  BY <1>2 DEF SlotRec
<1> QED
  BY <1>3 DEF q, r, s, t, v, a, b, c, d, e, z, Emptied, Failed

LEMMA GivenForm ==
  ASSUME NEW sl, sl = SlotRec(sl.start, sl.cap, sl.cached, sl.run), NEW x, NEW y
  PROVE  /\ Given(sl, x, y) = SlotRec(x, y, sl.cached, sl.run)
         /\ Hosting(sl, x, y) = SlotRec(sl.start, sl.cap, x, y)
<1> DEFINE a == sl.start
           b == sl.cap
           c == sl.cached
           d == sl.run
           p == [sl EXCEPT !.start = x, !.cap = y]
           q == [sl EXCEPT !.cached = x, !.run = y]
<1>1. sl = [start |-> a, cap |-> b, cached |-> c, run |-> d]
  BY DEF SlotRec
<1> HIDE DEF a, b, c, d
<1>2. /\ p \in [start : {x}, cap : {y}, cached : {c}, run : {d}]
      /\ q \in [start : {a}, cap : {b}, cached : {x}, run : {y}]
  BY <1>1
<1> HIDE DEF p, q
<1>3. p = SlotRec(x, y, c, d) /\ q = SlotRec(a, b, x, y)
  BY <1>2 DEF SlotRec
<1> QED
  BY <1>3 DEF p, q, a, b, c, d, Given, Hosting

LEMMA ShapedOf ==
  ASSUME NEW a, NEW b \in Nat, NEW c, NEW d \in RunRec \cup {Idle}, NEW sl, sl = SlotRec(a, b, c, d)
  PROVE  Shaped(sl) /\ sl.start = a /\ sl.cap = b /\ sl.cached = c /\ sl.run = d
<1>1. sl.start = a /\ sl.cap = b /\ sl.cached = c /\ sl.run = d
  BY DEF SlotRec
<1> QED
  BY <1>1 DEF Shaped

(* A slot of the table replaced. *)
LEMMA OneSlot ==
  ASSUME NEW ss, ss = [i \in Slots |-> ss[i]], NEW j \in Slots, NEW sl, NEW tt,
         tt = [ss EXCEPT ![j] = sl]
  PROVE  /\ tt = [i \in Slots |-> tt[i]] /\ tt[j] = sl
         /\ \A i \in Slots \ {j} : tt[i] = ss[i]
OBVIOUS

(* The same updates inside the slots. *)
Released(ss, j) == [ss EXCEPT ![j].cached = <<>>, ![j].cap = 0]

LEMMA ReleasedForm ==
  ASSUME NEW ss, ss = [i \in Slots |-> ss[i]], NEW j \in Slots
  PROVE  Released(ss, j) = [ss EXCEPT ![j] = Emptied(ss[j])]
BY DEF Released, Emptied

LEMMA CachedForm ==
  ASSUME NEW ss, ss = [i \in Slots |-> ss[i]], NEW j \in Slots, NEW x
  PROVE  [ss EXCEPT ![j].cached = x] = [ss EXCEPT ![j] = [ss[j] EXCEPT !.cached = x]]
OBVIOUS

-----------------------------------------------------------------------------
(* Making a slot ready. *)

(* Another cell store under the same slots, and the same store under other  *)
(* slots, with one of each changed.                                         *)
LEMMA OneChanged ==
  ASSUME NEW k, NEW ss, Sound(k, ss), NEW m, NEW tt, NEW idx \in Slots,
         OnlyTouches(k, m, idx), ss[idx].run = Idle,
         tt = [i \in Slots |-> tt[i]], Shaped(tt[idx]), tt[idx].run = Idle, Backs(m, idx, tt[idx]),
         \A i \in Slots \ {idx} : /\ Shaped(tt[i]) /\ tt[i].cap = ss[i].cap
                                  /\ tt[i].cached = ss[i].cached /\ tt[i].run = ss[i].run
  PROVE  Around(k, ss, m, tt, idx)
<1>1. ASSUME NEW i \in Slots PROVE Shaped(tt[i]) /\ HasRoom(tt[i]) /\ Backs(m, i, tt[i])
  <2>1. CASE i = idx
    BY <2>1 DEF HasRoom
  <2>2. CASE i # idx
    <3>1. HasRoom(ss[i]) /\ Backs(k, i, ss[i])
      BY DEF Sound
    <3>2. /\ tt[i].cap = ss[i].cap /\ tt[i].cached = ss[i].cached /\ tt[i].run = ss[i].run
          /\ Shaped(tt[i])
      BY <2>2
    <3>3. i \in Live(k) => i \in Live(m) /\ m.seqs[i].cap = k.seqs[i].cap
      BY <2>2 DEF OnlyTouches
    <3> QED
      BY <3>1, <3>2, <3>3 DEF HasRoom, Backs
  <2> QED
    BY <2>1, <2>2
<1>2. Sound(m, tt)
  BY <1>1 DEF Sound, OnlyTouches
<1> QED
  BY <1>2 DEF Around, KeepsSlot, OnlyTouches

(* Releasing an idle slot j on behalf of idx. *)
LEMMA ReleaseAround ==
  ASSUME NEW k, NEW ss, Sound(k, ss), NEW j \in Slots, ss[j].run = Idle, NEW idx \in Slots, j # idx,
         NEW m, m = ReleaseSeq(k, j), NEW tt, tt = Released(ss, j)
  PROVE  Around(k, ss, m, tt, idx) /\ tt[idx] = ss[idx]
<1> DEFINE sl == Emptied(ss[j])
<1>1. ss = [i \in Slots |-> ss[i]] /\ Table(k) /\ \A i \in Slots : Shaped(ss[i])
  BY DEF Sound
<1>2. tt = [ss EXCEPT ![j] = sl]
  BY <1>1, ReleasedForm
<1>3. sl = SlotRec(ss[j].start, 0, <<>>, ss[j].run)
  BY <1>1, SlotForms DEF Shaped
<1> HIDE DEF sl
<1>4. Shaped(sl) /\ sl.cap = 0 /\ sl.run = Idle
  BY <1>3, ShapedOf
<1>5. tt = [i \in Slots |-> tt[i]] /\ tt[j] = sl /\ \A i \in Slots \ {j} : tt[i] = ss[i]
  BY <1>1, <1>2, OneSlot
<1>6. OnlyTouches(k, m, j) /\ j \notin Live(m)
  BY <1>1, ReleaseCaps
<1>7. Backs(m, j, tt[j])
  BY <1>4, <1>5 DEF Backs
<1>8. Around(k, ss, m, tt, j)
  BY <1>1, <1>4, <1>5, <1>6, <1>7, OneChanged
<1>9. \A i \in Slots : KeepsSlot(ss, tt, m, i)
  BY <1>5, <1>6, <1>8 DEF Around, KeepsSlot
<1>10. Live(m) \subseteq Live(k)
  BY <1>6 DEF OnlyTouches
<1>11. tt[idx] = ss[idx]
  BY <1>5
<1> QED
  BY <1>8, <1>9, <1>10, <1>11 DEF Around

(* The reclaiming loop: c is the slot it is for and the cells it needs. *)
ReclaimStep(c, acc, j) ==
    IF \/ j = c.idx \/ acc.slots[j].run # Idle \/ acc.slots[j].cap = 0
       \/ FreeCells(acc.kv) >= c.need
    THEN acc
    ELSE [kv |-> ReleaseSeq(acc.kv, j), slots |-> Released(acc.slots, j)]

ReclaimLoop == INSTANCE FoldProofs WITH Step <- ReclaimStep

InOrder == [j \in 1 .. Cardinality(Slots) |-> j]

LEMMA SlotsInOrder ==
  /\ Cardinality(Slots) \in Nat /\ Slots = 1 .. Cardinality(Slots)
  /\ Len(InOrder) = Cardinality(Slots) /\ \A j \in Slots : InOrder[j] = j
<1>1. Cardinality(SeqIds) \in 1 .. NCtx /\ SeqIds = 1 .. Cardinality(SeqIds) /\ NCtx \in Nat
  BY EngineAssumption, NCtxAssumption
<1> DEFINE N == Cardinality(SeqIds)
<1>2. N \in Nat /\ SeqIds = 1 .. N
  BY <1>1
<1> HIDE DEF N
<1>3. Len([j \in 1 .. N |-> j]) = N /\ \A j \in SeqIds : [i \in 1 .. N |-> i][j] = j
  BY <1>2
<1> QED
  BY <1>2, <1>3 DEF N, Slots, InOrder

ReclaimTrace(g, c, st) ==
    /\ g[0] = st
    /\ \A n \in Slots : g[n] = ReclaimStep(c, g[n - 1], n)
    /\ ReclaimLoop!Fold(c, st, InOrder) = g[Cardinality(Slots)]

LEMMA ReclaimUnfolds == ASSUME NEW c, NEW st PROVE \E g : ReclaimTrace(g, c, st)
<1>1. Len(InOrder) \in Nat
  BY SlotsInOrder
<1>2. \E g : /\ g[0] = st
             /\ \A n \in 1 .. Len(InOrder) : g[n] = ReclaimStep(c, g[n - 1], InOrder[n])
             /\ ReclaimLoop!Fold(c, st, InOrder) = g[Len(InOrder)]
  BY <1>1, ReclaimLoop!FoldUnfolds
<1> QED
  BY <1>2, SlotsInOrder DEF ReclaimTrace

LEMMA ReclaimFold ==
  ASSUME NEW c, NEW st PROVE Reclaim(st, c.idx, c.need) = ReclaimLoop!Fold(c, st, InOrder)
BY DEF Reclaim, Through, ReclaimLoop!Fold, ReclaimStep, The, ReclaimLoop!The, InOrder, Released

(* Reclaiming releases idle slots only, and never the one it is for. *)
LEMMA ReclaimAround ==
  ASSUME NEW st, Sound(st.kv, st.slots), NEW idx \in Slots, NEW need,
         NEW res, res = Reclaim(st, idx, need)
  PROVE  Around(st.kv, st.slots, res.kv, res.slots, idx) /\ res.slots[idx] = st.slots[idx]
<1> DEFINE c == [idx |-> idx, need |-> need]
           N == Cardinality(Slots)
<1>2. c.idx = idx /\ c.need = need
  OBVIOUS
<1> HIDE DEF c
<1>1. res = ReclaimLoop!Fold(c, st, InOrder)
  BY <1>2, ReclaimFold
<1>3. PICK g : ReclaimTrace(g, c, st)
  BY ReclaimUnfolds
<1> DEFINE P(n) == Around(st.kv, st.slots, g[n].kv, g[n].slots, idx) /\ g[n].slots[idx] = st.slots[idx]
           T == {n \in 0 .. N : P(n)}
<1>4. N \in Nat /\ Slots = 1 .. N
  BY SlotsInOrder
<1> HIDE DEF N
<1>5. 0 \in T
  <2>1. g[0] = st
    BY <1>3 DEF ReclaimTrace
  <2> QED
    BY <1>4, <2>1, AroundRefl
<1>6. ASSUME NEW n \in 0 .. N - 1, n \in T PROVE n + 1 \in T
  <2>1. n + 1 \in Slots /\ (n + 1) - 1 = n /\ n + 1 \in 0 .. N
    BY <1>4
  <2> DEFINE j == n + 1
             m == ReleaseSeq(g[n].kv, j)
             tt == Released(g[n].slots, j)
  <2>2. g[j] = ReclaimStep(c, g[n], j)
    BY <1>3, <2>1 DEF ReclaimTrace
  <2>3. P(n) /\ Sound(g[n].kv, g[n].slots)
    BY <1>6 DEF Around
  <2> HIDE DEF j
  <2>4. \/ g[j] = g[n]
        \/ j # idx /\ g[n].slots[j].run = Idle /\ g[j] = [kv |-> m, slots |-> tt]
    BY <1>2, <2>2 DEF ReclaimStep
  <2>5. CASE g[j] = g[n]
    BY <2>1, <2>3, <2>5 DEF j
  <2>6. CASE j # idx /\ g[n].slots[j].run = Idle /\ g[j] = [kv |-> m, slots |-> tt]
    <3>1. g[j].kv = m /\ g[j].slots = tt
      BY <2>6
    <3> DEFINE k == g[n].kv
               ss == g[n].slots
    <3>2. /\ m = ReleaseSeq(k, j) /\ tt = Released(ss, j)
          /\ j \in Slots /\ Sound(k, ss) /\ ss[j].run = Idle
      BY <2>1, <2>3, <2>6 DEF j
    <3> HIDE DEF m, tt, k, ss
    <3>4. Around(k, ss, m, tt, idx) /\ tt[idx] = ss[idx]
      BY <2>6, <3>2, ReleaseAround
    <3>3. P(j)
      BY <2>3, <3>1, <3>4, AroundChain DEF k, ss
    <3> QED
      BY <2>1, <3>3 DEF j
  <2> QED
    BY <2>4, <2>5, <2>6
<1> HIDE DEF T
<1>7. \A n \in 0 .. N : n \in T
  BY <1>4, <1>5, <1>6, Induct
<1>8. P(N)
  BY <1>4, <1>7 DEF T
<1>9. res = g[N]
  BY <1>1, <1>3 DEF ReclaimTrace, N
<1> QED
  BY <1>8, <1>9

(* The slot takes the run it was given, or keeps what it had. *)
LEMMA AdoptAround ==
  ASSUME NEW old, Sound(old.kv, old.slots), NEW idx \in Slots, old.slots[idx].run = Idle,
         NEW res, OnlyTouches(old.kv, res.kv, idx), res.ok => idx \in Live(res.kv),
         ~res.ok => Backs(res.kv, idx, old.slots[idx]),
         NEW q, q = Adopt(old, res, idx)
  PROVE  Around(old.kv, old.slots, q.kv, q.slots, idx)
<1> DEFINE k == old.kv
           ss == old.slots
           m == res.kv
           tt == FollowMoves(ss, k, m, idx)
<1>1. q.kv = m /\ (~res.ok => q.slots = ss) /\ (res.ok => q.slots = tt)
  BY DEF Adopt
<1>2. ss = [i \in Slots |-> ss[i]] /\ \A i \in Slots : Shaped(ss[i])
  BY DEF Sound
<1>3. CASE ~res.ok
  <2> HIDE DEF k, ss, m
  <2>1. Around(k, ss, m, ss, idx)
    <3>1. Sound(k, ss) /\ OnlyTouches(k, m, idx) /\ ss[idx].run = Idle /\ Backs(m, idx, ss[idx])
      BY <1>3 DEF k, ss, m
    <3> QED
      BY <1>2, <3>1, OneChanged
  <2> QED
    BY <1>1, <1>3, <2>1 DEF k, ss
<1>4. CASE res.ok
  <2> DEFINE sl == tt[idx]
  <2>1. tt = [i \in Slots |-> tt[i]]
    BY DEF FollowMoves
  <2>2. tt[idx] = Given(ss[idx], m.seqs[idx].start, m.seqs[idx].cap)
    BY DEF FollowMoves, Given
  <2>3. \A i \in Slots \ {idx} : tt[i] = ss[i] \/ \E x : tt[i] = [ss[i] EXCEPT !.start = x]
    BY DEF FollowMoves
  <2>4. Sound(k, ss) /\ OnlyTouches(k, m, idx) /\ ss[idx].run = Idle /\ idx \in Live(m)
    BY <1>4
  <2>5. m.seqs[idx].cap \in Nat
    BY <2>4 DEF OnlyTouches, Table, HasSlot
  <2> HIDE DEF k, ss, m, tt
  <2>6. /\ Shaped(tt[idx]) /\ tt[idx].run = Idle /\ tt[idx].cap = m.seqs[idx].cap
    <3> DEFINE a == m.seqs[idx].start
               b == m.seqs[idx].cap
               was == ss[idx]
    <3>0. tt[idx] = Given(was, a, b) /\ was = SlotRec(was.start, was.cap, was.cached, was.run)
      BY <1>2, <2>2 DEF Shaped
    <3> HIDE DEF a, b, was
    <3>1. tt[idx] = SlotRec(a, b, was.cached, was.run)
      BY <3>0, GivenForm
    <3>2. b \in Nat /\ ss[idx].run \in RunRec \cup {Idle}
      BY <2>4, <2>5 DEF b
    <3> QED
      BY <2>4, <3>1, <3>2, ShapedOf DEF b, was
  <2>7. Backs(m, idx, tt[idx])
    BY <2>4, <2>5, <2>6 DEF Backs
  <2>8. ASSUME NEW i \in Slots \ {idx}
        PROVE  /\ Shaped(tt[i]) /\ tt[i].cap = ss[i].cap
               /\ tt[i].cached = ss[i].cached /\ tt[i].run = ss[i].run
    <3>1. CASE tt[i] = ss[i]
      BY <1>2, <3>1
    <3>2. ASSUME NEW x, tt[i] = [ss[i] EXCEPT !.start = x]
          PROVE  /\ Shaped(tt[i]) /\ tt[i].cap = ss[i].cap
                 /\ tt[i].cached = ss[i].cached /\ tt[i].run = ss[i].run
      <4>1. tt[i] = SlotRec(x, ss[i].cap, ss[i].cached, ss[i].run)
        BY <1>2, <3>2, SlotForms DEF Shaped
      <4>2. ss[i].cap \in Nat /\ ss[i].run \in RunRec \cup {Idle}
        BY <1>2 DEF Shaped
      <4> QED
        BY <4>1, <4>2, ShapedOf
    <3> QED
      BY <2>3, <3>1, <3>2
  <2>9. Around(k, ss, m, tt, idx)
    BY <2>1, <2>4, <2>6, <2>7, <2>8, OneChanged
  <2> QED
    BY <1>1, <1>4, <2>9 DEF k, ss
<1> QED
  BY <1>3, <1>4

(* Sizing a slot leaves every run what it has. *)
LEMMA GrownAround ==
  ASSUME NEW st, Sound(st.kv, st.slots), NEW idx \in Slots, st.slots[idx].run = Idle,
         NEW want \in Nat, want > st.slots[idx].cap, NEW q, q = Grown(st, idx, want)
  PROVE  Around(st.kv, st.slots, q.kv, q.slots, idx)
<1>0. idx \in SeqIds /\ Table(st.kv) /\ Shaped(st.slots[idx]) /\ Backs(st.kv, idx, st.slots[idx])
  BY DEF Slots, Sound
<1>1. CASE st.slots[idx].cap = 0
  <2> DEFINE res == KvReserveSeqWithDefrag(st.kv, idx, want)
  <2>1. q = Adopt(st, res, idx)
    <3> HIDE DEF res
    <3>1. The({Adopt(st, r, idx) : r \in {res}}) = Adopt(st, res, idx)
      BY DEF The
    <3> QED
      BY <1>1, <3>1 DEF Grown, res
  <2>2. OnlyTouches(st.kv, res.kv, idx) /\ (res.ok => idx \in Live(res.kv))
    BY <1>0, ReserveCaps
  <2>3. Backs(res.kv, idx, st.slots[idx])
    BY <1>1 DEF Backs
  <2> HIDE DEF res
  <2> QED
    BY <2>1, <2>2, <2>3, AdoptAround
<1>2. CASE st.slots[idx].cap # 0
  <2> DEFINE need == want - st.slots[idx].cap
             rest == Reclaim(st, idx, need)
             res == KvSetCapWithDefrag(rest.kv, idx, want)
  <2>1. q = Adopt(rest, res, idx)
    <3> HIDE DEF rest
    <3>1. The({The({Adopt(r, x, idx) : x \in {KvSetCapWithDefrag(r.kv, idx, want)}}) : r \in {rest}})
            = Adopt(rest, res, idx)
      BY DEF The
    <3> QED
      BY <1>2, <3>1 DEF Grown, rest
  <2>2. /\ Around(st.kv, st.slots, rest.kv, rest.slots, idx) /\ rest.slots[idx] = st.slots[idx]
    <3> HIDE DEF need
    <3> QED
      BY ReclaimAround
  <2> HIDE DEF rest, need
  <2>3. Sound(rest.kv, rest.slots) /\ Table(rest.kv) /\ Backs(rest.kv, idx, rest.slots[idx])
    BY <2>2 DEF Around, Sound
  <2>4. want > 0 /\ rest.slots[idx].cap > 0 /\ rest.slots[idx].cap < want
    BY <1>0, <1>2, <2>2 DEF Shaped
  <2>5. /\ OnlyTouches(rest.kv, res.kv, idx) /\ (res.ok => idx \in Live(res.kv))
        /\ idx \in Live(rest.kv) =>
              idx \in Live(res.kv) /\ res.kv.seqs[idx].cap \in {rest.kv.seqs[idx].cap, want}
    BY <1>0, <2>3, <2>4, SetCapCaps
  <2> HIDE DEF res
  <2>6. Backs(res.kv, idx, rest.slots[idx])
    <3>1. rest.slots[idx].cap \in Nat /\ idx \in Live(rest.kv)
      BY <1>0, <2>2, <2>3, <2>4 DEF Backs, Shaped
    <3> QED
      BY <2>3, <2>4, <2>5, <3>1 DEF Backs
  <2>7. Around(rest.kv, rest.slots, q.kv, q.slots, idx)
    BY <2>1, <2>2, <2>3, <2>5, <2>6, AdoptAround
  <2> QED
    BY <2>2, <2>7, AroundChain
<1> QED
  BY <1>1, <1>2

LEMMA EnsureAround ==
  ASSUME NEW st, Sound(st.kv, st.slots), NEW idx \in Slots, st.slots[idx].run = Idle,
         NEW wanted \in Nat, NEW q, q = EnsureSlotCapacity(st, idx, wanted)
  PROVE  Around(st.kv, st.slots, q.kv, q.slots, idx)
<1> DEFINE want == Min({wanted, NCtx})
<1>1. NCtx \in Nat /\ st.slots[idx].cap \in Nat
  BY NCtxAssumption DEF Sound, Shaped
<1>2. want \in Nat
  BY <1>1, MinPair
<1>3. \/ q = st
      \/ ~(st.slots[idx].cap >= want) /\ q = Grown(st, idx, want)
  BY DEF EnsureSlotCapacity
<1> HIDE DEF want
<1>4. CASE q = st
  BY <1>4, AroundRefl
<1>5. CASE ~(st.slots[idx].cap >= want) /\ q = Grown(st, idx, want)
  <2>1. want > st.slots[idx].cap
    BY <1>1, <1>2, <1>5
  <2> QED
    BY <1>2, <1>5, <2>1, GrownAround
<1> QED
  BY <1>3, <1>4, <1>5

(* Finding the rows to start from changes the mirror of that slot only. *)
LEMMA StartAround ==
  ASSUME NEW st, Sound(st.kv, st.slots), NEW idx \in Slots, st.slots[idx].run = Idle,
         NEW prompt, NEW q, q = StartFrom(st, idx, prompt)
  PROVE  /\ Around(st.kv, st.slots, q.kv, q.slots, idx) /\ q.slots[idx].cap = st.slots[idx].cap
<1> DEFINE own == FeedFrom(st.slots, idx, prompt)
           src == BestDonor(st.slots, idx, prompt, own)
           rows == Usable(st.slots, src, prompt)
           res == IF Gathers THEN SharePrefix(st.kv, src, idx, rows)
                             ELSE KvCopyPrefix(st.kv, src, idx, rows)
           x == SubSeq(st.slots[src].cached, 1, rows)
           tt == [st.slots EXCEPT ![idx].cached = x]
<1>1. \/ q.kv = st.kv /\ q.slots = st.slots
      \/ q.kv = res.kv /\ q.slots \in {tt, st.slots}
  <2>1. CASE Donors(st.slots, idx, prompt, own) = {}
    <3>1. q = [kv |-> st.kv, slots |-> st.slots, from |-> own]
      BY <2>1 DEF StartFrom
    <3> QED
      BY <3>1
  <2>2. CASE Donors(st.slots, idx, prompt, own) # {}
    <3>1. q = CopyPrefixFrom(st, src, idx, rows, own)
      <4> HIDE DEF src
      <4>1. The({CopyPrefixFrom(st, s, idx, Usable(st.slots, s, prompt), own) : s \in {src}})
              = CopyPrefixFrom(st, src, idx, rows, own)
        BY DEF The
      <4> QED
        BY <2>2, <4>1 DEF StartFrom, src
    <3> HIDE DEF src, rows
    <3>2. CopyPrefixFrom(st, src, idx, rows, own)
            = [kv |-> res.kv, from |-> IF res.ok THEN rows ELSE own,
               slots |-> IF res.ok THEN tt ELSE st.slots]
      <4> HIDE DEF res
      <4>1. The({[kv |-> r.kv, from |-> IF r.ok THEN rows ELSE own,
                  slots |-> IF r.ok THEN tt ELSE st.slots] : r \in {res}})
            = [kv |-> res.kv, from |-> IF res.ok THEN rows ELSE own,
               slots |-> IF res.ok THEN tt ELSE st.slots]
        BY DEF The
      <4> QED
        BY <4>1 DEF CopyPrefixFrom, res
    <3> HIDE DEF res, tt
    <3> QED
      BY <3>1, <3>2
  <2> QED
    BY <2>1, <2>2
<1> HIDE DEF src, rows, x
<1>2. Table(st.kv) /\ st.slots = [i \in Slots |-> st.slots[i]] /\ \A i \in Slots : Shaped(st.slots[i])
  BY DEF Sound
<1>3. KeepsCaps(st.kv, res.kv) /\ Live(res.kv) = Live(st.kv)
  BY <1>2, ShareCaps, CopyCaps
<1> HIDE DEF res
<1>4. OnlyTouches(st.kv, res.kv, idx) /\ Backs(res.kv, idx, st.slots[idx])
  <2>1. Backs(st.kv, idx, st.slots[idx])
    BY DEF Sound
  <2> QED
    BY <1>3, <2>1, CapsChain DEF Backs, KeepsCaps
<1>5. Around(st.kv, st.slots, st.kv, st.slots, idx)
  BY AroundRefl
<1>6. Around(st.kv, st.slots, res.kv, st.slots, idx)
  BY <1>2, <1>4, OneChanged
<1>7. Around(st.kv, st.slots, res.kv, tt, idx) /\ tt[idx].cap = st.slots[idx].cap
  <2> DEFINE ss == st.slots
             sl == [ss[idx] EXCEPT !.cached = x]
  <2>1. tt = [ss EXCEPT ![idx] = sl]
    BY <1>2, CachedForm
  <2>2. sl = SlotRec(ss[idx].start, ss[idx].cap, x, ss[idx].run)
    BY <1>2, SlotForms DEF Shaped
  <2> HIDE DEF sl, tt
  <2>3. ss[idx].cap \in Nat /\ ss[idx].run \in RunRec \cup {Idle}
    BY <1>2 DEF Shaped
  <2>4. Shaped(sl) /\ sl.cap = ss[idx].cap /\ sl.run = Idle
    BY <2>2, <2>3, ShapedOf
  <2>5. tt = [i \in Slots |-> tt[i]] /\ tt[idx] = sl /\ \A i \in Slots \ {idx} : tt[i] = ss[i]
    <3> HIDE DEF ss
    <3>1. ss = [i \in Slots |-> ss[i]]
      BY <1>2 DEF ss
    <3> QED
      BY <2>1, <3>1, OneSlot
  <2>6. Backs(res.kv, idx, tt[idx])
    BY <1>4, <2>4, <2>5 DEF Backs
  <2> QED
    BY <1>2, <1>4, <2>4, <2>5, <2>6, OneChanged
<1> HIDE DEF tt
<1> QED
  BY <1>1, <1>5, <1>6, <1>7

(* The cells a request wants. *)
LEMMA WantedIsNat ==
  ASSUME NEW nt \in Nat, NEW max \in MaxTokens, NEW cap \in Nat
  PROVE  WantedCells(nt, max, cap) \in Nat
<1> DEFINE h == IF max < 0 THEN cap ELSE max
           n == Min({nt + h, NCtx})
<1>1. h \in Nat /\ NCtx \in Nat
  BY EngineAssumption, NCtxAssumption
<1> HIDE DEF h
<1>2. n \in Nat
  BY <1>1, MinPair
<1> HIDE DEF n
<1>3. Max({nt, n}) \in Nat
  BY <1>2, MaxPair
<1> QED
  BY <1>3 DEF WantedCells, n, h

-----------------------------------------------------------------------------
(* Admission. *)

Placement == [slot : Slots, job : Jobs]

(* Jobs placed on slots of ss that are idle, each on its own. *)
Waiting(td, ss) ==
    /\ td \in Seq(Placement)
    /\ \A n \in 1 .. Len(td) : ss[td[n].slot].run = Idle
    /\ \A m, n \in 1 .. Len(td) : m # n => td[m].slot # td[n].slot

LEMMA JobsOk ==
  ASSUME NEW job \in Jobs
  PROVE  /\ job.prompt \in Prompts /\ job.prompt \in Seq(Tokens) /\ job.max \in MaxTokens
         /\ Len(job.prompt) \in Nat \ {0}
<1>1. job.prompt \in Prompts /\ job.max \in MaxTokens
  BY DEF Jobs
<1>2. job.prompt \in Seq(Tokens) /\ job.prompt # <<>>
  BY <1>1, EngineAssumption
<1> QED
  BY <1>1, <1>2, EmptySeq

LEMMA AppendOne ==
  ASSUME NEW S, NEW b \in Seq(S), NEW e
  PROVE  /\ Append(b, e) \in Seq(S \cup {e}) /\ Len(Append(b, e)) = Len(b) + 1
         /\ \A i \in 1 .. Len(b) : Append(b, e)[i] = b[i]
         /\ Append(b, e)[Len(b) + 1] = e
<1>1. b \in Seq(S \cup {e})
  BY SeqMonotonic
<1> QED
  BY <1>1

(* Runs in progress keep their capacity and their mirror. *)
OthersKeep(ss, tt) ==
    \A j \in Slots : /\ tt[j].run = ss[j].run
                     /\ ss[j].run # Idle => tt[j].cap = ss[j].cap /\ tt[j].cached = ss[j].cached

LEMMA AroundUntouched ==
  ASSUME NEW k, NEW ss, NEW m, NEW tt, NEW idx \in Slots, Around(k, ss, m, tt, idx), ss[idx].run = Idle
  PROVE  OthersKeep(ss, tt)
BY DEF Around, KeepsSlot, OthersKeep

(* One job of a group prepared: its slot has room for the prompt, or the    *)
(* group is given up.                                                       *)
LEMMA PrepareAround ==
  ASSUME NEW acc, acc.ok, Sound(acc.kv, acc.slots), NEW p \in Placement,
         acc.slots[p.slot].run = Idle, NEW res, res = Prepare(acc, p)
  PROVE  /\ Around(acc.kv, acc.slots, res.kv, res.slots, p.slot)
         /\ res.ok => Len(p.job.prompt) <= res.slots[p.slot].cap
         /\ \E e : e.seq = p.slot /\ res.batch = Append(acc.batch, e)
<1> DEFINE nt == Len(p.job.prompt)
           idx == p.slot
           was == [kv |-> acc.kv, slots |-> acc.slots]
           st == StartFrom(was, idx, p.job.prompt)
           now == [kv |-> st.kv, slots |-> st.slots]
           wanted == WantedCells(nt, p.job.max, st.slots[idx].cap)
           after == EnsureSlotCapacity(now, idx, wanted)
           e == [seq |-> idx, pos |-> st.from, vals |-> SubSeq(p.job.prompt, st.from + 1, nt)]
<1>1. res = [ok |-> nt <= after.slots[idx].cap, kv |-> after.kv, slots |-> after.slots,
             batch |-> Append(acc.batch, e)]
  <2> DEFINE sized(s) == EnsureSlotCapacity([kv |-> s.kv, slots |-> s.slots], p.slot,
                             WantedCells(nt, p.job.max, s.slots[p.slot].cap))
             joined(s, a) ==
                [ok |-> nt <= a.slots[p.slot].cap, kv |-> a.kv, slots |-> a.slots,
                 batch |-> Append(acc.batch, [seq |-> p.slot, pos |-> s.from,
                                              vals |-> SubSeq(p.job.prompt, s.from + 1, nt)])]
  <2>1. res = The({The({joined(s, a) : a \in {sized(s)}}) :
                     s \in {StartFrom([kv |-> acc.kv, slots |-> acc.slots], p.slot, p.job.prompt)}})
    BY DEF Prepare
  <2>2. The({The({joined(s, a) : a \in {sized(s)}}) : s \in {st}}) = joined(st, sized(st))
    <3> HIDE DEF joined, sized, st
    <3> QED
      BY DEF The
  <2> QED
    BY <2>1, <2>2
<1>2. /\ idx \in Slots /\ p.job \in Jobs /\ nt \in Nat /\ p.job.max \in MaxTokens
  BY JobsOk DEF Placement
<1>3. was.kv = acc.kv /\ was.slots = acc.slots
  OBVIOUS
<1> HIDE DEF was, idx, nt
<1>4. Around(acc.kv, acc.slots, st.kv, st.slots, idx)
  <2> DEFINE pr == p.job.prompt
  <2>1. Sound(was.kv, was.slots) /\ was.slots[idx].run = Idle
    BY <1>3 DEF idx
  <2> HIDE DEF pr
  <2>2. Around(was.kv, was.slots, st.kv, st.slots, idx)
    BY <1>2, <2>1, StartAround
  <2> QED
    BY <1>3, <2>2
<1>5. now.kv = st.kv /\ now.slots = st.slots
  OBVIOUS
<1> HIDE DEF st, now
<1>6. /\ Sound(now.kv, now.slots) /\ now.slots[idx].run = Idle /\ st.slots[idx].cap \in Nat
  BY <1>2, <1>4, <1>5 DEF Around, Sound, Shaped, idx
<1>7. wanted \in Nat
  BY <1>2, <1>6, WantedIsNat
<1> HIDE DEF wanted
<1>8. Around(now.kv, now.slots, after.kv, after.slots, idx)
  BY <1>2, <1>6, <1>7, EnsureAround
<1> HIDE DEF after
<1>9. Around(acc.kv, acc.slots, after.kv, after.slots, idx)
  BY <1>4, <1>5, <1>8, AroundChain
<1>10. e.seq = idx
  OBVIOUS
<1> HIDE DEF e
<1>11. /\ res.kv = after.kv /\ res.slots = after.slots /\ (res.ok => nt <= after.slots[idx].cap)
       /\ res.batch = Append(acc.batch, e)
  <2> DEFINE yes == nt <= after.slots[idx].cap
             b == Append(acc.batch, e)
  <2>1. res = [ok |-> yes, kv |-> after.kv, slots |-> after.slots, batch |-> b]
    BY <1>1
  <2> HIDE DEF yes, b
  <2>2. res.ok = yes /\ res.kv = after.kv /\ res.slots = after.slots /\ res.batch = b
    BY <2>1
  <2> QED
    BY <2>2 DEF yes, b
<1> QED
  BY <1>9, <1>10, <1>11 DEF idx, nt

(* The preparing loop of prefill_group. *)
PrepareStep(c, acc, p) == Prepare(acc, p)

PrepareLoop == INSTANCE FoldProofs WITH Step <- PrepareStep

PrepareTrace(g, base, placed) ==
    /\ g[0] = base
    /\ \A n \in 1 .. Len(placed) : g[n] = Prepare(g[n - 1], placed[n])
    /\ PrepareLoop!Fold(0, base, placed) = g[Len(placed)]

LEMMA PrepareUnfolds ==
  ASSUME NEW base, NEW placed, Len(placed) \in Nat PROVE \E g : PrepareTrace(g, base, placed)
BY PrepareLoop!FoldUnfolds DEF PrepareTrace, PrepareStep

LEMMA PreparedFold ==
  ASSUME NEW base, NEW placed
  PROVE  Through(Prepare, base, placed) = PrepareLoop!Fold(0, base, placed)
BY DEF Through, PrepareLoop!Fold, PrepareStep, The, PrepareLoop!The

(* What prep, the first n jobs of a group prepared, says of the slots.  A   *)
(* later job may have reclaimed an earlier slot: then it has no run left.   *)
PreparedTo(prep, placed, n, ss) ==
    /\ Sound(prep.kv, prep.slots) /\ OthersKeep(ss, prep.slots)
    /\ prep.ok =>
          /\ \E S : prep.batch \in Seq(S)
          /\ Len(prep.batch) = n
          /\ \A i \in 1 .. n :
                /\ prep.batch[i].seq = placed[i].slot
                /\ placed[i].slot \in Live(prep.kv) =>
                      Len(placed[i].job.prompt) <= prep.slots[placed[i].slot].cap

(* One more job prepared. *)
LEMMA PrepareOne ==
  ASSUME NEW acc, NEW placed, NEW n \in Nat, NEW ss, Waiting(placed, ss), n + 1 \in 1 .. Len(placed),
         PreparedTo(acc, placed, n, ss), NEW res, res = Prepare(acc, placed[n + 1])
  PROVE  PreparedTo(res, placed, n + 1, ss)
<1> DEFINE p == placed[n + 1]
<1>1. /\ p \in Placement /\ p.slot \in Slots /\ ss[p.slot].run = Idle
      /\ \A i \in 1 .. n : placed[i].slot # p.slot /\ placed[i].slot \in Slots
  <2>1. Len(placed) \in Nat /\ placed \in Seq(Placement) /\ n + 1 <= Len(placed)
    BY DEF Waiting
  <2>2. p \in Placement /\ \A i \in 1 .. n : placed[i] \in Placement
    BY <2>1, ElementOfSeq
  <2>3. \A i \in 1 .. n : i \in 1 .. Len(placed) /\ i # n + 1
    BY <2>1
  <2> QED
    BY <2>2, <2>3 DEF Waiting, Placement
<1>2. CASE ~acc.ok
  <2>1. res = acc
    BY <1>2 DEF Prepare
  <2> QED
    BY <1>2, <2>1 DEF PreparedTo
<1>3. CASE acc.ok
  <2>1. acc.slots[p.slot].run = Idle /\ Sound(acc.kv, acc.slots) /\ res = Prepare(acc, p)
    BY <1>1 DEF PreparedTo, OthersKeep
  <2> HIDE DEF p
  <2>2. /\ Around(acc.kv, acc.slots, res.kv, res.slots, p.slot)
        /\ res.ok => Len(p.job.prompt) <= res.slots[p.slot].cap
        /\ \E e : e.seq = p.slot /\ res.batch = Append(acc.batch, e)
    BY <1>1, <1>3, <2>1, PrepareAround
  <2>3. OthersKeep(ss, res.slots) /\ Sound(res.kv, res.slots)
    <3>1. OthersKeep(acc.slots, res.slots)
      BY <1>1, <2>1, <2>2, AroundUntouched
    <3> QED
      BY <2>2, <3>1 DEF OthersKeep, PreparedTo, Around
  <2>4. PICK e : e.seq = p.slot /\ res.batch = Append(acc.batch, e)
    BY <2>2
  <2>5. PICK S : acc.batch \in Seq(S)
    BY <1>3 DEF PreparedTo
  <2>6. Len(acc.batch) = n
    BY <1>3 DEF PreparedTo
  <2>7. /\ res.batch \in Seq(S \cup {e}) /\ Len(res.batch) = n + 1
        /\ \A i \in 1 .. n : res.batch[i] = acc.batch[i]
        /\ res.batch[n + 1] = e
    BY <2>4, <2>5, <2>6, AppendOne
  <2>8. ASSUME res.ok, NEW i \in 1 .. n + 1
        PROVE  /\ res.batch[i].seq = placed[i].slot
               /\ placed[i].slot \in Live(res.kv) =>
                     Len(placed[i].job.prompt) <= res.slots[placed[i].slot].cap
    <3>1. CASE i = n + 1
      BY <2>2, <2>4, <2>7, <2>8, <3>1 DEF p
    <3>2. CASE i # n + 1
      <4>1. i \in 1 .. n
        BY <3>2
      <4>2. /\ acc.batch[i].seq = placed[i].slot
            /\ placed[i].slot \in Live(acc.kv) =>
                  Len(placed[i].job.prompt) <= acc.slots[placed[i].slot].cap
        BY <1>3, <4>1 DEF PreparedTo
      <4>3. placed[i].slot # p.slot /\ placed[i].slot \in Slots
        BY <1>1, <4>1
      <4>4. /\ placed[i].slot \in Live(res.kv) => placed[i].slot \in Live(acc.kv)
            /\ \/ res.slots[placed[i].slot].cap = acc.slots[placed[i].slot].cap
               \/ placed[i].slot \notin Live(res.kv)
        BY <2>2, <4>3 DEF Around, KeepsSlot
      <4> QED
        BY <2>7, <4>1, <4>2, <4>4
    <3> QED
      BY <3>1, <3>2
  <2> QED
    BY <2>3, <2>7, <2>8 DEF PreparedTo
<1> QED
  BY <1>2, <1>3

LEMMA PreparedOk ==
  ASSUME NEW k, NEW ss, Sound(k, ss), NEW placed, Waiting(placed, ss),
         NEW prep, prep = Through(Prepare, [ok |-> TRUE, kv |-> k, slots |-> ss, batch |-> <<>>], placed)
  PROVE  PreparedTo(prep, placed, Len(placed), ss)
<1> DEFINE N == Len(placed)
           base == [ok |-> TRUE, kv |-> k, slots |-> ss, batch |-> <<>>]
<1>1. N \in Nat
  BY DEF Waiting
<1>2. base.ok /\ base.kv = k /\ base.slots = ss /\ base.batch = <<>>
  OBVIOUS
<1>3. prep = PrepareLoop!Fold(0, base, placed)
  BY PreparedFold
<1> HIDE DEF base
<1>4. PICK g : PrepareTrace(g, base, placed)
  BY <1>1, PrepareUnfolds
<1> HIDE DEF N
<1> DEFINE T == {n \in 0 .. N : PreparedTo(g[n], placed, n, ss)}
<1>5. 0 \in T
  <2>1. g[0] = base
    BY <1>4 DEF PrepareTrace
  <2>2. base.batch \in Seq({}) /\ Len(base.batch) = 0
    BY <1>2, EmptySeq
  <2>3. PreparedTo(base, placed, 0, ss)
    BY <1>2, <2>2 DEF PreparedTo, OthersKeep
  <2> QED
    BY <1>1, <2>1, <2>3
<1>6. ASSUME NEW n \in 0 .. N - 1, n \in T PROVE n + 1 \in T
  <2>1. n \in Nat /\ n + 1 \in 1 .. Len(placed) /\ (n + 1) - 1 = n /\ n + 1 \in 0 .. N
    BY <1>1 DEF N
  <2>2. g[n + 1] = Prepare(g[n], placed[n + 1])
    BY <1>4, <2>1 DEF PrepareTrace
  <2>3. PreparedTo(g[n + 1], placed, n + 1, ss)
    BY <1>6, <2>1, <2>2, PrepareOne
  <2> QED
    BY <2>1, <2>3
<1> HIDE DEF T
<1>7. \A n \in 0 .. N : n \in T
  BY <1>1, <1>5, <1>6, Induct
<1>8. PreparedTo(g[N], placed, N, ss)
  BY <1>1, <1>7 DEF T
<1>9. prep = g[N]
  BY <1>3, <1>4 DEF PrepareTrace, N
<1> QED
  BY <1>8, <1>9 DEF N

(* The placing loop, over the slots ss it looks at. *)
FreeOf(ss, acc) == {i \in Slots : ~(ss[i].run # Idle)} \ {p.slot : p \in Range(acc)}

BestOf(ss, acc, job) ==
    {i \in FreeOf(ss, acc) : \A k \in FreeOf(ss, acc) :
        CommonPrefixLen(ss[k].cached, job.prompt) <= CommonPrefixLen(ss[i].cached, job.prompt)}

PlaceStep(ss, acc, job) == Append(acc, [slot |-> Min(BestOf(ss, acc, job)), job |-> job])

PlaceLoop == INSTANCE FoldProofs WITH Step <- PlaceStep

PlaceTrace(g, ss, js) ==
    /\ g[0] = <<>>
    /\ \A n \in 1 .. Len(js) : g[n] = PlaceStep(ss, g[n - 1], js[n])
    /\ PlaceLoop!Fold(ss, <<>>, js) = g[Len(js)]

LEMMA PlaceUnfolds ==
  ASSUME NEW ss, NEW js, Len(js) \in Nat PROVE \E g : PlaceTrace(g, ss, js)
<1>1. ASSUME NEW base
      PROVE \E g : /\ g[0] = base
                   /\ \A n \in 1 .. Len(js) : g[n] = PlaceStep(ss, g[n - 1], js[n])
                   /\ PlaceLoop!Fold(ss, base, js) = g[Len(js)]
  BY PlaceLoop!FoldUnfolds
<1> QED
  BY <1>1 DEF PlaceTrace

LEMMA PlaceFold == ASSUME NEW js PROVE Place(js) = PlaceLoop!Fold(slots, <<>>, js)
BY DEF Place, Through, PlaceLoop!Fold, PlaceStep, The, PlaceLoop!The, FreeOf, BestOf, IdleSlots, Running, Match

(* A common prefix is no longer than the prompt. *)
LEMMA PrefixBound ==
  ASSUME NEW a, NEW S, NEW b \in Seq(S)
  PROVE  CommonPrefixLen(a, b) \in Nat /\ CommonPrefixLen(a, b) <= Len(b)
<1> DEFINE C == {n \in DOMAIN a \cap DOMAIN b : \A i \in 1 .. n : a[i] = b[i]}
<1>1. DOMAIN b = 1 .. Len(b) /\ Len(b) \in Nat
  BY LenProperties
<1>2. IsFiniteSet(1 .. Len(b)) /\ Cardinality(1 .. Len(b)) = Len(b)
  BY <1>1, FS_Interval
<1>3. C \in SUBSET (1 .. Len(b))
  BY <1>1
<1> HIDE DEF C
<1>4. IsFiniteSet(C) /\ Cardinality(C) <= Len(b)
  BY <1>2, <1>3, FS_Subset
<1>5. Cardinality(C) \in Nat
  BY <1>4, FS_CardinalityType
<1> QED
  BY <1>4, <1>5 DEF CommonPrefixLen, C

(* While a slot is free, one of the free slots is the best. *)
LEMMA BestExists ==
  ASSUME NEW ss, NEW acc, NEW job \in Jobs, FreeOf(ss, acc) # {}
  PROVE  Min(BestOf(ss, acc, job)) \in FreeOf(ss, acc)
<1> DEFINE F == FreeOf(ss, acc)
           M(i) == CommonPrefixLen(ss[i].cached, job.prompt)
           L == Len(job.prompt)
           G == {L - M(i) : i \in F}
           B == BestOf(ss, acc, job)
<1>1. L \in Nat /\ \A i \in F : M(i) \in Nat /\ M(i) <= L
  BY JobsOk, PrefixBound
<1>2. F \subseteq Nat
  BY SlotsInOrder DEF FreeOf
<1>3. B = {i \in F : \A k \in F : M(k) <= M(i)}
  BY DEF BestOf
<1> HIDE DEF M, L, F, B
<1>4. G \in SUBSET Nat /\ G # {}
  BY <1>1 DEF F
<1>5. PICK m \in G : \A x \in G : m <= x
  BY <1>4, PlaceLoop!LeastNat
<1>6. PICK i \in F : m = L - M(i)
  BY <1>5
<1>7. \A k \in F : M(k) <= M(i)
  <2> SUFFICES ASSUME NEW k \in F PROVE M(k) <= M(i)
    OBVIOUS
  <2>1. L - M(i) <= L - M(k)
    BY <1>5, <1>6
  <2> QED
    BY <1>1, <2>1
<1>8. B # {} /\ B \in SUBSET Nat /\ B \subseteq F
  BY <1>2, <1>3, <1>6, <1>7
<1>9. Min(B) \in B
  BY <1>8, MinIn
<1> QED
  BY <1>8, <1>9 DEF B, F

(* While fewer jobs are placed than slots are idle, a slot is free. *)
LEMMA FreeExists ==
  ASSUME NEW ss, NEW acc \in Seq(Placement), Len(acc) < Cardinality({i \in Slots : ~(ss[i].run # Idle)})
  PROVE  FreeOf(ss, acc) # {}
<1> DEFINE I == {i \in Slots : ~(ss[i].run # Idle)}
           U == {p.slot : p \in Range(acc)}
           n == Len(acc)
           f == [i \in 1 .. n |-> acc[i].slot]
<1>1. n \in Nat /\ DOMAIN acc = 1 .. n
  BY LenProperties
<1>2. U = {acc[i].slot : i \in 1 .. n}
  BY <1>1 DEF Range
<1> HIDE DEF n, U
<1>3. f \in Surjection(1 .. n, U)
  <2>1. f \in [1 .. n -> U]
    BY <1>2
  <2>2. \A u \in U : \E i \in 1 .. n : f[i] = u
    BY <1>2
  <2> HIDE DEF f
  <2> QED
    BY <2>1, <2>2 DEF Surjection
<1>4. IsFiniteSet(1 .. n) /\ Cardinality(1 .. n) = n
  BY <1>1, FS_Interval
<1> HIDE DEF f
<1>5. IsFiniteSet(U) /\ Cardinality(U) <= n
  BY <1>3, <1>4, FS_Surjection
<1>6. Cardinality(U) \in Nat
  BY <1>5, FS_CardinalityType
<1>7. SUFFICES ASSUME I \subseteq U PROVE FALSE
  BY DEF FreeOf, U
<1>8. n < Cardinality(I)
  BY DEF n
<1> HIDE DEF I
<1>9. IsFiniteSet(I) /\ Cardinality(I) <= Cardinality(U)
  BY <1>5, <1>7, FS_Subset
<1>10. Cardinality(I) \in Nat
  BY <1>9, FS_CardinalityType
<1> QED
  BY <1>1, <1>5, <1>6, <1>8, <1>9, <1>10

(* Every job gets an idle slot of its own. *)
LEMMA PlaceWaits ==
  ASSUME NEW js, Len(js) \in Nat, \A n \in 1 .. Len(js) : js[n] \in Jobs,
         NEW ss, NEW lim \in Int, lim = Cardinality({i \in Slots : ~(ss[i].run # Idle)}), Len(js) <= lim,
         NEW placed, placed = PlaceLoop!Fold(ss, <<>>, js)
  PROVE  Waiting(placed, ss) /\ Len(placed) = Len(js)
<1> DEFINE N == Len(js)
<1>1. PICK g : PlaceTrace(g, ss, js)
  BY PlaceUnfolds
<1> DEFINE T == {n \in 0 .. N : Waiting(g[n], ss) /\ Len(g[n]) = n}
<1>2. N \in Nat
  OBVIOUS
<1> HIDE DEF N
<1>3. 0 \in T
  <2>1. g[0] = <<>>
    BY <1>1 DEF PlaceTrace
  <2>2. g[0] \in Seq(Placement) /\ Len(g[0]) = 0
    BY <2>1, EmptySeq
  <2> QED
    BY <1>2, <2>2 DEF Waiting
<1>4. ASSUME NEW n \in 0 .. N - 1, n \in T PROVE n + 1 \in T
  <2> DEFINE acc == g[n]
             job == js[n + 1]
             b == Min(BestOf(ss, acc, job))
             p == [slot |-> b, job |-> job]
  <2>1. n \in Nat /\ n + 1 \in 1 .. N /\ (n + 1) - 1 = n /\ n + 1 \in 0 .. N /\ n < N
    BY <1>2
  <2>2. g[n + 1] = Append(acc, p)
    BY <1>1, <2>1 DEF PlaceTrace, PlaceStep, N
  <2>3. acc \in Seq(Placement) /\ Len(acc) = n /\ job \in Jobs
    BY <1>4, <2>1 DEF Waiting, N
  <2>4. n < lim
    BY <1>2, <2>1 DEF N
  <2>5. FreeOf(ss, acc) # {}
    <3> HIDE DEF acc
    <3> QED
      BY <2>3, <2>4, FreeExists
  <2>6. b \in FreeOf(ss, acc)
    <3> HIDE DEF acc, job
    <3> QED
      BY <2>3, <2>5, BestExists
  <2>7. \A i \in 1 .. n : acc[i] \in Range(acc)
    <3>1. DOMAIN acc = 1 .. n
      BY <2>3, LenProperties
    <3> QED
      BY <3>1 DEF Range
  <2>8. b \in Slots /\ ss[b].run = Idle /\ \A i \in 1 .. n : acc[i].slot # b
    BY <2>6, <2>7 DEF FreeOf
  <2> HIDE DEF b, acc, job
  <2>9. p \in Placement /\ p.slot = b
    BY <2>3, <2>8 DEF Placement
  <2> HIDE DEF p
  <2> DEFINE q == Append(acc, p)
  <2>10. q \in Seq(Placement) /\ Len(q) = n + 1 /\ (\A i \in 1 .. n : q[i] = acc[i]) /\ q[n + 1] = p
    BY <2>3, <2>9
  <2> HIDE DEF q
  <2>11. /\ \A i \in 1 .. n : ss[acc[i].slot].run = Idle
         /\ \A i, j \in 1 .. n : i # j => acc[i].slot # acc[j].slot
    BY <1>4, <2>3 DEF Waiting, acc
  <2>12. \A i \in 1 .. n + 1 : i \in 1 .. n \/ i = n + 1
    BY <2>1
  <2>13. \A i \in 1 .. n + 1 : ss[q[i].slot].run = Idle
    BY <2>8, <2>9, <2>10, <2>11, <2>12
  <2>14. ASSUME NEW i \in 1 .. n + 1, NEW j \in 1 .. n + 1, i # j PROVE q[i].slot # q[j].slot
    BY <2>8, <2>9, <2>10, <2>11, <2>12, <2>14
  <2>15. Waiting(q, ss)
    BY <2>10, <2>13, <2>14 DEF Waiting
  <2> QED
    BY <2>1, <2>2, <2>10, <2>15 DEF q
<1> HIDE DEF T
<1>5. \A n \in 0 .. N : n \in T
  BY <1>2, <1>3, <1>4, Induct
<1>6. Waiting(g[N], ss) /\ Len(g[N]) = N
  BY <1>2, <1>5 DEF T
<1>7. placed = g[N]
  BY <1>1 DEF PlaceTrace, N
<1> QED
  BY <1>6, <1>7 DEF N

(* The loop that installs the runs of a group. *)
InstallStep(c, ss, p) == Installed(ss, p.slot, p.job)

InstallLoop == INSTANCE FoldProofs WITH Step <- InstallStep

InstallTrace(g, ss, placed) ==
    /\ g[0] = ss
    /\ \A n \in 1 .. Len(placed) : g[n] = Installed(g[n - 1], placed[n].slot, placed[n].job)
    /\ InstallLoop!Fold(0, ss, placed) = g[Len(placed)]

LEMMA InstallUnfolds ==
  ASSUME NEW ss, NEW placed, Len(placed) \in Nat PROVE \E g : InstallTrace(g, ss, placed)
<1>1. PICK g : /\ g[0] = ss
               /\ \A n \in 1 .. Len(placed) : g[n] = InstallStep(0, g[n - 1], placed[n])
               /\ InstallLoop!Fold(0, ss, placed) = g[Len(placed)]
  BY InstallLoop!FoldUnfolds
<1>2. InstallTrace(g, ss, placed)
  BY <1>1 DEF InstallTrace, InstallStep
<1> QED
  BY <1>2

LEMMA InstallFold ==
  ASSUME NEW ss, NEW placed
  PROVE  Through(LAMBDA tt, p : Installed(tt, p.slot, p.job), ss, placed)
            = InstallLoop!Fold(0, ss, placed)
BY DEF Through, InstallLoop!Fold, InstallStep, The, InstallLoop!The

(* Slot p.slot hosts the run of p.job. *)
Hosts(ss, tt, p) == tt[p.slot] = Hosting(ss[p.slot], p.job.prompt, Run(p.job))

LEMMA InstallHosts ==
  ASSUME NEW ss, ss = [i \in Slots |-> ss[i]], NEW td, NEW placed, Waiting(placed, td),
         NEW tt, tt = InstallLoop!Fold(0, ss, placed)
  PROVE  /\ tt = [i \in Slots |-> tt[i]]
         /\ \A n \in 1 .. Len(placed) : Hosts(ss, tt, placed[n])
         /\ \A i \in Slots : (\A n \in 1 .. Len(placed) : placed[n].slot # i) => tt[i] = ss[i]
<1> DEFINE N == Len(placed)
           P(h, n) == /\ h = [i \in Slots |-> h[i]]
                      /\ \A m \in 1 .. n : Hosts(ss, h, placed[m])
                      /\ \A i \in Slots : (\A m \in 1 .. n : placed[m].slot # i) => h[i] = ss[i]
<1>1. N \in Nat /\ \A n \in 1 .. N : placed[n] \in Placement
  BY ElementOfSeq DEF Waiting
<1>2. PICK g : InstallTrace(g, ss, placed)
  BY <1>1, InstallUnfolds
<1> HIDE DEF N
<1> DEFINE T == {n \in 0 .. N : P(g[n], n)}
<1>3. 0 \in T
  BY <1>1, <1>2 DEF InstallTrace
<1>4. ASSUME NEW n \in 0 .. N - 1, n \in T PROVE n + 1 \in T
  <2> DEFINE h == g[n]
             p == placed[n + 1]
             u == Installed(h, p.slot, p.job)
  <2>1. n \in Nat /\ n + 1 \in 1 .. N /\ (n + 1) - 1 = n /\ n + 1 \in 0 .. N /\ n < N
    BY <1>1
  <2>2. g[n + 1] = u
    BY <1>2, <2>1 DEF InstallTrace, N
  <2>3. P(h, n)
    BY <1>4
  <2>4. p \in Placement /\ p.slot \in Slots
    BY <1>1, <2>1 DEF Placement
  <2>5. \A m \in 1 .. n : placed[m].slot # p.slot /\ placed[m].slot \in Slots
    <3>1. \A m \in 1 .. n : m \in 1 .. Len(placed) /\ m # n + 1 /\ n + 1 \in 1 .. Len(placed)
      BY <1>1, <2>1 DEF N
    <3> QED
      BY <1>1, <3>1 DEF Waiting, Placement, N
  <2>6. h[p.slot] = ss[p.slot]
    BY <2>3, <2>4, <2>5
  <2> HIDE DEF h, p, u
  <2> DEFINE sl == Hosting(h[p.slot], p.job.prompt, Run(p.job))
  <2>7. u = [h EXCEPT ![p.slot] = sl]
    <3>1. h = [i \in Slots |-> h[i]]
      BY <2>3
    <3> DEFINE j == p.slot
               b == p.job
    <3>2. Installed(h, j, b) = [h EXCEPT ![j] = Hosting(h[j], b.prompt, Run(b))]
      <4> HIDE DEF j, b
      <4>1. j \in Slots
        BY <2>4 DEF j
      <4> QED
        BY <3>1, <4>1 DEF Installed, Hosting
    <3> QED
      BY <3>2 DEF u
  <2> HIDE DEF sl
  <2>8. u = [i \in Slots |-> u[i]] /\ u[p.slot] = sl /\ \A i \in Slots \ {p.slot} : u[i] = h[i]
    BY <2>3, <2>4, <2>7, OneSlot
  <2>9. \A m \in 1 .. n + 1 : m \in 1 .. n \/ m = n + 1
    BY <2>1
  <2>10. ASSUME NEW m \in 1 .. n + 1 PROVE Hosts(ss, u, placed[m])
    <3>1. CASE m = n + 1
      BY <2>6, <2>8, <3>1 DEF Hosts, sl, p
    <3>2. CASE m \in 1 .. n
      BY <2>3, <2>5, <2>8, <3>2 DEF Hosts
    <3> QED
      BY <2>9, <3>1, <3>2
  <2>11. ASSUME NEW i \in Slots, \A m \in 1 .. n + 1 : placed[m].slot # i PROVE u[i] = ss[i]
    <3>1. \A m \in 1 .. n : m \in 1 .. n + 1
      BY <2>1
    <3>2. n + 1 \in 1 .. n + 1
      BY <2>1
    <3>3. h[i] = ss[i] /\ i # p.slot
      BY <2>3, <2>11, <3>1, <3>2 DEF p
    <3> QED
      BY <2>8, <3>3
  <2>12. P(u, n + 1)
    BY <2>8, <2>10, <2>11
  <2> QED
    BY <2>1, <2>2, <2>12
<1> HIDE DEF T
<1>5. \A n \in 0 .. N : n \in T
  BY <1>1, <1>3, <1>4, Induct
<1>6. P(g[N], N)
  <2>1. N \in T
    BY <1>1, <1>5
  <2> QED
    BY <2>1 DEF T
<1>7. tt = g[N]
  BY <1>2 DEF InstallTrace, N
<1> QED
  BY <1>6, <1>7 DEF N

(* What a client was sent is what the mirror and the pending token spell. *)
Spelled(sl) ==
    sl.run # Idle => sl.cached \o sl.run.pend = sl.run.prompt \o sl.run.out

LEMMA NotIdle == ASSUME NEW r \in RunRec PROVE r # Idle
<1>1. r.prompt # <<>>
  BY EngineAssumption DEF RunRec
<1>2. Idle.prompt = <<>>
  BY DEF Idle
<1> QED
  BY <1>1, <1>2

(* A slot with room for a prompt can host its run. *)
LEMMA HostedOk ==
  ASSUME NEW old, Shaped(old), NEW job \in Jobs, Len(job.prompt) <= old.cap,
         NEW sl, sl = Hosting(old, job.prompt, Run(job))
  PROVE  Shaped(sl) /\ HasRoom(sl) /\ sl.cap = old.cap /\ sl.run # Idle /\ Spelled(sl)
<1> DEFINE r == Run(job)
           x == job.prompt
<1>1. /\ x \in Prompts /\ x \in Seq(Tokens) /\ job.max \in MaxTokens /\ Len(x) \in Nat \ {0}
  BY JobsOk
<1>2. r \in RunRec /\ r.pos = Len(x) /\ r.pend = <<>> /\ r.out = <<>> /\ r.prompt = x
  BY <1>1, EmptySeq DEF RunRec, Run, None
<1>3. old = SlotRec(old.start, old.cap, old.cached, old.run) /\ old.cap \in Nat /\ Len(x) <= old.cap
  BY DEF Shaped
<1>4. sl = Hosting(old, x, r)
  OBVIOUS
<1> HIDE DEF r, x
<1>5. sl = SlotRec(old.start, old.cap, x, r)
  BY <1>3, <1>4, GivenForm
<1>6. Shaped(sl) /\ sl.cap = old.cap /\ sl.cached = x /\ sl.run = r
  BY <1>2, <1>3, <1>5, ShapedOf
<1>7. HasRoom(sl)
  BY <1>1, <1>2, <1>3, <1>6 DEF HasRoom, None
<1>8. Spelled(sl)
  BY <1>2, <1>6 DEF Spelled
<1> QED
  BY <1>2, <1>6, <1>7, <1>8, NotIdle

(* A forward leaves the slots sound. *)
LEMMA SoundKept ==
  ASSUME NEW k, NEW ss, Sound(k, ss), NEW m, KeepsCaps(k, m)
  PROVE  Sound(m, ss)
<1>1. ASSUME NEW i \in Slots PROVE Backs(m, i, ss[i])
  BY DEF Sound, Backs, KeepsCaps
<1> QED
  BY <1>1 DEF Sound, KeepsCaps

-----------------------------------------------------------------------------
(* The decode step. *)

(* The token a forward wrote is in the mirror, and none is pending. *)
LEMMA ForwardedOk ==
  ASSUME NEW old, Shaped(old), HasRoom(old), old.run # Idle, old.run.pend # None,
         NEW sl, sl = Forwarded(old)
  PROVE  /\ Shaped(sl) /\ HasRoom(sl) /\ sl.cap = old.cap /\ sl.run # Idle /\ sl.run.pend = None
         /\ Spelled(old) => Spelled(sl)
<1> DEFINE r == old.run
           c == old.cached
           x == r.pos + 1
           q == [r EXCEPT !.pos = x, !.pend = None]
           d == c \o r.pend
<1>1. /\ r \in RunRec /\ old.cap \in Nat /\ old = SlotRec(old.start, old.cap, c, r)
      /\ c \in Seq(Tokens)
  BY DEF Shaped, HasRoom
<1>2. /\ r.pos \in Nat \ {0} /\ r.pend \in Seq(Tokens) /\ r.out \in Seq(Tokens)
      /\ r.prompt \in Seq(Tokens)
  BY <1>1, EngineAssumption DEF RunRec
<1>3. x \in Nat \ {0} /\ x <= old.cap /\ d \in Seq(Tokens) /\ None \in Seq(Tokens)
  BY <1>1, <1>2, ConcatProperties, EmptySeq DEF HasRoom, None
<1>4. q \in RunRec /\ q.pos = x /\ q.pend = None /\ q.out = r.out /\ q.prompt = r.prompt
  BY <1>1, <1>3 DEF RunRec
<1>5. sl = SlotRec(old.start, old.cap, d, q)
  <2> DEFINE a == old.start
             b == old.cap
  <2>1. old = [start |-> a, cap |-> b, cached |-> c, run |-> r]
    BY <1>1 DEF SlotRec
  <2>2. sl = [old EXCEPT !.cached = d, !.run = q]
    BY <2>1 DEF Forwarded
  <2>3. sl = Hosting(old, d, q)
    BY <2>2 DEF Hosting
  <2> HIDE DEF a, b, d, q
  <2> QED
    BY <1>1, <2>3, GivenForm
<1> HIDE DEF q, d, x
<1>6. Shaped(sl) /\ sl.cap = old.cap /\ sl.cached = d /\ sl.run = q
  BY <1>1, <1>4, <1>5, ShapedOf
<1>7. HasRoom(sl)
  BY <1>3, <1>4, <1>6 DEF HasRoom
<1>8. ASSUME Spelled(old) PROVE Spelled(sl)
  <2>1. d = r.prompt \o r.out
    BY <1>8 DEF Spelled, d
  <2>2. d \o <<>> = d
    BY <1>3, ConcatEmptySeq
  <2> QED
    BY <1>4, <1>6, <2>1, <2>2 DEF Spelled, None
<1> QED
  BY <1>4, <1>6, <1>7, <1>8, NotIdle

(* However a slot's step ends, the next token fits. *)
LEMMA AdvancedOk ==
  ASSUME NEW old, Shaped(old), HasRoom(old), old.run # Idle, NEW sl \in Advanced(old)
  PROVE  /\ Shaped(sl) /\ HasRoom(sl) /\ sl.cap = old.cap
         /\ Spelled(old) /\ old.run.pend = None => Spelled(sl)
<1> DEFINE r == old.run
           c == old.cached
           com(t) == [old EXCEPT !.run.out = Append(r.out, t), !.run.pend = <<t>>]
<1>1. /\ r \in RunRec /\ old.cap \in Nat /\ old = SlotRec(old.start, old.cap, c, r)
      /\ c \in Seq(Tokens)
  BY DEF Shaped, HasRoom
<1>2. /\ r.pos \in Nat \ {0} /\ r.pend \in Seq(Tokens) /\ r.out \in Seq(Tokens)
      /\ r.prompt \in Seq(Tokens)
  BY <1>1, EngineAssumption DEF RunRec
<1>3. \/ sl = Ended(old) \/ sl = Failed(old)
      \/ \E t \in Tokens : r.pos + 1 < old.cap /\ sl = com(t)
  BY DEF Advanced
<1>4. CASE sl = Ended(old)
  <2>1. sl = SlotRec(old.start, old.cap, c, Idle)
    BY <1>1, <1>4, SlotForms DEF Ended
  <2>2. Idle \in RunRec \cup {Idle} /\ old.cap \in Nat
    BY <1>1
  <2>3. Shaped(sl) /\ sl.cap = old.cap /\ sl.run = Idle
    BY <2>1, <2>2, ShapedOf
  <2> QED
    BY <2>3 DEF HasRoom, Spelled
<1>5. CASE sl = Failed(old)
  <2>1. sl = SlotRec(old.start, old.cap, <<>>, Idle)
    BY <1>1, <1>5, SlotForms
  <2>2. Idle \in RunRec \cup {Idle} /\ old.cap \in Nat
    BY <1>1
  <2>3. Shaped(sl) /\ sl.cap = old.cap /\ sl.run = Idle
    BY <2>1, <2>2, ShapedOf
  <2> QED
    BY <2>3 DEF HasRoom, Spelled
<1>6. ASSUME NEW t \in Tokens, r.pos + 1 < old.cap, sl = com(t)
      PROVE  /\ Shaped(sl) /\ HasRoom(sl) /\ sl.cap = old.cap
             /\ Spelled(old) /\ old.run.pend = None => Spelled(sl)
  <2> DEFINE o == Append(r.out, t)
             w == <<t>>
             q == [r EXCEPT !.out = o, !.pend = w]
  <2>1. o \in Seq(Tokens) /\ w \in Seq(Tokens) /\ o = r.out \o w
    <3> DEFINE v == r.out
    <3>1. v \in Seq(Tokens)
      BY <1>2
    <3> HIDE DEF v
    <3>2. Append(v, t) \in Seq(Tokens) /\ <<t>> \in Seq(Tokens) /\ Append(v, t) = v \o <<t>>
      BY <3>1
    <3> QED
      BY <3>2 DEF v
  <2>2. sl = SlotRec(old.start, old.cap, c, q)
    <3> DEFINE a == old.start
               b == old.cap
    <3>1. old = [start |-> a, cap |-> b, cached |-> c, run |-> r]
      BY <1>1 DEF SlotRec
    <3>2. sl = [old EXCEPT !.run.out = o, !.run.pend = w]
      BY <1>6
    <3> HIDE DEF o, w
    <3>3. sl = [old EXCEPT !.run = q]
      BY <3>1, <3>2
    <3> HIDE DEF q, a, b
    <3> QED
      BY <1>1, <3>3, SlotForms
  <2> HIDE DEF o, w
  <2>3. q \in RunRec /\ q.pos = r.pos /\ q.pend = w /\ q.out = o /\ q.prompt = r.prompt
    BY <1>1, <2>1 DEF RunRec
  <2> HIDE DEF q
  <2>4. Shaped(sl) /\ sl.cap = old.cap /\ sl.cached = c /\ sl.run = q
    BY <1>1, <2>2, <2>3, ShapedOf
  <2>5. HasRoom(sl)
    BY <1>1, <1>2, <1>6, <2>3, <2>4 DEF HasRoom
  <2>6. ASSUME Spelled(old), old.run.pend = None PROVE Spelled(sl)
    <3>1. c \o <<>> = r.prompt \o r.out
      BY <2>6 DEF Spelled, None
    <3>2. c = r.prompt \o r.out
      BY <1>1, <3>1, ConcatEmptySeq
    <3>3. c \o w = r.prompt \o (r.out \o w)
      <4> DEFINE u == r.prompt
                 v == r.out
      <4>1. u \in Seq(Tokens) /\ v \in Seq(Tokens)
        BY <1>2
      <4> HIDE DEF u, v
      <4>2. (u \o v) \o w = u \o (v \o w)
        BY <2>1, <4>1, ConcatAssociative, SMTT(60)
      <4> QED
        BY <3>2, <4>2 DEF u, v
    <3> QED
      BY <2>1, <2>3, <2>4, <3>3 DEF Spelled
  <2> QED
    BY <2>4, <2>5, <2>6
<1> QED
  BY <1>3, <1>4, <1>5, <1>6

(* The slot has a committed token whose row is not written. *)
Pending(sl) == sl.run # Idle /\ sl.run.pend # None

(* The collecting loop of tick, over the slots ss it looks at. *)
RowsStep(ss, rows, i) ==
    IF ss[i].run # Idle /\ ss[i].run.pend # None /\ Len(rows) < MaxBatch THEN Append(rows, i) ELSE rows

RowsLoop == INSTANCE FoldProofs WITH Step <- RowsStep

RowsTrace(g, ss) ==
    /\ g[0] = <<>>
    /\ \A n \in Slots : g[n] = RowsStep(ss, g[n - 1], n)
    /\ RowsLoop!Fold(ss, <<>>, InOrder) = g[Cardinality(Slots)]

RowsTraceOf(g, ss, base, seq) ==
    /\ g[0] = base
    /\ \A n \in 1 .. Len(seq) : g[n] = RowsStep(ss, g[n - 1], seq[n])
    /\ RowsLoop!Fold(ss, base, seq) = g[Len(seq)]

LEMMA RowsSteps ==
  ASSUME NEW ss, NEW base, NEW seq, Len(seq) \in Nat PROVE \E g : RowsTraceOf(g, ss, base, seq)
<1>1. PICK g : /\ g[0] = base
               /\ \A n \in 1 .. Len(seq) : g[n] = RowsStep(ss, g[n - 1], seq[n])
               /\ RowsLoop!Fold(ss, base, seq) = g[Len(seq)]
  BY RowsLoop!FoldUnfolds
<1>2. RowsTraceOf(g, ss, base, seq)
  BY <1>1 DEF RowsTraceOf
<1> QED
  BY <1>2

LEMMA RowsUnfolds == ASSUME NEW ss PROVE \E g : RowsTrace(g, ss)
<1>1. Len(InOrder) \in Nat
  BY SlotsInOrder
<1>2. PICK g : RowsTraceOf(g, ss, <<>>, InOrder)
  BY <1>1, RowsSteps
<1>3. \A n \in Slots : g[n] = RowsStep(ss, g[n - 1], n)
  BY <1>2, SlotsInOrder DEF RowsTraceOf
<1>4. RowsTrace(g, ss)
  BY <1>2, <1>3, SlotsInOrder DEF RowsTrace, RowsTraceOf
<1> QED
  BY <1>4

LEMMA RowsFold == BatchRows = RowsLoop!Fold(slots, <<>>, InOrder)
BY DEF BatchRows, Through, RowsLoop!Fold, RowsStep, The, RowsLoop!The, InOrder, Running

(* The batch holds pending slots only; with room for every slot it holds    *)
(* all of them.                                                             *)
RowsOf(rows, ss) ==
    /\ rows \in Seq(Slots)
    /\ \A r \in 1 .. Len(rows) : Pending(ss[rows[r]])
    /\ MaxBatch >= Cardinality(Slots) =>
          \A i \in Slots : Pending(ss[i]) => \E r \in 1 .. Len(rows) : rows[r] = i

LEMMA RowsPending ==
  ASSUME NEW ss, NEW rows, rows = RowsLoop!Fold(ss, <<>>, InOrder)
  PROVE  RowsOf(rows, ss)
<1> DEFINE N == Cardinality(Slots)
           P(h, n) == /\ h \in Seq(Slots) /\ Len(h) <= n
                      /\ \A r \in 1 .. Len(h) : Pending(ss[h[r]])
                      /\ MaxBatch >= N =>
                            \A i \in 1 .. n : Pending(ss[i]) => \E r \in 1 .. Len(h) : h[r] = i
<1>1. N \in Nat /\ Slots = 1 .. N /\ MaxBatch \in Nat
  BY SlotsInOrder, EngineAssumption
<1>2. PICK g : RowsTrace(g, ss)
  BY RowsUnfolds
<1>3. rows = g[N] /\ g[0] = <<>> /\ \A n \in Slots : g[n] = RowsStep(ss, g[n - 1], n)
  BY <1>2 DEF RowsTrace
<1> HIDE DEF N
<1> DEFINE T == {n \in 0 .. N : P(g[n], n)}
<1>4. 0 \in T
  <2>1. g[0] \in Seq(Slots) /\ Len(g[0]) = 0
    BY <1>3, EmptySeq
  <2> QED
    BY <1>1, <2>1
<1>5. ASSUME NEW n \in 0 .. N - 1, n \in T PROVE n + 1 \in T
  <2> DEFINE h == g[n]
             j == n + 1
             u == Append(h, j)
  <2>1. n \in Nat /\ j \in 1 .. N /\ j \in Slots /\ j - 1 = n /\ j \in 0 .. N /\ n < N
    BY <1>1
  <2>2. /\ \/ Pending(ss[j]) /\ Len(h) < MaxBatch /\ g[j] = u
           \/ ~(Pending(ss[j]) /\ Len(h) < MaxBatch) /\ g[j] = h
    BY <1>3, <2>1 DEF RowsStep, Pending
  <2>3. P(h, n) /\ Len(h) \in Nat
    BY <1>5
  <2>4. \A i \in 1 .. j : i \in 1 .. n \/ i = j
    BY <2>1
  <2> HIDE DEF h
  <2>5. CASE Pending(ss[j]) /\ Len(h) < MaxBatch /\ g[j] = u
    <3>1. u \in Seq(Slots) /\ Len(u) = Len(h) + 1 /\ (\A r \in 1 .. Len(h) : u[r] = h[r]) /\ u[Len(h) + 1] = j
      BY <2>1, <2>3
    <3>2. \A r \in 1 .. Len(u) : r \in 1 .. Len(h) \/ r = Len(h) + 1
      BY <2>3, <3>1
    <3>3. \A r \in 1 .. Len(h) : r \in 1 .. Len(u)
      BY <2>3, <3>1
    <3>4. Len(h) + 1 \in 1 .. Len(u)
      BY <2>3, <3>1
    <3> HIDE DEF u, j
    <3>5. \A r \in 1 .. Len(u) : Pending(ss[u[r]])
      BY <2>3, <2>5, <3>1, <3>2
    <3>6. ASSUME MaxBatch >= N, NEW i \in 1 .. j, Pending(ss[i]) PROVE \E r \in 1 .. Len(u) : u[r] = i
      <4>1. CASE i = j
        BY <3>1, <3>4, <4>1
      <4>2. CASE i \in 1 .. n
        <5>1. PICK r \in 1 .. Len(h) : h[r] = i
          BY <2>3, <3>6, <4>2
        <5> QED
          BY <3>1, <3>3, <5>1
      <4> QED
        BY <2>4, <4>1, <4>2
    <3>7. Len(u) <= j
      BY <2>1, <2>3, <3>1 DEF j
    <3>8. P(u, j)
      BY <3>1, <3>5, <3>6, <3>7
    <3> QED
      BY <2>1, <2>5, <3>8 DEF j
  <2>6. CASE ~(Pending(ss[j]) /\ Len(h) < MaxBatch) /\ g[j] = h
    <3>1. ASSUME MaxBatch >= N PROVE ~Pending(ss[j])
      BY <1>1, <2>1, <2>3, <2>6, <3>1
    <3>2. Len(h) <= j
      BY <2>1, <2>3
    <3> HIDE DEF j
    <3>3. ASSUME MaxBatch >= N, NEW i \in 1 .. j, Pending(ss[i]) PROVE \E r \in 1 .. Len(h) : h[r] = i
      <4>1. i \in 1 .. n
        BY <2>4, <3>1, <3>3
      <4> QED
        BY <2>3, <3>3, <4>1
    <3>4. P(h, j)
      BY <2>3, <3>2, <3>3
    <3> QED
      BY <2>1, <2>6, <3>4 DEF j
  <2> QED
    BY <2>2, <2>5, <2>6
<1> HIDE DEF T
<1>6. \A n \in 0 .. N : n \in T
  BY <1>1, <1>4, <1>5, Induct
<1>7. P(g[N], N)
  <2>1. N \in T
    BY <1>1, <1>6
  <2> QED
    BY <2>1 DEF T
<1> QED
  BY <1>1, <1>3, <1>7 DEF RowsOf, N

(* The decode batch names sequences of the arena. *)
LEMMA DecodeIsBatch == Batch(DecodeBatch) /\ RowsOf(BatchRows, slots)
<1>1. RowsOf(BatchRows, slots)
  BY RowsFold, RowsPending
<1> DEFINE R == BatchRows
<1>2. R \in Seq(Slots)
  BY <1>1 DEF RowsOf
<1>3. DOMAIN R = 1 .. Len(R) /\ Len(R) \in Nat
  BY <1>2, LenProperties
<1>4. DecodeBatch = [r \in DOMAIN R |-> [seq |-> R[r], pos |-> slots[R[r]].run.pos, vals |-> slots[R[r]].run.pend]]
  BY DEF DecodeBatch
<1> HIDE DEF R
<1>5. Len(DecodeBatch) = Len(R)
  BY <1>3, <1>4
<1>6. \A r \in 1 .. Len(R) : DecodeBatch[r].seq = R[r] /\ R[r] \in SeqIds
  BY <1>2, <1>3, <1>4, ElementOfSeq DEF Slots
<1> QED
  BY <1>1, <1>3, <1>5, <1>6 DEF Batch

-----------------------------------------------------------------------------
(* The inductive invariant. *)

(* A prefill in progress has an idle slot of its own with room for it. *)
PreOk(pr, ss, td) ==
    \/ pr = NoPrefill
    \/ /\ pr = [slot |-> pr.slot, job |-> pr.job, from |-> pr.from, tick |-> pr.tick]
       /\ pr.slot \in Slots /\ pr.job \in Jobs /\ ss[pr.slot].run = Idle
       /\ Len(pr.job.prompt) <= ss[pr.slot].cap
       /\ \A n \in 1 .. Len(td) : td[n].slot # pr.slot

EngineInv == Sound(kv, slots) /\ Waiting(todo, slots) /\ PreOk(pre, slots, todo)

Told(ss) == \A i \in Slots : Spelled(ss[i])

(* A step keeps the invariant and, where every slot fits a batch, loses no  *)
(* committed token.                                                         *)
Kept == EngineInv' /\ (MaxBatch >= Cardinality(Slots) /\ Told(slots) => Told(slots'))

LEMMA WaitingKept ==
  ASSUME NEW td, NEW ss, NEW tt, Waiting(td, ss), \A j \in Slots : ss[j].run = Idle => tt[j].run = Idle
  PROVE  Waiting(td, tt)
<1>1. \A n \in 1 .. Len(td) : td[n] \in Placement /\ td[n].slot \in Slots
  <2>1. \A n \in 1 .. Len(td) : td[n] \in Placement
    BY ElementOfSeq DEF Waiting
  <2> QED
    BY <2>1 DEF Placement
<1> QED
  BY <1>1 DEF Waiting

LEMMA NoneWaiting == ASSUME NEW ss PROVE Waiting(<<>>, ss)
<1>1. <<>> \in Seq(Placement) /\ Len(<<>>) = 0
  BY EmptySeq
<1> QED
  BY <1>1 DEF Waiting

LEMMA TailWaits ==
  ASSUME NEW td, NEW ss, Waiting(td, ss), td # <<>>
  PROVE  /\ Head(td) \in Placement /\ ss[Head(td).slot].run = Idle
         /\ Waiting(Tail(td), ss)
         /\ \A n \in 1 .. Len(Tail(td)) : Tail(td)[n].slot # Head(td).slot
<1> DEFINE t == Tail(td)
<1>1. td \in Seq(Placement) /\ Len(td) \in Nat /\ Len(td) # 0
  BY EmptySeq DEF Waiting
<1>2. /\ Head(td) \in Placement /\ Head(td) = td[1] /\ t \in Seq(Placement)
      /\ Len(t) = Len(td) - 1 /\ \A n \in 1 .. Len(t) : t[n] = td[n + 1]
  BY <1>1
<1>3. 1 \in 1 .. Len(td) /\ \A n \in 1 .. Len(t) : n + 1 \in 1 .. Len(td) /\ n + 1 # 1
  BY <1>1, <1>2
<1>4. \A m, n \in 1 .. Len(t) : m # n => m + 1 # n + 1
  BY <1>1, <1>2
<1> HIDE DEF t
<1>5. Waiting(t, ss)
  BY <1>2, <1>3, <1>4, SMTT(60) DEF Waiting
<1> QED
  BY <1>2, <1>3, <1>5 DEF Waiting, t

LEMMA ToldKept ==
  ASSUME NEW ss, NEW tt, OthersKeep(ss, tt), Told(ss)
  PROVE  Told(tt)
BY DEF OthersKeep, Told, Spelled

-----------------------------------------------------------------------------
(* The actions. *)

LEMMA InitEngine == Init => EngineInv /\ Told(slots)
<1> SUFFICES ASSUME Init PROVE EngineInv /\ Told(slots)
  OBVIOUS
<1> DEFINE cap == NCtx \div Cardinality(Slots)
           T == [i \in Slots |-> SeqSlot((i - 1) * cap, cap)]
           O == [c \in Cells |-> Free]
           D == [c \in Cells |-> NoRow]
<1>1. cap \in Nat
  <2>1. NCtx \in Nat /\ Cardinality(Slots) \in 1 .. NCtx
    BY NCtxAssumption, EngineAssumption DEF Slots
  <2> HIDE DEF Slots
  <2> QED
    BY <2>1
<1>2. /\ kv = [EmptyStore EXCEPT !.seqs = T]
      /\ slots = [i \in Slots |-> [start |-> (i - 1) * cap, cap |-> cap, cached |-> <<>>, run |-> Idle]]
      /\ todo = <<>> /\ pre = NoPrefill
  BY DEF Init
<1> HIDE DEF cap
<1>3. kv = StoreOf(T, O, D)
  <2> DEFINE E == [s \in {} |-> SeqSlot(0, 0)]
  <2>1. EmptyStore = [seqs |-> E, owner |-> O, data |-> D]
    BY DEF EmptyStore
  <2> HIDE DEF E, O, D, T
  <2>2. [EmptyStore EXCEPT !.seqs = T] = [seqs |-> T, owner |-> O, data |-> D]
    BY <2>1
  <2> QED
    BY <1>2, <2>2 DEF StoreOf
<1>4. ASSUME NEW i \in Slots PROVE HasSlot(T[i]) /\ T[i].cap = cap
  <2> DEFINE a == (i - 1) * cap
  <2>1. T[i] = SlotOf(a, cap, 0, 0, 0)
    BY DEF SeqSlot, SlotOf
  <2> HIDE DEF a, T
  <2> QED
    BY <1>1, <2>1, SlotForm DEF HasSlot
<1>5. T = [i \in Slots |-> T[i]] /\ Slots \in SUBSET SeqIds
  BY DEF Slots
<1> HIDE DEF T, O, D
<1>6. Table(kv) /\ Live(kv) = Slots /\ kv.seqs = T
  BY <1>3, <1>4, <1>5, TableOf DEF Slots
<1>7. ASSUME NEW i \in Slots
      PROVE  Shaped(slots[i]) /\ HasRoom(slots[i]) /\ Backs(kv, i, slots[i]) /\ slots[i].run = Idle
  <2> DEFINE a == (i - 1) * cap
  <2>1. slots[i] = SlotRec(a, cap, <<>>, Idle)
    BY <1>2 DEF SlotRec
  <2> HIDE DEF a
  <2>2. Idle \in RunRec \cup {Idle}
    OBVIOUS
  <2>3. Shaped(slots[i]) /\ slots[i].cap = cap /\ slots[i].run = Idle
    BY <1>1, <2>1, <2>2, ShapedOf
  <2>4. kv.seqs[i].cap = cap
    BY <1>4, <1>6
  <2> QED
    BY <1>1, <1>6, <2>3, <2>4 DEF HasRoom, Backs
<1>8. slots = [i \in Slots |-> slots[i]]
  BY <1>2
<1>9. Sound(kv, slots)
  BY <1>6, <1>7, <1>8 DEF Sound
<1>10. Told(slots)
  BY <1>7 DEF Told, Spelled
<1> QED
  BY <1>2, <1>9, <1>10, NoneWaiting DEF EngineInv, PreOk

(* The slots a group is admitted to, after its forward. *)
LEMMA GroupInstalled ==
  ASSUME NEW ss, NEW placed, Waiting(placed, ss), NEW prep, prep.ok,
         PreparedTo(prep, placed, Len(placed), ss),
         NEW m, KeepsCaps(prep.kv, m), \A n \in 1 .. Len(placed) : placed[n].slot \in Live(prep.kv),
         NEW tt, tt = InstallLoop!Fold(0, prep.slots, placed)
  PROVE  Sound(m, tt) /\ (Told(ss) => Told(tt))
<1> DEFINE uu == prep.slots
           N == Len(placed)
<1>1. Sound(prep.kv, uu) /\ uu = [i \in Slots |-> uu[i]] /\ OthersKeep(ss, uu)
  BY DEF PreparedTo, Sound
<1>2. Sound(m, uu)
  BY <1>1, SoundKept
<1>3. \A n \in 1 .. N : /\ placed[n].slot \in Slots /\ placed[n].job \in Jobs
                        /\ Len(placed[n].job.prompt) <= uu[placed[n].slot].cap
  <2>1. \A n \in 1 .. N : placed[n] \in Placement
    BY ElementOfSeq DEF Waiting
  <2> QED
    BY <2>1 DEF PreparedTo, Placement
<1> HIDE DEF uu
<1>4. /\ tt = [i \in Slots |-> tt[i]]
      /\ \A n \in 1 .. N : Hosts(uu, tt, placed[n])
      /\ \A i \in Slots : (\A n \in 1 .. N : placed[n].slot # i) => tt[i] = uu[i]
  <2>1. tt = InstallLoop!Fold(0, uu, placed)
    BY DEF uu
  <2> QED
    BY <1>1, <2>1, InstallHosts
<1> HIDE DEF N
<1>5. ASSUME NEW i \in Slots
      PROVE  /\ Shaped(tt[i]) /\ HasRoom(tt[i]) /\ Backs(m, i, tt[i])
             /\ Told(ss) => Spelled(tt[i])
  <2>1. Shaped(uu[i]) /\ HasRoom(uu[i]) /\ Backs(m, i, uu[i])
    BY <1>2 DEF Sound
  <2>2. CASE \A n \in 1 .. N : placed[n].slot # i
    <3>1. tt[i] = uu[i]
      BY <1>4, <2>2
    <3>2. Told(ss) => Spelled(uu[i])
      BY <1>1, ToldKept DEF Told
    <3> QED
      BY <2>1, <3>1, <3>2
  <2>3. ASSUME NEW n \in 1 .. N, placed[n].slot = i
        PROVE  /\ Shaped(tt[i]) /\ HasRoom(tt[i]) /\ Backs(m, i, tt[i])
               /\ Spelled(tt[i])
    <3> DEFINE job == placed[n].job
    <3>1. tt[i] = Hosting(uu[i], job.prompt, Run(job)) /\ job \in Jobs /\ Len(job.prompt) <= uu[i].cap
      BY <1>3, <1>4, <2>3 DEF Hosts
    <3> HIDE DEF job
    <3>2. Shaped(tt[i]) /\ HasRoom(tt[i]) /\ tt[i].cap = uu[i].cap /\ Spelled(tt[i])
      BY <2>1, <3>1, HostedOk
    <3> QED
      BY <2>1, <3>2 DEF Backs
  <2> QED
    BY <2>2, <2>3
<1> QED
  BY <1>2, <1>4, <1>5 DEF Sound, Told

(* The batch of a prepared group. *)
LEMMA PreparedBatch ==
  ASSUME NEW prep, prep.ok, NEW placed, NEW ss, Waiting(placed, ss),
         PreparedTo(prep, placed, Len(placed), ss)
  PROVE  Batch(prep.batch) /\ Len(prep.batch) = Len(placed)
<1>1. \A n \in 1 .. Len(placed) : placed[n] \in Placement
  BY ElementOfSeq DEF Waiting
<1>2. Len(placed) \in Nat
  BY DEF Waiting
<1> QED
  BY <1>1, <1>2 DEF PreparedTo, Batch, Placement, Slots

(* The jobs of an admission are placed on idle slots, each on its own. *)
LEMMA PlacedWaits ==
  ASSUME NEW js \in Arrivals, MayAdmit(js)
  PROVE  Waiting(Place(js), slots)
<1> DEFINE placed == Place(js)
<1>1. Len(js) \in Nat /\ \A n \in 1 .. Len(js) : js[n] \in Jobs
  <2>1. PICK n \in 1 .. MaxArrivals : js \in [1 .. n -> Jobs]
    BY DEF Arrivals
  <2>2. n \in Nat
    BY EngineAssumption
  <2>3. js \in Seq(Jobs)
    BY <2>1, <2>2
  <2> QED
    BY <2>3, ElementOfSeq
<1>2. Len(js) <= Cardinality(IdleSlots)
  BY DEF MayAdmit
<1> DEFINE I == {i \in Slots : ~(slots[i].run # Idle)}
           lim == Cardinality(I)
<1>3. IdleSlots = I
  BY DEF IdleSlots, Running
<1>4. IsFiniteSet(Slots) /\ I \in SUBSET Slots
  BY SeqIdsAssumption DEF Slots
<1>5. IsFiniteSet(I)
  <2> HIDE DEF I
  <2> QED
    BY <1>4, FS_Subset
<1>6. lim \in Int
  <2> HIDE DEF I
  <2> QED
    BY <1>5, FS_CardinalityType
<1>7. placed = PlaceLoop!Fold(slots, <<>>, js)
  BY PlaceFold
<1> HIDE DEF placed
<1>8. Waiting(placed, slots)
  BY <1>1, <1>2, <1>3, <1>6, <1>7, PlaceWaits
<1> QED
  BY <1>8 DEF placed

LEMMA AdmitKeeps == ASSUME EngineInv, Admit PROVE Kept
<1>1. PICK js \in Arrivals : /\ MayAdmit(js)
                             /\ \E placed \in {Place(js)} :
                                   AdmitEach(placed) \/ AdmitGroup(placed) \/ AdmitGroupFails(placed)
  BY DEF Admit
<1> DEFINE placed == Place(js)
<1>2. AdmitEach(placed) \/ AdmitGroup(placed) \/ AdmitGroupFails(placed)
  BY <1>1
<1>4. pre = NoPrefill /\ todo = <<>>
  BY <1>1 DEF MayAdmit
<1>5. Waiting(placed, slots)
  BY <1>1, PlacedWaits
<1> HIDE DEF placed
<1>6. Sound(kv, slots)
  BY DEF EngineInv
<1>7. CASE AdmitEach(placed)
  BY <1>4, <1>5, <1>6, <1>7 DEF AdmitEach, Kept, EngineInv, PreOk
<1> DEFINE prep == Prepared(placed)
           filled == FillBatchInputs(prep.kv, prep.batch)
<1>8. PreparedTo(prep, placed, Len(placed), slots)
  <2>1. prep = Through(Prepare, [ok |-> TRUE, kv |-> kv, slots |-> slots, batch |-> <<>>], placed)
    BY DEF Prepared
  <2> HIDE DEF prep
  <2> QED
    BY <1>5, <1>6, <2>1, PreparedOk
<1>9. Sound(prep.kv, prep.slots) /\ OthersKeep(slots, prep.slots) /\ Table(prep.kv)
  BY <1>8 DEF PreparedTo, Sound
<1>10. CASE AdmitGroup(placed)
  <2>1. /\ Grouped(placed) /\ prep.ok /\ filled.ok
        /\ kv' = Stored(prep.batch, filled, DOMAIN prep.batch)
        /\ todo' = todo /\ pre' = pre
    BY <1>10 DEF AdmitGroup
  <2>2. slots' = InstallLoop!Fold(0, prep.slots, placed)
    <3>1. slots' = Through(LAMBDA ss, p : Installed(ss, p.slot, p.job), prep.slots, placed)
      BY <1>10 DEF AdmitGroup
    <3> QED
      BY <3>1, InstallFold
  <2> HIDE DEF prep
  <2>3. Batch(prep.batch) /\ Len(prep.batch) = Len(placed)
    BY <1>5, <1>8, <2>1, PreparedBatch
  <2>4. KeepsCaps(prep.kv, kv')
    BY <1>9, <2>1, <2>3, StoredCaps
  <2>5. Len(prep.batch) # 1
    <3>1. Len(placed) > 1 /\ Len(placed) \in Nat
      BY <1>5, <2>1 DEF Grouped, Waiting
    <3> DEFINE a == Len(prep.batch)
               b == Len(placed)
    <3>2. a = b /\ b > 1 /\ b \in Nat
      BY <2>3, <3>1
    <3> HIDE DEF a, b
    <3>3. a # 1
      BY <3>2
    <3> QED
      BY <3>3 DEF a
  <2>6. \A n \in 1 .. Len(prep.batch) : prep.batch[n].seq \in Live(prep.kv)
    BY <1>9, <2>1, <2>3, <2>5, FillCaps
  <2>7. \A n \in 1 .. Len(placed) : placed[n].slot \in Live(prep.kv)
    BY <1>8, <2>1, <2>3, <2>6 DEF PreparedTo
  <2>8. Sound(kv', slots') /\ (Told(slots) => Told(slots'))
    BY <1>5, <1>8, <2>1, <2>2, <2>4, <2>7, GroupInstalled
  <2> QED
    BY <1>4, <2>1, <2>8, NoneWaiting DEF Kept, EngineInv, PreOk
<1>11. CASE AdmitGroupFails(placed)
  <2>1. /\ slots' = prep.slots /\ todo' = todo /\ pre' = pre
        /\ \/ kv' = prep.kv
           \/ prep.ok /\ \E done : kv' = Stored(prep.batch, filled, done)
    BY <1>11 DEF AdmitGroupFails
  <2> HIDE DEF prep
  <2>2. KeepsCaps(prep.kv, kv')
    <3>1. CASE kv' = prep.kv
      BY <1>9, <3>1 DEF KeepsCaps
    <3>2. CASE prep.ok /\ \E done : kv' = Stored(prep.batch, filled, done)
      <4>1. Batch(prep.batch)
        BY <1>5, <1>8, <3>2, PreparedBatch
      <4> QED
        BY <1>9, <3>2, <4>1, StoredCaps
    <3> QED
      BY <2>1, <3>1, <3>2
  <2>3. Sound(kv', slots')
    BY <1>9, <2>1, <2>2, SoundKept
  <2>4. Told(slots) => Told(slots')
    BY <1>9, <2>1, ToldKept
  <2> QED
    BY <1>4, <2>1, <2>3, <2>4, NoneWaiting DEF Kept, EngineInv, PreOk
<1> QED
  BY <1>2, <1>7, <1>10, <1>11

LEMMA SubmitOnKeeps == ASSUME EngineInv, SubmitOn PROVE Kept
<1> DEFINE p == Head(todo)
           nt == Len(p.job.prompt)
           was == [kv |-> kv, slots |-> slots]
           wanted == WantedCells(nt, p.job.max, slots[p.slot].cap)
           sized == EnsureSlotCapacity(was, p.slot, wanted)
           st == StartFrom(sized, p.slot, p.job.prompt)
<1>1. /\ pre = NoPrefill /\ todo # <<>> /\ todo' = Tail(todo)
      /\ \/ kv' = sized.kv /\ slots' = sized.slots /\ pre' = pre
         \/ /\ nt <= sized.slots[p.slot].cap
            /\ kv' = st.kv /\ slots' = st.slots
            /\ pre' = [slot |-> p.slot, job |-> p.job, from |-> st.from, tick |-> FALSE]
  BY DEF SubmitOn
<1>2. Sound(kv, slots) /\ Waiting(todo, slots)
  BY DEF EngineInv
<1>3. /\ p \in Placement /\ slots[p.slot].run = Idle /\ Waiting(Tail(todo), slots)
      /\ \A n \in 1 .. Len(Tail(todo)) : Tail(todo)[n].slot # p.slot
  BY <1>1, <1>2, TailWaits
<1> HIDE DEF p
<1>4. p.slot \in Slots /\ p.job \in Jobs /\ nt \in Nat /\ p.job.max \in MaxTokens
  BY <1>3, JobsOk DEF Placement
<1>5. wanted \in Nat
  <2>1. slots[p.slot].cap \in Nat
    BY <1>2, <1>4 DEF Sound, Shaped
  <2> HIDE DEF nt
  <2> QED
    BY <1>4, <2>1, WantedIsNat
<1>6. was.kv = kv /\ was.slots = slots
  OBVIOUS
<1> HIDE DEF was, wanted
<1>7. Around(kv, slots, sized.kv, sized.slots, p.slot)
  <2>1. Sound(was.kv, was.slots) /\ was.slots[p.slot].run = Idle
    BY <1>2, <1>3, <1>6
  <2>2. Around(was.kv, was.slots, sized.kv, sized.slots, p.slot)
    BY <1>4, <1>5, <2>1, EnsureAround
  <2> QED
    BY <1>6, <2>2
<1> HIDE DEF sized
<1>8. Sound(sized.kv, sized.slots) /\ sized.slots[p.slot].run = Idle
  BY <1>3, <1>4, <1>7 DEF Around
<1>9. /\ Around(sized.kv, sized.slots, st.kv, st.slots, p.slot)
      /\ st.slots[p.slot].cap = sized.slots[p.slot].cap
  <2> DEFINE x == p.job.prompt
  <2> HIDE DEF x
  <2> QED
    BY <1>4, <1>8, StartAround
<1> HIDE DEF st
<1>10. Around(kv, slots, st.kv, st.slots, p.slot)
  BY <1>7, <1>9, AroundChain
<1>11. ASSUME Around(kv, slots, kv', slots', p.slot)
       PROVE  /\ Sound(kv', slots') /\ Waiting(todo', slots') /\ slots'[p.slot].run = Idle
              /\ Told(slots) => Told(slots')
  <2>1. OthersKeep(slots, slots')
    BY <1>3, <1>4, <1>11, AroundUntouched
  <2>2. Waiting(todo', slots')
    <3>1. \A j \in Slots : slots[j].run = Idle => slots'[j].run = Idle
      BY <2>1 DEF OthersKeep
    <3>2. Waiting(todo', slots)
      BY <1>1, <1>3
    <3> QED
      BY <3>1, <3>2, WaitingKept
  <2>3. Told(slots) => Told(slots')
    BY <2>1, ToldKept
  <2> QED
    BY <1>3, <1>4, <1>11, <2>1, <2>2, <2>3 DEF Around, OthersKeep
<1>12. CASE kv' = sized.kv /\ slots' = sized.slots /\ pre' = pre
  <2>1. Around(kv, slots, kv', slots', p.slot)
    BY <1>7, <1>12
  <2> QED
    BY <1>1, <1>11, <1>12, <2>1 DEF Kept, EngineInv, PreOk
<1>13. CASE /\ nt <= sized.slots[p.slot].cap
            /\ kv' = st.kv /\ slots' = st.slots
            /\ pre' = [slot |-> p.slot, job |-> p.job, from |-> st.from, tick |-> FALSE]
  <2>1. Around(kv, slots, kv', slots', p.slot)
    BY <1>10, <1>13
  <2>2. /\ pre' = [slot |-> pre'.slot, job |-> pre'.job, from |-> pre'.from, tick |-> pre'.tick]
        /\ pre'.slot = p.slot /\ pre'.job = p.job
    BY <1>13
  <2>3. nt <= slots'[p.slot].cap
    BY <1>9, <1>13
  <2>4. PreOk(pre', slots', todo')
    BY <1>1, <1>3, <1>4, <1>11, <2>1, <2>2, <2>3 DEF PreOk
  <2> QED
    BY <1>11, <2>1, <2>4 DEF Kept, EngineInv
<1> QED
  BY <1>1, <1>12, <1>13

(* The chunk is one group, of the prefill's slot. *)
LEMMA ChunkIsBatch == ASSUME pre.slot \in Slots PROVE Batch(Chunk)
<1> DEFINE e == [seq |-> pre.slot, pos |-> pre.from, vals |-> SubSeq(pre.job.prompt, pre.from + 1, ChunkEnd)]
<1>1. Chunk = <<e>> /\ e.seq \in SeqIds
  BY DEF Chunk, Slots
<1> HIDE DEF e
<1>2. Len(<<e>>) = 1 /\ <<e>>[1] = e
  OBVIOUS
<1> QED
  BY <1>1, <1>2 DEF Batch

LEMMA PrefillChunkKeeps == ASSUME EngineInv, PrefillChunk PROVE Kept
<1> DEFINE idx == pre.slot
           job == pre.job
           filled == FillBatchInputs(kv, Chunk)
           sl == Hosting(slots[idx], job.prompt, Run(job))
<1>1. /\ pre # NoPrefill /\ kv' = Stored(Chunk, filled, {1}) /\ todo' = todo
      /\ \/ slots' = Installed(slots, idx, job) /\ pre' = NoPrefill
         \/ /\ pre' = [pre EXCEPT !.from = ChunkEnd, !.tick = HasPendingDecode]
            /\ slots' = slots
  BY DEF PrefillChunk
<1>2. /\ pre = [slot |-> pre.slot, job |-> pre.job, from |-> pre.from, tick |-> pre.tick]
      /\ idx \in Slots /\ job \in Jobs /\ slots[idx].run = Idle
      /\ Len(job.prompt) <= slots[idx].cap
      /\ \A n \in 1 .. Len(todo) : todo[n].slot # idx
      /\ Sound(kv, slots) /\ Waiting(todo, slots) /\ Table(kv)
  BY <1>1 DEF EngineInv, PreOk, Sound
<1>3. KeepsCaps(kv, kv')
  <2>1. Batch(Chunk)
    BY <1>2, ChunkIsBatch
  <2> QED
    BY <1>1, <1>2, <2>1, StoredCaps
<1>4. Sound(kv', slots)
  BY <1>2, <1>3, SoundKept
<1>5. CASE slots' = slots /\ pre' = [pre EXCEPT !.from = ChunkEnd, !.tick = HasPendingDecode]
  <2> DEFINE a == ChunkEnd
             b == HasPendingDecode
  <2>1. pre' = [pre EXCEPT !.from = a, !.tick = b]
    BY <1>5
  <2> HIDE DEF a, b, idx, job
  <2>2. /\ pre' = [slot |-> pre'.slot, job |-> pre'.job, from |-> pre'.from, tick |-> pre'.tick]
        /\ pre'.slot = idx /\ pre'.job = job
    BY <1>2, <2>1 DEF idx, job
  <2>3. PreOk(pre', slots', todo')
    BY <1>1, <1>2, <1>5, <2>2 DEF PreOk
  <2> QED
    BY <1>1, <1>2, <1>4, <1>5, <2>3 DEF Kept, EngineInv
<1>6. CASE slots' = Installed(slots, idx, job) /\ pre' = NoPrefill
  <2> DEFINE ss == slots
             tt == slots'
  <2>1. ss = [i \in Slots |-> ss[i]] /\ Shaped(ss[idx]) /\ idx \in Slots
    BY <1>2 DEF Sound
  <2>2. tt = [ss EXCEPT ![idx] = sl]
    BY <1>6, <2>1 DEF Installed, Hosting
  <2> HIDE DEF idx, job
  <2>3. Shaped(sl) /\ HasRoom(sl) /\ sl.cap = slots[idx].cap /\ Spelled(sl)
    BY <1>2, <2>1, HostedOk
  <2> HIDE DEF sl, ss, tt
  <2>4. tt = [i \in Slots |-> tt[i]] /\ tt[idx] = sl /\ \A i \in Slots \ {idx} : tt[i] = ss[i]
    BY <2>1, <2>2, OneSlot
  <2>5. Sound(kv', tt)
    <3>1. ASSUME NEW i \in Slots PROVE Shaped(tt[i]) /\ HasRoom(tt[i]) /\ Backs(kv', i, tt[i])
      BY <1>4, <2>3, <2>4 DEF Sound, Backs, ss
    <3> QED
      BY <1>4, <2>4, <3>1 DEF Sound
  <2>6. Waiting(todo, tt)
    <3>1. \A n \in 1 .. Len(todo) : todo[n] \in Placement
      BY <1>2, ElementOfSeq DEF Waiting
    <3>2. \A n \in 1 .. Len(todo) : tt[todo[n].slot] = ss[todo[n].slot]
      BY <1>2, <2>4, <3>1 DEF Placement
    <3> QED
      BY <1>2, <3>2 DEF Waiting, ss
  <2>7. Told(ss) => Told(tt)
    BY <2>3, <2>4 DEF Told
  <2> QED
    BY <1>1, <1>6, <2>5, <2>6, <2>7 DEF Kept, EngineInv, PreOk, ss, tt
<1> QED
  BY <1>1, <1>5, <1>6

LEMMA PrefillFailsKeeps == ASSUME EngineInv, PrefillFails PROVE Kept
<1> DEFINE filled == FillBatchInputs(kv, Chunk)
<1>1. PICK done : kv' = Stored(Chunk, filled, done)
  BY DEF PrefillFails
<1>2. pre # NoPrefill /\ pre' = NoPrefill /\ slots' = slots /\ todo' = todo
  BY DEF PrefillFails
<1>3. pre.slot \in Slots /\ Sound(kv, slots) /\ Waiting(todo, slots) /\ Table(kv)
  BY <1>2 DEF EngineInv, PreOk, Sound
<1>4. KeepsCaps(kv, kv')
  BY <1>1, <1>3, ChunkIsBatch, StoredCaps
<1>5. Sound(kv', slots)
  BY <1>3, <1>4, SoundKept
<1> QED
  BY <1>2, <1>3, <1>5 DEF Kept, EngineInv, PreOk

(* A step of the slots in progress leaves the idle ones alone. *)
LEMMA TickFrame ==
  ASSUME EngineInv, AfterTick, Sound(kv', slots'),
         \A j \in Slots : slots[j].run = Idle => slots'[j] = slots[j]
  PROVE  EngineInv'
<1>1. Waiting(todo, slots) /\ PreOk(pre, slots, todo) /\ todo' = todo
  BY DEF EngineInv, AfterTick
<1>2. Waiting(todo', slots')
  <2>1. \A j \in Slots : slots[j].run = Idle => slots'[j].run = Idle
    OBVIOUS
  <2> QED
    BY <1>1, <2>1, WaitingKept
<1>3. CASE pre = NoPrefill
  <2>1. pre' = NoPrefill
    BY <1>3 DEF AfterTick
  <2> QED
    BY <1>2, <2>1 DEF EngineInv, PreOk
<1>4. CASE pre # NoPrefill
  <2>1. pre' = [pre EXCEPT !.tick = FALSE]
    BY <1>4 DEF AfterTick
  <2>2. /\ pre = [slot |-> pre.slot, job |-> pre.job, from |-> pre.from, tick |-> pre.tick]
        /\ pre.slot \in Slots /\ pre.job \in Jobs /\ slots[pre.slot].run = Idle
        /\ Len(pre.job.prompt) <= slots[pre.slot].cap
        /\ \A n \in 1 .. Len(todo) : todo[n].slot # pre.slot
    BY <1>1, <1>4 DEF PreOk
  <2>3. /\ pre' = [slot |-> pre'.slot, job |-> pre'.job, from |-> pre'.from, tick |-> pre'.tick]
        /\ pre'.slot = pre.slot /\ pre'.job = pre.job
    BY <2>1, <2>2
  <2>4. slots'[pre.slot] = slots[pre.slot]
    BY <2>2
  <2>5. PreOk(pre', slots', todo')
    BY <1>1, <2>2, <2>3, <2>4 DEF PreOk
  <2> QED
    BY <1>2, <2>5 DEF EngineInv
<1> QED
  BY <1>3, <1>4

LEMMA TickKeeps == ASSUME EngineInv, Tick PROVE Kept
<1> DEFINE R == BatchRows
           fwd(i) == IF i \in Range(R) THEN Forwarded(slots[i]) ELSE slots[i]
           filled == FillBatchInputs(kv, DecodeBatch)
<1>1. kv' = Stored(DecodeBatch, filled, DOMAIN DecodeBatch) /\ AfterTick /\ slots' \in Stepped
  BY DEF Tick
<1>2. /\ slots' = [i \in Slots |-> slots'[i]]
      /\ \A i \in Slots : slots'[i] \in IF slots[i].run # Idle THEN Advanced(fwd(i)) ELSE {slots[i]}
  BY <1>1 DEF Stepped, Running
<1>3. Sound(kv, slots) /\ Table(kv)
  BY DEF EngineInv, Sound
<1>4. KeepsCaps(kv, kv')
  BY <1>1, <1>3, DecodeIsBatch, StoredCaps
<1>5. Sound(kv', slots)
  BY <1>3, <1>4, SoundKept
<1>6. /\ \A i \in Range(R) : Pending(slots[i])
      /\ MaxBatch >= Cardinality(Slots) => \A i \in Slots : Pending(slots[i]) => i \in Range(R)
  <2>1. RowsOf(R, slots)
    BY DecodeIsBatch
  <2> HIDE DEF R
  <2>2. DOMAIN R = 1 .. Len(R)
    BY <2>1, LenProperties DEF RowsOf
  <2> QED
    BY <2>1, <2>2 DEF RowsOf, Range
<1> HIDE DEF R
<1>7. ASSUME NEW i \in Slots
      PROVE  /\ Shaped(slots'[i]) /\ HasRoom(slots'[i]) /\ slots'[i].cap = slots[i].cap
             /\ slots[i].run = Idle => slots'[i] = slots[i]
             /\ MaxBatch >= Cardinality(Slots) /\ Spelled(slots[i]) => Spelled(slots'[i])
  <2>1. Shaped(slots[i]) /\ HasRoom(slots[i])
    BY <1>3 DEF Sound
  <2>2. CASE slots[i].run = Idle
    BY <1>2, <2>1, <2>2
  <2>3. CASE slots[i].run # Idle
    <3> DEFINE f == fwd(i)
    <3>1. slots'[i] \in Advanced(f)
      BY <1>2, <2>3
    <3>2. /\ Shaped(f) /\ HasRoom(f) /\ f.run # Idle /\ f.cap = slots[i].cap
          /\ Spelled(slots[i]) => Spelled(f)
          /\ MaxBatch >= Cardinality(Slots) => f.run.pend = None
      <4>1. CASE i \in Range(R)
        <5>1. f = Forwarded(slots[i]) /\ slots[i].run.pend # None
          BY <1>6, <4>1 DEF Pending
        <5> HIDE DEF f
        <5> QED
          BY <2>1, <2>3, <5>1, ForwardedOk
      <4>2. CASE i \notin Range(R)
        <5>1. f = slots[i]
          BY <4>2
        <5>2. MaxBatch >= Cardinality(Slots) => slots[i].run.pend = None
          BY <1>6, <2>3, <4>2 DEF Pending
        <5> HIDE DEF f
        <5> QED
          BY <2>1, <2>3, <5>1, <5>2
      <4> QED
        BY <4>1, <4>2
    <3> HIDE DEF f
    <3>3. /\ Shaped(slots'[i]) /\ HasRoom(slots'[i]) /\ slots'[i].cap = f.cap
          /\ Spelled(f) /\ f.run.pend = None => Spelled(slots'[i])
      BY <3>1, <3>2, AdvancedOk
    <3> QED
      BY <2>3, <3>2, <3>3
  <2> QED
    BY <2>2, <2>3
<1>8. Sound(kv', slots')
  <2>1. ASSUME NEW i \in Slots PROVE Backs(kv', i, slots'[i])
    BY <1>5, <1>7 DEF Sound, Backs
  <2> QED
    BY <1>2, <1>5, <1>7, <2>1 DEF Sound
<1>9. EngineInv'
  BY <1>1, <1>7, <1>8, TickFrame
<1> QED
  BY <1>7, <1>9 DEF Kept, Told

LEMMA TickFailsKeeps == ASSUME EngineInv, TickFails PROVE Kept
<1> DEFINE R == BatchRows
           filled == FillBatchInputs(kv, DecodeBatch)
<1>1. PICK done : kv' = Stored(DecodeBatch, filled, done)
  BY DEF TickFails
<1>2. AfterTick /\ slots' = [i \in Slots |-> IF i \in Range(R) THEN Failed(slots[i]) ELSE slots[i]]
  BY DEF TickFails
<1>3. Sound(kv, slots) /\ Table(kv)
  BY DEF EngineInv, Sound
<1>4. KeepsCaps(kv, kv')
  BY <1>1, <1>3, DecodeIsBatch, StoredCaps
<1>5. Sound(kv', slots)
  BY <1>3, <1>4, SoundKept
<1>6. \A i \in Range(R) : Pending(slots[i])
  <2>1. RowsOf(R, slots)
    BY DecodeIsBatch
  <2> HIDE DEF R
  <2>2. DOMAIN R = 1 .. Len(R)
    BY <2>1, LenProperties DEF RowsOf
  <2> QED
    BY <2>1, <2>2 DEF RowsOf, Range
<1> HIDE DEF R
<1>7. ASSUME NEW i \in Slots
      PROVE  /\ Shaped(slots'[i]) /\ HasRoom(slots'[i]) /\ slots'[i].cap = slots[i].cap
             /\ slots[i].run = Idle => slots'[i] = slots[i]
             /\ Spelled(slots[i]) => Spelled(slots'[i])
  <2>1. Shaped(slots[i]) /\ HasRoom(slots[i])
    BY <1>3 DEF Sound
  <2>2. CASE i \notin Range(R)
    BY <1>2, <2>1, <2>2
  <2>3. CASE i \in Range(R)
    <3> DEFINE old == slots[i]
               sl == slots'[i]
    <3>1. sl = Failed(old) /\ old.run # Idle
      BY <1>2, <1>6, <2>3 DEF Pending
    <3>2. old = SlotRec(old.start, old.cap, old.cached, old.run) /\ old.cap \in Nat
      BY <2>1 DEF Shaped
    <3> HIDE DEF old, sl
    <3>3. sl = SlotRec(old.start, old.cap, <<>>, Idle)
      BY <3>1, <3>2, SlotForms
    <3>4. Idle \in RunRec \cup {Idle}
      OBVIOUS
    <3>5. Shaped(sl) /\ sl.cap = old.cap /\ sl.run = Idle
      BY <3>2, <3>3, <3>4, ShapedOf
    <3> QED
      BY <3>1, <3>5 DEF HasRoom, Spelled, old, sl
  <2> QED
    BY <2>2, <2>3
<1>8. Sound(kv', slots')
  <2>1. ASSUME NEW i \in Slots PROVE Backs(kv', i, slots'[i])
    BY <1>5, <1>7 DEF Sound, Backs
  <2>2. slots' = [i \in Slots |-> slots'[i]]
    BY <1>2
  <2> QED
    BY <1>5, <1>7, <2>1, <2>2 DEF Sound
<1>9. EngineInv'
  BY <1>2, <1>7, <1>8, TickFrame
<1> QED
  BY <1>7, <1>9 DEF Kept, Told

LEMMA NextKeeps == EngineInv /\ [Next]_vars => Kept
<1> SUFFICES ASSUME EngineInv, [Next]_vars PROVE Kept
  OBVIOUS
<1>1. CASE UNCHANGED vars
  BY <1>1 DEF vars, Kept, EngineInv
<1>2. CASE Wait
  BY <1>2 DEF Wait, vars, Kept, EngineInv
<1> QED
  BY <1>1, <1>2, AdmitKeeps, SubmitOnKeeps, PrefillChunkKeeps, PrefillFailsKeeps, TickKeeps, TickFailsKeeps
     DEF Next, Submit, Step

-----------------------------------------------------------------------------
(* The theorems. *)

(* What the proofs carry from step to step: the slots and the arena agree   *)
(* on capacities, waiting jobs and the prefill in progress have idle slots  *)
(* of their own, and the prefill's slot has room for its prompt.            *)
THEOREM EngineInvariant == Spec => []EngineInv
<1>1. Init => EngineInv
  BY InitEngine
<1>2. EngineInv /\ [Next]_vars => EngineInv'
  BY NextKeeps DEF Kept
<1> QED
  BY <1>1, <1>2, PTL DEF Spec

(* A run never outgrows its slot: a run of cells at least as large as the   *)
(* slot believes is reserved for it and the row of its next token lies      *)
(* inside, whatever ensure_slot_capacity reclaimed, resized and moved       *)
(* around it, for every number of slots and every batch limit.              *)
THEOREM RunsFit == Spec => []RunFitsReservation
<1>1. EngineInv => RunFitsReservation
  <2> SUFFICES ASSUME EngineInv, NEW i \in Slots, Running(i)
               PROVE  /\ slots[i].run.pos <= slots[i].cap
                      /\ slots[i].run.pend # None => slots[i].run.pos < slots[i].cap
                      /\ i \in Live(kv) /\ slots[i].cap <= kv.seqs[i].cap
    BY DEF RunFitsReservation
  <2>1. /\ Shaped(slots[i]) /\ HasRoom(slots[i]) /\ Backs(kv, i, slots[i]) /\ slots[i].run # Idle
    BY DEF EngineInv, Sound, Running
  <2>2. slots[i].run \in RunRec /\ slots[i].cap \in Nat
    BY <2>1 DEF Shaped
  <2>3. slots[i].run.pos \in Nat \ {0}
    BY <2>2 DEF RunRec
  <2>4. slots[i].cap > 0
    BY <2>1, <2>2, <2>3 DEF HasRoom
  <2> QED
    BY <2>1, <2>4 DEF HasRoom, Backs
<1> QED
  BY <1>1, EngineInvariant, PTL

(* With no more slots than MAX_BATCH, no committed token is lost or written *)
(* twice: the mirror and the token waiting for its forward spell the prompt *)
(* and everything committed, through chunked prefill, failed forwards and   *)
(* admissions in between.  With more slots the code loses tokens.           *)
THEOREM NoTokenLost == MaxBatch >= Cardinality(Slots) => (Spec => []CommittedTokensWritten)
<1> SUFFICES ASSUME MaxBatch >= Cardinality(Slots) PROVE Spec => []CommittedTokensWritten
  OBVIOUS
<1>1. Init => EngineInv /\ Told(slots)
  BY InitEngine
<1>2. EngineInv /\ Told(slots) /\ [Next]_vars => (EngineInv /\ Told(slots))'
  BY NextKeeps DEF Kept, Told
<1>3. EngineInv /\ Told(slots) => CommittedTokensWritten
  BY DEF Told, Spelled, CommittedTokensWritten, Running
<1> QED
  BY <1>1, <1>2, <1>3, PTL DEF Spec
=============================================================================
