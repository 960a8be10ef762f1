---------------------------- MODULE KvCellsProofs ---------------------------
(***************************************************************************)
(* What each call on the KV arena does to a good store, for every sequence *)
(* it is about and for every other one: compaction, then reservation,      *)
(* resize, release, prefix copy and share, copy-on-write, stamping and the *)
(* storing of rows.  The modules that call the arena cite these lemmas by  *)
(* name.                                                                   *)
(*                                                                         *)
(* Compaction loses no row.  compaction_plan closes gaps, order_moves      *)
(* orders the moves, move_runs copies the rows in that order and then      *)
(* renumbers runs, shared prefixes and stamps: MovesKeepStore says that    *)
(* after any planned compaction, with any number of runs of any size,      *)
(* moved in either direction and read in place by any number of others,    *)
(* every sequence reads the rows it had.                                   *)
(***************************************************************************)
EXTENDS KvCells, FiniteSetTheorems, FunctionTheorems, TLAPS

(* The rows a sequence wrote in its own run. *)
Held(slot) == slot.start .. slot.start + PrivateWritten(slot) - 1

(* The run table: a slot of the right shape for every live sequence. *)
IsTable(st) == Live(st) \subseteq SeqIds /\ st.seqs \in [Live(st) -> SeqSlots]

(* A store: run table, stamps and row contents, of the right types. *)
IsStore(st, V) ==
    /\ st = [seqs |-> st.seqs, owner |-> st.owner, data |-> st.data]
    /\ IsTable(st)
    /\ st.owner \in [Cells -> SeqIds \cup {Free}]
    /\ st.data \in [Cells -> V]

(* Runs lie in the arena, one behind the other. *)
Separate(st) ==
    /\ \A s \in Live(st) : st.seqs[s].start + st.seqs[s].cap <= NCtx
    /\ \A s, t \in Live(st) : s # t => st.seqs[s].start # st.seqs[t].start
    /\ \A s, t \in Live(st) : st.seqs[s].start < st.seqs[t].start
          => st.seqs[s].start + st.seqs[s].cap <= st.seqs[t].start

(* The larger of two numbers. *)
LEMMA MaxPair == ASSUME NEW a \in Int, NEW b \in Int PROVE Max({a, b}) = IF a >= b THEN a ELSE b
<1> DEFINE m == IF a >= b THEN a ELSE b
<1>1. m \in {a, b} /\ \A y \in {a, b} : m >= y
  OBVIOUS
<1>2. \A x \in {a, b} : (\A y \in {a, b} : x >= y) => x = m
  OBVIOUS
<1> HIDE DEF m
<1>3. Max({a, b}) = m
  BY <1>1, <1>2 DEF Max
<1> QED
  BY <1>3 DEF m

(* The smaller of two numbers. *)
LEMMA MinPair == ASSUME NEW a \in Int, NEW b \in Int PROVE Min({a, b}) = IF a <= b THEN a ELSE b
<1> DEFINE m == IF a <= b THEN a ELSE b
<1>1. m \in {a, b} /\ \A y \in {a, b} : m <= y
  OBVIOUS
<1>2. \A x \in {a, b} : (\A y \in {a, b} : x <= y) => x = m
  OBVIOUS
<1> HIDE DEF m
<1>3. Min({a, b}) = m
  BY <1>1, <1>2 DEF Min
<1> QED
  BY <1>3 DEF m

(* The numbers in a slot of the run table, and the rows its sequence wrote  *)
(* in its own run (KvCache::private_written).                               *)
LEMMA SlotFacts ==
  ASSUME NEW st, IsTable(st), NEW s \in Live(st)
  PROVE  /\ st.seqs[s] \in SeqSlots
         /\ st.seqs[s].start \in Nat /\ st.seqs[s].start < NCtx
         /\ st.seqs[s].cap \in Nat /\ st.seqs[s].cap >= 1 /\ st.seqs[s].cap <= NCtx
         /\ st.seqs[s].shared.cell \in Nat /\ st.seqs[s].shared.rows \in Nat
         /\ st.seqs[s].written \in Nat
         /\ PrivateWritten(st.seqs[s]) \in Nat
         /\ PrivateWritten(st.seqs[s]) = IF st.seqs[s].written >= st.seqs[s].shared.rows
                                         THEN st.seqs[s].written - st.seqs[s].shared.rows ELSE 0
<1>1. st.seqs[s] \in SeqSlots
  BY DEF IsTable
<1>2. /\ st.seqs[s].start \in Nat /\ st.seqs[s].start < NCtx
      /\ st.seqs[s].cap \in Nat /\ st.seqs[s].cap >= 1 /\ st.seqs[s].cap <= NCtx
      /\ st.seqs[s].shared.cell \in Nat /\ st.seqs[s].shared.rows \in Nat
      /\ st.seqs[s].written \in Nat
  BY <1>1, NCtxAssumption DEF SeqSlots, Cells
<1> DEFINE d == st.seqs[s].written - st.seqs[s].shared.rows
<1>3. Max({0, d}) = IF 0 >= d THEN 0 ELSE d
  BY <1>2, MaxPair
<1> QED
  BY <1>1, <1>2, <1>3 DEF PrivateWritten

-----------------------------------------------------------------------------
(* Counting capacities. *)

(* The cells reserved by some runs can be counted. *)
LEMMA CapFinite ==
  ASSUME NEW st, IsTable(st), NEW S \in SUBSET Live(st)
  PROVE  IsFiniteSet(CapCells(st, S)) /\ Cardinality(CapCells(st, S)) \in Nat
<1>1. IsFiniteSet(SeqIds \X (0 .. NCtx))
  <2> DEFINE I == 0 .. NCtx
  <2>1. IsFiniteSet(I)
    BY NCtxAssumption, FS_Interval
  <2> HIDE DEF I
  <2>2. IsFiniteSet(SeqIds \X I)
    BY <2>1, SeqIdsAssumption, FS_Product
  <2> QED
    BY <2>2 DEF I
<1>2. CapCells(st, S) \subseteq SeqIds \X (0 .. NCtx)
  <2> SUFFICES ASSUME NEW s \in S, NEW x \in {s} \X (0 .. st.seqs[s].cap - 1)
               PROVE  x \in SeqIds \X (0 .. NCtx)
    BY DEF CapCells
  <2>1. s \in SeqIds /\ st.seqs[s].cap \in Nat /\ st.seqs[s].cap <= NCtx
    BY SlotFacts DEF IsTable
  <2> QED
    BY <2>1, NCtxAssumption
<1> QED
  BY <1>1, <1>2, FS_Subset, FS_CardinalityType

(* Fewer runs reserve no more cells. *)
LEMMA CapGrows ==
  ASSUME NEW st, IsTable(st), NEW S \in SUBSET Live(st), NEW T \in SUBSET S
  PROVE  Cardinality(CapCells(st, T)) <= Cardinality(CapCells(st, S))
<1>1. CapCells(st, T) \subseteq CapCells(st, S)
  BY DEF CapCells
<1> QED
  BY <1>1, CapFinite, FS_Subset

(* One more run reserves its capacity more: the running sum of              *)
(* compaction_plan.                                                         *)
LEMMA CapAdds ==
  ASSUME NEW st, IsTable(st), NEW S \in SUBSET Live(st), NEW s \in Live(st), s \notin S
  PROVE  Cardinality(CapCells(st, S \cup {s})) = Cardinality(CapCells(st, S)) + st.seqs[s].cap
<1> DEFINE A == CapCells(st, S)
           B == {s} \X (0 .. st.seqs[s].cap - 1)
<1>1. CapCells(st, S \cup {s}) = A \cup B
  BY DEF CapCells
<1>2. A \cap B = {}
  BY DEF CapCells
<1>3. IsFiniteSet(A) /\ Cardinality(A) \in Nat
  BY CapFinite
<1>4. st.seqs[s].cap \in Nat /\ st.seqs[s].cap >= 1
  BY SlotFacts
<1>5. IsFiniteSet(B) /\ Cardinality(B) = st.seqs[s].cap
  <2>1. IsFiniteSet({s}) /\ Cardinality({s}) = 1
    BY FS_Singleton
  <2> DEFINE I == 0 .. st.seqs[s].cap - 1
  <2>2. IsFiniteSet(I) /\ Cardinality(I) = st.seqs[s].cap
    BY <1>4, FS_Interval
  <2> HIDE DEF I
  <2>3. IsFiniteSet({s} \X I) /\ Cardinality({s} \X I) = Cardinality({s}) * Cardinality(I)
    BY <2>1, <2>2, FS_Product
  <2>4. Cardinality({s} \X I) = st.seqs[s].cap
    BY <1>4, <2>1, <2>2, <2>3
  <2> QED
    BY <2>3, <2>4 DEF I
<1> HIDE DEF A, B
<1>6. Cardinality(A \cup B) = Cardinality(A) + Cardinality(B) - Cardinality(A \cap B)
  BY <1>3, <1>5, FS_Union
<1>7. Cardinality(A \cap B) = 0
  BY <1>2, FS_EmptySet
<1>8. Cardinality(A \cup B) = Cardinality(A) + st.seqs[s].cap
  BY <1>3, <1>4, <1>5, <1>6, <1>7
<1> QED
  BY <1>1, <1>8 DEF A

(* Disjoint runs below a cell number no more than the cells below it. *)
LEMMA CapBelow ==
  ASSUME NEW st, IsTable(st), Separate(st), NEW S \in SUBSET Live(st), NEW n \in Nat,
         \A s \in S : st.seqs[s].start + st.seqs[s].cap <= n
  PROVE  Cardinality(CapCells(st, S)) <= n
<1> DEFINE A == CapCells(st, S)
           cell == [x \in A |-> st.seqs[x[1]].start + x[2]]
<1>1. \A x \in A : /\ x[1] \in S /\ x[2] \in Nat /\ x[2] < st.seqs[x[1]].cap
                   /\ x = <<x[1], x[2]>>
  <2> SUFFICES ASSUME NEW s \in S, NEW x \in {s} \X (0 .. st.seqs[s].cap - 1)
               PROVE  x[1] \in S /\ x[2] \in Nat /\ x[2] < st.seqs[x[1]].cap /\ x = <<x[1], x[2]>>
    BY DEF CapCells
  <2>1. st.seqs[s].cap \in Nat
    BY SlotFacts
  <2> QED
    BY <2>1
<1>2. \A s \in S : s \in Live(st) /\ st.seqs[s].start \in Nat /\ st.seqs[s].cap \in Nat
  BY SlotFacts
<1> HIDE DEF A
<1>3. cell \in [A -> 0 .. n - 1]
  <2> SUFFICES ASSUME NEW x \in A PROVE st.seqs[x[1]].start + x[2] \in 0 .. n - 1
    OBVIOUS
  <2> QED
    BY <1>1, <1>2
<1>4. ASSUME NEW x \in A, NEW y \in A, cell[x] = cell[y] PROVE x = y
  <2>1. st.seqs[x[1]].start + x[2] = st.seqs[y[1]].start + y[2]
    BY <1>4
  <2>2. CASE x[1] = y[1]
    BY <1>1, <1>2, <2>1, <2>2
  <2>3. CASE x[1] # y[1]
    <3> DEFINE a == st.seqs[x[1]]
               b == st.seqs[y[1]]
    <3>1. /\ x[1] \in Live(st) /\ y[1] \in Live(st)
          /\ a.start \in Nat /\ a.cap \in Nat /\ b.start \in Nat /\ b.cap \in Nat
          /\ x[2] \in Nat /\ y[2] \in Nat /\ x[2] < a.cap /\ y[2] < b.cap
      BY <1>1, <1>2
    <3>2. a.start # b.start /\ (a.start < b.start => a.start + a.cap <= b.start)
                            /\ (b.start < a.start => b.start + b.cap <= a.start)
      BY <2>3, <3>1 DEF Separate
    <3> QED
      BY <2>1, <3>1, <3>2
  <2> QED
    BY <2>2, <2>3
<1>5. cell \in Injection(A, 0 .. n - 1)
  BY <1>3, <1>4 DEF Injection, IsInjective
<1>6. IsFiniteSet(0 .. n - 1) /\ Cardinality(0 .. n - 1) = n
  BY FS_Interval, SMTT(60)
<1> QED
  BY <1>5, <1>6, FS_Injection DEF A

(* No two runs start at the same cell. *)
Distinct(st) == \A s, t \in Live(st) : s # t => st.seqs[s].start # st.seqs[t].start

(* Closing every gap keeps the order of the runs and overlaps none of them  *)
(* (compaction_plan's cursor).                                              *)
LEMMA PackedFacts ==
  ASSUME NEW st, IsTable(st), Distinct(st), NEW s \in Live(st)
  PROVE  /\ PackedStart(st, s) \in Nat
         /\ ReservedCells(st) \in Nat
         /\ PackedStart(st, s) + st.seqs[s].cap <= ReservedCells(st)
         /\ \A t \in Live(st) : st.seqs[s].start < st.seqs[t].start
               => PackedStart(st, s) + st.seqs[s].cap <= PackedStart(st, t)
<1> DEFINE before(t) == {r \in Live(st) : Precedes(st, r, t)}
<1>1. \A t \in Live(st) : st.seqs[t].start \in Nat /\ t \in Nat /\ st.seqs[t].cap \in Nat
  BY SlotFacts, SeqIdsAssumption DEF IsTable
<1>2. s \notin before(s)
  BY <1>1 DEF Precedes
<1>3. Cardinality(CapCells(st, before(s) \cup {s})) = PackedStart(st, s) + st.seqs[s].cap
  BY <1>2, CapAdds DEF PackedStart
<1>4. before(s) \cup {s} \in SUBSET Live(st)
  OBVIOUS
<1>5. PackedStart(st, s) \in Nat
  BY <1>4, CapFinite DEF PackedStart
<1>6. ReservedCells(st) \in Nat
  BY CapFinite DEF ReservedCells
<1>7. PackedStart(st, s) + st.seqs[s].cap <= ReservedCells(st)
  BY <1>3, <1>4, CapGrows DEF ReservedCells
<1>8. ASSUME NEW t \in Live(st), st.seqs[s].start < st.seqs[t].start
      PROVE  PackedStart(st, s) + st.seqs[s].cap <= PackedStart(st, t)
  <2>1. before(s) \cup {s} \in SUBSET before(t)
    BY <1>1, <1>8 DEF Precedes
  <2>2. before(t) \in SUBSET Live(st)
    OBVIOUS
  <2>3. Cardinality(CapCells(st, before(s) \cup {s})) <= Cardinality(CapCells(st, before(t)))
    BY <2>1, <2>2, CapGrows
  <2> QED
    BY <1>3, <2>3 DEF PackedStart
<1> QED
  BY <1>5, <1>6, <1>7, <1>8

(* Closing gaps moves runs down only, where runs do not overlap. *)
LEMMA PackedBelow ==
  ASSUME NEW st, IsTable(st), Separate(st), NEW s \in Live(st)
  PROVE  PackedStart(st, s) <= st.seqs[s].start
<1> DEFINE before == {r \in Live(st) : Precedes(st, r, s)}
<1>1. \A r \in before : st.seqs[r].start + st.seqs[r].cap <= st.seqs[s].start
  <2> SUFFICES ASSUME NEW r \in Live(st), Precedes(st, r, s)
               PROVE  st.seqs[r].start + st.seqs[r].cap <= st.seqs[s].start
    OBVIOUS
  <2>1. r # s
    <3>1. st.seqs[s].start \in Nat /\ s \in Nat
      BY SlotFacts, SeqIdsAssumption DEF IsTable
    <3> QED
      BY <3>1 DEF Precedes
  <2>2. st.seqs[r].start < st.seqs[s].start
    BY <2>1 DEF Precedes, Separate
  <2> QED
    BY <2>2 DEF Separate
<1>2. st.seqs[s].start \in Nat
  BY SlotFacts
<1>3. before \in SUBSET Live(st)
  OBVIOUS
<1> HIDE DEF before
<1>4. Cardinality(CapCells(st, before)) <= st.seqs[s].start
  BY <1>1, <1>2, <1>3, CapBelow
<1> QED
  BY <1>4 DEF before, PackedStart

(* A separate table reserves no more cells than there are. *)
LEMMA ReservedBelow ==
  ASSUME NEW st, IsTable(st), Separate(st)
  PROVE  ReservedCells(st) <= NCtx
<1>1. \A s \in Live(st) : st.seqs[s].start + st.seqs[s].cap <= NCtx
  BY DEF Separate
<1>2. NCtx \in Nat
  BY NCtxAssumption
<1> QED
  BY <1>1, <1>2, CapBelow DEF ReservedCells

-----------------------------------------------------------------------------
(* Plans. *)

(* What compaction_plan owes move_runs: every move names a run, where it    *)
(* is, where the plan puts it and how many rows it has written; one move a  *)
(* run; and the planned places keep the order of the runs, apart and inside *)
(* the arena.                                                               *)
Plan(st, moves) ==
    /\ IsFiniteSet(moves)
    /\ \A m \in moves :
          /\ m.seq \in Live(st) /\ m.from = st.seqs[m.seq].start
          /\ m.to = PlannedStart(st, moves, m.seq) /\ m.to # m.from
          /\ m.rows = PrivateWritten(st.seqs[m.seq])
    /\ \A a, b \in moves : a.seq = b.seq => a = b
    /\ \A s \in Live(st) : PlannedStart(st, moves, s) \in Nat
                           /\ PlannedStart(st, moves, s) + st.seqs[s].cap <= NCtx
    /\ \A s, t \in Live(st) : st.seqs[s].start < st.seqs[t].start
          => PlannedStart(st, moves, s) + st.seqs[s].cap <= PlannedStart(st, moves, t)

(* The moves that close the gaps below the runs of R. *)
PackingMoves(st, R) ==
    {[seq |-> s, from |-> st.seqs[s].start, to |-> PackedStart(st, s),
      rows |-> PrivateWritten(st.seqs[s])] :
          s \in {r \in R : st.seqs[r].start # PackedStart(st, r)}}

(* The moves that pack the runs of R: where they leave every run. *)
LEMMA PackingShape ==
  ASSUME NEW st, IsTable(st), Distinct(st), NEW R \in SUBSET Live(st), NEW moves,
         moves = PackingMoves(st, R)
  PROVE  /\ IsFiniteSet(moves)
         /\ \A m \in moves :
               /\ m.seq \in Live(st) /\ m.from = st.seqs[m.seq].start
               /\ m.to = PlannedStart(st, moves, m.seq) /\ m.to # m.from
               /\ m.rows = PrivateWritten(st.seqs[m.seq])
         /\ \A a, b \in moves : a.seq = b.seq => a = b
         /\ \A s \in Live(st) : PlannedStart(st, moves, s) =
               IF s \in R THEN PackedStart(st, s) ELSE st.seqs[s].start
<1> DEFINE mv(s) == [seq |-> s, from |-> st.seqs[s].start, to |-> PackedStart(st, s),
                     rows |-> PrivateWritten(st.seqs[s])]
<1>1. \A m \in moves : /\ m.seq \in R /\ m = mv(m.seq)
                       /\ st.seqs[m.seq].start # PackedStart(st, m.seq)
  BY DEF PackingMoves
<1>2. \A s \in R : st.seqs[s].start # PackedStart(st, s) => mv(s) \in moves
  BY DEF PackingMoves
<1>3. \A a, b \in moves : a.seq = b.seq => a = b
  <2> SUFFICES ASSUME NEW a \in moves, NEW b \in moves, a.seq = b.seq PROVE a = b
    OBVIOUS
  <2>1. a = mv(a.seq) /\ b = mv(b.seq)
    BY <1>1
  <2> QED
    BY <2>1
<1>4. \A s : mv(s).seq = s /\ mv(s).to = PackedStart(st, s) /\ mv(s).from = st.seqs[s].start
             /\ mv(s).rows = PrivateWritten(st.seqs[s])
  OBVIOUS
<1> HIDE DEF mv
<1>5. IsFiniteSet(moves)
  <2> DEFINE key == [m \in moves |-> m.seq]
  <2>1. key \in [moves -> SeqIds]
    BY <1>1 DEF IsTable
  <2>2. key \in Injection(moves, SeqIds)
    BY <1>3, <2>1 DEF Injection, IsInjective
  <2> QED
    BY <2>2, SeqIdsAssumption, FS_Injection
<1>6. ASSUME NEW s \in Live(st)
      PROVE  PlannedStart(st, moves, s) = IF s \in R THEN PackedStart(st, s) ELSE st.seqs[s].start
  <2>1. CASE \E m \in moves : m.seq = s
    <3> DEFINE m == CHOOSE x \in moves : x.seq = s
    <3>1. m \in moves /\ m.seq = s
      BY <2>1
    <3>2. PlannedStart(st, moves, s) = m.to
      BY <2>1 DEF PlannedStart
    <3> HIDE DEF m
    <3> QED
      BY <1>1, <1>4, <3>1, <3>2
  <2>2. CASE ~ \E m \in moves : m.seq = s
    <3>1. PlannedStart(st, moves, s) = st.seqs[s].start
      BY <2>2 DEF PlannedStart
    <3>2. s \in R => st.seqs[s].start = PackedStart(st, s)
      BY <1>2, <1>4, <2>2
    <3> QED
      BY <3>1, <3>2
  <2> QED
    BY <2>1, <2>2
<1>7. ASSUME NEW m \in moves
      PROVE  /\ m.seq \in Live(st) /\ m.from = st.seqs[m.seq].start
             /\ m.to = PlannedStart(st, moves, m.seq) /\ m.to # m.from
             /\ m.rows = PrivateWritten(st.seqs[m.seq])
  <2>1. m.seq \in R /\ m.seq \in Live(st)
    BY <1>1
  <2>2. PlannedStart(st, moves, m.seq) = PackedStart(st, m.seq)
    BY <1>6, <2>1
  <2> QED
    BY <1>1, <1>4, <2>1, <2>2
<1> QED
  BY <1>3, <1>5, <1>6, <1>7

(* Partial compaction of a separate table is a plan. *)
LEMMA ReservePlan ==
  ASSUME NEW st, IsTable(st), Separate(st), NEW need \in Nat
  PROVE  Plan(st, CompactionPlan(st, need))
<1> DEFINE enough == {s \in Live(st) : need > 0 /\ GapAfter(st, s) >= need}
           R == {s \in Live(st) : \A r \in enough : ~Precedes(st, r, s)}
           moves == CompactionPlan(st, need)
           at(s) == PlannedStart(st, moves, s)
<1>1. Distinct(st)
  BY DEF Separate, Distinct
<1>2. moves = PackingMoves(st, R)
  BY DEF CompactionPlan, PackingMoves
<1>3. \A s \in R : \A r \in Live(st) : Precedes(st, r, s) => r \in R
  <2> SUFFICES ASSUME NEW s \in R, NEW r \in Live(st), Precedes(st, r, s), NEW q \in enough,
                      Precedes(st, q, r)
               PROVE  Precedes(st, q, s)
    OBVIOUS
  <2>1. /\ q \in Live(st) /\ q \in Nat /\ r \in Nat /\ s \in Nat
        /\ st.seqs[q].start \in Nat /\ st.seqs[r].start \in Nat /\ st.seqs[s].start \in Nat
    BY SlotFacts, SeqIdsAssumption DEF IsTable
  <2> QED
    BY <2>1 DEF Precedes
<1>4. R \in SUBSET Live(st)
  OBVIOUS
<1> HIDE DEF R, moves
<1>5. /\ IsFiniteSet(moves)
      /\ \A m \in moves :
               /\ m.seq \in Live(st) /\ m.from = st.seqs[m.seq].start
               /\ m.to = at(m.seq) /\ m.to # m.from
               /\ m.rows = PrivateWritten(st.seqs[m.seq])
      /\ \A a, b \in moves : a.seq = b.seq => a = b
      /\ \A s \in Live(st) : at(s) = IF s \in R THEN PackedStart(st, s) ELSE st.seqs[s].start
  BY <1>1, <1>2, <1>4, PackingShape
<1> HIDE DEF at
<1>6. \A s \in Live(st) : /\ st.seqs[s].start \in Nat /\ st.seqs[s].cap \in Nat
                          /\ PackedStart(st, s) \in Nat /\ PackedStart(st, s) <= st.seqs[s].start
  BY <1>1, SlotFacts, PackedFacts, PackedBelow
<1>7. \A s \in Live(st) : at(s) \in Nat /\ at(s) <= st.seqs[s].start
  BY <1>5, <1>6
<1>8. \A s \in Live(st) : at(s) + st.seqs[s].cap <= NCtx
  <2> SUFFICES ASSUME NEW s \in Live(st) PROVE at(s) + st.seqs[s].cap <= NCtx
    OBVIOUS
  <2>1. st.seqs[s].start + st.seqs[s].cap <= NCtx
    BY DEF Separate
  <2> QED
    BY <1>6, <1>7, <2>1, NCtxAssumption
<1>9. ASSUME NEW s \in Live(st), NEW t \in Live(st), st.seqs[s].start < st.seqs[t].start
      PROVE  at(s) + st.seqs[s].cap <= at(t)
  <2>1. Precedes(st, s, t)
    BY <1>9 DEF Precedes
  <2>2. CASE t \in R
    <3>1. s \in R
      BY <1>3, <2>1, <2>2
    <3> QED
      BY <1>1, <1>5, <1>9, <2>2, <3>1, PackedFacts
  <2>3. CASE t \notin R
    <3>1. st.seqs[s].start + st.seqs[s].cap <= st.seqs[t].start
      BY <1>9 DEF Separate
    <3> QED
      BY <1>5, <1>6, <1>7, <2>3, <3>1
  <2> QED
    BY <2>2, <2>3
<1> QED
  BY <1>5, <1>7, <1>8, <1>9 DEF Plan, moves, at

(* Closing every gap of a table that fits the arena is a plan, whatever its *)
(* runs overlap.                                                            *)
LEMMA FullPlan ==
  ASSUME NEW st, IsTable(st), Distinct(st), ReservedCells(st) <= NCtx
  PROVE  /\ Plan(st, CompactionPlan(st, 0))
         /\ \A s \in Live(st) : PlannedStart(st, CompactionPlan(st, 0), s) = PackedStart(st, s)
<1> DEFINE moves == CompactionPlan(st, 0)
           R == Live(st)
           at(s) == PlannedStart(st, moves, s)
<1>1. moves = PackingMoves(st, R)
  BY DEF CompactionPlan, PackingMoves
<1>2. R \in SUBSET Live(st)
  OBVIOUS
<1> HIDE DEF moves
<1>3. /\ IsFiniteSet(moves)
      /\ \A m \in moves :
               /\ m.seq \in Live(st) /\ m.from = st.seqs[m.seq].start
               /\ m.to = at(m.seq) /\ m.to # m.from
               /\ m.rows = PrivateWritten(st.seqs[m.seq])
      /\ \A a, b \in moves : a.seq = b.seq => a = b
      /\ \A s \in Live(st) : at(s) = IF s \in R THEN PackedStart(st, s) ELSE st.seqs[s].start
  BY <1>1, <1>2, PackingShape
<1> HIDE DEF at
<1>4. \A s \in Live(st) : at(s) = PackedStart(st, s)
  BY <1>3
<1>5. \A s \in Live(st) : /\ PackedStart(st, s) \in Nat /\ st.seqs[s].cap \in Nat
                          /\ PackedStart(st, s) + st.seqs[s].cap <= ReservedCells(st)
                          /\ ReservedCells(st) \in Nat
  BY PackedFacts, SlotFacts
<1>6. \A s \in Live(st) : at(s) \in Nat /\ at(s) + st.seqs[s].cap <= NCtx
  BY <1>4, <1>5, NCtxAssumption
<1>7. \A s, t \in Live(st) : st.seqs[s].start < st.seqs[t].start => at(s) + st.seqs[s].cap <= at(t)
  BY <1>4, PackedFacts
<1> QED
  BY <1>3, <1>4, <1>6, <1>7 DEF Plan, moves, at

(* order_moves lists every move once, each after the moves that must come   *)
(* before it.                                                               *)
LEMMA OrderFacts ==
  ASSUME NEW st, IsTable(st), Distinct(st), NEW moves, Plan(st, moves)
  PROVE  /\ Cardinality(moves) \in Nat
         /\ Len(OrderMoves(moves)) = Cardinality(moves)
         /\ \A k \in 1 .. Cardinality(moves) : OrderMoves(moves)[k] \in moves
         /\ \A m \in moves : \E k \in 1 .. Cardinality(moves) : OrderMoves(moves)[k] = m
         /\ \A j, k \in 1 .. Cardinality(moves) : j < k
               => /\ MovesFirst(OrderMoves(moves)[j], OrderMoves(moves)[k])
                  /\ OrderMoves(moves)[j].seq # OrderMoves(moves)[k].seq
<1> DEFINE N == Cardinality(moves)
           before(m) == {x \in moves : MovesFirst(x, m)}
           rank == [m \in moves |-> Cardinality(before(m))]
           ord == OrderMoves(moves)
<1>1. \A m \in moves : /\ m.seq \in Live(st) /\ m.from \in Nat /\ m.to \in Nat
                       /\ m.from = st.seqs[m.seq].start
  BY SlotFacts DEF Plan
<1>2. \A a, b \in moves : a # b => a.from # b.from
  <2> SUFFICES ASSUME NEW a \in moves, NEW b \in moves, a # b PROVE a.from # b.from
    OBVIOUS
  <2>1. a.seq # b.seq
    BY DEF Plan
  <2> QED
    BY <1>1, <2>1 DEF Distinct
<1>3. \A a, b \in moves : a # b => MovesFirst(a, b) \/ MovesFirst(b, a)
  BY <1>1, <1>2 DEF MovesFirst
<1>4. \A a \in moves : ~MovesFirst(a, a)
  BY <1>1 DEF MovesFirst
<1>5. \A a, b, c \in moves : MovesFirst(a, b) /\ MovesFirst(b, c) => MovesFirst(a, c)
  BY <1>1 DEF MovesFirst
<1>6. IsFiniteSet(moves) /\ N \in Nat
  BY FS_CardinalityType DEF Plan
<1>7. \A m \in moves : IsFiniteSet(before(m)) /\ Cardinality(before(m)) \in Nat
  <2> SUFFICES ASSUME NEW m \in moves
               PROVE IsFiniteSet(before(m)) /\ Cardinality(before(m)) \in Nat
    OBVIOUS
  <2>1. before(m) \in SUBSET moves
    OBVIOUS
  <2> QED
    BY <1>6, <2>1, FS_Subset, FS_CardinalityType
<1>8. \A m \in moves : rank[m] \in 0 .. N - 1
  <2> SUFFICES ASSUME NEW m \in moves PROVE Cardinality(before(m)) \in 0 .. N - 1
    OBVIOUS
  <2>1. before(m) \in SUBSET moves /\ before(m) # moves
    BY <1>4
  <2>2. Cardinality(before(m)) <= N /\ Cardinality(before(m)) # N
    BY <1>6, <2>1, FS_Subset
  <2> QED
    BY <1>6, <1>7, <2>2
<1>9. ASSUME NEW a \in moves, NEW b \in moves, MovesFirst(a, b) PROVE rank[a] < rank[b]
  <2>1. before(a) \cup {a} \in SUBSET before(b)
    BY <1>5, <1>9
  <2>2. a \notin before(a)
    BY <1>4
  <2> HIDE DEF before
  <2>3. Cardinality(before(a) \cup {a}) = Cardinality(before(a)) + 1
    BY <1>7, <2>2, FS_AddElement
  <2>4. Cardinality(before(a) \cup {a}) <= Cardinality(before(b))
    BY <1>7, <2>1, FS_Subset
  <2> QED
    BY <1>7, <2>3, <2>4
<1>10. \A k \in 1 .. N : \E m \in moves : rank[m] = k - 1
  <2>1. rank \in [moves -> 0 .. N - 1]
    BY <1>8
  <2>2. \A a, b \in moves : rank[a] = rank[b] => a = b
    <3> SUFFICES ASSUME NEW a \in moves, NEW b \in moves, a # b PROVE rank[a] # rank[b]
      OBVIOUS
    <3>1. rank[a] \in Nat /\ rank[b] \in Nat
      BY <1>8
    <3> HIDE DEF rank
    <3> QED
      BY <1>3, <1>9, <3>1
  <2> HIDE DEF rank
  <2>3. rank \in Injection(moves, 0 .. N - 1)
    BY <2>1, <2>2 DEF Injection, IsInjective
  <2>4. IsFiniteSet(0 .. N - 1) /\ Cardinality(0 .. N - 1) = N
    BY <1>6, FS_Interval, SMTT(60)
  <2>5. rank \in Surjection(moves, 0 .. N - 1)
    BY <2>3, <2>4, FS_Injection
  <2>6. \A i \in 0 .. N - 1 : \E m \in moves : rank[m] = i
    BY <2>5 DEF Surjection
  <2> QED
    BY <1>6, <2>6
<1>11. ord = [k \in 1 .. N |-> CHOOSE m \in moves : Cardinality(before(m)) = k - 1]
  BY DEF OrderMoves
<1> HIDE DEF before, N, ord
<1>12. ASSUME NEW k \in 1 .. N PROVE ord[k] \in moves /\ rank[ord[k]] = k - 1
  <2>1. \E m \in moves : Cardinality(before(m)) = k - 1
    BY <1>10
  <2>2. ord[k] \in moves /\ Cardinality(before(ord[k])) = k - 1
    BY <1>11, <2>1
  <2> QED
    BY <2>2
<1> HIDE DEF rank
<1>13. Len(ord) = N
  BY <1>6, <1>11
<1>14. \A m \in moves : \E k \in 1 .. N : ord[k] = m
  <2> SUFFICES ASSUME NEW m \in moves PROVE \E k \in 1 .. N : ord[k] = m
    OBVIOUS
  <2>1. rank[m] \in 0 .. N - 1
    BY <1>8
  <2> DEFINE k == rank[m] + 1
  <2>2. k \in 1 .. N /\ k - 1 = rank[m]
    BY <1>6, <2>1
  <2> HIDE DEF k
  <2>3. ord[k] \in moves /\ rank[ord[k]] = rank[m] /\ rank[m] \in Nat
    BY <1>12, <2>1, <2>2
  <2>4. ord[k] = m
    <3> SUFFICES ASSUME ord[k] # m PROVE FALSE
      OBVIOUS
    <3>1. MovesFirst(ord[k], m) \/ MovesFirst(m, ord[k])
      BY <1>3, <2>3
    <3> QED
      BY <1>9, <2>3, <3>1
  <2> QED
    BY <2>2, <2>4
<1>15. ASSUME NEW j \in 1 .. N, NEW k \in 1 .. N, j < k
       PROVE  MovesFirst(ord[j], ord[k]) /\ ord[j].seq # ord[k].seq
  <2>1. /\ ord[j] \in moves /\ ord[k] \in moves /\ rank[ord[j]] = j - 1 /\ rank[ord[k]] = k - 1
    BY <1>12
  <2>2. ord[j] # ord[k]
    BY <1>15, <2>1
  <2>3. ~MovesFirst(ord[k], ord[j])
    BY <1>9, <1>15, <2>1
  <2>4. ord[j].seq # ord[k].seq
    BY <2>1, <2>2 DEF Plan
  <2> QED
    BY <1>3, <2>1, <2>2, <2>3, <2>4
<1> QED
  BY <1>6, <1>12, <1>13, <1>14, <1>15 DEF N, ord

(* The loop of move_runs over the row copies. *)
CopyStep(c, d, m) == CopyCells(d, m.to, m.from, m.rows)

(* Its fold. *)
CopyLoop == INSTANCE FoldProofs WITH Step <- CopyStep

(* Induction along a loop of N steps. *)
LEMMA Induct ==
  ASSUME NEW N \in Nat, NEW T, 0 \in T, \A n \in 0 .. N - 1 : n \in T => n + 1 \in T
  PROVE  \A n \in 0 .. N : n \in T
  BY CopyLoop!Induct

(* What order_moves' argument needs of a table: distinct starts, written    *)
(* rows that do not overlap and fit the reservations they move to.          *)
Movable(st) ==
    /\ IsTable(st) /\ Distinct(st)
    /\ \A s \in Live(st) : /\ PrivateWritten(st.seqs[s]) <= st.seqs[s].cap
                           /\ st.seqs[s].start + PrivateWritten(st.seqs[s]) <= NCtx
    /\ \A s, t \in Live(st) : st.seqs[s].start < st.seqs[t].start
          => st.seqs[s].start + PrivateWritten(st.seqs[s]) <= st.seqs[t].start

(* Where the rows of s are after the first k moves. *)
At(st, moves, k, s) ==
    IF \E j \in 1 .. k : OrderMoves(moves)[j].seq = s THEN PlannedStart(st, moves, s)
                                                      ELSE st.seqs[s].start

(* Each move takes its run from where it was to its planned place and       *)
(* leaves the others where they are.                                        *)
LEMMA AtSteps ==
  ASSUME NEW st, Movable(st), NEW moves, Plan(st, moves)
  PROVE  /\ \A s \in Live(st) : At(st, moves, 0, s) = st.seqs[s].start
         /\ \A s \in Live(st) : At(st, moves, Cardinality(moves), s) = PlannedStart(st, moves, s)
         /\ \A k \in 0 .. Cardinality(moves) - 1 :
               LET m == OrderMoves(moves)[k + 1]
               IN  /\ At(st, moves, k, m.seq) = m.from
                   /\ At(st, moves, k + 1, m.seq) = m.to
                   /\ \A s \in Live(st) \ {m.seq} : At(st, moves, k + 1, s) = At(st, moves, k, s)
<1> DEFINE N == Cardinality(moves)
           ord == OrderMoves(moves)
<1>1. /\ N \in Nat
      /\ \A k \in 1 .. N : ord[k] \in moves
      /\ \A m \in moves : \E k \in 1 .. N : ord[k] = m
      /\ \A j, k \in 1 .. N : j < k => ord[j].seq # ord[k].seq
  BY OrderFacts DEF Movable
<1> HIDE DEF N, ord
<1>2. ASSUME NEW s \in Live(st) PROVE At(st, moves, 0, s) = st.seqs[s].start
  BY DEF At
<1>3. ASSUME NEW s \in Live(st) PROVE At(st, moves, N, s) = PlannedStart(st, moves, s)
  <2>1. CASE \E j \in 1 .. N : ord[j].seq = s
    BY <2>1 DEF At, ord
  <2>2. CASE ~ \E j \in 1 .. N : ord[j].seq = s
    <3>1. ~ \E m \in moves : m.seq = s
      BY <1>1, <2>2
    <3> QED
      BY <2>2, <3>1 DEF At, PlannedStart, ord
  <2> QED
    BY <2>1, <2>2
<1>4. ASSUME NEW k \in 0 .. N - 1
      PROVE  /\ At(st, moves, k, ord[k + 1].seq) = ord[k + 1].from
             /\ At(st, moves, k + 1, ord[k + 1].seq) = ord[k + 1].to
             /\ \A s \in Live(st) \ {ord[k + 1].seq} : At(st, moves, k + 1, s) = At(st, moves, k, s)
  <2> DEFINE m == ord[k + 1]
  <2>1. k + 1 \in 1 .. N /\ k + 1 \in 1 .. k + 1
    BY <1>1
  <2>2. m \in moves
    BY <1>1, <2>1
  <2>3. m.from = st.seqs[m.seq].start /\ m.to = PlannedStart(st, moves, m.seq)
    BY <2>2 DEF Plan
  <2>4. ~ \E j \in 1 .. k : ord[j].seq = m.seq
    <3> SUFFICES ASSUME NEW j \in 1 .. k, ord[j].seq = m.seq PROVE FALSE
      OBVIOUS
    <3>1. j \in 1 .. N /\ j < k + 1
      BY <1>1
    <3> QED
      BY <1>1, <2>1, <3>1
  <2>5. At(st, moves, k, m.seq) = m.from
    BY <2>3, <2>4 DEF At, ord
  <2>6. At(st, moves, k + 1, m.seq) = m.to
    BY <2>1, <2>3 DEF At, ord
  <2>7. ASSUME NEW s \in Live(st) \ {m.seq}
        PROVE  (\E j \in 1 .. k + 1 : ord[j].seq = s) <=> (\E j \in 1 .. k : ord[j].seq = s)
    <3>1. \A j \in 1 .. k + 1 : j \in 1 .. k \/ j = k + 1
      OBVIOUS
    <3>2. \A j \in 1 .. k : j \in 1 .. k + 1
      OBVIOUS
    <3> QED
      BY <2>7, <3>1, <3>2
  <2>8. \A s \in Live(st) \ {m.seq} : At(st, moves, k + 1, s) = At(st, moves, k, s)
    BY <2>7 DEF At, ord
  <2> QED
    BY <2>5, <2>6, <2>8
<1> QED
  BY <1>2, <1>3, <1>4 DEF N, ord

(* Rows that have moved never land on rows that still wait to. *)
LEMMA LandsClear ==
  ASSUME NEW st, Movable(st), NEW moves, Plan(st, moves),
         NEW a \in moves, NEW b \in moves, MovesFirst(a, b), a.seq # b.seq
  PROVE  a.to + a.rows <= b.from \/ b.from + b.rows <= a.to
<1> DEFINE s == a.seq
           t == b.seq
           A == st.seqs[s]
           B == st.seqs[t]
<1>1. /\ s \in Live(st) /\ t \in Live(st) /\ a.from = A.start /\ b.from = B.start
      /\ a.to = PlannedStart(st, moves, s) /\ b.to = PlannedStart(st, moves, t)
      /\ a.to # a.from /\ b.to # b.from
      /\ a.rows = PrivateWritten(A) /\ b.rows = PrivateWritten(B)
  BY DEF Plan
<1>2. /\ A.start \in Nat /\ B.start \in Nat /\ A.cap \in Nat /\ B.cap \in Nat
      /\ a.rows \in Nat /\ b.rows \in Nat
  BY <1>1, SlotFacts DEF Movable
<1>3. /\ a.to \in Nat /\ b.to \in Nat
      /\ A.start < B.start => a.to + A.cap <= b.to
      /\ B.start < A.start => b.to + B.cap <= a.to
  BY <1>1 DEF Plan
<1>4. /\ a.rows <= A.cap /\ b.rows <= B.cap /\ A.start # B.start
      /\ A.start < B.start => A.start + a.rows <= B.start
      /\ B.start < A.start => B.start + b.rows <= A.start
  BY <1>1 DEF Movable, Distinct
<1> HIDE DEF A, B, s, t
<1> QED
  BY <1>1, <1>2, <1>3, <1>4 DEF MovesFirst

(* At every moment of a compaction the written rows of any two runs are     *)
(* apart, and inside the arena.                                             *)
LEMMA Midway ==
  ASSUME NEW st, Movable(st), NEW moves, Plan(st, moves), NEW k \in 0 .. Cardinality(moves)
  PROVE  /\ \A s \in Live(st) :
               /\ At(st, moves, k, s) \in Nat
               /\ At(st, moves, k, s) + PrivateWritten(st.seqs[s]) <= NCtx
         /\ \A s, t \in Live(st) : s # t =>
               \/ At(st, moves, k, s) + PrivateWritten(st.seqs[s]) <= At(st, moves, k, t)
               \/ At(st, moves, k, t) + PrivateWritten(st.seqs[t]) <= At(st, moves, k, s)
<1> DEFINE N == Cardinality(moves)
           ord == OrderMoves(moves)
           W(s) == PrivateWritten(st.seqs[s])
           at(s) == At(st, moves, k, s)
           to(s) == PlannedStart(st, moves, s)
           Moved(s) == \E j \in 1 .. k : ord[j].seq = s
<1>1. /\ N \in Nat
      /\ \A j \in 1 .. N : ord[j] \in moves
      /\ \A m \in moves : \E j \in 1 .. N : ord[j] = m
      /\ \A i, j \in 1 .. N : i < j => MovesFirst(ord[i], ord[j]) /\ ord[i].seq # ord[j].seq
  BY OrderFacts DEF Movable
<1>2. \A s \in Live(st) : at(s) = IF Moved(s) THEN to(s) ELSE st.seqs[s].start
  BY DEF At
<1>3. \A s \in Live(st) : /\ st.seqs[s].start \in Nat /\ st.seqs[s].cap \in Nat /\ W(s) \in Nat
                          /\ W(s) <= st.seqs[s].cap
                          /\ st.seqs[s].start + W(s) <= NCtx
  BY SlotFacts DEF Movable
<1>4. /\ \A s \in Live(st) : to(s) \in Nat /\ to(s) + st.seqs[s].cap <= NCtx
      /\ \A s, t \in Live(st) : st.seqs[s].start < st.seqs[t].start => to(s) + st.seqs[s].cap <= to(t)
  BY DEF Plan
<1>5. /\ \A s, t \in Live(st) : s # t => st.seqs[s].start # st.seqs[t].start
      /\ \A s, t \in Live(st) : st.seqs[s].start < st.seqs[t].start
            => st.seqs[s].start + W(s) <= st.seqs[t].start
  BY DEF Movable, Distinct
<1>6. \A m \in moves : /\ m.seq \in Live(st) /\ m.from = st.seqs[m.seq].start
                       /\ m.to = to(m.seq) /\ m.rows = W(m.seq)
  BY DEF Plan
<1> HIDE DEF W
<1>7. \A s \in Live(st) : at(s) \in Nat /\ at(s) + W(s) <= NCtx
  BY <1>2, <1>3, <1>4, NCtxAssumption
<1>8. ASSUME NEW s \in Live(st), NEW t \in Live(st), s # t, Moved(s), ~Moved(t)
      PROVE  at(s) + W(s) <= at(t) \/ at(t) + W(t) <= at(s)
  <2>1. PICK i \in 1 .. k : ord[i].seq = s
    BY <1>8
  <2>2. i \in 1 .. N
    BY <1>1, <2>1
  <2>3. at(s) = to(s) /\ at(t) = st.seqs[t].start
    BY <1>2, <1>8
  <2>4. CASE \E m \in moves : m.seq = t
    <3>1. PICK j \in 1 .. N : ord[j].seq = t
      BY <1>1, <2>4
    <3>2. i < j
      <4> SUFFICES ASSUME ~(i < j) PROVE FALSE
        OBVIOUS
      <4>1. j \in 1 .. k
        BY <1>1, <2>1, <3>1
      <4> QED
        BY <1>8, <3>1, <4>1
    <3>3. MovesFirst(ord[i], ord[j]) /\ ord[i] \in moves /\ ord[j] \in moves
      BY <1>1, <2>2, <3>1, <3>2
    <3>4. \/ ord[i].to + ord[i].rows <= ord[j].from
          \/ ord[j].from + ord[j].rows <= ord[i].to
      BY <1>8, <2>1, <3>1, <3>3, LandsClear
    <3> QED
      BY <1>6, <2>1, <2>3, <3>1, <3>3, <3>4
  <2>5. CASE ~ \E m \in moves : m.seq = t
    <3>1. to(t) = st.seqs[t].start
      BY <2>5 DEF PlannedStart
    <3>2. to(s) + st.seqs[s].cap <= to(t) \/ to(t) + st.seqs[t].cap <= to(s)
      BY <1>3, <1>4, <1>5, <1>8
    <3> HIDE DEF to, at
    <3> QED
      BY <1>3, <1>4, <2>3, <3>1, <3>2
  <2> QED
    BY <2>4, <2>5
<1>9. ASSUME NEW s \in Live(st), NEW t \in Live(st), s # t
      PROVE  at(s) + W(s) <= at(t) \/ at(t) + W(t) <= at(s)
  <2>1. CASE Moved(s) /\ Moved(t)
    <3>1. to(s) + st.seqs[s].cap <= to(t) \/ to(t) + st.seqs[t].cap <= to(s)
      BY <1>3, <1>4, <1>5, <1>9
    <3> QED
      BY <1>2, <1>3, <1>4, <2>1, <3>1
  <2>2. CASE ~Moved(s) /\ ~Moved(t)
    <3>1. st.seqs[s].start + W(s) <= st.seqs[t].start \/ st.seqs[t].start + W(t) <= st.seqs[s].start
      BY <1>3, <1>5, <1>9
    <3> QED
      BY <1>2, <2>2, <3>1
  <2>3. CASE Moved(s) /\ ~Moved(t)
    BY <1>8, <1>9, <2>3
  <2>4. CASE ~Moved(s) /\ Moved(t)
    <3>1. at(t) + W(t) <= at(s) \/ at(s) + W(s) <= at(t)
      BY <1>8, <1>9, <2>4
    <3> QED
      BY <3>1
  <2> QED
    BY <2>1, <2>2, <2>3, <2>4
<1> QED
  BY <1>7, <1>9 DEF W

(* The loop of move_runs over the renumberings. *)
MoveStep(c, res, m) == ApplyMove(res, m)

(* Its fold. *)
MoveLoop == INSTANCE FoldProofs WITH Step <- MoveStep

(* A stamped cell is a written row of the run of the sequence it names. *)
Stamped(st) ==
    \A c \in Cells : st.owner[c] # Free =>
        /\ st.owner[c] \in Live(st)
        /\ st.seqs[st.owner[c]].start <= c
        /\ c < st.seqs[st.owner[c]].start + PrivateWritten(st.seqs[st.owner[c]])

(* u lends t the rows t reads in place: written rows of u's own run. *)
Lends(st, u, t) ==
    /\ u # t
    /\ st.seqs[u].shared.rows = 0
    /\ st.seqs[u].start <= st.seqs[t].shared.cell
    /\ st.seqs[t].shared.cell + st.seqs[t].shared.rows <= st.seqs[u].start + st.seqs[u].written

(* Whatever a sequence reads in place, another one lends it. *)
Lent(st) ==
    \A t \in Live(st) : st.seqs[t].shared.rows > 0 => \E u \in Live(st) : Lends(st, u, t)

(* The rows of every run, at its planned place in the contents d. *)
Landed(st, moves, d) ==
    \A s \in Live(st) : \A i \in 0 .. PrivateWritten(st.seqs[s]) - 1 :
        d[PlannedStart(st, moves, s) + i] = st.data[st.seqs[s].start + i]

(* After every copy each run's rows are at their planned place. *)
LEMMA CopiesKeepRows ==
  ASSUME NEW V, NEW st, Movable(st), st.data \in [Cells -> V], NEW moves, Plan(st, moves)
  PROVE  /\ CopyLoop!Fold(0, st.data, OrderMoves(moves)) \in [Cells -> V]
         /\ Landed(st, moves, CopyLoop!Fold(0, st.data, OrderMoves(moves)))
<1> DEFINE N == Cardinality(moves)
           ord == OrderMoves(moves)
           W(s) == PrivateWritten(st.seqs[s])
           at(k, s) == At(st, moves, k, s)
<1>1. /\ N \in Nat /\ Len(ord) = N
      /\ \A k \in 1 .. N : ord[k] \in moves
  BY OrderFacts DEF Movable
<1>2. \E g : /\ g[0] = st.data
             /\ \A n \in 1 .. Len(ord) : g[n] = CopyStep(0, g[n - 1], ord[n])
             /\ CopyLoop!Fold(0, st.data, ord) = g[Len(ord)]
  <2> HIDE DEF ord
  <2> QED
    BY <1>1, CopyLoop!FoldUnfolds
<1>3. PICK f : /\ f[0] = st.data
               /\ \A n \in 1 .. N : f[n] = CopyStep(0, f[n - 1], ord[n])
               /\ CopyLoop!Fold(0, st.data, ord) = f[N]
  BY <1>1, <1>2
<1>4. /\ \A s \in Live(st) : at(0, s) = st.seqs[s].start
      /\ \A s \in Live(st) : at(N, s) = PlannedStart(st, moves, s)
      /\ \A k \in 0 .. N - 1 : /\ at(k, ord[k + 1].seq) = ord[k + 1].from
                               /\ at(k + 1, ord[k + 1].seq) = ord[k + 1].to
                               /\ \A s \in Live(st) \ {ord[k + 1].seq} : at(k + 1, s) = at(k, s)
  BY AtSteps
<1>5. \A k \in 0 .. N :
         /\ \A s \in Live(st) : at(k, s) \in Nat /\ at(k, s) + W(s) <= NCtx
         /\ \A s, t \in Live(st) : s # t =>
               at(k, s) + W(s) <= at(k, t) \/ at(k, t) + W(t) <= at(k, s)
  BY Midway
<1>6. \A s \in Live(st) : W(s) \in Nat /\ st.seqs[s].start \in Nat
  BY SlotFacts DEF Movable
<1>7. \A m \in moves : m.seq \in Live(st) /\ m.rows = W(m.seq)
  BY DEF Plan
<1> HIDE DEF at, ord, N, W
<1> DEFINE Rows(k) == /\ f[k] \in [Cells -> V]
                      /\ \A s \in Live(st) : \A i \in 0 .. W(s) - 1 :
                            f[k][at(k, s) + i] = st.data[st.seqs[s].start + i]
           T == {k \in 0 .. N : Rows(k)}
<1>8. Rows(0)
  BY <1>3, <1>4
<1>9. ASSUME NEW k \in 0 .. N - 1, Rows(k) PROVE Rows(k + 1)
  <2> DEFINE m == ord[k + 1]
  <2>1. k \in 0 .. N /\ k + 1 \in 0 .. N /\ k + 1 \in 1 .. N /\ (k + 1) - 1 = k
    BY <1>1
  <2>2. m \in moves /\ m.seq \in Live(st) /\ m.rows = W(m.seq)
    BY <1>1, <1>7, <2>1
  <2>3. at(k, m.seq) = m.from /\ at(k + 1, m.seq) = m.to
    BY <1>4
  <2>4. f[k + 1] = CopyCells(f[k], m.to, m.from, m.rows)
    BY <1>3, <2>1 DEF CopyStep
  <2>5. /\ m.from \in Nat /\ m.to \in Nat /\ m.rows \in Nat
        /\ m.from + m.rows <= NCtx /\ m.to + m.rows <= NCtx
    BY <1>5, <1>6, <2>1, <2>2, <2>3
  <2> HIDE DEF m
  <2>6. f[k + 1] = [c \in Cells |-> IF c \in m.to .. m.to + m.rows - 1
                                    THEN f[k][m.from + (c - m.to)] ELSE f[k][c]]
    BY <2>4 DEF CopyCells
  <2>7. f[k + 1] \in [Cells -> V]
    <3>1. ASSUME NEW c \in Cells, c \in m.to .. m.to + m.rows - 1
          PROVE  m.from + (c - m.to) \in Cells
      BY <2>5, <3>1, NCtxAssumption, SMTT(60) DEF Cells
    <3> QED
      BY <1>9, <2>6, <3>1
  <2>8. ASSUME NEW s \in Live(st), NEW i \in 0 .. W(s) - 1
        PROVE  f[k + 1][at(k + 1, s) + i] = st.data[st.seqs[s].start + i]
    <3>1. /\ W(s) \in Nat /\ at(k + 1, s) \in Nat /\ at(k + 1, s) + W(s) <= NCtx
          /\ at(k, s) \in Nat
      BY <1>5, <1>6, <2>1
    <3>2. at(k + 1, s) + i \in Cells
      BY <3>1, NCtxAssumption DEF Cells
    <3>3. CASE s = m.seq
      <4>1. m.to + i \in m.to .. m.to + m.rows - 1 /\ m.from + ((m.to + i) - m.to) = m.from + i
        BY <2>2, <2>5, <3>1, <3>3
      <4>2. f[k + 1][m.to + i] = f[k][m.from + i]
        BY <2>3, <2>6, <3>2, <3>3, <4>1
      <4> QED
        BY <1>9, <2>3, <3>3, <4>2
    <3>4. CASE s # m.seq
      <4>1. at(k + 1, s) = at(k, s)
        BY <1>4, <3>4 DEF m
      <4>2. at(k + 1, s) + W(s) <= m.to \/ m.to + m.rows <= at(k + 1, s)
        BY <1>5, <2>1, <2>2, <2>3, <3>4
      <4>3. ~(at(k + 1, s) + i \in m.to .. m.to + m.rows - 1)
        BY <2>5, <3>1, <4>2
      <4>4. f[k + 1][at(k + 1, s) + i] = f[k][at(k, s) + i]
        BY <2>6, <3>2, <4>1, <4>3
      <4> QED
        BY <1>9, <4>4
    <3> QED
      BY <3>3, <3>4
  <2> QED
    BY <2>7, <2>8
<1> HIDE DEF Rows
<1>10. 0 \in T /\ \A n \in 0 .. N - 1 : n \in T => n + 1 \in T
  BY <1>1, <1>8, <1>9
<1> HIDE DEF T
<1>11. N \in T
  <2>1. N \in Nat /\ N \in 0 .. N
    BY <1>1
  <2>2. \A n \in 0 .. N : n \in T
    BY <1>10, <2>1, Induct
  <2> QED
    BY <2>1, <2>2
<1>12. Rows(N)
  BY <1>11 DEF T
<1> QED
  BY <1>3, <1>4, <1>12 DEF Rows, W, ord, Landed

(* A store from its parts. *)
StoreOf(seqs, owner, data) == [seqs |-> seqs, owner |-> owner, data |-> data]

(* A slot from its parts. *)
SlotOf(start, cap, cell, rows, written) ==
    [start |-> start, cap |-> cap, shared |-> [cell |-> cell, rows |-> rows], written |-> written]

(* The fields of a slot, and of one whose run or whose shared prefix moved. *)
LEMMA SlotForm ==
  ASSUME NEW a, NEW b, NEW c, NEW d, NEW e, NEW x
  PROVE  /\ SlotOf(a, b, c, d, e).start = a /\ SlotOf(a, b, c, d, e).cap = b
         /\ SlotOf(a, b, c, d, e).shared.cell = c /\ SlotOf(a, b, c, d, e).shared.rows = d
         /\ SlotOf(a, b, c, d, e).written = e
         /\ [SlotOf(a, b, c, d, e) EXCEPT !.start = x] = SlotOf(x, b, c, d, e)
         /\ [SlotOf(a, b, c, d, e) EXCEPT !.shared.cell = x] = SlotOf(a, b, x, d, e)
<1> DEFINE s == SlotOf(a, b, c, d, e)
           p == [s EXCEPT !.start = x]
           q == [s EXCEPT !.shared.cell = x]
<1>1. /\ s.start = a /\ s.cap = b /\ s.shared.cell = c /\ s.shared.rows = d /\ s.written = e
  BY DEF SlotOf
<1>2. p \in [start : {x}, cap : {b}, shared : {[cell |-> c, rows |-> d]}, written : {e}]
  BY DEF SlotOf
<1>3. q \in [start : {a}, cap : {b}, shared : {[cell |-> x, rows |-> d]}, written : {e}]
  <2>1. [[cell |-> c, rows |-> d] EXCEPT !.cell = x] = [cell |-> x, rows |-> d]
    OBVIOUS
  <2> QED
    BY <2>1 DEF SlotOf
<1> HIDE DEF p, q
<1>4. p = SlotOf(x, b, c, d, e) /\ q = SlotOf(a, b, x, d, e)
  BY <1>2, <1>3 DEF SlotOf
<1> QED
  BY <1>1, <1>4 DEF p, q

(* One move on a table in which every prefix read in place lies wholly in   *)
(* the moved rows or wholly outside them.                                   *)
LEMMA OneMove ==
  ASSUME NEW T, NEW O, NEW d, NEW m, ~Straddled(StoreOf(T, O, d), m)
  PROVE  ApplyMove(Ok(StoreOf(T, O, d)), m) =
            Ok(StoreOf([s \in DOMAIN T |-> Renumbered(StoreOf(T, O, d), m, s)], MovedStamps(O, m), d))
<1> DEFINE kv == StoreOf(T, O, d)
           P == MovedStamps(O, m)
           U == [s \in DOMAIN T |-> Renumbered(kv, m, s)]
           q == [kv EXCEPT !.owner = P, !.seqs = U]
<1>1. Ok(kv).ok = TRUE /\ Ok(kv).kv = kv
  BY DEF Ok
<1>2. Live(kv) = DOMAIN T /\ kv.owner = O
  BY DEF Live, StoreOf
<1>3. ApplyMove(Ok(kv), m) = [ok |-> ~Straddled(kv, m), kv |-> q]
  BY <1>1, <1>2 DEF ApplyMove
<1>4. (~Straddled(kv, m)) = TRUE
  OBVIOUS
<1> HIDE DEF P, U
<1>5. q \in [seqs : {U}, owner : {P}, data : {d}]
  BY DEF StoreOf
<1> HIDE DEF q
<1>6. q = StoreOf(U, P, d)
  BY <1>5 DEF StoreOf
<1>7. ApplyMove(Ok(kv), m) = Ok(StoreOf(U, P, d))
  <2> HIDE DEF kv
  <2> QED
    BY <1>3, <1>4, <1>6 DEF Ok
<1> QED
  BY <1>7 DEF P, U

(* The stamps of one move: those of the moved run follow its rows. *)
LEMMA StampsMove ==
  ASSUME NEW O \in [Cells -> SeqIds \cup {Free}], NEW m, m.seq \in SeqIds,
         m.from \in Nat, m.to \in Nat, m.rows \in Nat,
         m.from + m.rows <= NCtx, m.to + m.rows <= NCtx,
         \A c \in Cells : O[c] = m.seq => m.from <= c /\ c < m.from + m.rows,
         \A c \in Cells : m.from <= c /\ c < m.from + m.rows => O[c] \in {m.seq, Free}
  PROVE  /\ MovedStamps(O, m) \in [Cells -> SeqIds \cup {Free}]
         /\ \A c \in Cells : MovedStamps(O, m)[c] = m.seq => m.to <= c /\ c < m.to + m.rows
         /\ \A c \in Cells : MovedStamps(O, m)[c] \notin {m.seq, Free} => MovedStamps(O, m)[c] = O[c]
<1> DEFINE stamps == CopyCells(O, m.to, m.from, m.rows)
           landed == m.to .. m.to + m.rows - 1
           swept == IF m.rows = 0 THEN {}
                    ELSE Min({m.to, m.from}) .. Max({m.to, m.from}) + m.rows - 1
           P == MovedStamps(O, m)
<1>1. ASSUME NEW c \in Cells, c \in landed
      PROVE  /\ m.from + (c - m.to) \in Cells
             /\ m.from <= m.from + (c - m.to) /\ m.from + (c - m.to) < m.from + m.rows
  BY <1>1, NCtxAssumption, SMTT(60) DEF Cells
<1>2. ASSUME NEW c \in Cells
      PROVE  stamps[c] = IF c \in landed THEN O[m.from + (c - m.to)] ELSE O[c]
  BY DEF CopyCells
<1>3. \A c \in Cells : P[c] = IF c \in swept \ landed /\ stamps[c] = m.seq THEN Free ELSE stamps[c]
  BY DEF MovedStamps
<1>4. P = [c \in Cells |-> P[c]]
  BY DEF MovedStamps
<1>5. Min({m.to, m.from}) = (IF m.to <= m.from THEN m.to ELSE m.from)
      /\ Max({m.to, m.from}) = (IF m.to >= m.from THEN m.to ELSE m.from)
  BY MinPair, MaxPair
<1>6. \A c \in Cells : m.from <= c /\ c < m.from + m.rows => c \in swept
  BY <1>5 DEF Cells
<1>7. \A c \in Cells : c \in landed <=> m.to <= c /\ c < m.to + m.rows
  BY DEF Cells
<1> HIDE DEF stamps, landed, swept, P
<1>8. ASSUME NEW c \in Cells PROVE P[c] \in SeqIds \cup {Free}
  <2>1. stamps[c] \in SeqIds \cup {Free}
    BY <1>1, <1>2
  <2> QED
    BY <1>3, <2>1
<1>9. ASSUME NEW c \in Cells, P[c] = m.seq PROVE m.to <= c /\ c < m.to + m.rows
  <2>1. stamps[c] = m.seq /\ ~(c \in swept \ landed)
    BY <1>3, <1>9, MarksAssumption
  <2>2. CASE c \in landed
    BY <1>7, <2>2
  <2>3. CASE c \notin landed
    <3>1. O[c] = m.seq
      BY <1>2, <2>1, <2>3
    <3> QED
      BY <1>6, <2>1, <2>3, <3>1
  <2> QED
    BY <2>2, <2>3
<1>10. ASSUME NEW c \in Cells, P[c] \notin {m.seq, Free} PROVE P[c] = O[c]
  <2>1. P[c] = stamps[c]
    BY <1>3, <1>10
  <2>2. c \notin landed
    <3> SUFFICES ASSUME c \in landed PROVE FALSE
      OBVIOUS
    <3>1. stamps[c] \in {m.seq, Free}
      BY <1>1, <1>2
    <3> QED
      BY <1>10, <2>1, <3>1
  <2> QED
    BY <1>2, <2>1, <2>2
<1> QED
  BY <1>4, <1>8, <1>9, <1>10 DEF P

(* When one interval of cells contains another. *)
LEMMA IntervalInside ==
  ASSUME NEW a \in Int, NEW m \in Int, NEW b \in Int, NEW n \in Int, b <= a, a + m <= b + n
  PROVE  a .. a + m - 1 \subseteq b .. b + n - 1
  OBVIOUS

(* When two intervals of cells do not meet. *)
LEMMA IntervalsApart ==
  ASSUME NEW a \in Int, NEW m \in Int, NEW b \in Int, NEW n \in Int, a + m <= b \/ b + n <= a
  PROVE  (a .. a + m - 1) \cap (b .. b + n - 1) = {}
  OBVIOUS

(* After every move each run is numbered at its planned place, each prefix  *)
(* read in place follows the run that lends it, and so do the stamps.       *)
LEMMA RenumbersRuns ==
  ASSUME NEW st, Movable(st), Stamped(st), Lent(st), st.owner \in [Cells -> SeqIds \cup {Free}],
         NEW moves, Plan(st, moves), NEW d
  PROVE  \E T, O :
            /\ MoveLoop!Fold(0, Ok(StoreOf(st.seqs, st.owner, d)), OrderMoves(moves)) = Ok(StoreOf(T, O, d))
            /\ T \in [Live(st) -> SeqSlots]
            /\ O \in [Cells -> SeqIds \cup {Free}]
            /\ \A s \in Live(st) :
                  /\ T[s].start = PlannedStart(st, moves, s) /\ T[s].cap = st.seqs[s].cap
                  /\ T[s].shared.rows = st.seqs[s].shared.rows /\ T[s].written = st.seqs[s].written
            /\ \A t \in Live(st) : st.seqs[t].shared.rows > 0 => \E u \in Live(st) :
                  /\ Lends(st, u, t)
                  /\ T[t].shared.cell = PlannedStart(st, moves, u)
                                         + (st.seqs[t].shared.cell - st.seqs[u].start)
            /\ \A c \in Cells : O[c] # Free =>
                  /\ O[c] \in Live(st) /\ PlannedStart(st, moves, O[c]) <= c
                  /\ c < PlannedStart(st, moves, O[c]) + PrivateWritten(st.seqs[O[c]])
<1> DEFINE N == Cardinality(moves)
           ord == OrderMoves(moves)
           D == Live(st)
           W(s) == PrivateWritten(st.seqs[s])
           at(k, s) == At(st, moves, k, s)
           L == [t \in D |-> IF st.seqs[t].shared.rows > 0 THEN CHOOSE u \in D : Lends(st, u, t) ELSE t]
           cell(k, s) == IF st.seqs[s].shared.rows > 0
                         THEN at(k, L[s]) + (st.seqs[s].shared.cell - st.seqs[L[s]].start)
                         ELSE st.seqs[s].shared.cell
           slot(k, s) == SlotOf(at(k, s), st.seqs[s].cap, cell(k, s), st.seqs[s].shared.rows,
                                st.seqs[s].written)
           Table(k) == [s \in D |-> slot(k, s)]
           Owned(k, O) == \A c \in Cells : O[c] # Free =>
                             O[c] \in D /\ at(k, O[c]) <= c /\ c < at(k, O[c]) + W(O[c])
<1>1. /\ N \in Nat /\ Len(ord) = N
      /\ \A k \in 1 .. N : ord[k] \in moves
  BY OrderFacts DEF Movable
<1>2. PICK f : /\ f[0] = Ok(StoreOf(st.seqs, st.owner, d))
               /\ \A n \in 1 .. N : f[n] = ApplyMove(f[n - 1], ord[n])
               /\ MoveLoop!Fold(0, Ok(StoreOf(st.seqs, st.owner, d)), ord) = f[N]
  <2> DEFINE base == Ok(StoreOf(st.seqs, st.owner, d))
  <2> HIDE DEF ord, base
  <2>1. \E g : /\ g[0] = base
               /\ \A n \in 1 .. Len(ord) : g[n] = MoveStep(0, g[n - 1], ord[n])
               /\ MoveLoop!Fold(0, base, ord) = g[Len(ord)]
    BY <1>1, MoveLoop!FoldUnfolds, SMTT(60)
  <2>2. \E g : /\ g[0] = base
               /\ \A n \in 1 .. N : g[n] = ApplyMove(g[n - 1], ord[n])
               /\ MoveLoop!Fold(0, base, ord) = g[N]
    BY <1>1, <2>1 DEF MoveStep
  <2> QED
    BY <2>2 DEF base
<1>3. /\ \A s \in D : at(0, s) = st.seqs[s].start
      /\ \A s \in D : at(N, s) = PlannedStart(st, moves, s)
      /\ \A k \in 0 .. N - 1 : /\ at(k, ord[k + 1].seq) = ord[k + 1].from
                               /\ at(k + 1, ord[k + 1].seq) = ord[k + 1].to
                               /\ \A s \in D \ {ord[k + 1].seq} : at(k + 1, s) = at(k, s)
  BY AtSteps
<1>4. \A k \in 0 .. N :
         /\ \A s \in D : at(k, s) \in Nat /\ at(k, s) + W(s) <= NCtx
         /\ \A s, t \in D : s # t =>
               at(k, s) + W(s) <= at(k, t) \/ at(k, t) + W(t) <= at(k, s)
  BY Midway
<1>5. \A s \in D : /\ W(s) \in Nat /\ st.seqs[s].start \in Nat /\ st.seqs[s].cap \in Nat
                   /\ st.seqs[s].shared.cell \in Nat /\ st.seqs[s].shared.rows \in Nat
                   /\ st.seqs[s].written \in Nat
                   /\ st.seqs[s].shared.rows = 0 => W(s) = st.seqs[s].written
  <2> SUFFICES ASSUME NEW s \in D
               PROVE  /\ W(s) \in Nat /\ st.seqs[s].start \in Nat /\ st.seqs[s].cap \in Nat
                      /\ st.seqs[s].shared.cell \in Nat /\ st.seqs[s].shared.rows \in Nat
                      /\ st.seqs[s].written \in Nat
                      /\ st.seqs[s].shared.rows = 0 => W(s) = st.seqs[s].written
    OBVIOUS
  <2> QED
    BY SlotFacts DEF Movable
<1>6. \A m \in moves : /\ m.seq \in D /\ m.rows = W(m.seq)
  BY DEF Plan
<1>7. D \subseteq SeqIds
  BY DEF Movable, IsTable
<1>8. ASSUME NEW t \in D, st.seqs[t].shared.rows > 0
      PROVE  /\ L[t] \in D /\ Lends(st, L[t], t) /\ L[t] # t
             /\ st.seqs[L[t]].start <= st.seqs[t].shared.cell
             /\ st.seqs[t].shared.cell + st.seqs[t].shared.rows <= st.seqs[L[t]].start + W(L[t])
  <2>1. \E u \in D : Lends(st, u, t)
    BY <1>8 DEF Lent
  <2>2. L[t] \in D /\ Lends(st, L[t], t)
    BY <1>8, <2>1
  <2> HIDE DEF L
  <2>3. st.seqs[L[t]].shared.rows = 0
    BY <2>2 DEF Lends
  <2>4. W(L[t]) = st.seqs[L[t]].written
    BY <1>5, <2>2, <2>3
  <2> QED
    BY <2>2, <2>4 DEF Lends
<1>9. Table(0) = st.seqs
  <2>1. \A s \in D : st.seqs[s] \in SeqSlots
    BY SlotFacts DEF Movable
  <2>2. ASSUME NEW s \in D
        PROVE  st.seqs[s] = SlotOf(st.seqs[s].start, st.seqs[s].cap, st.seqs[s].shared.cell,
                                   st.seqs[s].shared.rows, st.seqs[s].written)
    BY <2>1 DEF SeqSlots, SlotOf
  <2>3. ASSUME NEW s \in D PROVE cell(0, s) = st.seqs[s].shared.cell
    <3> HIDE DEF L, at
    <3>1. CASE st.seqs[s].shared.rows > 0
      <4>1. L[s] \in D /\ at(0, L[s]) = st.seqs[L[s]].start /\ st.seqs[L[s]].start \in Nat
            /\ st.seqs[s].shared.cell \in Nat
        BY <1>3, <1>5, <1>8, <3>1
      <4> QED
        BY <3>1, <4>1
    <3>2. CASE ~(st.seqs[s].shared.rows > 0)
      BY <3>2
    <3> QED
      BY <3>1, <3>2
  <2>4. \A s \in D : slot(0, s) = st.seqs[s]
    <3> HIDE DEF cell, at
    <3> QED
      BY <1>3, <2>2, <2>3
  <2> HIDE DEF slot
  <2>5. st.seqs = [s \in D |-> st.seqs[s]]
    BY DEF Movable, IsTable
  <2> QED
    BY <2>4, <2>5
<1> HIDE DEF at, ord, N, W, L
<1>10. ASSUME NEW k \in 0 .. N, NEW s \in D, st.seqs[s].shared.rows > 0
       PROVE  /\ cell(k, s) \in Nat /\ at(k, L[s]) <= cell(k, s)
              /\ cell(k, s) + st.seqs[s].shared.rows <= at(k, L[s]) + W(L[s])
  <2>1. /\ L[s] \in D /\ at(k, L[s]) \in Nat /\ st.seqs[L[s]].start \in Nat
        /\ st.seqs[L[s]].start <= st.seqs[s].shared.cell
        /\ st.seqs[s].shared.cell + st.seqs[s].shared.rows <= st.seqs[L[s]].start + W(L[s])
        /\ W(L[s]) \in Nat /\ st.seqs[s].shared.cell \in Nat /\ st.seqs[s].shared.rows \in Nat
    BY <1>4, <1>5, <1>8, <1>10
  <2> QED
    BY <1>10, <2>1
<1>11. ASSUME NEW k \in 0 .. N - 1, NEW O \in [Cells -> SeqIds \cup {Free}], Owned(k, O)
       PROVE  /\ ApplyMove(Ok(StoreOf(Table(k), O, d)), ord[k + 1])
                   = Ok(StoreOf(Table(k + 1), MovedStamps(O, ord[k + 1]), d))
              /\ MovedStamps(O, ord[k + 1]) \in [Cells -> SeqIds \cup {Free}]
              /\ Owned(k + 1, MovedStamps(O, ord[k + 1]))
  <2> DEFINE m == ord[k + 1]
             kv == StoreOf(Table(k), O, d)
             P == MovedStamps(O, m)
  <2>1. k \in 0 .. N /\ k + 1 \in 0 .. N /\ k + 1 \in 1 .. N
    BY <1>1
  <2>2. m \in moves /\ m.seq \in D /\ m.rows = W(m.seq)
    BY <1>1, <1>6, <2>1
  <2>3. /\ at(k, m.seq) = m.from /\ at(k + 1, m.seq) = m.to
        /\ \A s \in D \ {m.seq} : at(k + 1, s) = at(k, s)
    BY <1>3
  <2>4. /\ m.from \in Nat /\ m.to \in Nat /\ m.rows \in Nat
        /\ m.from + m.rows <= NCtx /\ m.to + m.rows <= NCtx
    BY <1>4, <1>5, <2>1, <2>2, <2>3
  <2> HIDE DEF m
  <2>5. Live(kv) = D /\ \A s \in D : kv.seqs[s] = slot(k, s)
    <3> HIDE DEF slot
    <3> QED
      BY DEF Live, StoreOf
  <2>6. \A s \in D : /\ kv.seqs[s].start = at(k, s) /\ kv.seqs[s].shared.cell = cell(k, s)
                     /\ kv.seqs[s].shared.rows = st.seqs[s].shared.rows
    <3> HIDE DEF cell, kv
    <3> QED
      BY <2>5, SlotForm
  <2> HIDE DEF kv, cell
  <2>7. ASSUME NEW s \in D \ {m.seq}
        PROVE  /\ s \in Readers(kv, m) <=> st.seqs[s].shared.rows > 0 /\ L[s] = m.seq
               /\ s \in Readers(kv, m) => SharedCells(kv.seqs[s]) \subseteq MovedRows(m)
    <3>1. s \in Readers(kv, m) <=> SharedCells(kv.seqs[s]) \cap MovedRows(m) # {}
      BY <2>5 DEF Readers
    <3>2. SharedCells(kv.seqs[s]) = cell(k, s) .. cell(k, s) + st.seqs[s].shared.rows - 1
      BY <2>6 DEF SharedCells
    <3>3. CASE st.seqs[s].shared.rows > 0 /\ L[s] = m.seq
      <4>1. /\ cell(k, s) \in Nat /\ m.from <= cell(k, s)
            /\ cell(k, s) + st.seqs[s].shared.rows <= m.from + m.rows
            /\ st.seqs[s].shared.rows \in Nat
        BY <1>5, <1>10, <2>1, <2>2, <2>3, <3>3
      <4>2. SharedCells(kv.seqs[s]) \subseteq MovedRows(m)
        <5> DEFINE a == cell(k, s)
                   n == st.seqs[s].shared.rows
        <5>1. a \in Int /\ n \in Int /\ m.from \in Int /\ m.rows \in Int
              /\ m.from <= a /\ a + n <= m.from + m.rows
          BY <2>4, <4>1
        <5>2. SharedCells(kv.seqs[s]) = a .. a + n - 1
          BY <3>2
        <5> HIDE DEF a, n
        <5>3. a .. a + n - 1 \subseteq m.from .. m.from + m.rows - 1
          BY <5>1, IntervalInside
        <5> QED
          BY <5>2, <5>3 DEF MovedRows
      <4>3. cell(k, s) \in SharedCells(kv.seqs[s])
        BY <3>2, <3>3, <4>1
      <4> QED
        BY <3>1, <3>3, <4>2, <4>3
    <3>4. CASE st.seqs[s].shared.rows > 0 /\ L[s] # m.seq
      <4>1. /\ cell(k, s) \in Nat /\ at(k, L[s]) <= cell(k, s)
            /\ cell(k, s) + st.seqs[s].shared.rows <= at(k, L[s]) + W(L[s])
            /\ st.seqs[s].shared.rows \in Nat /\ L[s] \in D
        BY <1>5, <1>8, <1>10, <2>1, <3>4
      <4>2. at(k, L[s]) + W(L[s]) <= m.from \/ m.from + m.rows <= at(k, L[s])
        BY <1>4, <2>1, <2>2, <2>3, <3>4, <4>1
      <4>3. at(k, L[s]) \in Nat /\ W(L[s]) \in Nat
        BY <1>4, <1>5, <2>1, <4>1
      <4>4. SharedCells(kv.seqs[s]) \cap MovedRows(m) = {}
        <5>1. \/ cell(k, s) + st.seqs[s].shared.rows <= m.from
              \/ m.from + m.rows <= cell(k, s)
          BY <2>4, <4>1, <4>2, <4>3
        <5> DEFINE a == cell(k, s)
                   n == st.seqs[s].shared.rows
        <5>2. a \in Int /\ n \in Int /\ m.from \in Int /\ m.rows \in Int
              /\ (a + n <= m.from \/ m.from + m.rows <= a)
          BY <2>4, <4>1, <5>1
        <5>3. SharedCells(kv.seqs[s]) = a .. a + n - 1
          BY <3>2
        <5> HIDE DEF a, n
        <5>4. (a .. a + n - 1) \cap (m.from .. m.from + m.rows - 1) = {}
          BY <5>2, IntervalsApart
        <5> QED
          BY <5>3, <5>4 DEF MovedRows
      <4> QED
        BY <3>1, <3>4, <4>4
    <3>5. CASE ~(st.seqs[s].shared.rows > 0)
      <4>1. st.seqs[s].shared.rows = 0 /\ st.seqs[s].shared.cell \in Nat
        BY <1>5, <3>5
      <4>2. cell(k, s) = st.seqs[s].shared.cell
        BY <3>5 DEF cell
      <4>3. SharedCells(kv.seqs[s]) = {}
        BY <3>2, <4>1, <4>2
      <4> QED
        BY <3>1, <3>5, <4>3
    <3> QED
      BY <3>3, <3>4, <3>5
  <2>8. ~Straddled(kv, m)
    BY <2>5, <2>7 DEF Straddled, Readers
  <2>9. ASSUME NEW s \in D PROVE Renumbered(kv, m, s) = slot(k + 1, s)
    <3>1. CASE s = m.seq
      <4>1. cell(k + 1, s) = cell(k, s)
        <5>1. CASE st.seqs[s].shared.rows > 0
          <6>1. L[s] \in D \ {m.seq}
            BY <1>8, <3>1, <5>1
          <6> QED
            BY <2>3, <5>1, <6>1 DEF cell
        <5>2. CASE ~(st.seqs[s].shared.rows > 0)
          BY <5>2 DEF cell
        <5> QED
          BY <5>1, <5>2
      <4>2. Renumbered(kv, m, s) = [slot(k, s) EXCEPT !.start = m.to]
        <5> HIDE DEF slot
        <5> QED
          BY <2>5, <3>1 DEF Renumbered
      <4>3. [slot(k, s) EXCEPT !.start = m.to] =
               SlotOf(m.to, st.seqs[s].cap, cell(k, s), st.seqs[s].shared.rows, st.seqs[s].written)
        BY SlotForm
      <4> QED
        BY <2>3, <3>1, <4>1, <4>2, <4>3
    <3>2. CASE s # m.seq /\ st.seqs[s].shared.rows > 0 /\ L[s] = m.seq
      <4> DEFINE new == m.to + (cell(k, s) - m.from)
      <4>1. Renumbered(kv, m, s) = [slot(k, s) EXCEPT !.shared.cell = new]
        <5>1. s \in Readers(kv, m) /\ kv.seqs[s] = slot(k, s) /\ kv.seqs[s].shared.cell = cell(k, s)
          BY <2>5, <2>6, <2>7, <3>2
        <5> HIDE DEF slot
        <5> QED
          BY <2>8, <3>2, <5>1 DEF Renumbered
      <4>2. [slot(k, s) EXCEPT !.shared.cell = new] =
               SlotOf(at(k, s), st.seqs[s].cap, new, st.seqs[s].shared.rows, st.seqs[s].written)
        <5> HIDE DEF new
        <5> QED
          BY SlotForm
      <4>3. cell(k + 1, s) = new
        <5>1. cell(k, s) = m.from + (st.seqs[s].shared.cell - st.seqs[m.seq].start)
          BY <2>3, <3>2 DEF cell
        <5>2. cell(k + 1, s) = m.to + (st.seqs[s].shared.cell - st.seqs[m.seq].start)
          BY <2>3, <3>2 DEF cell
        <5>3. st.seqs[s].shared.cell \in Nat /\ st.seqs[m.seq].start \in Nat
          BY <1>5, <2>2
        <5> QED
          BY <2>4, <5>1, <5>2, <5>3
      <4>4. at(k + 1, s) = at(k, s)
        BY <2>3, <3>2
      <4> QED
        BY <4>1, <4>2, <4>3, <4>4
    <3>3. CASE s # m.seq /\ ~(st.seqs[s].shared.rows > 0 /\ L[s] = m.seq)
      <4>1. Renumbered(kv, m, s) = slot(k, s)
        <5> HIDE DEF slot
        <5> QED
          BY <2>5, <2>7, <3>3 DEF Renumbered
      <4>2. at(k + 1, s) = at(k, s)
        BY <2>3, <3>3
      <4>3. cell(k + 1, s) = cell(k, s)
        <5>1. CASE st.seqs[s].shared.rows > 0
          <6>1. L[s] \in D \ {m.seq}
            BY <1>8, <3>3, <5>1
          <6> QED
            BY <2>3, <5>1, <6>1 DEF cell
        <5>2. CASE ~(st.seqs[s].shared.rows > 0)
          BY <5>2 DEF cell
        <5> QED
          BY <5>1, <5>2
      <4> QED
        BY <4>1, <4>2, <4>3
    <3> QED
      BY <3>1, <3>2, <3>3
  <2>10. ApplyMove(Ok(kv), m) = Ok(StoreOf(Table(k + 1), P, d))
    <3> HIDE DEF slot
    <3>1. DOMAIN Table(k) = D
      OBVIOUS
    <3>2. [s \in D |-> Renumbered(kv, m, s)] = Table(k + 1)
      BY <2>9
    <3>3. ApplyMove(Ok(kv), m) =
             Ok(StoreOf([s \in DOMAIN Table(k) |-> Renumbered(kv, m, s)], P, d))
      <4> DEFINE X == Table(k)
      <4> HIDE DEF Table, X
      <4> QED
        BY <2>8, OneMove DEF kv
    <3> QED
      BY <3>1, <3>2, <3>3
  <2>11. \A c \in Cells : O[c] = m.seq => m.from <= c /\ c < m.from + m.rows
    BY <1>7, <1>11, <2>2, <2>3, MarksAssumption
  <2>12. ASSUME NEW c \in Cells, m.from <= c, c < m.from + m.rows PROVE O[c] \in {m.seq, Free}
    <3> SUFFICES ASSUME O[c] # Free, O[c] # m.seq PROVE FALSE
      OBVIOUS
    <3>1. O[c] \in D /\ at(k, O[c]) <= c /\ c < at(k, O[c]) + W(O[c])
      BY <1>11
    <3>2. at(k, O[c]) + W(O[c]) <= m.from \/ m.from + m.rows <= at(k, O[c])
      BY <1>4, <2>1, <2>2, <2>3, <3>1
    <3>3. at(k, O[c]) \in Nat /\ W(O[c]) \in Nat /\ c \in Nat
      BY <1>4, <1>5, <2>1, <3>1 DEF Cells
    <3> QED
      BY <2>4, <2>12, <3>1, <3>2, <3>3
  <2>13. /\ P \in [Cells -> SeqIds \cup {Free}]
         /\ \A c \in Cells : P[c] = m.seq => m.to <= c /\ c < m.to + m.rows
         /\ \A c \in Cells : P[c] \notin {m.seq, Free} => P[c] = O[c]
    <3>1. m.seq \in SeqIds
      BY <1>7, <2>2
    <3> QED
      BY <2>4, <2>11, <2>12, <3>1, StampsMove
  <2> HIDE DEF P
  <2>14. Owned(k + 1, P)
    <3> SUFFICES ASSUME NEW c \in Cells, P[c] # Free
                 PROVE  P[c] \in D /\ at(k + 1, P[c]) <= c /\ c < at(k + 1, P[c]) + W(P[c])
      OBVIOUS
    <3>1. CASE P[c] = m.seq
      BY <2>2, <2>3, <2>13, <3>1
    <3>2. CASE P[c] # m.seq
      <4>1. P[c] = O[c] /\ O[c] # Free
        BY <2>13, <3>2
      <4> QED
        BY <1>11, <2>3, <3>2, <4>1
    <3> QED
      BY <3>1, <3>2
  <2> QED
    BY <2>10, <2>13, <2>14 DEF m, P, kv
<1> DEFINE Done(k) == \E O \in [Cells -> SeqIds \cup {Free}] :
                         Owned(k, O) /\ f[k] = Ok(StoreOf(Table(k), O, d))
           S == {k \in 0 .. N : Done(k)}
<1>12. Done(0)
  <2>1. Owned(0, st.owner)
    BY <1>3 DEF Stamped, W
  <2> HIDE DEF Table
  <2> QED
    BY <1>2, <1>9, <2>1
<1> HIDE DEF Owned, Table
<1>13. ASSUME NEW k \in 0 .. N - 1, Done(k) PROVE Done(k + 1)
  <2>1. PICK O \in [Cells -> SeqIds \cup {Free}] :
            Owned(k, O) /\ f[k] = Ok(StoreOf(Table(k), O, d))
    BY <1>13
  <2>2. k + 1 \in 1 .. N /\ (k + 1) - 1 = k
    BY <1>1
  <2>3. f[k + 1] = ApplyMove(f[k], ord[k + 1])
    BY <1>2, <2>2
  <2>4. f[k + 1] = Ok(StoreOf(Table(k + 1), MovedStamps(O, ord[k + 1]), d))
    BY <1>11, <2>1, <2>3
  <2> QED
    BY <1>11, <2>1, <2>4
<1> HIDE DEF Done
<1>14. 0 \in S /\ \A n \in 0 .. N - 1 : n \in S => n + 1 \in S
  BY <1>1, <1>12, <1>13
<1> HIDE DEF S
<1>15. Done(N)
  <2>1. N \in Nat /\ N \in 0 .. N
    BY <1>1
  <2>2. \A n \in 0 .. N : n \in S
    BY <1>14, <2>1, Induct
  <2> QED
    BY <2>1, <2>2 DEF S
<1>16. PICK O \in [Cells -> SeqIds \cup {Free}] :
           Owned(N, O) /\ f[N] = Ok(StoreOf(Table(N), O, d))
  BY <1>15 DEF Done
<1>17. N \in 0 .. N
  BY <1>1
<1>18. ASSUME NEW s \in D
       PROVE  /\ Table(N)[s].start = PlannedStart(st, moves, s) /\ Table(N)[s].cap = st.seqs[s].cap
              /\ Table(N)[s].shared.rows = st.seqs[s].shared.rows
              /\ Table(N)[s].written = st.seqs[s].written
              /\ Table(N)[s].shared.cell = cell(N, s)
              /\ Table(N)[s] \in SeqSlots
  <2>1. Table(N)[s] = slot(N, s)
    BY DEF Table
  <2> HIDE DEF cell
  <2>2. /\ Table(N)[s].start = PlannedStart(st, moves, s) /\ Table(N)[s].cap = st.seqs[s].cap
        /\ Table(N)[s].shared.rows = st.seqs[s].shared.rows
        /\ Table(N)[s].written = st.seqs[s].written
        /\ Table(N)[s].shared.cell = cell(N, s)
    BY <1>3, <2>1, SlotForm
  <2>3. cell(N, s) \in Cells
    <3>1. CASE st.seqs[s].shared.rows > 0
      <4>1. /\ cell(N, s) \in Nat /\ cell(N, s) + st.seqs[s].shared.rows <= at(N, L[s]) + W(L[s])
            /\ L[s] \in D
        BY <1>8, <1>10, <1>17, <3>1
      <4>2. at(N, L[s]) + W(L[s]) <= NCtx /\ at(N, L[s]) \in Nat /\ W(L[s]) \in Nat
            /\ st.seqs[s].shared.rows \in Nat
        BY <1>4, <1>5, <1>17, <4>1
      <4> QED
        BY <3>1, <4>1, <4>2, NCtxAssumption DEF Cells
    <3>2. CASE ~(st.seqs[s].shared.rows > 0)
      <4>1. st.seqs[s].shared.cell \in Cells
        BY DEF Movable, IsTable, SeqSlots
      <4> QED
        BY <3>2, <4>1 DEF cell
    <3> QED
      BY <3>1, <3>2
  <2>4. at(N, s) \in Cells
    <3>1. at(N, s) \in Nat /\ at(N, s) + st.seqs[s].cap <= NCtx
      BY <1>3 DEF Plan
    <3>2. st.seqs[s].cap \in Nat /\ st.seqs[s].cap >= 1
      BY SlotFacts DEF Movable
    <3> QED
      BY <3>1, <3>2, NCtxAssumption DEF Cells
  <2>5. st.seqs[s].cap \in 1 .. NCtx /\ st.seqs[s].shared.rows \in 0 .. NCtx
        /\ st.seqs[s].written \in 0 .. 2 * NCtx
    BY DEF Movable, IsTable, SeqSlots
  <2>6. slot(N, s) \in SeqSlots
    BY <2>3, <2>4, <2>5 DEF SlotOf, SeqSlots
  <2> QED
    BY <2>1, <2>2, <2>6
<1>19. Table(N) \in [D -> SeqSlots]
  <2>1. Table(N) = [s \in D |-> Table(N)[s]]
    BY DEF Table
  <2> QED
    BY <1>18, <2>1
<1>20. ASSUME NEW t \in D, st.seqs[t].shared.rows > 0
       PROVE  \E u \in D : /\ Lends(st, u, t)
                           /\ Table(N)[t].shared.cell = PlannedStart(st, moves, u)
                                                  + (st.seqs[t].shared.cell - st.seqs[u].start)
  <2>1. L[t] \in D /\ Lends(st, L[t], t)
    BY <1>8, <1>20
  <2>2. Table(N)[t].shared.cell = PlannedStart(st, moves, L[t])
                                    + (st.seqs[t].shared.cell - st.seqs[L[t]].start)
    BY <1>3, <1>18, <1>20, <2>1
  <2> QED
    BY <2>1, <2>2
<1>21. \A c \in Cells : O[c] # Free =>
          /\ O[c] \in D /\ PlannedStart(st, moves, O[c]) <= c
          /\ c < PlannedStart(st, moves, O[c]) + PrivateWritten(st.seqs[O[c]])
  BY <1>3, <1>16 DEF Owned, W
<1>22. MoveLoop!Fold(0, Ok(StoreOf(st.seqs, st.owner, d)), ord) = Ok(StoreOf(Table(N), O, d))
  BY <1>2, <1>16
<1> QED
  BY <1>18, <1>19, <1>20, <1>21, <1>22 DEF ord

(* Every position a sequence has written reads the same row. *)
SameRows(st, st2) ==
    \A s \in Live(st) : \A p \in 0 .. st.seqs[s].written - 1 : RowAt(st2, s, p) = RowAt(st, s, p)

(* The store after a plan: every run at its planned place with what it had, *)
(* its stamps and loans with it, and every position reading the same row.   *)
Relocated(V, st, st2, moves) ==
    /\ IsStore(st2, V) /\ Live(st2) = Live(st)
    /\ \A s \in Live(st) :
          /\ st2.seqs[s].start = PlannedStart(st, moves, s) /\ st2.seqs[s].cap = st.seqs[s].cap
          /\ st2.seqs[s].shared.rows = st.seqs[s].shared.rows
          /\ st2.seqs[s].written = st.seqs[s].written
    /\ Stamped(st2) /\ Lent(st2) /\ SameRows(st, st2)

(* A plan passes the checks move_runs makes before it touches a row. *)
LEMMA PlanValid ==
  ASSUME NEW st, Movable(st), NEW moves, Plan(st, moves)
  PROVE  MovesValid(st, moves)
<1> DEFINE at(s) == PlannedStart(st, moves, s)
           run(s) == at(s) .. at(s) + st.seqs[s].cap - 1
<1>1. /\ \A s \in Live(st) : at(s) \in Nat /\ at(s) + st.seqs[s].cap <= NCtx
      /\ \A s, t \in Live(st) : st.seqs[s].start < st.seqs[t].start => at(s) + st.seqs[s].cap <= at(t)
  BY DEF Plan
<1>2. \A s \in Live(st) : st.seqs[s].start \in Nat /\ st.seqs[s].cap \in Nat
  BY SlotFacts DEF Movable
<1>3. \A m \in moves : m.rows <= st.seqs[m.seq].cap
  BY DEF Plan, Movable
<1> HIDE DEF at
<1>4. \A s \in Live(st) : run(s) \subseteq Cells
  BY <1>1, <1>2, NCtxAssumption DEF Cells
<1>5. ASSUME NEW s \in Live(st), NEW t \in Live(st), s # t PROVE run(s) \cap run(t) = {}
  <2>1. at(s) + st.seqs[s].cap <= at(t) \/ at(t) + st.seqs[t].cap <= at(s)
    <3>1. st.seqs[s].start # st.seqs[t].start
      BY <1>5 DEF Movable, Distinct
    <3> QED
      BY <1>1, <1>2, <3>1
  <2> DEFINE a == at(s)
             b == at(t)
             m == st.seqs[s].cap
             n == st.seqs[t].cap
  <2>2. a \in Int /\ b \in Int /\ m \in Int /\ n \in Int /\ (a + m <= b \/ b + n <= a)
    BY <1>1, <1>2, <2>1
  <2> HIDE DEF a, b, m, n
  <2>3. (a .. a + m - 1) \cap (b .. b + n - 1) = {}
    BY <2>2, IntervalsApart
  <2> QED
    BY <2>3 DEF a, b, m, n
<1> HIDE DEF run
<1> QED
  BY <1>3, <1>4, <1>5 DEF MovesValid, run, at

(* move_runs, once its checks passed, is its two loops: every copy, then    *)
(* every renumbering.                                                       *)
LEMMA MoveRunsIs ==
  ASSUME NEW V, NEW st, IsStore(st, V), NEW moves, MovesValid(st, moves)
  PROVE  MoveRuns(st, moves) =
            MoveLoop!Fold(0, Ok(StoreOf(st.seqs, st.owner,
                                        CopyLoop!Fold(0, st.data, OrderMoves(moves)))), OrderMoves(moves))
<1> DEFINE ord == OrderMoves(moves)
           d == CopyLoop!Fold(0, st.data, ord)
           q == [st EXCEPT !.data = d]
<1>1. Through(LAMBDA x, m : CopyCells(x, m.to, m.from, m.rows), st.data, ord) = d
  <2> HIDE DEF ord
  <2> QED
    BY DEF Through, CopyLoop!Fold, CopyStep, The, CopyLoop!The
<1>2. CopyRuns(st, ord) = q
  <2> HIDE DEF ord, d
  <2> QED
    BY <1>1 DEF CopyRuns
<1>3. q = StoreOf(st.seqs, st.owner, d)
  <2> DEFINE a == st.seqs
             b == st.owner
             c == st.data
  <2> HIDE DEF d
  <2>1. st = [seqs |-> a, owner |-> b, data |-> c]
    BY DEF IsStore
  <2> HIDE DEF a, b, c
  <2>2. q \in [seqs : {a}, owner : {b}, data : {d}]
    BY <2>1
  <2> HIDE DEF q
  <2>3. q = [seqs |-> a, owner |-> b, data |-> d]
    BY <2>2
  <2> QED
    BY <2>3 DEF StoreOf, a, b
<1>4. MoveRuns(st, moves) = Through(ApplyMove, Ok(CopyRuns(st, ord)), ord)
  BY DEF MoveRuns, The
<1>5. Through(ApplyMove, Ok(CopyRuns(st, ord)), ord) = MoveLoop!Fold(0, Ok(CopyRuns(st, ord)), ord)
  <2> HIDE DEF ord
  <2> QED
    BY DEF Through, MoveLoop!Fold, MoveStep, The, MoveLoop!The
<1> HIDE DEF ord, d, q
<1>6. MoveRuns(st, moves) = MoveLoop!Fold(0, Ok(StoreOf(st.seqs, st.owner, d)), ord)
  BY <1>2, <1>3, <1>4, <1>5
<1> QED
  BY <1>6 DEF ord, d

(* Compaction loses no row: on any plan, move_runs succeeds, and every      *)
(* sequence reads at every position it has written, own or borrowed, the    *)
(* row it read before. The order of the copies is what the proof turns on:  *)
(* no copy overwrites rows that still wait to move, whichever way each run  *)
(* goes.                                                                    *)
THEOREM MovesKeepStore ==
  ASSUME NEW V, NEW st, IsStore(st, V), Movable(st), Stamped(st), Lent(st),
         NEW moves, Plan(st, moves)
  PROVE  \E st2 : MoveRuns(st, moves) = Ok(st2) /\ Relocated(V, st, st2, moves)
<1> DEFINE d == CopyLoop!Fold(0, st.data, OrderMoves(moves))
           D == Live(st)
           W(s) == PrivateWritten(st.seqs[s])
           to(s) == PlannedStart(st, moves, s)
<1>1. /\ d \in [Cells -> V]
      /\ \A s \in D : \A i \in 0 .. W(s) - 1 : d[to(s) + i] = st.data[st.seqs[s].start + i]
  <2>1. st.data \in [Cells -> V]
    BY DEF IsStore
  <2>2. /\ CopyLoop!Fold(0, st.data, OrderMoves(moves)) \in [Cells -> V]
        /\ Landed(st, moves, CopyLoop!Fold(0, st.data, OrderMoves(moves)))
    BY <2>1, CopiesKeepRows
  <2>3. d \in [Cells -> V] /\ Landed(st, moves, d)
    BY <2>2
  <2> HIDE DEF d
  <2> QED
    BY <2>3 DEF Landed
<1>2. st.owner \in [Cells -> SeqIds \cup {Free}]
  BY DEF IsStore
<1>3. MoveRuns(st, moves) = MoveLoop!Fold(0, Ok(StoreOf(st.seqs, st.owner, d)), OrderMoves(moves))
  BY PlanValid, MoveRunsIs
<1> HIDE DEF d
<1>4. PICK T, O :
            /\ MoveLoop!Fold(0, Ok(StoreOf(st.seqs, st.owner, d)), OrderMoves(moves)) = Ok(StoreOf(T, O, d))
            /\ T \in [D -> SeqSlots]
            /\ O \in [Cells -> SeqIds \cup {Free}]
            /\ \A s \in D :
                  /\ T[s].start = to(s) /\ T[s].cap = st.seqs[s].cap
                  /\ T[s].shared.rows = st.seqs[s].shared.rows /\ T[s].written = st.seqs[s].written
            /\ \A t \in D : st.seqs[t].shared.rows > 0 => \E u \in D :
                  /\ Lends(st, u, t)
                  /\ T[t].shared.cell = to(u) + (st.seqs[t].shared.cell - st.seqs[u].start)
            /\ \A c \in Cells : O[c] # Free =>
                  /\ O[c] \in D /\ to(O[c]) <= c
                  /\ c < to(O[c]) + W(O[c])
  BY <1>2, RenumbersRuns
<1> DEFINE st2 == StoreOf(T, O, d)
<1>5. st2.seqs = T /\ st2.owner = O /\ st2.data = d
      /\ st2 = [seqs |-> st2.seqs, owner |-> st2.owner, data |-> st2.data]
  BY DEF StoreOf
<1>6. Live(st2) = D
  BY <1>4, <1>5 DEF Live
<1>7. D \subseteq SeqIds
  BY DEF Movable, IsTable
<1> HIDE DEF st2
<1>8. IsStore(st2, V)
  BY <1>1, <1>4, <1>5, <1>6, <1>7 DEF IsStore, IsTable
<1>9. \A s \in D :
         /\ W(s) \in Nat /\ to(s) \in Nat /\ st.seqs[s].start \in Nat
         /\ st.seqs[s].shared.cell \in Nat /\ st.seqs[s].shared.rows \in Nat
         /\ st.seqs[s].written \in Nat
         /\ W(s) = IF st.seqs[s].written >= st.seqs[s].shared.rows
                   THEN st.seqs[s].written - st.seqs[s].shared.rows ELSE 0
         /\ PrivateWritten(st2.seqs[s]) = W(s)
  <2> SUFFICES ASSUME NEW s \in D
               PROVE  /\ W(s) \in Nat /\ to(s) \in Nat /\ st.seqs[s].start \in Nat
                      /\ st.seqs[s].shared.cell \in Nat /\ st.seqs[s].shared.rows \in Nat
                      /\ st.seqs[s].written \in Nat
                      /\ W(s) = IF st.seqs[s].written >= st.seqs[s].shared.rows
                                THEN st.seqs[s].written - st.seqs[s].shared.rows ELSE 0
                      /\ PrivateWritten(st2.seqs[s]) = W(s)
    OBVIOUS
  <2>1. to(s) \in Nat
    BY DEF Plan
  <2>2. PrivateWritten(st2.seqs[s]) = W(s)
    BY <1>4, <1>5 DEF PrivateWritten
  <2> QED
    BY <2>1, <2>2, SlotFacts DEF Movable
<1> HIDE DEF W, to
<1>10. Stamped(st2)
  BY <1>4, <1>5, <1>6, <1>9 DEF Stamped
<1>11. ASSUME NEW t \in D, NEW u \in D, Lends(st, u, t),
              T[t].shared.cell = to(u) + (st.seqs[t].shared.cell - st.seqs[u].start)
       PROVE  Lends(st2, u, t)
  BY <1>4, <1>5, <1>9, <1>11 DEF Lends
<1>12. Lent(st2)
  <2> SUFFICES ASSUME NEW t \in D, st2.seqs[t].shared.rows > 0 PROVE \E u \in D : Lends(st2, u, t)
    BY <1>6 DEF Lent
  <2> QED
    BY <1>4, <1>5, <1>11
<1>13. SameRows(st, st2)
  <2> SUFFICES ASSUME NEW s \in D, NEW p \in 0 .. st.seqs[s].written - 1
               PROVE  d[CellOf(T[s], p)] = st.data[CellOf(st.seqs[s], p)]
    BY <1>5 DEF SameRows, RowAt
  <2>1. CASE p < st.seqs[s].shared.rows
    <3>1. PICK u \in D : /\ Lends(st, u, s)
                         /\ T[s].shared.cell = to(u) + (st.seqs[s].shared.cell - st.seqs[u].start)
      <4>1. st.seqs[s].shared.rows > 0
        BY <1>9, <2>1
      <4> QED
        BY <1>4, <4>1
    <3> DEFINE i == (st.seqs[s].shared.cell - st.seqs[u].start) + p
    <3>2. i \in 0 .. W(u) - 1
      BY <1>9, <2>1, <3>1 DEF Lends
    <3>3. CellOf(st.seqs[s], p) = st.seqs[u].start + i
      BY <1>9, <2>1 DEF CellOf
    <3>4. CellOf(T[s], p) = to(u) + i
      BY <1>4, <1>9, <2>1, <3>1 DEF CellOf
    <3> HIDE DEF i
    <3> QED
      BY <1>1, <3>2, <3>3, <3>4 DEF to, W
  <2>2. CASE ~(p < st.seqs[s].shared.rows)
    <3> DEFINE i == p - st.seqs[s].shared.rows
    <3>1. i \in 0 .. W(s) - 1
      BY <1>9, <2>2
    <3>2. CellOf(st.seqs[s], p) = st.seqs[s].start + i
      BY <2>2 DEF CellOf
    <3>3. CellOf(T[s], p) = to(s) + i
      BY <1>4, <2>2 DEF CellOf
    <3> HIDE DEF i
    <3> QED
      BY <1>1, <3>1, <3>2, <3>3 DEF to, W
  <2> QED
    BY <2>1, <2>2
<1>14. Relocated(V, st, st2, moves)
  BY <1>4, <1>5, <1>6, <1>8, <1>10, <1>12, <1>13 DEF Relocated, to
<1>15. MoveRuns(st, moves) = Ok(st2)
  BY <1>3, <1>4 DEF st2
<1> QED
  BY <1>14, <1>15

-----------------------------------------------------------------------------
(* The calls on the arena, one by one. *)

(* A sequence has written no more rows than its address space holds. *)
Fits(st) == \A s \in Live(st) : st.seqs[s].written <= st.seqs[s].shared.rows + st.seqs[s].cap

(* What every call keeps: types, runs apart and inside the arena, no        *)
(* sequence written past its address space, stamps only on written rows,    *)
(* and every prefix read in place lent by a sequence that borrows nothing.  *)
Good(st, V) == IsStore(st, V) /\ Separate(st) /\ Fits(st) /\ Stamped(st) /\ Lent(st)

(* s keeps its run, what it wrote and what it borrows. *)
Untouched(st, st2, s) ==
    /\ s \in Live(st2)
    /\ st2.seqs[s].written = st.seqs[s].written
    /\ st2.seqs[s].shared.rows = st.seqs[s].shared.rows
    /\ \A p \in 0 .. st.seqs[s].written - 1 : RowAt(st2, s, p) = RowAt(st, s, p)

(* The numbers in the slots of a good store. *)
LEMMA GoodFacts ==
  ASSUME NEW V, NEW st, Good(st, V)
  PROVE  /\ IsTable(st) /\ Distinct(st) /\ Movable(st)
         /\ \A s \in Live(st) :
               /\ st.seqs[s].start \in Nat /\ st.seqs[s].cap \in Nat /\ st.seqs[s].cap >= 1
               /\ st.seqs[s].shared.cell \in Nat /\ st.seqs[s].shared.rows \in Nat
               /\ st.seqs[s].written \in Nat
               /\ st.seqs[s].written <= st.seqs[s].shared.rows + st.seqs[s].cap
               /\ st.seqs[s].start + st.seqs[s].cap <= NCtx
               /\ PrivateWritten(st.seqs[s]) = IF st.seqs[s].written >= st.seqs[s].shared.rows
                                         THEN st.seqs[s].written - st.seqs[s].shared.rows ELSE 0
         /\ \A s, t \in Live(st) : s # t =>
               \/ st.seqs[s].start + st.seqs[s].cap <= st.seqs[t].start
               \/ st.seqs[t].start + st.seqs[t].cap <= st.seqs[s].start
<1>1. IsTable(st)
  BY DEF Good, IsStore
<1>2. Distinct(st)
  BY DEF Good, Separate, Distinct
<1>3. \A s \in Live(st) :
               /\ st.seqs[s].start \in Nat /\ st.seqs[s].cap \in Nat /\ st.seqs[s].cap >= 1
               /\ st.seqs[s].shared.cell \in Nat /\ st.seqs[s].shared.rows \in Nat
               /\ st.seqs[s].written \in Nat
               /\ PrivateWritten(st.seqs[s]) = IF st.seqs[s].written >= st.seqs[s].shared.rows
                                         THEN st.seqs[s].written - st.seqs[s].shared.rows ELSE 0
  BY <1>1, SlotFacts
<1>4. \A s \in Live(st) :
               /\ st.seqs[s].written <= st.seqs[s].shared.rows + st.seqs[s].cap
               /\ st.seqs[s].start + st.seqs[s].cap <= NCtx
  BY DEF Good, Fits, Separate
<1>5. \A s, t \in Live(st) : s # t =>
               \/ st.seqs[s].start + st.seqs[s].cap <= st.seqs[t].start
               \/ st.seqs[t].start + st.seqs[t].cap <= st.seqs[s].start
  BY <1>3 DEF Good, Separate
<1>6. \A s \in Live(st) : /\ PrivateWritten(st.seqs[s]) <= st.seqs[s].cap
                          /\ st.seqs[s].start + PrivateWritten(st.seqs[s]) <= NCtx
  BY <1>3, <1>4, NCtxAssumption
<1>7. \A s, t \in Live(st) : st.seqs[s].start < st.seqs[t].start
          => st.seqs[s].start + PrivateWritten(st.seqs[s]) <= st.seqs[t].start
  BY <1>3, <1>4, <1>5
<1>8. Movable(st)
  BY <1>1, <1>2, <1>6, <1>7 DEF Movable
<1> QED
  BY <1>1, <1>2, <1>3, <1>4, <1>5, <1>8

(* Two calls that leave s alone leave it alone. *)
LEMMA UntouchedChain ==
  ASSUME NEW a, NEW b, NEW c, NEW s, Untouched(a, b, s), Untouched(b, c, s)
  PROVE  Untouched(a, c, s)
BY DEF Untouched

(* A nonempty set of cells has a least one. *)
LEMMA MinIn == ASSUME NEW S \in SUBSET Nat, S # {} PROVE Min(S) \in S
<1>1. PICK x \in S : \A y \in S : x <= y
  BY MoveLoop!LeastNat
<1> QED
  BY <1>1 DEF Min

(* reserve_seq takes the first gap that is wide enough, or changes nothing. *)
LEMMA ReserveOnce ==
  ASSUME NEW V, NEW st, Good(st, V), NEW s \in SeqIds, NEW cap \in 1 .. NCtx,
         NEW st2, st2 = ReserveSeq(st, s, cap).kv
  PROVE  /\ Good(st2, V)
         /\ \A t \in Live(st) : Untouched(st, st2, t)
         /\ \A t \in Live(st2) \ Live(st) : st2.seqs[t].shared.rows = 0
<1>1. CASE s \in Live(st) \/ FirstFit(st, cap) = {}
  <2>1. ReserveSeq(st, s, cap) \in {Ok(st), Err(st)}
    BY <1>1 DEF ReserveSeq
  <2>2. st2 = st
    BY <2>1 DEF Ok, Err
  <2> QED
    BY <2>2 DEF Untouched
<1>2. CASE s \notin Live(st) /\ FirstFit(st, cap) # {}
  <2> DEFINE c == Min(FirstFit(st, cap))
             slot == SeqSlot(c, cap)
             T == [t \in Live(st) \cup {s} |-> IF t = s THEN slot ELSE st.seqs[t]]
  <2>1. c \in FirstFit(st, cap)
    <3>1. FirstFit(st, cap) \in SUBSET Nat
      BY NCtxAssumption DEF FirstFit, Cells
    <3> QED
      BY <1>2, <3>1, MinIn
  <2> HIDE DEF c
  <2>2. st2 = SetSlot(st, s, slot)
    <3>1. cap # 0
      BY NCtxAssumption
    <3>2. ReserveSeq(st, s, cap) = Ok(SetSlot(st, s, slot))
      BY <1>2, <3>1 DEF ReserveSeq, c
    <3> QED
      BY <3>2 DEF Ok
  <2>3. /\ st2.seqs = T /\ st2.owner = st.owner /\ st2.data = st.data
        /\ st2 = [seqs |-> T, owner |-> st.owner, data |-> st.data]
    <3> DEFINE A == st.seqs
               B == st.owner
               D == st.data
    <3>1. st = [seqs |-> A, owner |-> B, data |-> D]
      BY DEF Good, IsStore
    <3>2. st2 = [st EXCEPT !.seqs = T]
      BY <2>2 DEF SetSlot
    <3> HIDE DEF A, B, D, T
    <3>3. st2 \in [seqs : {T}, owner : {B}, data : {D}]
      BY <3>1, <3>2
    <3>4. st2 = [seqs |-> T, owner |-> B, data |-> D]
      BY <3>3
    <3> QED
      BY <3>4 DEF B, D
  <2>4. /\ Live(st2) = Live(st) \cup {s}
        /\ st2.seqs[s] = slot
        /\ \A t \in Live(st) : st2.seqs[t] = st.seqs[t]
    BY <1>2, <2>3 DEF Live
  <2>5. c \in Nat /\ c + cap <= NCtx /\ c \in Cells
    BY <2>1, NCtxAssumption DEF FirstFit, Cells
  <2>6. /\ slot \in SeqSlots
        /\ slot.start = c /\ slot.cap = cap /\ slot.shared.rows = 0 /\ slot.written = 0
    BY <2>5, NCtxAssumption DEF SeqSlot, SeqSlots, Cells
  <2> HIDE DEF slot
  <2>7. IsStore(st2, V)
    <3>1. st.seqs \in [Live(st) -> SeqSlots] /\ Live(st) \subseteq SeqIds
      BY DEF Good, IsStore, IsTable
    <3>2. T \in [Live(st) \cup {s} -> SeqSlots]
      BY <2>6, <3>1
    <3>3. IsTable(st2)
      BY <2>3, <2>4, <3>1, <3>2 DEF IsTable
    <3> HIDE DEF T
    <3> QED
      BY <2>3, <3>3 DEF Good, IsStore
  <2> HIDE DEF T
  <2>8. \A t \in Live(st) :
           \/ st.seqs[t].start + st.seqs[t].cap <= c
           \/ c + cap <= st.seqs[t].start
    <3> SUFFICES ASSUME NEW t \in Live(st),
                        ~(st.seqs[t].start + st.seqs[t].cap <= c),
                        ~(c + cap <= st.seqs[t].start)
                 PROVE  FALSE
      OBVIOUS
    <3> DEFINE x == st.seqs[t].start
               n == st.seqs[t].cap
               sp == [base |-> st.seqs[t].shared.rows, cell |-> x, len |-> n]
               y == IF x <= c THEN c ELSE x
    <3>1. x \in Nat /\ n \in Nat /\ n >= 1
      BY GoodFacts
    <3>2. sp \in Spans(st.seqs[t]) /\ sp.cell = x /\ sp.len = n
      BY <3>1 DEF Spans
    <3>3. (x .. x + n - 1) \subseteq Occupied(st)
      <4> HIDE DEF sp, x, n
      <4> QED
        BY <3>2 DEF Occupied
    <3>4. y \in x .. x + n - 1 /\ y \in c .. c + cap - 1
      BY <2>5, <3>1
    <3>5. (c .. c + cap - 1) \cap Occupied(st) = {}
      BY <2>1 DEF FirstFit
    <3> QED
      BY <3>3, <3>4, <3>5
  <2>9. Separate(st2)
    <3>1. \A t \in Live(st) : st.seqs[t].start \in Nat /\ st.seqs[t].cap \in Nat
                              /\ st.seqs[t].cap >= 1
      BY GoodFacts
    <3>2. \A t \in Live(st2) : st2.seqs[t].start + st2.seqs[t].cap <= NCtx
      BY <2>4, <2>5, <2>6 DEF Good, Separate
    <3>3. cap \in Nat /\ cap >= 1
      BY NCtxAssumption
    <3>4. ASSUME NEW t \in Live(st2), NEW u \in Live(st2), t # u
          PROVE  st2.seqs[t].start # st2.seqs[u].start
      <4>1. CASE t \in Live(st) /\ u \in Live(st)
        BY <2>4, <3>4, <4>1 DEF Good, Separate
      <4>2. CASE t = s
        BY <2>4, <2>5, <2>6, <2>8, <3>1, <3>3, <3>4, <4>2
      <4>3. CASE u = s
        BY <2>4, <2>5, <2>6, <2>8, <3>1, <3>3, <3>4, <4>3
      <4> QED
        BY <2>4, <4>1, <4>2, <4>3
    <3>5. ASSUME NEW t \in Live(st2), NEW u \in Live(st2),
                 st2.seqs[t].start < st2.seqs[u].start
          PROVE  st2.seqs[t].start + st2.seqs[t].cap <= st2.seqs[u].start
      <4>1. CASE t \in Live(st) /\ u \in Live(st)
        BY <2>4, <3>5, <4>1 DEF Good, Separate
      <4>2. CASE t = s /\ u # s
        BY <2>4, <2>5, <2>6, <2>8, <3>1, <3>3, <3>5, <4>2
      <4>3. CASE u = s /\ t # s
        BY <2>4, <2>5, <2>6, <2>8, <3>1, <3>3, <3>5, <4>3
      <4>4. CASE u = s /\ t = s
        BY <2>4, <2>5, <2>6, <3>5, <4>4
      <4> QED
        BY <2>4, <4>1, <4>2, <4>3, <4>4
    <3> QED
      BY <3>2, <3>4, <3>5 DEF Separate
  <2>10. Fits(st2)
    BY <2>4, <2>6 DEF Good, Fits
  <2>11. Stamped(st2)
    BY <2>3, <2>4 DEF Good, Stamped
  <2>12. Lent(st2)
    <3>1. \A t \in Live(st2) : st2.seqs[t].shared.rows > 0 => t \in Live(st)
      BY <2>4, <2>6
    <3>2. \A t, u \in Live(st) : Lends(st, u, t) => Lends(st2, u, t)
      BY <2>4 DEF Lends
    <3> QED
      BY <2>4, <3>1, <3>2 DEF Good, Lent
  <2>13. \A t \in Live(st) : Untouched(st, st2, t)
    BY <2>3, <2>4 DEF Untouched, RowAt
  <2>14. \A t \in Live(st2) \ Live(st) : st2.seqs[t].shared.rows = 0
    BY <2>4, <2>6
  <2> QED
    BY <2>7, <2>9, <2>10, <2>11, <2>12, <2>13, <2>14 DEF Good
<1> QED
  BY <1>1, <1>2

(* A store whose runs a plan moved is as good as before. *)
LEMMA RelocatedGood ==
  ASSUME NEW V, NEW st, IsTable(st), Distinct(st), Fits(st), NEW moves, Plan(st, moves),
         NEW st2, Relocated(V, st, st2, moves)
  PROVE  Good(st2, V) /\ \A t \in Live(st) : Untouched(st, st2, t)
<1>1. \A s \in Live(st) : st.seqs[s].start \in Nat
  BY SlotFacts
<1>1a. \A s \in Live(st) : st.seqs[s].cap \in Nat /\ st.seqs[s].cap >= 1
  BY SlotFacts
<1>2. /\ Live(st2) = Live(st)
      /\ \A s \in Live(st) :
          /\ st2.seqs[s].start = PlannedStart(st, moves, s) /\ st2.seqs[s].cap = st.seqs[s].cap
          /\ st2.seqs[s].shared.rows = st.seqs[s].shared.rows
          /\ st2.seqs[s].written = st.seqs[s].written
  BY DEF Relocated
<1>3. /\ \A s \in Live(st) : PlannedStart(st, moves, s) \in Nat
                           /\ PlannedStart(st, moves, s) + st.seqs[s].cap <= NCtx
      /\ \A s, t \in Live(st) : st.seqs[s].start < st.seqs[t].start
          => PlannedStart(st, moves, s) + st.seqs[s].cap <= PlannedStart(st, moves, t)
  BY DEF Plan
<1>4. \A s, t \in Live(st) : s # t =>
         \/ st2.seqs[s].start + st2.seqs[s].cap <= st2.seqs[t].start
         \/ st2.seqs[t].start + st2.seqs[t].cap <= st2.seqs[s].start
  <2> SUFFICES ASSUME NEW s \in Live(st), NEW t \in Live(st), s # t
               PROVE  \/ st2.seqs[s].start + st2.seqs[s].cap <= st2.seqs[t].start
                      \/ st2.seqs[t].start + st2.seqs[t].cap <= st2.seqs[s].start
    OBVIOUS
  <2>1. st.seqs[s].start < st.seqs[t].start \/ st.seqs[t].start < st.seqs[s].start
    BY <1>1 DEF Distinct
  <2> QED
    BY <1>2, <1>3, <2>1
<1>5. Separate(st2)
  <2>1. \A s \in Live(st) : /\ st2.seqs[s].start \in Nat /\ st2.seqs[s].cap \in Nat
                            /\ st2.seqs[s].cap >= 1
                            /\ st2.seqs[s].start + st2.seqs[s].cap <= NCtx
    BY <1>1a, <1>2, <1>3
  <2> QED
    BY <1>2, <1>4, <2>1 DEF Separate
<1>6. Fits(st2)
  BY <1>2 DEF Fits
<1>7. \A t \in Live(st) : Untouched(st, st2, t)
  BY <1>2 DEF Untouched, Relocated, SameRows
<1> QED
  BY <1>5, <1>6, <1>7 DEF Good, Relocated

(* kv_reserve_seq_with_defrag, compaction included, leaves every other      *)
(* sequence its rows.                                                       *)
LEMMA ReserveKeeps ==
  ASSUME NEW V, NEW st, Good(st, V), NEW s \in SeqIds, NEW cap \in 1 .. NCtx,
         NEW st2, st2 = KvReserveSeqWithDefrag(st, s, cap).kv
  PROVE  /\ Good(st2, V)
         /\ \A t \in Live(st) : Untouched(st, st2, t)
         /\ \A t \in Live(st2) \ Live(st) : st2.seqs[t].shared.rows = 0
<1>1. CASE ReserveSeq(st, s, cap).ok
  <2>1. st2 = ReserveSeq(st, s, cap).kv
    BY <1>1 DEF KvReserveSeqWithDefrag
  <2> QED
    BY <2>1, ReserveOnce
<1>2. CASE ~ReserveSeq(st, s, cap).ok
  <2> DEFINE moves == CompactionPlan(st, cap)
             res == Compacted(st, moves)
  <2>1. st2 = (IF res.ok THEN ReserveSeq(res.kv, s, cap) ELSE res).kv
    <3> HIDE DEF res
    <3>1. The({IF r.ok THEN ReserveSeq(r.kv, s, cap) ELSE r : r \in {res}})
            = IF res.ok THEN ReserveSeq(res.kv, s, cap) ELSE res
      BY DEF The
    <3> QED
      BY <1>2, <3>1 DEF KvReserveSeqWithDefrag, res
  <2>2. CASE ~Defrag \/ moves = {}
    <3>1. res = Err(st)
      BY <2>2 DEF Compacted
    <3>2. st2 = st
      BY <2>1, <3>1 DEF Err
    <3> QED
      BY <3>2 DEF Untouched
  <2>3. CASE ~(~Defrag \/ moves = {})
    <3>1. res = MoveRuns(st, moves)
      BY <2>3 DEF Compacted
    <3>2. Plan(st, moves)
      <4>1. IsTable(st) /\ Separate(st) /\ cap \in Nat
        BY NCtxAssumption DEF Good, IsStore
      <4> QED
        BY <4>1, ReservePlan
    <3> HIDE DEF moves
    <3>3. PICK st1 : MoveRuns(st, moves) = Ok(st1) /\ Relocated(V, st, st1, moves)
      <4>1. IsStore(st, V) /\ Movable(st) /\ Stamped(st) /\ Lent(st)
        BY GoodFacts DEF Good
      <4> QED
        BY <3>2, <4>1, MovesKeepStore
    <3>4. Good(st1, V) /\ \A t \in Live(st) : Untouched(st, st1, t)
      <4>1. IsTable(st) /\ Distinct(st) /\ Fits(st)
        BY GoodFacts DEF Good
      <4> QED
        BY <3>2, <3>3, <4>1, RelocatedGood
    <3>5. Live(st1) = Live(st)
      BY <3>3 DEF Relocated
    <3>6. res.ok /\ res.kv = st1
      BY <3>1, <3>3 DEF Ok
    <3>7. st2 = ReserveSeq(st1, s, cap).kv
      <4> HIDE DEF res
      <4> QED
        BY <2>1, <3>6
    <3>8. /\ Good(st2, V)
          /\ \A t \in Live(st1) : Untouched(st1, st2, t)
          /\ \A t \in Live(st2) \ Live(st1) : st2.seqs[t].shared.rows = 0
      BY <3>4, <3>5, <3>7, ReserveOnce
    <3> QED
      BY <3>4, <3>5, <3>8, UntouchedChain
  <2> QED
    BY <2>2, <2>3
<1> QED
  BY <1>1, <1>2

(* A resize that set_cap does not refuse reserves no more cells than the    *)
(* arena has.                                                               *)
LEMMA ResizeReserves ==
  ASSUME NEW V, NEW st, Good(st, V), NEW s \in Live(st), NEW cap \in 1 .. NCtx,
         ~SetCapRefused(st, s, cap), NEW q, IsTable(q), Live(q) = Live(st),
         q.seqs[s].cap = cap, \A t \in Live(st) \ {s} : q.seqs[t] = st.seqs[t]
  PROVE  ReservedCells(q) <= NCtx
<1> DEFINE S == Live(st) \ {s}
           n == Cardinality(CapCells(st, S))
<1>1. S \in SUBSET Live(st) /\ S \in SUBSET Live(q) /\ s \notin S /\ s \in Live(q)
      /\ Live(st) = S \cup {s} /\ Live(q) = S \cup {s} /\ IsTable(st)
  BY GoodFacts
<1>2. CapCells(q, S) = CapCells(st, S)
  BY DEF CapCells
<1> HIDE DEF S
<1>3. n \in Nat
  BY <1>1, CapFinite
<1>4. ReservedCells(st) = n + st.seqs[s].cap
  BY <1>1, CapAdds DEF ReservedCells
<1>5. ReservedCells(q) = n + cap
  <2>1. Cardinality(CapCells(q, S \cup {s})) = Cardinality(CapCells(q, S)) + q.seqs[s].cap
    BY <1>1, CapAdds
  <2> QED
    BY <1>1, <1>2, <2>1 DEF ReservedCells
<1>6. ReservedCells(st) <= NCtx
  BY <1>1, ReservedBelow DEF Good
<1>7. st.seqs[s].cap \in Nat
  BY GoodFacts
<1> HIDE DEF n
<1>8. CASE cap > st.seqs[s].cap
  <2>1. ReservedCells(st) - st.seqs[s].cap + cap <= NCtx
    BY <1>3, <1>4, <1>7, <1>8, NCtxAssumption DEF SetCapRefused
  <2> QED
    BY <1>3, <1>4, <1>5, <1>7, <2>1
<1> QED
  BY <1>3, <1>4, <1>5, <1>6, <1>7, <1>8, NCtxAssumption

(* kv_set_cap_with_defrag, in either direction and whatever it compacts or  *)
(* moves, leaves every sequence its rows, the resized one included.         *)
LEMMA ResizeKeeps ==
  ASSUME NEW V, NEW st, Good(st, V), NEW s \in Live(st), NEW cap \in 1 .. NCtx,
         NEW st2, st2 = KvSetCapWithDefrag(st, s, cap).kv
  PROVE  Good(st2, V) /\ Live(st2) = Live(st) /\ \A t \in Live(st) : Untouched(st, st2, t)
<1> DEFINE q == Resized(st, s, cap)
           moves == CompactionPlan(q, 0)
<1>0. ASSUME st2 = st
      PROVE  Good(st2, V) /\ Live(st2) = Live(st) /\ \A t \in Live(st) : Untouched(st, st2, t)
  BY <1>0 DEF Untouched
<1>1. CASE SetCapRefused(st, s, cap) \/ cap = st.seqs[s].cap
  <2>1. st2 = st
    BY <1>1 DEF KvSetCapWithDefrag, Err, Ok
  <2> QED
    BY <1>0, <2>1
<1>2. CASE ~SetCapRefused(st, s, cap) /\ cap # st.seqs[s].cap
  <2>1. st2 = Repacked(st, q, moves, cap).kv
    <3> HIDE DEF q
    <3>1. The({Repacked(st, r, CompactionPlan(r, 0), cap) : r \in {q}})
              = Repacked(st, q, CompactionPlan(q, 0), cap)
      BY DEF The
    <3> QED
      BY <1>2, <3>1 DEF KvSetCapWithDefrag, q
  <2>2. cap \in Nat /\ cap >= 1
    BY NCtxAssumption
  <2>3. /\ q.seqs = [st.seqs EXCEPT ![s].cap = cap] /\ q.owner = st.owner /\ q.data = st.data
        /\ q = [seqs |-> q.seqs, owner |-> q.owner, data |-> q.data]
    <3> DEFINE A == st.seqs
               B == st.owner
               D == st.data
               U == [A EXCEPT ![s].cap = cap]
    <3>1. st = [seqs |-> A, owner |-> B, data |-> D]
      BY DEF Good, IsStore
    <3>2. q = [st EXCEPT !.seqs[s].cap = cap]
      BY <2>2 DEF Resized
    <3> HIDE DEF A, B, D, q
    <3>3. q \in [seqs : {U}, owner : {B}, data : {D}]
      BY <3>1, <3>2
    <3> HIDE DEF U
    <3>4. q = [seqs |-> U, owner |-> B, data |-> D]
      BY <3>3
    <3>5. q.seqs = U /\ q.owner = B /\ q.data = D /\ q = [seqs |-> q.seqs, owner |-> q.owner, data |-> q.data]
      BY <3>4
    <3> QED
      BY <3>5 DEF A, B, D, U
  <2> HIDE DEF q
  <2>4. IsTable(st)
    BY GoodFacts
  <2>5. /\ Live(q) = Live(st) /\ IsTable(q)
        /\ q.seqs[s] = [st.seqs[s] EXCEPT !.cap = cap]
        /\ \A t \in Live(st) \ {s} : q.seqs[t] = st.seqs[t]
    <3> DEFINE A == st.seqs
    <3>1. A \in [Live(st) -> SeqSlots] /\ Live(st) \subseteq SeqIds
      BY <2>4 DEF IsTable
    <3>2. q.seqs = [A EXCEPT ![s].cap = cap]
      BY <2>3
    <3> HIDE DEF A
    <3>3. q.seqs \in [Live(st) -> SeqSlots]
      BY <3>1, <3>2 DEF SeqSlots
    <3>4. /\ q.seqs[s] = [A[s] EXCEPT !.cap = cap]
          /\ \A t \in Live(st) \ {s} : q.seqs[t] = A[t]
      BY <3>1, <3>2
    <3>5. Live(q) = Live(st)
      BY <3>3 DEF Live
    <3> QED
      BY <3>1, <3>3, <3>4, <3>5 DEF IsTable, A
  <2>6. \A t \in Live(st) :
           /\ q.seqs[t].start = st.seqs[t].start /\ q.seqs[t].shared = st.seqs[t].shared
           /\ q.seqs[t].written = st.seqs[t].written
           /\ q.seqs[t].cap = IF t = s THEN cap ELSE st.seqs[t].cap
           /\ PrivateWritten(q.seqs[t]) = PrivateWritten(st.seqs[t])
    <3> SUFFICES ASSUME NEW t \in Live(st)
                 PROVE  /\ q.seqs[t].start = st.seqs[t].start
                        /\ q.seqs[t].shared = st.seqs[t].shared
                        /\ q.seqs[t].written = st.seqs[t].written
                        /\ q.seqs[t].cap = IF t = s THEN cap ELSE st.seqs[t].cap
      BY DEF PrivateWritten
    <3>1. st.seqs[s] \in SeqSlots
      BY <2>4, SlotFacts
    <3> QED
      BY <2>5, <3>1 DEF SeqSlots
  <2>7. IsStore(q, V)
    BY <2>3, <2>5 DEF Good, IsStore
  <2>8. ReservedCells(q) <= NCtx
    <3>1. q.seqs[s].cap = cap
      BY <2>6
    <3> QED
      BY <1>2, <2>5, <3>1, ResizeReserves
  <2>9. PrivateWritten(st.seqs[s]) <= cap
    BY <1>2, <2>2, GoodFacts DEF SetCapRefused
  <2>10. Movable(q) /\ Distinct(q)
    <3>1. Distinct(q)
      BY <2>5, <2>6, GoodFacts DEF Distinct
    <3>2. Movable(st)
      BY GoodFacts
    <3> QED
      BY <2>5, <2>6, <2>9, <3>1, <3>2 DEF Movable
  <2>11. Stamped(q)
    BY <2>3, <2>5, <2>6 DEF Good, Stamped
  <2>12. Lent(q)
    <3>1. \A t, u \in Live(st) : Lends(st, u, t) => Lends(q, u, t)
      BY <2>6 DEF Lends
    <3> QED
      BY <2>5, <2>6, <3>1 DEF Good, Lent
  <2>13. Fits(q)
    <3> SUFFICES ASSUME NEW t \in Live(st)
                 PROVE  q.seqs[t].written <= q.seqs[t].shared.rows + q.seqs[t].cap
      BY <2>5 DEF Fits
    <3>1. CASE t = s
      BY <2>2, <2>6, <2>9, <3>1, GoodFacts
    <3>2. CASE t # s
      BY <2>6, <3>2, GoodFacts
    <3> QED
      BY <3>1, <3>2
  <2>14. \A t \in Live(st) : Untouched(st, q, t)
    BY <2>3, <2>5, <2>6 DEF Untouched, RowAt, CellOf
  <2>15. /\ Plan(q, moves)
         /\ \A t \in Live(q) : PlannedStart(q, moves, t) = PackedStart(q, t)
    BY <2>5, <2>8, <2>10, FullPlan
  <2>16. CASE moves = {}
    <3>1. st2 = q
      BY <2>1, <2>16 DEF Repacked
    <3>2. \A t \in Live(q) : PlannedStart(q, moves, t) = q.seqs[t].start
      BY <2>16 DEF PlannedStart
    <3>3. Separate(q)
      <4> HIDE DEF moves
      <4> QED
        BY <2>10, <2>15, <3>2 DEF Plan, Separate, Distinct
    <3> QED
      BY <2>5, <2>7, <2>11, <2>12, <2>13, <2>14, <3>1, <3>3 DEF Good
  <2>17. CASE moves # {} /\ ~Defrag
    <3>1. st2 = st
      BY <2>1, <2>2, <2>17 DEF Repacked, Err
    <3> QED
      BY <1>0, <3>1
  <2>18. CASE moves # {} /\ Defrag
    <3> DEFINE mr == MoveRuns(q, moves)
    <3>1. st2 = mr.kv
      <4>1. moves # {} /\ Defrag
        BY <2>18
      <4> HIDE DEF moves, mr
      <4>2. The({[ok |-> res.ok /\ cap > 0, kv |-> res.kv] : res \in {mr}})
              = [ok |-> mr.ok /\ cap > 0, kv |-> mr.kv]
        BY DEF The
      <4> QED
        BY <2>1, <4>1, <4>2 DEF Repacked, mr
    <3> HIDE DEF moves
    <3>2. PICK st3 : MoveRuns(q, moves) = Ok(st3) /\ Relocated(V, q, st3, moves)
      BY <2>7, <2>10, <2>11, <2>12, <2>15, MovesKeepStore
    <3>3. st2 = st3
      BY <3>1, <3>2 DEF Ok
    <3>4. Good(st2, V) /\ \A t \in Live(q) : Untouched(q, st2, t)
      BY <2>5, <2>10, <2>13, <2>15, <3>2, <3>3, RelocatedGood
    <3>5. Live(st2) = Live(q)
      BY <3>2, <3>3 DEF Relocated
    <3> QED
      BY <2>5, <2>14, <3>4, <3>5, UntouchedChain
  <2> QED
    BY <2>16, <2>17, <2>18
<1> QED
  BY <1>1, <1>2

(* release_seq of a run nobody reads in place leaves every other sequence   *)
(* its rows and no stamp behind.                                            *)
LEMMA ReleaseKeeps ==
  ASSUME NEW V, NEW st, Good(st, V), NEW s \in Live(st),
         \A t \in Live(st) : st.seqs[t].shared.rows > 0 => ~Lends(st, s, t),
         NEW st2, st2 = ReleaseSeq(st, s)
  PROVE  /\ Good(st2, V) /\ Live(st2) = Live(st) \ {s}
         /\ \A t \in Live(st) \ {s} : Untouched(st, st2, t)
<1> DEFINE A == st.seqs
           B == st.owner
           D == st.data
           T == [t \in Live(st) \ {s} |-> A[t]]
           O == [c \in Cells |-> IF c \in RunCells(A[s]) /\ B[c] = s THEN Free ELSE B[c]]
<1>1. st = [seqs |-> A, owner |-> B, data |-> D]
  BY DEF Good, IsStore
<1>2. st2 = [st EXCEPT !.seqs = T, !.owner = O]
  BY DEF ReleaseSeq
<1>3. st2 = [seqs |-> T, owner |-> O, data |-> D]
  <2> HIDE DEF A, B, D, T, O
  <2>1. st2 \in [seqs : {T}, owner : {O}, data : {D}]
    BY <1>1, <1>2
  <2> QED
    BY <2>1
<1>4. A \in [Live(st) -> SeqSlots] /\ Live(st) \subseteq SeqIds
      /\ B \in [Cells -> SeqIds \cup {Free}] /\ D \in [Cells -> V]
  BY DEF Good, IsStore, IsTable
<1>5. st2.seqs = T /\ st2.owner = O /\ st2.data = D
  <2> HIDE DEF T, O, D
  <2> QED
    BY <1>3
<1>6. Live(st2) = Live(st) \ {s} /\ \A t \in Live(st2) : st2.seqs[t] = st.seqs[t]
  BY <1>5 DEF Live
<1>7. IsStore(st2, V)
  <2>1. T \in [Live(st) \ {s} -> SeqSlots] /\ O \in [Cells -> SeqIds \cup {Free}]
    <3> HIDE DEF A, B
    <3> QED
      BY <1>4
  <2> HIDE DEF T, O, A, B, D
  <2> QED
    BY <1>3, <1>4, <1>5, <1>6, <2>1 DEF IsStore, IsTable
<1>8. Separate(st2) /\ Fits(st2)
  BY <1>6 DEF Good, Separate, Fits
<1>9. Stamped(st2)
  <2> SUFFICES ASSUME NEW c \in Cells, O[c] # Free
               PROVE  /\ O[c] \in Live(st2)
                      /\ st2.seqs[O[c]].start <= c
                      /\ c < st2.seqs[O[c]].start + PrivateWritten(st2.seqs[O[c]])
    BY <1>5 DEF Stamped
  <2>1. O[c] = B[c]
    OBVIOUS
  <2>2. /\ B[c] \in Live(st) /\ st.seqs[B[c]].start <= c
        /\ c < st.seqs[B[c]].start + PrivateWritten(st.seqs[B[c]])
    BY <2>1 DEF Good, Stamped
  <2>3. B[c] # s
    <3> SUFFICES ASSUME B[c] = s PROVE c \in RunCells(A[s])
      BY <2>1
    <3>1. c \in Int
      BY NCtxAssumption DEF Cells
    <3> QED
      BY <2>2, <3>1, GoodFacts DEF RunCells
  <2> HIDE DEF O, B
  <2> QED
    BY <1>6, <2>1, <2>2, <2>3
<1>10. Lent(st2)
  <2> SUFFICES ASSUME NEW t \in Live(st2), st2.seqs[t].shared.rows > 0
               PROVE  \E u \in Live(st2) : Lends(st2, u, t)
    BY DEF Lent
  <2>1. PICK u \in Live(st) : Lends(st, u, t)
    BY <1>6 DEF Good, Lent
  <2>2. u # s
    BY <1>6, <2>1
  <2>3. Lends(st2, u, t)
    BY <1>6, <2>1, <2>2 DEF Lends
  <2> QED
    BY <1>6, <2>2, <2>3
<1>11. \A t \in Live(st) \ {s} : Untouched(st, st2, t)
  BY <1>5, <1>6 DEF Untouched, RowAt
<1> QED
  BY <1>6, <1>7, <1>8, <1>9, <1>10, <1>11 DEF Good

(* A greatest member is the maximum. *)
LEMMA MaxIs ==
  ASSUME NEW S \in SUBSET Int, NEW m \in S, \A y \in S : m >= y
  PROVE  Max(S) = m
<1>1. \A x \in S : (\A y \in S : x >= y) => x = m
  OBVIOUS
<1> QED
  BY <1>1 DEF Max

(* The count of written rows after stamping positions up to top. *)
LEMMA TopPosition ==
  ASSUME NEW w \in Nat, NEW top \in Nat, NEW some, NEW pos,
         \A y \in pos : y \in Int /\ some /\ y <= top, some => top \in pos
  PROVE  Max({w} \cup pos) = IF some /\ top > w THEN top ELSE w
<1> DEFINE m == IF some /\ top > w THEN top ELSE w
           S == {w} \cup pos
<1>1. S \in SUBSET Int /\ m \in S /\ \A y \in S : m >= y
  OBVIOUS
<1> HIDE DEF S, m
<1>2. Max(S) = m
  BY <1>1, MaxIs
<1> QED
  BY <1>2 DEF S, m

(* A lender's rows lie in its run, so a borrower never reads its own run in place. *)
LEMMA LoanFacts ==
  ASSUME NEW V, NEW st, Good(st, V), NEW t \in Live(st), st.seqs[t].shared.rows > 0
  PROVE  \E u \in Live(st) :
            /\ Lends(st, u, t) /\ u # t /\ st.seqs[u].shared.rows = 0
            /\ st.seqs[u].start <= st.seqs[t].shared.cell
            /\ st.seqs[t].shared.cell + st.seqs[t].shared.rows <= st.seqs[u].start + st.seqs[u].written
            /\ st.seqs[t].shared.cell + st.seqs[t].shared.rows <= st.seqs[u].start + st.seqs[u].cap
            /\ \A s \in Live(st) \ {u} :
                  \/ st.seqs[t].shared.cell + st.seqs[t].shared.rows <= st.seqs[s].start
                  \/ st.seqs[s].start + st.seqs[s].cap <= st.seqs[t].shared.cell
<1>1. PICK u \in Live(st) : Lends(st, u, t)
  BY DEF Good, Lent
<1>2. /\ u # t /\ st.seqs[u].shared.rows = 0
      /\ st.seqs[u].start <= st.seqs[t].shared.cell
      /\ st.seqs[t].shared.cell + st.seqs[t].shared.rows <= st.seqs[u].start + st.seqs[u].written
  BY <1>1 DEF Lends
<1>3. /\ st.seqs[u].start \in Nat /\ st.seqs[u].written \in Nat /\ st.seqs[u].cap \in Nat
      /\ st.seqs[u].written <= st.seqs[u].cap
      /\ st.seqs[t].shared.cell \in Nat /\ st.seqs[t].shared.rows \in Nat
  BY <1>2, GoodFacts
<1>4. st.seqs[t].shared.cell + st.seqs[t].shared.rows <= st.seqs[u].start + st.seqs[u].cap
  BY <1>2, <1>3
<1>5. ASSUME NEW s \in Live(st) \ {u}
      PROVE  \/ st.seqs[t].shared.cell + st.seqs[t].shared.rows <= st.seqs[s].start
             \/ st.seqs[s].start + st.seqs[s].cap <= st.seqs[t].shared.cell
  <2>1. \/ st.seqs[s].start + st.seqs[s].cap <= st.seqs[u].start
        \/ st.seqs[u].start + st.seqs[u].cap <= st.seqs[s].start
    BY GoodFacts
  <2>2. st.seqs[s].start \in Nat /\ st.seqs[s].cap \in Nat
    BY GoodFacts
  <2> QED
    BY <1>2, <1>3, <1>4, <2>1, <2>2
<1> QED
  BY <1>1, <1>2, <1>4, <1>5

(* What a store holds in its rows is no part of its layout. *)
LEMMA RewriteGood ==
  ASSUME NEW V, NEW st, Good(st, V), NEW d \in [Cells -> V], NEW st2, st2 = [st EXCEPT !.data = d]
  PROVE  /\ Good(st2, V) /\ Live(st2) = Live(st)
         /\ st2.seqs = st.seqs /\ st2.owner = st.owner /\ st2.data = d
<1> DEFINE A == st.seqs
           B == st.owner
           D == st.data
<1>1. st = [seqs |-> A, owner |-> B, data |-> D]
  BY DEF Good, IsStore
<1>2. st2 = [seqs |-> A, owner |-> B, data |-> d]
  <2> HIDE DEF A, B, D
  <2>1. st2 \in [seqs : {A}, owner : {B}, data : {d}]
    BY <1>1
  <2> QED
    BY <2>1
<1>3. st2.seqs = A /\ st2.owner = B /\ st2.data = d
  <2> HIDE DEF A, B, D
  <2> QED
    BY <1>2
<1>4. Live(st2) = Live(st)
  BY <1>3 DEF Live
<1>5. IsStore(st2, V)
  <2>1. IsTable(st2)
    BY <1>3, <1>4 DEF Good, IsStore, IsTable
  <2> QED
    BY <1>2, <1>3, <2>1 DEF Good, IsStore
<1>6. \A u, t \in Live(st) : Lends(st, u, t) => Lends(st2, u, t)
  BY <1>3 DEF Lends
<1> QED
  BY <1>3, <1>4, <1>5, <1>6 DEF Good, Separate, Fits, Stamped, Lent

(* Cells a .. b - 1 of a run, counted from its start. *)
CellsFrom(slot, a, b) == slot.start + a .. slot.start + b - 1

(* Stamping cells a .. b - 1 of its own run raises what s has written to them. *)
LEMMA OwnRun ==
  ASSUME NEW V, NEW st, Good(st, V), NEW s \in Live(st), NEW a \in Nat, NEW b \in Nat,
         a <= b, b <= st.seqs[s].cap, NEW cells,
         cells = CellsFrom(st.seqs[s], a, b),
         NEW st2, st2 = OwnCells(st, s, cells)
  PROVE  /\ Good(st2, V) /\ Live(st2) = Live(st) /\ st2.data = st.data
         /\ \A t \in Live(st) :
               /\ st2.seqs[t].start = st.seqs[t].start /\ st2.seqs[t].cap = st.seqs[t].cap
               /\ st2.seqs[t].shared = st.seqs[t].shared
         /\ \A t \in Live(st) \ {s} : st2.seqs[t] = st.seqs[t]
         /\ st2.seqs[s].written >= st.seqs[s].written
         /\ a < b => st2.seqs[s].written >= st.seqs[s].shared.rows + b
<1> DEFINE A == st.seqs
           B == st.owner
           D == st.data
           slot == A[s]
           pos == {PosOfCell(slot, c) + 1 : c \in cells}
           top == slot.shared.rows + b
           w == IF a < b /\ top > slot.written THEN top ELSE slot.written
           U == [A EXCEPT ![s].written = w]
           O == [c \in Cells |-> IF c \in cells THEN s ELSE B[c]]
<1>1. st = [seqs |-> A, owner |-> B, data |-> D]
  BY DEF Good, IsStore
<1>2. A \in [Live(st) -> SeqSlots] /\ Live(st) \subseteq SeqIds
      /\ B \in [Cells -> SeqIds \cup {Free}] /\ D \in [Cells -> V]
  BY DEF Good, IsStore, IsTable
<1>3. /\ slot \in SeqSlots /\ slot.start \in Nat /\ slot.cap \in Nat /\ slot.cap >= 1
      /\ slot.shared.cell \in Nat /\ slot.shared.rows \in Nat /\ slot.written \in Nat
      /\ slot.written <= slot.shared.rows + slot.cap
      /\ slot.start + slot.cap <= NCtx
  BY <1>2, GoodFacts
<1>4. \A c \in cells : /\ c \in Int /\ slot.start + a <= c /\ c < slot.start + b
                      /\ PosOfCell(slot, c) + 1 = slot.shared.rows + (c - slot.start) + 1
  <2> SUFFICES ASSUME NEW c \in cells
               PROVE  /\ c \in Int /\ slot.start + a <= c /\ c < slot.start + b
                      /\ c \notin slot.shared.cell .. slot.shared.cell + slot.shared.rows - 1
    BY DEF PosOfCell
  <2> DEFINE x == slot.start
             y == slot.shared.cell
             r == slot.shared.rows
             n == slot.cap
  <2>0. c \in x + a .. x + b - 1
    BY DEF CellsFrom
  <2>1. r > 0 => (y + r <= x \/ x + n <= y)
    BY LoanFacts
  <2>2. x \in Nat /\ y \in Nat /\ r \in Nat /\ n \in Nat /\ b <= n
    BY <1>3
  <2> HIDE DEF slot, x, y, r, n
  <2>3. c \in Int /\ x + a <= c /\ c < x + b /\ c \notin y .. y + r - 1
    BY <2>0, <2>1, <2>2
  <2> QED
    BY <2>3 DEF x, y, r
<1>5. Max({slot.written} \cup pos) = w
  <2> DEFINE x == slot.start
             r == slot.shared.rows
             v == slot.written
             k == r + b
             some == a < b
  <2>0. x \in Nat /\ r \in Nat /\ v \in Nat
    BY <1>3
  <2>1. x \in Nat /\ r \in Nat /\ v \in Nat /\ k \in Nat
    <3> HIDE DEF x, r, v
    <3> QED
      BY <2>0
  <2>2. \A y \in pos : y \in Int /\ some /\ y <= k
    <3> SUFFICES ASSUME NEW c \in cells
                 PROVE  LET y == PosOfCell(slot, c) + 1 IN y \in Int /\ some /\ y <= k
      OBVIOUS
    <3>1. c \in Int /\ x + a <= c /\ c < x + b /\ PosOfCell(slot, c) + 1 = r + (c - x) + 1
      BY <1>4
    <3> HIDE DEF x, r
    <3> QED
      BY <2>1, <3>1
  <2>3. some => k \in pos
    <3> SUFFICES ASSUME a < b PROVE \E c \in cells : k = PosOfCell(slot, c) + 1
      OBVIOUS
    <3> DEFINE c == x + b - 1
    <3>1. c \in cells
      BY <2>1 DEF CellsFrom
    <3>2. PosOfCell(slot, c) + 1 = r + (c - x) + 1
      BY <1>4, <3>1
    <3>3. r + (c - x) + 1 = k
      <4> HIDE DEF x, r
      <4> QED
        BY <2>1
    <3> QED
      BY <3>1, <3>2, <3>3
  <2> HIDE DEF pos, some, k, v
  <2>4. Max({v} \cup pos) = IF some /\ k > v THEN k ELSE v
    BY <2>1, <2>2, <2>3, TopPosition
  <2> QED
    BY <2>4 DEF k, v, some
<1>6. st2 = [st EXCEPT !.owner = O, !.seqs[s].written = Max({A[s].written} \cup pos)]
  BY DEF OwnCells
<1>7. st2 = [seqs |-> U, owner |-> O, data |-> D]
  <2> HIDE DEF w, A, B, D, O, pos
  <2>1. st2 = [st EXCEPT !.owner = O, !.seqs[s].written = w]
    BY <1>5, <1>6
  <2>2. st2 \in [seqs : {U}, owner : {O}, data : {D}]
    BY <1>1, <2>1
  <2> HIDE DEF U
  <2> QED
    BY <2>2
<1>8. st2.seqs = U /\ st2.owner = O /\ st2.data = D
  <2> HIDE DEF U, O, D
  <2> QED
    BY <1>7
<1>9. w \in 0 .. 2 * NCtx /\ w >= slot.written /\ w <= slot.shared.rows + slot.cap
      /\ (a < b => w >= top)
  <2> DEFINE r == slot.shared.rows
             n == slot.cap
             v == slot.written
  <2>1. b <= n /\ r <= NCtx /\ n <= NCtx
    BY <1>3, NCtxAssumption DEF SeqSlots
  <2>2. r \in Nat /\ n \in Nat /\ v \in Nat /\ v <= r + n
    BY <1>3
  <2> HIDE DEF r, n, v
  <2>3. LET m == IF a < b /\ r + b > v THEN r + b ELSE v
        IN  m \in 0 .. 2 * NCtx /\ m >= v /\ m <= r + n /\ (a < b => m >= r + b)
    BY <2>1, <2>2, NCtxAssumption
  <2> QED
    BY <2>3 DEF r, n, v
<1> HIDE DEF w
<1>10. /\ U \in [Live(st) -> SeqSlots]
       /\ U[s] = [A[s] EXCEPT !.written = w]
       /\ \A t \in Live(st) \ {s} : U[t] = A[t]
  <2> HIDE DEF A
  <2>1. U \in [Live(st) -> SeqSlots]
    BY <1>2, <1>9 DEF SeqSlots
  <2> QED
    BY <1>2, <2>1
<1>11. /\ U[s].start = slot.start /\ U[s].cap = slot.cap /\ U[s].shared = slot.shared
       /\ U[s].written = w
  <2> HIDE DEF A, U
  <2> QED
    BY <1>3, <1>10 DEF SeqSlots
<1>12. Live(st2) = Live(st)
  BY <1>8, <1>10 DEF Live
<1>13. O \in [Cells -> SeqIds \cup {Free}]
  BY <1>2
<1>14. IsStore(st2, V)
  <2> HIDE DEF U, O, D, A, B
  <2> QED
    BY <1>2, <1>7, <1>8, <1>10, <1>12, <1>13 DEF IsStore, IsTable
<1>15. \A t \in Live(st) :
         /\ st2.seqs[t].start = st.seqs[t].start /\ st2.seqs[t].cap = st.seqs[t].cap
         /\ st2.seqs[t].shared = st.seqs[t].shared
         /\ st2.seqs[t].written = IF t = s THEN w ELSE st.seqs[t].written
  <2> HIDE DEF U
  <2> QED
    BY <1>8, <1>10, <1>11
<1>16. Separate(st2)
  BY <1>12, <1>15 DEF Good, Separate
<1>17. Fits(st2)
  BY <1>9, <1>12, <1>15 DEF Good, Fits
<1>18. \A t \in Live(st) : st2.seqs[t].written >= st.seqs[t].written
  BY <1>3, <1>9, <1>15, GoodFacts
<1>19. Stamped(st2)
  <2> SUFFICES ASSUME NEW c \in Cells, O[c] # Free
               PROVE  /\ O[c] \in Live(st)
                      /\ st2.seqs[O[c]].start <= c
                      /\ c < st2.seqs[O[c]].start + PrivateWritten(st2.seqs[O[c]])
    BY <1>8, <1>12 DEF Stamped
  <2>0. \A t \in Live(st) : PrivateWritten(st2.seqs[t]) = IF st2.seqs[t].written >= st2.seqs[t].shared.rows
                                         THEN st2.seqs[t].written - st2.seqs[t].shared.rows ELSE 0
    <3>1. IsTable(st2)
      BY <1>14 DEF IsStore
    <3> QED
      BY <1>12, <3>1, SlotFacts
  <2>1. c \in Int
    BY NCtxAssumption DEF Cells
  <2>2. CASE c \in cells
    <3>1. O[c] = s
      BY <2>2
    <3>2. slot.start + a <= c /\ c < slot.start + b /\ a < b
      BY <1>3, <1>4, <2>2
    <3>3. st2.seqs[s].written = w /\ st2.seqs[s].start = slot.start /\ st2.seqs[s].shared.rows = slot.shared.rows
      BY <1>15
    <3>4. PrivateWritten(st2.seqs[s]) = IF w >= slot.shared.rows THEN w - slot.shared.rows ELSE 0
      BY <2>0, <3>3
    <3> HIDE DEF slot
    <3>5. w >= slot.shared.rows + b
      BY <1>9, <3>2
    <3>6. slot.start <= c /\ c < slot.start + PrivateWritten(st2.seqs[s])
      BY <1>3, <1>9, <2>1, <3>2, <3>4, <3>5
    <3> QED
      BY <3>1, <3>3, <3>6
  <2>3. CASE c \notin cells
    <3>1. O[c] = B[c]
      BY <2>3
    <3> DEFINE t == B[c]
    <3>2. /\ t \in Live(st) /\ st.seqs[t].start <= c
          /\ c < st.seqs[t].start + PrivateWritten(st.seqs[t])
      BY <3>1 DEF Good, Stamped
    <3> HIDE DEF t
    <3>3. PrivateWritten(st2.seqs[t]) >= PrivateWritten(st.seqs[t])
      <4>1. /\ st2.seqs[t].shared.rows = st.seqs[t].shared.rows /\ st.seqs[t].shared.rows \in Nat
            /\ st2.seqs[t].written >= st.seqs[t].written
            /\ st.seqs[t].written \in Nat /\ st2.seqs[t].written \in Nat
        BY <1>9, <1>15, <1>18, <3>2, GoodFacts
      <4>2. PrivateWritten(st.seqs[t]) = IF st.seqs[t].written >= st.seqs[t].shared.rows
                                         THEN st.seqs[t].written - st.seqs[t].shared.rows ELSE 0
        BY <3>2, GoodFacts
      <4> QED
        BY <2>0, <3>2, <4>1, <4>2
    <3>4. /\ st.seqs[t].start \in Nat /\ PrivateWritten(st.seqs[t]) \in Int
          /\ PrivateWritten(st2.seqs[t]) \in Int
      <4>1. IsTable(st) /\ IsTable(st2)
        BY <1>14, GoodFacts DEF IsStore
      <4> QED
        BY <1>12, <3>2, <4>1, SlotFacts
    <3>5. st2.seqs[t].start = st.seqs[t].start
      BY <1>15, <3>2
    <3>6. c < st2.seqs[t].start + PrivateWritten(st2.seqs[t])
      BY <2>1, <3>2, <3>3, <3>4, <3>5
    <3> QED
      BY <3>1, <3>2, <3>5, <3>6 DEF t
  <2> QED
    BY <2>2, <2>3
<1>20. Lent(st2)
  <2>1. ASSUME NEW t \in Live(st), NEW u \in Live(st), Lends(st, u, t) PROVE Lends(st2, u, t)
    BY <1>9, <1>15, <1>18, <2>1, GoodFacts DEF Lends
  <2> QED
    BY <1>12, <1>15, <2>1 DEF Good, Lent
<1>21. \A t \in Live(st) \ {s} : st2.seqs[t] = st.seqs[t]
  BY <1>8, <1>10
<1>22. a < b => st2.seqs[s].written >= st.seqs[s].shared.rows + b
  BY <1>9, <1>15
<1> QED
  BY <1>8, <1>12, <1>14, <1>15, <1>16, <1>17, <1>18, <1>19, <1>20, <1>21, <1>22 DEF Good

(* e is d with rows cells copied from one place of the arena to another. *)
Copied(V, d, e, to, from, rows) ==
    /\ e \in [Cells -> V]
    /\ \A i \in 0 .. rows - 1 : e[to + i] = d[from + i]
    /\ \A c \in Cells : (c < to \/ to + rows <= c) => e[c] = d[c]

(* Copying rows cells from one place of the arena to another. *)
LEMMA CopyFacts ==
  ASSUME NEW V, NEW d \in [Cells -> V], NEW to \in Nat, NEW from \in Nat, NEW rows \in Nat,
         to + rows <= NCtx, from + rows <= NCtx, NEW e, e = CopyCells(d, to, from, rows)
  PROVE  Copied(V, d, e, to, from, rows)
<1>1. e = [c \in Cells |-> IF c \in to .. to + rows - 1 THEN d[from + (c - to)] ELSE d[c]]
  BY DEF CopyCells
<1>2. \A c \in Cells : c \in Int /\ c >= 0 /\ c < NCtx
  BY NCtxAssumption DEF Cells
<1>3. \A c \in Int : c >= 0 /\ c < NCtx => c \in Cells
  BY NCtxAssumption DEF Cells
<1>3a. NCtx \in Nat
  BY NCtxAssumption
<1>4. e \in [Cells -> V]
  <2>1. ASSUME NEW c \in Cells, c \in to .. to + rows - 1 PROVE from + (c - to) \in Cells
    <3>1. from + (c - to) \in Int /\ from + (c - to) >= 0 /\ from + (c - to) < NCtx
      BY <1>2, <1>3a, <2>1
    <3> QED
      BY <1>3, <3>1
  <2> QED
    BY <1>1, <2>1
<1>5. ASSUME NEW i \in 0 .. rows - 1 PROVE e[to + i] = d[from + i]
  <2>1. to + i \in Int /\ to + i >= 0 /\ to + i < NCtx /\ to + i \in to .. to + rows - 1
        /\ from + ((to + i) - to) = from + i
    BY <1>3a
  <2>2. to + i \in Cells
    BY <1>3, <2>1
  <2> QED
    BY <1>1, <2>1, <2>2
<1>6. \A c \in Cells : (c < to \/ to + rows <= c) => e[c] = d[c]
  BY <1>1, <1>2
<1> QED
  BY <1>4, <1>5, <1>6 DEF Copied

(* Nobody reads another's rows in place. *)
NoLoans(st) == \A s \in Live(st) : st.seqs[s].shared.rows = 0

(* The borrower reads the first rows of src in cells of its own, nobody     *)
(* else's rows change, and a refused copy changes no row.                   *)
CopyLeaves(V, st, res, src, dst, rows) ==
    /\ Good(res.kv, V) /\ Live(res.kv) = Live(st) /\ NoLoans(res.kv)
    /\ \A t \in Live(st) \ {dst} : Untouched(st, res.kv, t)
    /\ IF res.ok
       THEN /\ src \in Live(st) /\ rows <= res.kv.seqs[dst].written
            /\ \A p \in 0 .. rows - 1 : RowAt(res.kv, dst, p) = RowAt(st, src, p)
       ELSE Untouched(st, res.kv, dst)

(* kv_copy_prefix, where nobody shares. *)
LEMMA CopyPrefixKeeps ==
  ASSUME NEW V, NEW st, Good(st, V), NoLoans(st), NEW src, NEW dst \in Live(st), src # dst,
         NEW rows \in Nat \ {0}, NEW res, res = KvCopyPrefix(st, src, dst, rows)
  PROVE  CopyLeaves(V, st, res, src, dst, rows)
<1> DEFINE st2 == res.kv
<1>1. \A t \in Live(st) : st.seqs[t].shared.rows = 0
  BY DEF NoLoans
<1>2. st2 = KvCopyPrefix(st, src, dst, rows).kv
  OBVIOUS
<1> SUFFICES /\ Good(st2, V) /\ Live(st2) = Live(st)
             /\ \A t \in Live(st) : st2.seqs[t].shared.rows = 0
             /\ \A t \in Live(st) \ {dst} : Untouched(st, st2, t)
             /\ IF KvCopyPrefix(st, src, dst, rows).ok
                THEN /\ src \in Live(st) /\ rows <= st2.seqs[dst].written
                     /\ \A p \in 0 .. rows - 1 : RowAt(st2, dst, p) = RowAt(st, src, p)
                ELSE Untouched(st, st2, dst)
  BY DEF CopyLeaves, NoLoans
<1> HIDE DEF st2
<1> DEFINE refused == \/ src \notin Live(st) \/ dst \notin Live(st)
                      \/ st.seqs[src].shared.rows > 0
                      \/ rows > st.seqs[src].written
                      \/ rows > st.seqs[dst].cap
           from == st.seqs[src].start
           to == st.seqs[dst].start
<1>3. CASE refused
  <2>1. KvCopyPrefix(st, src, dst, rows) = Err(st)
    BY <1>3 DEF KvCopyPrefix
  <2>2. st2 = st /\ ~KvCopyPrefix(st, src, dst, rows).ok
    BY <1>2, <2>1 DEF Err
  <2> QED
    BY <1>1, <2>2 DEF Untouched
<1>4. CASE ~refused
  <2> DEFINE e == CopyCells(st.data, to, from, rows)
             q == [st EXCEPT !.data = e]
             cells == to .. to + rows - 1
  <2>1. src \in Live(st) /\ ~(st.seqs[src].shared.rows > 0) /\ ~(rows > st.seqs[src].written)
        /\ ~(rows > st.seqs[dst].cap)
    BY <1>4
  <2>2. /\ from \in Nat /\ to \in Nat /\ rows \in Nat /\ rows >= 1
        /\ st.seqs[src].cap \in Nat /\ st.seqs[dst].cap \in Nat /\ st.seqs[src].written \in Nat
        /\ rows <= st.seqs[src].written /\ rows <= st.seqs[src].cap /\ rows <= st.seqs[dst].cap
        /\ from + st.seqs[src].cap <= NCtx /\ to + st.seqs[dst].cap <= NCtx
        /\ (from + st.seqs[src].cap <= to \/ to + st.seqs[dst].cap <= from)
    BY <1>1, <2>1, GoodFacts
  <2>3. from # to
    BY <2>2
  <2>4. KvCopyPrefix(st, src, dst, rows) = Ok(OwnCells(q, dst, cells))
    BY <1>4, <2>3 DEF KvCopyPrefix
  <2>5. st2 = OwnCells(q, dst, cells) /\ KvCopyPrefix(st, src, dst, rows).ok
    BY <1>2, <2>4 DEF Ok
  <2>6. /\ e \in [Cells -> V]
        /\ \A i \in 0 .. rows - 1 : e[to + i] = st.data[from + i]
        /\ \A c \in Cells : (c < to \/ to + rows <= c) => e[c] = st.data[c]
    <3> DEFINE D == st.data
    <3>1. D \in [Cells -> V]
      BY DEF Good, IsStore
    <3>2. to + rows <= NCtx /\ from + rows <= NCtx
      BY <2>2, NCtxAssumption
    <3>3. e = CopyCells(D, to, from, rows) /\ to \in Nat /\ from \in Nat /\ rows \in Nat
      BY <2>2
    <3> HIDE DEF to, from, e, D
    <3>4. Copied(V, D, e, to, from, rows)
      BY <3>1, <3>2, <3>3, CopyFacts
    <3> QED
      BY <3>4 DEF Copied, D
  <2> HIDE DEF e
  <2>7. /\ Good(q, V) /\ Live(q) = Live(st)
        /\ q.seqs = st.seqs /\ q.owner = st.owner /\ q.data = e
    BY <2>6, RewriteGood
  <2> HIDE DEF q
  <2>8. /\ Good(st2, V) /\ Live(st2) = Live(q) /\ st2.data = q.data
        /\ \A t \in Live(q) :
               /\ st2.seqs[t].start = q.seqs[t].start /\ st2.seqs[t].cap = q.seqs[t].cap
               /\ st2.seqs[t].shared = q.seqs[t].shared
        /\ \A t \in Live(q) \ {dst} : st2.seqs[t] = q.seqs[t]
        /\ st2.seqs[dst].written >= q.seqs[dst].written
        /\ 0 < rows => st2.seqs[dst].written >= q.seqs[dst].shared.rows + rows
    <3>1. dst \in Live(q) /\ 0 \in Nat /\ rows \in Nat /\ 0 <= rows /\ rows <= q.seqs[dst].cap
      BY <2>2, <2>7
    <3>2. cells = CellsFrom(q.seqs[dst], 0, rows)
      BY <2>2, <2>7 DEF CellsFrom
    <3> HIDE DEF cells
    <3>3. Good(q, V)
      BY <2>7
    <3> QED
      BY <2>5, <3>1, <3>2, <3>3, OwnRun
  <2>9. \A t \in Live(st) : st2.seqs[t].shared.rows = 0
    BY <1>1, <2>7, <2>8
  <2>10. rows <= st2.seqs[dst].written
    BY <1>1, <2>2, <2>7, <2>8
  <2>11. ASSUME NEW p \in 0 .. rows - 1 PROVE RowAt(st2, dst, p) = RowAt(st, src, p)
    <3>1. ~(p < 0) /\ p \in Int
      BY <2>2
    <3>2. CellOf(st2.seqs[dst], p) = to + p /\ CellOf(st.seqs[src], p) = from + p
      BY <1>1, <2>1, <2>2, <2>7, <2>8, <2>9, <3>1 DEF CellOf
    <3> HIDE DEF to, from
    <3> QED
      BY <2>6, <2>7, <2>8, <3>2 DEF RowAt
  <2>12. ASSUME NEW t \in Live(st) \ {dst} PROVE Untouched(st, st2, t)
    <3>1. st2.seqs[t] = st.seqs[t]
      BY <2>7, <2>8
    <3>2. ASSUME NEW p \in 0 .. st.seqs[t].written - 1 PROVE RowAt(st2, t, p) = RowAt(st, t, p)
      <4> DEFINE x == st.seqs[t].start
                 n == st.seqs[t].cap
                 c == x + p
                 k == st.seqs[dst].cap
      <4>1. /\ x \in Nat /\ n \in Nat /\ p \in Nat /\ p < n /\ x + n <= NCtx /\ k \in Nat
            /\ (x + n <= to \/ to + k <= x) /\ to \in Nat /\ rows \in Nat /\ rows <= k
        BY <1>1, <2>2, GoodFacts
      <4> HIDE DEF x, n, to, k
      <4>2. c \in Cells /\ (c < to \/ to + rows <= c)
        BY <4>1, NCtxAssumption DEF Cells
      <4>3. CellOf(st.seqs[t], p) = c
        <5>1. st.seqs[t].shared.rows = 0 /\ p >= 0
          BY <1>1, <4>1
        <5> QED
          BY <4>1, <5>1 DEF CellOf, x
      <4> HIDE DEF c
      <4> QED
        BY <2>6, <2>7, <2>8, <3>1, <4>2, <4>3 DEF RowAt
    <3> QED
      BY <2>7, <2>8, <3>1, <3>2 DEF Untouched
  <2> QED
    BY <2>1, <2>5, <2>7, <2>8, <2>9, <2>10, <2>11, <2>12
<1> HIDE DEF refused
<1> QED
  BY <1>3, <1>4

(* share_prefix from a sequence that borrows nothing: the borrower reads    *)
(* the rows of src in place, nobody else's rows change, and a refused share *)
(* changes no row.                                                          *)
LEMMA SharePrefixKeeps ==
  ASSUME NEW V, NEW st, Good(st, V), NEW src \in Live(st), NEW dst \in Live(st), src # dst,
         NEW rows \in Nat \ {0}, st.seqs[src].shared.rows = 0,
         NEW st2, st2 = SharePrefix(st, src, dst, rows).kv
  PROVE  /\ Good(st2, V) /\ Live(st2) = Live(st)
         /\ \A t \in Live(st) \ {dst} : Untouched(st, st2, t)
         /\ IF SharePrefix(st, src, dst, rows).ok
            THEN /\ rows <= st2.seqs[dst].written
                 /\ \A p \in 0 .. rows - 1 : RowAt(st2, dst, p) = RowAt(st, src, p)
            ELSE Untouched(st, st2, dst)
<1> DEFINE refused == \/ rows = 0 \/ src = dst \/ src \notin Live(st) \/ dst \notin Live(st)
                      \/ st.seqs[src].written < rows
                      \/ st.seqs[dst].shared.rows > 0 \/ st.seqs[dst].written > 0
                      \/ CellOf(st.seqs[src], rows - 1) # CellOf(st.seqs[src], 0) + rows - 1
<1>1. CASE refused
  <2>1. SharePrefix(st, src, dst, rows) = Err(st)
    BY <1>1 DEF SharePrefix
  <2>2. st2 = st /\ ~SharePrefix(st, src, dst, rows).ok
    BY <2>1 DEF Err
  <2> QED
    BY <2>2 DEF Untouched
<1>2. CASE ~refused
  <2> DEFINE A == st.seqs
             B == st.owner
             D == st.data
             from == A[src].start
             loan == [cell |-> from, rows |-> rows]
             U == [A EXCEPT ![dst].shared = loan, ![dst].written = rows]
  <2>1. /\ ~(A[src].written < rows) /\ ~(A[dst].shared.rows > 0) /\ ~(A[dst].written > 0)
    BY <1>2
  <2>2. /\ rows \in Nat /\ rows >= 1 /\ from \in Nat /\ A[src].written \in Nat /\ A[src].cap \in Nat
        /\ A[src].written <= A[src].cap /\ rows <= A[src].written
        /\ from + A[src].cap <= NCtx /\ rows <= NCtx
        /\ A[dst].shared.rows = 0 /\ A[dst].written = 0 /\ A[dst].start \in Nat /\ A[dst].cap \in Nat
    BY <2>1, GoodFacts, NCtxAssumption
  <2>3. CellOf(st.seqs[src], 0) = from
    BY <2>2 DEF CellOf
  <2>4. st = [seqs |-> A, owner |-> B, data |-> D]
    BY DEF Good, IsStore
  <2>5. /\ st2 = [st EXCEPT !.seqs[dst].shared = loan, !.seqs[dst].written = rows]
        /\ SharePrefix(st, src, dst, rows).ok
    <3>1. SharePrefix(st, src, dst, rows)
              = Ok([st EXCEPT !.seqs[dst].shared = loan, !.seqs[dst].written = rows])
      BY <1>2, <2>3 DEF SharePrefix
    <3> QED
      BY <3>1 DEF Ok
  <2>6. /\ A \in [Live(st) -> SeqSlots] /\ Live(st) \subseteq SeqIds
        /\ B \in [Cells -> SeqIds \cup {Free}] /\ D \in [Cells -> V]
    BY DEF Good, IsStore, IsTable
  <2>7. st2 = [seqs |-> U, owner |-> B, data |-> D]
    <3> HIDE DEF A, B, D, loan
    <3>1. st2 \in [seqs : {U}, owner : {B}, data : {D}]
      BY <2>4, <2>5
    <3> HIDE DEF U
    <3> QED
      BY <3>1
  <2>8. st2.seqs = U /\ st2.owner = B /\ st2.data = D
    <3> HIDE DEF U, B, D
    <3> QED
      BY <2>7
  <2>9. loan \in [cell : Cells, rows : 0 .. NCtx] /\ rows \in 0 .. 2 * NCtx
        /\ loan.cell = from /\ loan.rows = rows
    <3> HIDE DEF A
    <3>1. from \in Cells
      BY <2>2, NCtxAssumption DEF Cells
    <3>2. rows \in 0 .. NCtx /\ rows \in 0 .. 2 * NCtx
      BY <2>2, NCtxAssumption
    <3> HIDE DEF from
    <3> QED
      BY <3>1, <3>2
  <2>10. /\ U \in [Live(st) -> SeqSlots]
         /\ \A t \in Live(st) \ {dst} : U[t] = A[t]
         /\ U[dst].start = A[dst].start /\ U[dst].cap = A[dst].cap
         /\ U[dst].shared = loan /\ U[dst].written = rows
    <3> HIDE DEF A, loan
    <3>1. U = [t \in Live(st) |-> IF t = dst THEN [start |-> A[dst].start, cap |-> A[dst].cap,
                                                   shared |-> loan, written |-> rows]
                                  ELSE A[t]]
      <4>1. A[dst] = [start |-> A[dst].start, cap |-> A[dst].cap,
                      shared |-> A[dst].shared, written |-> A[dst].written]
        BY <2>6 DEF SeqSlots
      <4>2. U = [t \in Live(st) |-> IF t = dst THEN [[A[dst] EXCEPT !.shared = loan] EXCEPT !.written = rows]
                                  ELSE A[t]]
        BY <2>6
      <4>3. [[A[dst] EXCEPT !.shared = loan] EXCEPT !.written = rows]
               = [start |-> A[dst].start, cap |-> A[dst].cap, shared |-> loan, written |-> rows]
        <5> DEFINE x == A[dst].start
                   y == A[dst].cap
                   z == A[dst].written
                   r == [A[dst] EXCEPT !.shared = loan]
                   v == [r EXCEPT !.written = rows]
        <5>1. r \in [start : {x}, cap : {y}, shared : {loan}, written : {z}]
          BY <4>1
        <5> HIDE DEF r, x, y, z
        <5>2. v \in [start : {x}, cap : {y}, shared : {loan}, written : {rows}]
          BY <5>1
        <5> HIDE DEF v
        <5>3. v = [start |-> x, cap |-> y, shared |-> loan, written |-> rows]
          BY <5>2
        <5> QED
          BY <5>3 DEF v, r, x, y
      <4> HIDE DEF U
      <4> QED
        BY <4>2, <4>3
    <3> HIDE DEF U
    <3>2. [start |-> A[dst].start, cap |-> A[dst].cap, shared |-> loan, written |-> rows] \in SeqSlots
      BY <2>6, <2>9 DEF SeqSlots
    <3> QED
      BY <2>6, <3>1, <3>2
  <2> HIDE DEF U, loan
  <2>11. Live(st2) = Live(st)
    BY <2>8, <2>10 DEF Live
  <2>12. IsStore(st2, V)
    <3> HIDE DEF A, B, D
    <3> QED
      BY <2>6, <2>7, <2>8, <2>10, <2>11 DEF IsStore, IsTable
  <2>13. /\ \A t \in Live(st) \ {dst} : st2.seqs[t] = st.seqs[t]
         /\ st2.seqs[dst].start = st.seqs[dst].start /\ st2.seqs[dst].cap = st.seqs[dst].cap
         /\ st2.seqs[dst].shared.cell = from /\ st2.seqs[dst].shared.rows = rows
         /\ st2.seqs[dst].written = rows
    BY <2>8, <2>9, <2>10
  <2>14. \A t \in Live(st) : /\ st2.seqs[t].start = st.seqs[t].start
                             /\ st2.seqs[t].cap = st.seqs[t].cap
    BY <2>13
  <2>15. Separate(st2)
    BY <2>11, <2>14 DEF Good, Separate
  <2>16. Fits(st2)
    BY <2>2, <2>11, <2>13 DEF Good, Fits
  <2>17. Stamped(st2)
    <3>1. PrivateWritten(st2.seqs[dst]) = 0 /\ PrivateWritten(st.seqs[dst]) = 0
      <4>1. IsTable(st2) /\ IsTable(st)
        BY <2>12, GoodFacts DEF IsStore
      <4>2. PrivateWritten(st2.seqs[dst]) = 0
        BY <2>2, <2>11, <2>13, <4>1, SlotFacts
      <4>3. PrivateWritten(st.seqs[dst]) = 0
        BY <2>2, <4>1, SlotFacts
      <4> QED
        BY <4>2, <4>3
    <3>2. \A t \in Live(st) : PrivateWritten(st2.seqs[t]) = PrivateWritten(st.seqs[t])
      BY <2>13, <3>1
    <3> QED
      BY <2>8, <2>11, <2>14, <3>2 DEF Good, Stamped
  <2>18. Lent(st2)
    <3>1. Lends(st2, src, dst)
      BY <2>2, <2>13 DEF Lends
    <3>2. ASSUME NEW t \in Live(st) \ {dst}, NEW u \in Live(st), st.seqs[t].shared.rows > 0,
                 Lends(st, u, t)
          PROVE  Lends(st2, u, t)
      <4>1. u # dst
        BY <2>2, <3>2, GoodFacts DEF Lends
      <4> QED
        BY <2>13, <3>2, <4>1 DEF Lends
    <3> SUFFICES ASSUME NEW t \in Live(st), st2.seqs[t].shared.rows > 0
                 PROVE  \E u \in Live(st) : Lends(st2, u, t)
      BY <2>11 DEF Lent
    <3>3. CASE t = dst
      BY <3>1, <3>3
    <3>4. CASE t # dst
      <4>1. st.seqs[t].shared.rows > 0
        BY <2>13, <3>4
      <4>2. PICK u \in Live(st) : Lends(st, u, t)
        BY <4>1 DEF Good, Lent
      <4> QED
        BY <3>2, <3>4, <4>1, <4>2
    <3> QED
      BY <3>3, <3>4
  <2>19. \A t \in Live(st) \ {dst} : Untouched(st, st2, t)
    BY <2>8, <2>11, <2>13 DEF Untouched, RowAt
  <2>20. ASSUME NEW p \in 0 .. rows - 1 PROVE RowAt(st2, dst, p) = RowAt(st, src, p)
    <3>1. p \in Int /\ p < rows /\ ~(p < 0)
      BY <2>2
    <3>2. CellOf(st2.seqs[dst], p) = from + p
      BY <2>13, <3>1 DEF CellOf
    <3>3. CellOf(st.seqs[src], p) = from + p
      BY <2>2, <3>1 DEF CellOf
    <3> QED
      BY <2>8, <3>2, <3>3 DEF RowAt
  <2> QED
    BY <2>2, <2>5, <2>11, <2>12, <2>13, <2>15, <2>16, <2>17, <2>18, <2>19, <2>20 DEF Good
<1> HIDE DEF refused
<1> QED
  BY <1>1, <1>2

(* The first cell of the run that s writes when it is fed from position pos on. *)
Low(slot, pos) == slot.start + (IF pos > slot.shared.rows THEN pos - slot.shared.rows ELSE 0)

(* Nobody reads in place what s writes when it is fed from position pos on. *)
Spared(st, s, pos) ==
    \A t \in Live(st) \ {s} : st.seqs[t].shared.rows > 0 =>
        \/ st.seqs[t].shared.cell + st.seqs[t].shared.rows <= Low(st.seqs[s], pos)
        \/ st.seqs[s].start + st.seqs[s].cap <= st.seqs[t].shared.cell

(* Where nobody borrows in place, every write spares the readers. *)
LEMMA NoLoansSpares ==
  ASSUME NEW V, NEW st, Good(st, V), NoLoans(st), NEW s \in Live(st), NEW pos
  PROVE  Spared(st, s, pos)
BY GoodFacts DEF NoLoans, Spared

(* A store that gives a share up from position t on, and shifts the private rows. *)
LEMMA ShiftKeeps ==
  ASSUME NEW V, NEW st, Good(st, V), NEW s \in Live(st), NEW t \in Nat, t < st.seqs[s].shared.rows,
         NEW st2, st2 = KvPrivateRowFor(st, s, t).kv, KvPrivateRowFor(st, s, t).ok
  PROVE  /\ Good(st2, V) /\ Live(st2) = Live(st)
         /\ \A u \in Live(st) \ {s} : st2.seqs[u] = st.seqs[u] /\ Untouched(st, st2, u)
         /\ st2.seqs[s].start = st.seqs[s].start /\ st2.seqs[s].cap = st.seqs[s].cap
         /\ st2.seqs[s].shared.cell = st.seqs[s].shared.cell
         /\ st2.seqs[s].shared.rows = t
         /\ st2.seqs[s].written = st.seqs[s].written
         /\ \A p \in 0 .. t - 1 : RowAt(st2, s, p) = RowAt(st, s, p)
<1> DEFINE A == st.seqs
           B == st.owner
           D == st.data
           slot == A[s]
           x == slot.start
           n == slot.cap
           y == slot.shared.cell
           r == slot.shared.rows
           w == slot.written
           d == r - t
           k == PrivateWritten(slot)
           to == x + d
           e == CopyCells(D, to, x, k)
           stamps == CopyCells(B, to, x, k)
           O == [c \in Cells |-> IF c \in x .. to - 1 /\ stamps[c] = s THEN Free ELSE stamps[c]]
           U == [A EXCEPT ![s].shared.rows = t]
<1>1. st = [seqs |-> A, owner |-> B, data |-> D]
  BY DEF Good, IsStore
<1>2. /\ A \in [Live(st) -> SeqSlots] /\ Live(st) \subseteq SeqIds
      /\ B \in [Cells -> SeqIds \cup {Free}] /\ D \in [Cells -> V]
  BY DEF Good, IsStore, IsTable
<1>3. /\ ~(k + d > n)
      /\ st2 = [st EXCEPT !.data = e, !.owner = O, !.seqs[s].shared.rows = t]
  <2>1. ~(t >= r)
    BY GoodFacts
  <2>2. KvPrivateRowFor(st, s, t) = IF k + d > n THEN Err(st)
            ELSE Ok([st EXCEPT !.data = e, !.owner = O, !.seqs[s].shared.rows = t])
    BY <2>1 DEF KvPrivateRowFor
  <2> HIDE DEF k, d, n, e, O
  <2>3. ~(k + d > n)
    BY <2>2 DEF Err
  <2>4. KvPrivateRowFor(st, s, t)
            = Ok([st EXCEPT !.data = e, !.owner = O, !.seqs[s].shared.rows = t])
    BY <2>2, <2>3
  <2> QED
    BY <2>3, <2>4 DEF Ok
<1>4. /\ x \in Nat /\ n \in Nat /\ n >= 1 /\ y \in Nat /\ r \in Nat /\ w \in Nat /\ k \in Nat
      /\ w <= r + n /\ x + n <= NCtx /\ t < r /\ slot \in SeqSlots
      /\ k = IF w >= r THEN w - r ELSE 0
  BY <1>2, GoodFacts
<1>5. d \in Nat /\ d >= 1 /\ to \in Nat /\ to + k <= x + n /\ to + k <= NCtx /\ x + k <= NCtx
  <2> HIDE DEF x, n, r, k
  <2> QED
    BY <1>3, <1>4, NCtxAssumption
<1>6. Copied(V, D, e, to, x, k)
  <2>1. D \in [Cells -> V] /\ e = CopyCells(D, to, x, k)
    BY <1>2
  <2> HIDE DEF D, e, to, x, k
  <2> QED
    BY <1>4, <1>5, <2>1, CopyFacts
<1>7. Copied(SeqIds \cup {Free}, B, stamps, to, x, k)
  <2> DEFINE W == SeqIds \cup {Free}
  <2>1. B \in [Cells -> W] /\ stamps = CopyCells(B, to, x, k)
    BY <1>2
  <2> HIDE DEF B, stamps, to, x, k, W
  <2>2. Copied(W, B, stamps, to, x, k)
    BY <1>4, <1>5, <2>1, CopyFacts
  <2> QED
    BY <2>2 DEF W
<1>8. st2 = [seqs |-> U, owner |-> O, data |-> e]
  <2> HIDE DEF A, B, D, O, e
  <2>1. st2 \in [seqs : {U}, owner : {O}, data : {e}]
    BY <1>1, <1>3
  <2> HIDE DEF U
  <2> QED
    BY <2>1
<1>9. st2.seqs = U /\ st2.owner = O /\ st2.data = e
  <2> HIDE DEF U, O, e
  <2> QED
    BY <1>8
<1>10. /\ U \in [Live(st) -> SeqSlots]
       /\ \A u \in Live(st) \ {s} : U[u] = A[u]
       /\ U[s].start = x /\ U[s].cap = n /\ U[s].written = w
       /\ U[s].shared.cell = y /\ U[s].shared.rows = t
  <2>1. t \in 0 .. NCtx
    BY <1>4, NCtxAssumption DEF SeqSlots
  <2> HIDE DEF A
  <2>2. U \in [Live(st) -> SeqSlots]
    BY <1>2, <2>1 DEF SeqSlots
  <2>3. \A u \in Live(st) \ {s} : U[u] = A[u]
    BY <1>2
  <2>4. U[s] = [A[s] EXCEPT !.shared = [A[s].shared EXCEPT !.rows = t]]
    BY <1>2
  <2>5. A[s] \in SeqSlots
    BY <1>2
  <2> HIDE DEF U
  <2> QED
    BY <2>2, <2>3, <2>4, <2>5 DEF SeqSlots
<1> HIDE DEF U
<1>11. Live(st2) = Live(st)
  BY <1>9, <1>10 DEF Live
<1>12. /\ O \in [Cells -> SeqIds \cup {Free}]
       /\ \A c \in Cells : O[c] = IF c \in x .. to - 1 /\ stamps[c] = s THEN Free ELSE stamps[c]
  BY <1>7 DEF Copied
<1>13. IsStore(st2, V)
  <2>1. e \in [Cells -> V]
    BY <1>6 DEF Copied
  <2> HIDE DEF A, B, D, O, e
  <2> QED
    BY <1>2, <1>8, <1>9, <1>10, <1>11, <1>12, <2>1 DEF IsStore, IsTable
<1>14. /\ \A u \in Live(st) \ {s} : st2.seqs[u] = st.seqs[u]
       /\ st2.seqs[s].start = x /\ st2.seqs[s].cap = n /\ st2.seqs[s].written = w
       /\ st2.seqs[s].shared.cell = y /\ st2.seqs[s].shared.rows = t
  BY <1>9, <1>10
<1>15. PICK v \in Live(st) :
            /\ Lends(st, v, s) /\ v # s /\ st.seqs[v].shared.rows = 0
            /\ st.seqs[v].start <= y
            /\ y + r <= st.seqs[v].start + st.seqs[v].cap
            /\ y + r <= st.seqs[v].start + st.seqs[v].written
  <2>1. st.seqs[s].shared.rows > 0
    BY <1>4
  <2> QED
    BY <2>1, LoanFacts
<1>16. Separate(st2)
  <2>1. \A u \in Live(st) : /\ st2.seqs[u].start = st.seqs[u].start
                            /\ st2.seqs[u].cap = st.seqs[u].cap
    BY <1>14
  <2> QED
    BY <1>11, <2>1 DEF Good, Separate
<1>17. Fits(st2)
  <2>1. w <= t + n
    <3> HIDE DEF x, n, r, k, w, to
    <3> QED
      BY <1>3, <1>4, <1>5
  <2> QED
    BY <1>11, <1>14, <2>1 DEF Good, Fits
<1>18. PrivateWritten(st2.seqs[s]) = IF w >= t THEN w - t ELSE 0
  <2>1. IsTable(st2)
    BY <1>13 DEF IsStore
  <2>2. PrivateWritten(st2.seqs[s]) = IF st2.seqs[s].written >= st2.seqs[s].shared.rows
                                         THEN st2.seqs[s].written - st2.seqs[s].shared.rows ELSE 0
    BY <1>11, <2>1, SlotFacts
  <2> QED
    BY <1>14, <2>2
<1>19. \A c \in Cells : B[c] # Free /\ x <= c /\ c < x + n => B[c] = s /\ c < x + k
  <2> SUFFICES ASSUME NEW c \in Cells, B[c] # Free, x <= c, c < x + n
               PROVE  B[c] = s /\ c < x + k
    OBVIOUS
  <2> DEFINE u == B[c]
  <2>1. u \in Live(st) /\ st.seqs[u].start <= c /\ c < st.seqs[u].start + PrivateWritten(st.seqs[u])
    BY DEF Good, Stamped
  <2> HIDE DEF u
  <2>2. PrivateWritten(st.seqs[u]) <= st.seqs[u].cap /\ PrivateWritten(st.seqs[u]) \in Nat
        /\ st.seqs[u].start \in Nat /\ st.seqs[u].cap \in Nat
    BY <2>1, GoodFacts
  <2>3. c \in Int
    BY NCtxAssumption DEF Cells
  <2>4. u = s
    <3> SUFFICES ASSUME u # s PROVE FALSE
      OBVIOUS
    <3>1. st.seqs[u].start + st.seqs[u].cap <= x \/ x + n <= st.seqs[u].start
      BY <2>1, GoodFacts
    <3> HIDE DEF x, n
    <3> QED
      BY <1>4, <2>1, <2>2, <2>3, <3>1
  <2> QED
    BY <2>1, <2>4 DEF u
<1>20. Stamped(st2)
  <2> SUFFICES ASSUME NEW c \in Cells, O[c] # Free
               PROVE  /\ O[c] \in Live(st)
                      /\ st2.seqs[O[c]].start <= c
                      /\ c < st2.seqs[O[c]].start + PrivateWritten(st2.seqs[O[c]])
    BY <1>9, <1>11 DEF Stamped
  <2>1. c \in Int /\ c >= 0 /\ c < NCtx /\ NCtx \in Nat
    BY NCtxAssumption DEF Cells
  <2>2. stamps[c] = O[c] /\ ~(c \in x .. to - 1 /\ stamps[c] = s)
    BY <1>12
  <2> HIDE DEF O
  <2>3. CASE to <= c /\ c < to + k
    <3> DEFINE i == c - to
               b == x + i
    <3>1. i \in 0 .. k - 1 /\ to + i = c
      <4> HIDE DEF to, k
      <4> QED
        BY <1>4, <1>5, <2>1, <2>3
    <3>2. stamps[c] = B[b]
      <4> HIDE DEF stamps, to, x, B, k, i
      <4> QED
        BY <1>7, <3>1 DEF Copied
    <3>3. b \in Cells /\ x <= b /\ b < x + n
      <4> HIDE DEF to, k, x, n, i, d
      <4>1. b \in Int /\ x <= b /\ b < x + n /\ b >= 0 /\ b < NCtx
        BY <1>4, <1>5, <2>1, <3>1
      <4> QED
        BY <4>1, <2>1 DEF Cells
    <3>4. O[c] = s
      <4> HIDE DEF b, stamps, B
      <4> QED
        BY <1>19, <2>2, <3>2, <3>3
    <3>5. st2.seqs[s].start = x /\ x <= c /\ c < x + PrivateWritten(st2.seqs[s])
      <4>1. w > r /\ k = w - r
        BY <1>4, <2>3, <1>5, <2>1
      <4>2. PrivateWritten(st2.seqs[s]) = w - t
        BY <1>4, <1>18, <4>1
      <4>3. st2.seqs[s].start = x
        BY <1>14
      <4> HIDE DEF x, k, w, r
      <4> QED
        BY <1>4, <1>5, <2>1, <2>3, <4>1, <4>2, <4>3
    <3> QED
      BY <3>4, <3>5
  <2>4. CASE c < to \/ to + k <= c
    <3>1. stamps[c] = B[c]
      <4> HIDE DEF stamps, to, x, B, k
      <4> QED
        BY <1>7, <2>4 DEF Copied
    <3> DEFINE u == B[c]
    <3>2. u # s
      <4> SUFFICES ASSUME u = s PROVE FALSE
        OBVIOUS
      <4>1. st.seqs[u].start <= c /\ c < st.seqs[u].start + PrivateWritten(st.seqs[u])
        BY <2>2, <3>1 DEF Good, Stamped
      <4>2. x <= c /\ c < x + k
        BY <4>1
      <4>3. c < to
        <5> HIDE DEF x, k, to, d
        <5>1. to >= x
          BY <1>4, <1>5 DEF to
        <5> QED
          BY <1>4, <1>5, <2>1, <2>4, <4>2, <5>1
      <4>4. c \in x .. to - 1
        <5> HIDE DEF x, k, to, d
        <5> QED
          BY <1>4, <1>5, <2>1, <4>2, <4>3
      <4> QED
        BY <2>2, <3>1, <4>4
    <3>3. u \in Live(st) /\ st.seqs[u].start <= c /\ c < st.seqs[u].start + PrivateWritten(st.seqs[u])
      BY <2>2, <3>1 DEF Good, Stamped
    <3> HIDE DEF u
    <3>4. st2.seqs[u] = st.seqs[u]
      BY <1>14, <3>2, <3>3
    <3> QED
      BY <2>2, <3>1, <3>3, <3>4 DEF u
  <2> QED
    <3> HIDE DEF to, k, x
    <3> QED
      BY <1>4, <1>5, <2>1, <2>3, <2>4
<1>21. Lent(st2)
  <2> SUFFICES ASSUME NEW q \in Live(st), st2.seqs[q].shared.rows > 0
               PROVE  \E u \in Live(st) : Lends(st2, u, q)
    BY <1>11 DEF Lent
  <2>1. st.seqs[q].shared.rows > 0
    BY <1>4, <1>14
  <2>2. PICK u \in Live(st) :
           /\ Lends(st, u, q) /\ u # q /\ st.seqs[u].shared.rows = 0
           /\ st.seqs[u].start <= st.seqs[q].shared.cell
           /\ st.seqs[q].shared.cell + st.seqs[q].shared.rows <= st.seqs[u].start + st.seqs[u].written
    BY <2>1, LoanFacts
  <2>3. u # s
    BY <1>4, <2>2
  <2>4. st2.seqs[u] = st.seqs[u]
    BY <1>14, <2>3
  <2>5. st2.seqs[q].shared.cell = st.seqs[q].shared.cell
        /\ st2.seqs[q].shared.rows <= st.seqs[q].shared.rows
        /\ st2.seqs[q].shared.rows \in Nat
    <3>1. IsTable(st2)
      BY <1>13 DEF IsStore
    <3>2. CASE q = s
      BY <1>4, <1>14, <3>2
    <3>3. CASE q # s
      BY <1>14, <3>3, GoodFacts
    <3> QED
      BY <3>2, <3>3
  <2>6. Lends(st2, u, q)
    <3>1. /\ st.seqs[q].shared.cell \in Nat /\ st.seqs[q].shared.rows \in Nat
          /\ st.seqs[u].start \in Nat /\ st.seqs[u].written \in Nat
      BY GoodFacts
    <3> QED
      BY <2>2, <2>4, <2>5, <3>1 DEF Lends
  <2> QED
    BY <2>6
<1>22. ASSUME NEW c \in Cells, c < x \/ x + n <= c PROVE e[c] = D[c]
  <2>1. c \in Int
    BY NCtxAssumption DEF Cells
  <2>2. c < to \/ to + k <= c
    <3>1. to >= x
      <4> HIDE DEF x, d
      <4> QED
        BY <1>4, <1>5
    <3> HIDE DEF to, x, k, n
    <3> QED
      BY <1>4, <1>5, <1>22, <2>1, <3>1
  <2> HIDE DEF e, D, to, x, k
  <2> QED
    BY <1>6, <2>2 DEF Copied
<1>23. ASSUME NEW p \in 0 .. t - 1 PROVE RowAt(st2, s, p) = RowAt(st, s, p)
  <2>1. p \in Nat /\ p < t /\ p < r
    BY <1>4
  <2>2. CellOf(st.seqs[s], p) = y + p /\ CellOf(st2.seqs[s], p) = y + p
    BY <1>14, <2>1 DEF CellOf
  <2> DEFINE c == y + p
             a == st.seqs[v].start
             b == st.seqs[v].cap
  <2>3. /\ a \in Nat /\ b \in Nat /\ a + b <= NCtx
        /\ (a + b <= x \/ x + n <= a)
        /\ a <= y /\ y + r <= a + b
    BY <1>15, GoodFacts
  <2>4. c \in Cells /\ (c < x \/ x + n <= c)
    <3> HIDE DEF a, b, x, n, y, r
    <3>1. c \in Int /\ c >= 0 /\ c < NCtx /\ (c < x \/ x + n <= c)
      BY <1>4, <2>1, <2>3, NCtxAssumption
    <3> QED
      BY <3>1, NCtxAssumption DEF Cells
  <2> HIDE DEF c
  <2>5. e[c] = D[c]
    BY <1>22, <2>4
  <2> QED
    BY <1>9, <2>2, <2>5 DEF RowAt, c
<1>24. ASSUME NEW u \in Live(st) \ {s} PROVE Untouched(st, st2, u)
  <2>1. st2.seqs[u] = st.seqs[u]
    BY <1>14
  <2>2. ASSUME NEW p \in 0 .. st.seqs[u].written - 1 PROVE RowAt(st2, u, p) = RowAt(st, u, p)
    <3> DEFINE c == CellOf(st.seqs[u], p)
               a == st.seqs[u].start
               b == st.seqs[u].cap
               g == st.seqs[u].shared.cell
               h == st.seqs[u].shared.rows
               z == st.seqs[u].written
    <3>1. /\ a \in Nat /\ b \in Nat /\ g \in Nat /\ h \in Nat /\ z \in Nat /\ z <= h + b
          /\ a + b <= NCtx /\ (a + b <= x \/ x + n <= a)
      BY GoodFacts
    <3>2. c = IF p < h THEN g + p ELSE a + (p - h)
      BY DEF CellOf
    <3>3. p \in Nat /\ p < z
      <4> HIDE DEF z
      <4>1. p \in 0 .. z - 1
        BY DEF z
      <4> QED
        BY <3>1, <4>1
    <3>4. h > 0 => /\ g + h <= x \/ x + n <= g
                   /\ g + h <= NCtx
      <4> SUFFICES ASSUME h > 0 PROVE (g + h <= x \/ x + n <= g) /\ g + h <= NCtx
        OBVIOUS
      <4>1. PICK m \in Live(st) :
             /\ Lends(st, m, u) /\ m # u /\ st.seqs[m].shared.rows = 0
             /\ g + h <= st.seqs[m].start + st.seqs[m].cap
             /\ \A q \in Live(st) \ {m} : g + h <= st.seqs[q].start \/ st.seqs[q].start + st.seqs[q].cap <= g
        BY LoanFacts
      <4>2. m # s
        BY <1>4, <4>1
      <4>3. g + h <= x \/ x + n <= g
        BY <4>1, <4>2
      <4>4. st.seqs[m].start \in Nat /\ st.seqs[m].cap \in Nat /\ st.seqs[m].start + st.seqs[m].cap <= NCtx
        BY GoodFacts
      <4> HIDE DEF g, h
      <4>5. g + h <= NCtx
        BY <3>1, <4>1, <4>4, NCtxAssumption
      <4> QED
        BY <4>3, <4>5
    <3>5. c \in Cells /\ (c < x \/ x + n <= c)
      <4> HIDE DEF a, b, g, h, z, x, n, c
      <4>1. c \in Int /\ c >= 0 /\ c < NCtx /\ (c < x \/ x + n <= c)
        BY <1>4, <3>1, <3>2, <3>3, <3>4, NCtxAssumption
      <4> QED
        BY <4>1, NCtxAssumption DEF Cells
    <3> HIDE DEF c
    <3>6. e[c] = D[c]
      BY <1>22, <3>5
    <3> QED
      BY <1>9, <2>1, <3>6 DEF RowAt, c
  <2> QED
    BY <1>11, <2>1, <2>2 DEF Untouched
<1> QED
  BY <1>11, <1>13, <1>14, <1>16, <1>17, <1>20, <1>21, <1>23, <1>24 DEF Good

(* Every run stays where it is, and nobody borrows more than before. *)
Framed(st, st2) ==
    /\ Live(st2) = Live(st)
    /\ \A u \in Live(st) :
          /\ st2.seqs[u].start = st.seqs[u].start /\ st2.seqs[u].cap = st.seqs[u].cap
          /\ st2.seqs[u].shared.cell = st.seqs[u].shared.cell
          /\ st2.seqs[u].shared.rows <= st.seqs[u].shared.rows

(* The first n rows of s read the same. *)
Keeps(st, st2, s, n) == \A p \in 0 .. n - 1 : RowAt(st2, s, p) = RowAt(st, s, p)

(* kv_private_row_for: before position t is overwritten the borrower gives  *)
(* its share up from t on and keeps the rows below; nobody else's rows      *)
(* change, and a failure keeps the share.                                   *)
LEMMA CowKeeps ==
  ASSUME NEW V, NEW st, Good(st, V), NEW s \in Live(st), NEW t \in Nat,
         NEW res, res = KvPrivateRowFor(st, s, t), NEW st2, st2 = res.kv
  PROVE  /\ Good(st2, V) /\ Framed(st, st2)
         /\ \A u \in Live(st) \ {s} : st2.seqs[u] = st.seqs[u] /\ Untouched(st, st2, u)
         /\ st2.seqs[s].written = st.seqs[s].written
         /\ Keeps(st, st2, s, t)
         /\ res.ok => st2.seqs[s].shared.rows <= t
         /\ \/ st2.seqs[s].shared.rows = st.seqs[s].shared.rows
            \/ st2.seqs[s].shared.rows = t /\ t < st.seqs[s].shared.rows
<1>0. st.seqs[s].shared.rows \in Nat /\ \A u \in Live(st) : st.seqs[u].shared.rows \in Nat
  BY GoodFacts
<1>1. CASE t >= st.seqs[s].shared.rows
  <2>1. res = Ok(st)
    BY <1>1 DEF KvPrivateRowFor
  <2>2. st2 = st
    BY <2>1 DEF Ok
  <2> QED
    BY <1>0, <1>1, <2>2 DEF Framed, Keeps, Untouched
<1>2. CASE t < st.seqs[s].shared.rows /\ res.ok
  <2>1. /\ Good(st2, V) /\ Live(st2) = Live(st)
        /\ \A u \in Live(st) \ {s} : st2.seqs[u] = st.seqs[u] /\ Untouched(st, st2, u)
        /\ st2.seqs[s].start = st.seqs[s].start /\ st2.seqs[s].cap = st.seqs[s].cap
        /\ st2.seqs[s].shared.cell = st.seqs[s].shared.cell
        /\ st2.seqs[s].shared.rows = t
        /\ st2.seqs[s].written = st.seqs[s].written
        /\ \A p \in 0 .. t - 1 : RowAt(st2, s, p) = RowAt(st, s, p)
    BY <1>2, ShiftKeeps
  <2>2. Framed(st, st2)
    BY <1>0, <1>2, <2>1 DEF Framed
  <2>3. Keeps(st, st2, s, t)
    BY <2>1 DEF Keeps
  <2> QED
    BY <1>2, <2>1, <2>2, <2>3
<1>3. CASE t < st.seqs[s].shared.rows /\ ~res.ok
  <2>1. ~(t >= st.seqs[s].shared.rows)
    BY <1>0, <1>3
  <2>2. st2 = st
    BY <1>3, <2>1 DEF KvPrivateRowFor, Ok, Err
  <2> QED
    BY <1>0, <1>3, <2>2 DEF Framed, Keeps, Untouched
<1> QED
  BY <1>0, <1>1, <1>2, <1>3

(* Giving shares up never exposes a row somebody reads in place. *)
LEMMA SparedKept ==
  ASSUME NEW V, NEW st, Good(st, V), NEW st2, Good(st2, V), Framed(st, st2),
         NEW q \in Live(st), NEW pos \in Nat, Spared(st, q, pos),
         \/ st2.seqs[q].shared.rows = st.seqs[q].shared.rows
         \/ st2.seqs[q].shared.rows = pos /\ pos < st.seqs[q].shared.rows
  PROVE  Spared(st2, q, pos)
<1>1. Live(st2) = Live(st)
  BY DEF Framed
<1>2. \A u \in Live(st) : /\ st2.seqs[u].start = st.seqs[u].start /\ st2.seqs[u].cap = st.seqs[u].cap
                          /\ st2.seqs[u].shared.cell = st.seqs[u].shared.cell
                          /\ st2.seqs[u].shared.rows <= st.seqs[u].shared.rows
                          /\ st2.seqs[u].shared.rows \in Nat /\ st.seqs[u].shared.rows \in Nat
                          /\ st.seqs[u].start \in Nat /\ st.seqs[u].cap \in Nat
                          /\ st.seqs[u].shared.cell \in Nat
  BY <1>1, GoodFacts DEF Framed
<1>3. Low(st2.seqs[q], pos) = Low(st.seqs[q], pos) /\ Low(st.seqs[q], pos) \in Nat
  BY <1>2 DEF Low
<1> SUFFICES ASSUME NEW t \in Live(st) \ {q}, st2.seqs[t].shared.rows > 0
             PROVE  \/ st2.seqs[t].shared.cell + st2.seqs[t].shared.rows <= Low(st2.seqs[q], pos)
                    \/ st2.seqs[q].start + st2.seqs[q].cap <= st2.seqs[t].shared.cell
  BY <1>1 DEF Spared
<1>4. st.seqs[t].shared.rows > 0
  BY <1>2
<1>5. \/ st.seqs[t].shared.cell + st.seqs[t].shared.rows <= Low(st.seqs[q], pos)
      \/ st.seqs[q].start + st.seqs[q].cap <= st.seqs[t].shared.cell
  BY <1>4 DEF Spared
<1> QED
  BY <1>2, <1>3, <1>5

(* own_positions stamps the part of the positions that the address space covers. *)
LEMMA OwnKeeps ==
  ASSUME NEW V, NEW st, Good(st, V), NEW s \in Live(st), NEW pos \in Nat, NEW n \in Nat \ {0},
         st.seqs[s].shared.rows <= pos,
         NEW res, res = OwnPositions(st, s, pos, n), NEW st2, st2 = res.kv
  PROVE  /\ Good(st2, V) /\ Live(st2) = Live(st) /\ st2.data = st.data
         /\ \A t \in Live(st) :
               /\ st2.seqs[t].start = st.seqs[t].start /\ st2.seqs[t].cap = st.seqs[t].cap
               /\ st2.seqs[t].shared = st.seqs[t].shared
               /\ st2.seqs[t].written >= st.seqs[t].written
         /\ \A t \in Live(st) \ {s} : st2.seqs[t] = st.seqs[t]
         /\ res.ok => /\ pos + n <= st.seqs[s].shared.rows + st.seqs[s].cap
                      /\ st2.seqs[s].written >= pos + n
<1> DEFINE slot == st.seqs[s]
           x == slot.start
           m == slot.cap
           r == slot.shared.rows
           covered == {p \in pos .. pos + n - 1 : p \in Positions(slot)}
           cells == {CellOf(slot, p) : p \in covered}
           none == pos >= r + m
           a == IF none THEN 0 ELSE pos - r
           b == IF none THEN 0 ELSE IF pos + n <= r + m THEN pos + n - r ELSE m
<1>1. x \in Nat /\ m \in Nat /\ m >= 1 /\ r \in Nat /\ r <= pos
      /\ \A t \in Live(st) : st.seqs[t].written \in Nat
  BY GoodFacts
<1>2. res.ok = (covered = pos .. pos + n - 1) /\ st2 = OwnCells(st, s, cells)
  BY DEF OwnPositions
<1>3. a \in Nat /\ b \in Nat /\ a <= b /\ b <= m
  <2> HIDE DEF m, r
  <2> QED
    BY <1>1
<1>4. \A p \in Int : p \in covered <=> pos <= p /\ p < pos + n /\ p < r + m
  <2>1. Positions(slot) = 0 .. r + m - 1
    BY DEF Positions
  <2> HIDE DEF slot, m, r
  <2> QED
    BY <1>1, <2>1
<1>5. cells = x + a .. x + b - 1
  <2>1. \A p \in covered : p \in Int /\ CellOf(slot, p) = x + (p - r)
    <3> SUFFICES ASSUME NEW p \in covered PROVE p \in Int /\ ~(p < r)
      BY DEF CellOf
    <3>1. p \in Int
      OBVIOUS
    <3> HIDE DEF covered, r, m
    <3> QED
      BY <1>1, <1>4, <3>1
  <2>2. \A c \in cells : \E p \in covered : c = x + (p - r)
    BY <2>1
  <2>3. \A p \in covered : x + (p - r) \in cells
    BY <2>1
  <2>4. \A p \in covered : p \in Int
    BY <2>1
  <2> HIDE DEF covered, cells, slot, x, r, m
  <2>5. ASSUME NEW c \in cells PROVE c \in x + a .. x + b - 1
    <3>1. PICK p \in covered : c = x + (p - r)
      BY <2>2
    <3>2. p \in Int /\ pos <= p /\ p < pos + n /\ p < r + m
      BY <1>4, <2>4
    <3> QED
      BY <1>1, <3>1, <3>2
  <2>6. ASSUME NEW c \in x + a .. x + b - 1 PROVE c \in cells
    <3> DEFINE p == r + (c - x)
    <3>1. p \in Int /\ pos <= p /\ p < pos + n /\ p < r + m /\ x + (p - r) = c
      BY <1>1, <1>3
    <3>2. p \in covered
      BY <1>4, <3>1
    <3> HIDE DEF p
    <3> QED
      BY <2>3, <3>1, <3>2
  <2> HIDE DEF a, b
  <2> QED
    BY <2>5, <2>6
<1>6. /\ Good(st2, V) /\ Live(st2) = Live(st) /\ st2.data = st.data
      /\ \A t \in Live(st) :
               /\ st2.seqs[t].start = st.seqs[t].start /\ st2.seqs[t].cap = st.seqs[t].cap
               /\ st2.seqs[t].shared = st.seqs[t].shared
      /\ \A t \in Live(st) \ {s} : st2.seqs[t] = st.seqs[t]
      /\ st2.seqs[s].written >= st.seqs[s].written
      /\ a < b => st2.seqs[s].written >= st.seqs[s].shared.rows + b
  <2>1. cells = CellsFrom(st.seqs[s], a, b)
    BY <1>5 DEF CellsFrom
  <2> HIDE DEF cells, a, b
  <2> QED
    BY <1>2, <1>3, <2>1, OwnRun
<1>7. res.ok => pos + n <= r + m
  <2> SUFFICES ASSUME res.ok PROVE pos + n <= r + m
    OBVIOUS
  <2> DEFINE p == pos + n - 1
  <2>1. p \in Int /\ p \in pos .. pos + n - 1
    OBVIOUS
  <2>2. p \in covered
    <3> HIDE DEF covered, p
    <3> QED
      BY <1>2, <2>1
  <2>3. p < r + m
    <3> HIDE DEF covered, p, r, m
    <3> QED
      BY <1>4, <2>1, <2>2
  <2> HIDE DEF r, m
  <2> QED
    BY <1>1, <2>3
<1>8. res.ok => st2.seqs[s].written >= pos + n
  <2> SUFFICES ASSUME res.ok PROVE st2.seqs[s].written >= pos + n
    OBVIOUS
  <2>0. pos + n <= r + m
    BY <1>7
  <2>1. a < b /\ r + b = pos + n
    <3> HIDE DEF r, m
    <3> QED
      BY <1>1, <2>0
  <2> HIDE DEF a, b
  <2> QED
    BY <1>6, <2>1
<1>9. \A t \in Live(st) : st2.seqs[t].written >= st.seqs[t].written
  BY <1>1, <1>6
<1> QED
  BY <1>6, <1>7, <1>8, <1>9

(* The copy-on-write loop of fill_batch_inputs: it stops at the first       *)
(* failure.                                                                 *)
CowStep(c, res, g) == IF res.ok THEN KvPrivateRowFor(res.kv, g.seq, g.pos) ELSE res

(* Its fold. *)
CowLoop == INSTANCE FoldProofs WITH Step <- CowStep

(* The stamping loop of fill_batch_inputs: it stops at the first failure. *)
OwnStep(alone, res, g) == IF res.ok THEN OwnGroup(res.kv, g, alone) ELSE res

(* Its fold. *)
OwnLoop == INSTANCE FoldProofs WITH Step <- OwnStep

(* A batch feeds distinct live sequences from positions they have written    *)
(* up to, and overwrites no row that another sequence reads in place.        *)
IsBatch(st, V, batch) ==
    /\ Len(batch) \in Nat /\ DOMAIN batch = 1 .. Len(batch)
    /\ \A i \in 1 .. Len(batch) :
          /\ batch[i].seq \in Live(st) /\ batch[i].pos \in Nat
          /\ batch[i].pos <= st.seqs[batch[i].seq].written
          /\ Len(batch[i].vals) \in Nat \ {0}
          /\ \A j \in 1 .. Len(batch[i].vals) : batch[i].vals[j] \in V
          /\ Spared(st, batch[i].seq, batch[i].pos)
    /\ \A i, j \in 1 .. Len(batch) : i # j => batch[i].seq # batch[j].seq

(* The sequences a batch feeds. *)
Fed(batch) == {batch[i].seq : i \in 1 .. Len(batch)}

(* What the copy-on-writes of a batch have done to a store. *)
Cowed(V, st, st1, batch) ==
    /\ Good(st1, V) /\ Framed(st, st1)
    /\ \A u \in Live(st) \ Fed(batch) : st1.seqs[u] = st.seqs[u] /\ Untouched(st, st1, u)
    /\ \A i \in 1 .. Len(batch) :
          /\ st1.seqs[batch[i].seq].written = st.seqs[batch[i].seq].written
          /\ Keeps(st, st1, batch[i].seq, batch[i].pos)
          /\ Spared(st1, batch[i].seq, batch[i].pos)

(* Two steps that frame every run frame it together. *)
LEMMA FramedChain ==
  ASSUME NEW V, NEW a, NEW b, NEW c, Good(a, V), Good(b, V), Good(c, V), Framed(a, b), Framed(b, c)
  PROVE  Framed(a, c)
<1>1. Live(b) = Live(a) /\ Live(c) = Live(a)
  BY DEF Framed
<1>2. \A u \in Live(a) : /\ a.seqs[u].shared.rows \in Nat /\ b.seqs[u].shared.rows \in Nat
                         /\ c.seqs[u].shared.rows \in Nat
  BY <1>1, GoodFacts
<1> QED
  BY <1>1, <1>2 DEF Framed

(* One more copy-on-write of the batch. *)
LEMMA CowStepKeeps ==
  ASSUME NEW V, NEW st, Good(st, V), NEW batch, IsBatch(st, V, batch),
         NEW st1, Cowed(V, st, st1, batch), NEW i \in 1 .. Len(batch),
         NEW res, res = KvPrivateRowFor(st1, batch[i].seq, batch[i].pos)
  PROVE  /\ Cowed(V, st, res.kv, batch) /\ Framed(st1, res.kv)
         /\ res.ok => res.kv.seqs[batch[i].seq].shared.rows <= batch[i].pos
<1> DEFINE s == batch[i].seq
           t == batch[i].pos
           st2 == res.kv
<1>1. Good(st1, V) /\ Framed(st, st1) /\ Live(st1) = Live(st)
  BY DEF Cowed, Framed
<1>2. s \in Live(st1) /\ t \in Nat
  BY <1>1 DEF IsBatch
<1>3. /\ Good(st2, V) /\ Framed(st1, st2)
      /\ \A u \in Live(st1) \ {s} : st2.seqs[u] = st1.seqs[u] /\ Untouched(st1, st2, u)
      /\ st2.seqs[s].written = st1.seqs[s].written
      /\ Keeps(st1, st2, s, t)
      /\ res.ok => st2.seqs[s].shared.rows <= t
      /\ \/ st2.seqs[s].shared.rows = st1.seqs[s].shared.rows
         \/ st2.seqs[s].shared.rows = t /\ t < st1.seqs[s].shared.rows
  <2> HIDE DEF s, t, st2
  <2>1. res = KvPrivateRowFor(st1, s, t) /\ st2 = res.kv
    BY DEF s, t, st2
  <2> QED
    BY <1>1, <1>2, <2>1, CowKeeps
<1> HIDE DEF st2
<1>4. Framed(st, st2)
  BY <1>1, <1>3, FramedChain
<1>5. ASSUME NEW u \in Live(st) \ Fed(batch)
      PROVE  st2.seqs[u] = st.seqs[u] /\ Untouched(st, st2, u)
  <2>1. u \in Live(st1) \ {s}
    BY <1>1 DEF Fed
  <2>2. st1.seqs[u] = st.seqs[u] /\ Untouched(st, st1, u)
    BY DEF Cowed
  <2> QED
    BY <1>3, <2>1, <2>2, UntouchedChain
<1>6. ASSUME NEW j \in 1 .. Len(batch)
      PROVE  /\ st2.seqs[batch[j].seq].written = st.seqs[batch[j].seq].written
             /\ Keeps(st, st2, batch[j].seq, batch[j].pos)
             /\ Spared(st2, batch[j].seq, batch[j].pos)
  <2> DEFINE q == batch[j].seq
             p == batch[j].pos
  <2>1. /\ q \in Live(st1) /\ p \in Nat /\ p <= st.seqs[q].written
        /\ st1.seqs[q].written = st.seqs[q].written
        /\ Keeps(st, st1, q, p) /\ Spared(st1, q, p)
    BY <1>1 DEF IsBatch, Cowed
  <2>2. CASE j = i
    <3>1. q = s /\ p = t
      BY <2>2
    <3> HIDE DEF q, p, s, t
    <3>2. Keeps(st, st2, q, p)
      BY <1>3, <2>1, <3>1 DEF Keeps
    <3>3. Spared(st2, q, p)
      BY <1>1, <1>3, <2>1, <3>1, SparedKept
    <3> QED
      BY <1>3, <2>1, <3>1, <3>2, <3>3 DEF q, p
  <2>3. CASE j # i
    <3>1. q # s
      BY <2>3 DEF IsBatch
    <3>2. st1.seqs[q].written \in Nat
      BY <1>1, <2>1, GoodFacts
    <3> HIDE DEF q, p, s, t
    <3>3. st2.seqs[q] = st1.seqs[q] /\ Untouched(st1, st2, q)
      BY <1>3, <2>1, <3>1
    <3>4. Keeps(st1, st2, q, p)
      <4>1. \A x \in 0 .. p - 1 : x \in 0 .. st1.seqs[q].written - 1
        BY <2>1, <3>2
      <4> QED
        BY <3>3, <4>1 DEF Keeps, Untouched
    <3>5. Keeps(st, st2, q, p)
      BY <2>1, <3>4 DEF Keeps
    <3>6. Spared(st2, q, p)
      BY <1>1, <1>3, <2>1, <3>3, SparedKept
    <3> QED
      BY <2>1, <3>3, <3>5, <3>6 DEF q, p
  <2> QED
    BY <2>2, <2>3
<1>7. Cowed(V, st, st2, batch)
  BY <1>3, <1>4, <1>5, <1>6 DEF Cowed
<1> QED
  BY <1>3, <1>7 DEF st2

(* The intermediate results of the copy-on-write loop. *)
CowTrace(g, base, batch) ==
    /\ g[0] = base
    /\ \A n \in 1 .. Len(batch) : g[n] = CowStep(0, g[n - 1], batch[n])
    /\ CowLoop!Fold(0, base, batch) = g[Len(batch)]

(* The intermediate results of the stamping loop. *)
OwnTrace(g, alone, base, batch) ==
    /\ g[0] = base
    /\ \A n \in 1 .. Len(batch) : g[n] = OwnStep(alone, g[n - 1], batch[n])
    /\ OwnLoop!Fold(alone, base, batch) = g[Len(batch)]

(* The copy-on-write loop, step by step. *)
LEMMA CowUnfolds ==
  ASSUME NEW base, NEW batch, Len(batch) \in Nat
  PROVE  \E g : CowTrace(g, base, batch)
BY CowLoop!FoldUnfolds DEF CowTrace

(* The stamping loop, step by step. *)
LEMMA OwnUnfolds ==
  ASSUME NEW alone, NEW base, NEW batch, Len(batch) \in Nat
  PROVE  \E g : OwnTrace(g, alone, base, batch)
BY OwnLoop!FoldUnfolds DEF OwnTrace

(* All copy-on-writes of a batch, or those before one that failed:          *)
(* afterwards no group of a batch that passed writes into a shared prefix.  *)
LEMMA CopyOnWriteKeeps ==
  ASSUME NEW V, NEW st, Good(st, V), NEW batch, IsBatch(st, V, batch),
         NEW res, res = CopyOnWrite(st, batch)
  PROVE  /\ Cowed(V, st, res.kv, batch)
         /\ res.ok => \A i \in 1 .. Len(batch) : res.kv.seqs[batch[i].seq].shared.rows <= batch[i].pos
<1> DEFINE N == Len(batch)
<1>0. N \in Nat
  BY DEF IsBatch
<1>1. \E g : CowTrace(g, Ok(st), batch)
  <2> DEFINE base == Ok(st)
  <2>1. Len(batch) \in Nat
    BY <1>0
  <2> HIDE DEF base
  <2>2. \E g : CowTrace(g, base, batch)
    BY <2>1, CowUnfolds
  <2> QED
    BY <2>2 DEF base
<1>2. CopyOnWrite(st, batch) = CowLoop!Fold(0, Ok(st), batch)
  BY DEF CopyOnWrite, Through, CowLoop!Fold, CowStep, The, CowLoop!The
<1>3. PICK f : /\ f[0] = Ok(st)
               /\ \A n \in 1 .. N : f[n] = CowStep(0, f[n - 1], batch[n])
               /\ res = f[N]
  BY <1>1, <1>2 DEF CowTrace
<1> DEFINE R(k) == /\ Cowed(V, st, f[k].kv, batch)
                   /\ f[k].ok => \A i \in 1 .. k : f[k].kv.seqs[batch[i].seq].shared.rows <= batch[i].pos
           T == {k \in 0 .. N : R(k)}
<1>4. R(0)
  <2>1. f[0].kv = st
    BY <1>3 DEF Ok
  <2>2. Cowed(V, st, st, batch)
    <3>1. Framed(st, st)
      BY GoodFacts DEF Framed
    <3>2. \A u \in Live(st) : Untouched(st, st, u)
      BY DEF Untouched
    <3> QED
      BY <3>1, <3>2 DEF Cowed, Keeps, IsBatch
  <2> QED
    BY <2>1, <2>2
<1>5. ASSUME NEW k \in 0 .. N - 1, R(k) PROVE R(k + 1)
  <2>1. k + 1 \in 1 .. N /\ (k + 1) - 1 = k
    BY <1>0
  <2>2. f[k + 1] = CowStep(0, f[k], batch[k + 1])
    BY <1>3, <2>1
  <2>3. CASE ~f[k].ok
    <3>1. f[k + 1] = f[k]
      BY <2>2, <2>3 DEF CowStep
    <3> QED
      BY <1>5, <2>3, <3>1
  <2>4. CASE f[k].ok
    <3> DEFINE a == f[k].kv
               r == f[k + 1]
               j == k + 1
    <3>1. r = KvPrivateRowFor(a, batch[j].seq, batch[j].pos)
      BY <2>2, <2>4 DEF CowStep
    <3>2. Cowed(V, st, a, batch) /\ j \in 1 .. Len(batch)
      BY <1>5, <2>1
    <3>2a. \A i \in 1 .. k : a.seqs[batch[i].seq].shared.rows <= batch[i].pos
      BY <1>5, <2>4
    <3> HIDE DEF a, r, j
    <3>3. /\ Cowed(V, st, r.kv, batch) /\ Framed(a, r.kv)
          /\ r.ok => r.kv.seqs[batch[j].seq].shared.rows <= batch[j].pos
      BY <3>1, <3>2, CowStepKeeps
    <3>4. ASSUME r.ok, NEW i \in 1 .. k PROVE r.kv.seqs[batch[i].seq].shared.rows <= batch[i].pos
      <4>1. i \in 1 .. Len(batch)
        BY <1>0, <1>5
      <4> DEFINE s == batch[i].seq
      <4>2. s \in Live(a) /\ s \in Live(r.kv) /\ batch[i].pos \in Nat
        BY <3>2, <3>3, <4>1 DEF Cowed, Framed, IsBatch
      <4>3. r.kv.seqs[s].shared.rows <= a.seqs[s].shared.rows
        BY <3>3, <4>2 DEF Framed
      <4>4. r.kv.seqs[s].shared.rows \in Nat /\ a.seqs[s].shared.rows \in Nat
        <5>1. Good(a, V) /\ Good(r.kv, V)
          BY <3>2, <3>3 DEF Cowed
        <5> QED
          BY <4>2, <5>1, GoodFacts
      <4>5. a.seqs[s].shared.rows <= batch[i].pos
        BY <3>2a
      <4> QED
        BY <4>2, <4>3, <4>4, <4>5
    <3>5. \A i \in 1 .. k + 1 : i = j \/ i \in 1 .. k
      BY <1>0 DEF j
    <3> QED
      BY <3>3, <3>4, <3>5 DEF r
  <2> QED
    BY <2>3, <2>4
<1> HIDE DEF R
<1>6. 0 \in T /\ \A n \in 0 .. N - 1 : n \in T => n + 1 \in T
  BY <1>0, <1>4, <1>5
<1> HIDE DEF T
<1>7. N \in T
  <2>1. N \in Nat /\ N \in 0 .. N
    BY <1>0
  <2> HIDE DEF N
  <2>2. \A n \in 0 .. N : n \in T
    BY <1>6, <2>1, Induct
  <2> QED
    BY <2>1, <2>2
<1>8. R(N)
  BY <1>7 DEF T
<1> QED
  BY <1>3, <1>8 DEF R

(* What stamping the cells of a batch has done to a store. *)
Owned(V, a, b, batch) ==
    /\ Good(b, V) /\ Live(b) = Live(a) /\ b.data = a.data
    /\ \A u \in Live(a) :
          /\ b.seqs[u].start = a.seqs[u].start /\ b.seqs[u].cap = a.seqs[u].cap
          /\ b.seqs[u].shared = a.seqs[u].shared /\ b.seqs[u].written >= a.seqs[u].written
    /\ \A u \in Live(a) \ Fed(batch) : b.seqs[u] = a.seqs[u]

(* The group fits the address space of its sequence, which is written up to it. *)
Covered(st, g) ==
    /\ st.seqs[g.seq].shared.rows <= g.pos
    /\ g.pos + Len(g.vals) <= st.seqs[g.seq].shared.rows + st.seqs[g.seq].cap
    /\ st.seqs[g.seq].written >= g.pos + Len(g.vals)

(* Stamping one more group of the batch (own_row or own_positions). *)
LEMMA OwnStepKeeps ==
  ASSUME NEW V, NEW batch, NEW a, Good(a, V), NEW b, Owned(V, a, b, batch), NEW i \in 1 .. Len(batch),
         batch[i].seq \in Live(a), batch[i].pos \in Nat, Len(batch[i].vals) \in Nat \ {0},
         a.seqs[batch[i].seq].shared.rows <= batch[i].pos,
         NEW alone, NEW res, res = OwnGroup(b, batch[i], alone)
  PROVE  /\ Owned(V, a, res.kv, batch) /\ Owned(V, b, res.kv, batch)
         /\ res.ok => Covered(res.kv, batch[i])
<1> DEFINE s == batch[i].seq
           p == batch[i].pos
           n == Len(batch[i].vals)
           c == res.kv
<1>1. /\ Good(b, V) /\ s \in Live(b) /\ p \in Nat /\ n \in Nat \ {0} /\ b.seqs[s].shared.rows <= p
      /\ Live(b) = Live(a)
  BY DEF Owned
<1>2. res = OwnPositions(b, s, p, n)
  BY <1>1 DEF OwnGroup
<1>3. s \in Fed(batch)
  BY DEF Fed
<1>4. /\ Good(c, V) /\ Live(c) = Live(b) /\ c.data = b.data
      /\ \A t \in Live(b) :
               /\ c.seqs[t].start = b.seqs[t].start /\ c.seqs[t].cap = b.seqs[t].cap
               /\ c.seqs[t].shared = b.seqs[t].shared
               /\ c.seqs[t].written >= b.seqs[t].written
      /\ \A t \in Live(b) \ {s} : c.seqs[t] = b.seqs[t]
      /\ res.ok => /\ p + n <= b.seqs[s].shared.rows + b.seqs[s].cap
                   /\ c.seqs[s].written >= p + n
  <2> HIDE DEF s, p, n
  <2> QED
    BY <1>1, <1>2, OwnKeeps, SMTT(60)
<1> HIDE DEF c
<1>5. Owned(V, b, c, batch)
  BY <1>3, <1>4 DEF Owned
<1>6. Owned(V, a, c, batch)
  <2>1. \A u \in Live(a) : /\ a.seqs[u].written \in Nat /\ b.seqs[u].written \in Nat
                           /\ c.seqs[u].written \in Nat
    BY <1>1, <1>4, GoodFacts
  <2> QED
    BY <1>3, <1>4, <2>1 DEF Owned
<1>7. res.ok => Covered(c, batch[i])
  <2>1. c.seqs[s].shared = b.seqs[s].shared /\ c.seqs[s].cap = b.seqs[s].cap
    BY <1>1, <1>4
  <2> QED
    BY <1>1, <1>4, <2>1 DEF Covered
<1> QED
  BY <1>5, <1>6, <1>7 DEF c

(* Stamping exposes no row that somebody reads in place. *)
LEMMA SparedOwned ==
  ASSUME NEW V, NEW a, NEW b, NEW batch, Owned(V, a, b, batch), NEW q \in Live(a), NEW pos,
         Spared(a, q, pos)
  PROVE  Spared(b, q, pos)
BY DEF Spared, Owned, Low

(* A batch that was filled, or failed to be: nobody lost a row it still claims. *)
Filled(V, st, res, batch) ==
    /\ Good(res.kv, V) /\ Framed(st, res.kv)
    /\ \A u \in Live(st) \ Fed(batch) : Untouched(st, res.kv, u)
    /\ \A i \in 1 .. Len(batch) : /\ Keeps(st, res.kv, batch[i].seq, batch[i].pos)
                                  /\ Spared(res.kv, batch[i].seq, batch[i].pos)
    /\ res.ok => \A i \in 1 .. Len(batch) : Covered(res.kv, batch[i])

(* A group that has its cells keeps them while others get theirs. *)
LEMMA CoveredOwned ==
  ASSUME NEW V, NEW a, Good(a, V), NEW b, NEW batch, Owned(V, a, b, batch), NEW i \in 1 .. Len(batch),
         batch[i].seq \in Live(a), batch[i].pos \in Nat, Len(batch[i].vals) \in Nat \ {0},
         Covered(a, batch[i])
  PROVE  Covered(b, batch[i])
<1> DEFINE s == batch[i].seq
<1>1. /\ b.seqs[s].shared = a.seqs[s].shared /\ b.seqs[s].cap = a.seqs[s].cap
      /\ b.seqs[s].written >= a.seqs[s].written
      /\ b.seqs[s].written \in Nat /\ a.seqs[s].written \in Nat
  <2>1. Good(b, V) /\ s \in Live(b)
    BY DEF Owned
  <2> QED
    BY <2>1, GoodFacts DEF Owned
<1> QED
  BY <1>1 DEF Covered

(* Copy-on-writes, then stamps: what fill_batch_inputs has done. *)
LEMMA CowedFilled ==
  ASSUME NEW V, NEW st, Good(st, V), NEW batch, IsBatch(st, V, batch), NEW a, Cowed(V, st, a, batch),
         NEW res, Owned(V, a, res.kv, batch),
         res.ok => \A i \in 1 .. Len(batch) : Covered(res.kv, batch[i])
  PROVE  Filled(V, st, res, batch)
<1> DEFINE b == res.kv
<1>1. Good(a, V) /\ Framed(st, a) /\ Live(a) = Live(st) /\ Good(b, V) /\ Live(b) = Live(a)
      /\ b.data = a.data
  BY DEF Cowed, Owned, Framed
<1>2. \A u \in Live(a) :
          /\ b.seqs[u].start = a.seqs[u].start /\ b.seqs[u].cap = a.seqs[u].cap
          /\ b.seqs[u].shared = a.seqs[u].shared
  BY DEF Owned
<1>3. \A u \in Live(a), p \in Int : RowAt(b, u, p) = RowAt(a, u, p)
  BY <1>1, <1>2 DEF RowAt, CellOf
<1> HIDE DEF b
<1>4. Framed(st, b)
  <2>1. Framed(a, b)
    BY <1>1, <1>2, GoodFacts DEF Framed
  <2> QED
    BY <1>1, <2>1, FramedChain
<1>5. ASSUME NEW u \in Live(st) \ Fed(batch) PROVE Untouched(st, b, u)
  <2>1. b.seqs[u] = a.seqs[u] /\ Untouched(st, a, u)
    BY <1>1 DEF Cowed, Owned, b
  <2>2. Untouched(a, b, u)
    BY <1>1, <1>3, <2>1 DEF Untouched
  <2> QED
    BY <2>1, <2>2, UntouchedChain
<1>6. ASSUME NEW i \in 1 .. Len(batch)
      PROVE  /\ Keeps(st, b, batch[i].seq, batch[i].pos)
             /\ Spared(b, batch[i].seq, batch[i].pos)
  <2>1. batch[i].seq \in Live(a)
    BY <1>1 DEF IsBatch
  <2>2. Keeps(st, a, batch[i].seq, batch[i].pos) /\ Spared(a, batch[i].seq, batch[i].pos)
    BY DEF Cowed
  <2>3. Spared(b, batch[i].seq, batch[i].pos)
    BY <2>1, <2>2, SparedOwned DEF b
  <2>4. Keeps(st, b, batch[i].seq, batch[i].pos)
    BY <1>3, <2>1, <2>2 DEF Keeps
  <2> QED
    BY <2>3, <2>4
<1> QED
  BY <1>1, <1>4, <1>5, <1>6 DEF Filled, b

(* fill_batch_inputs on a batch that spares its readers: whether it fails   *)
(* at any group or succeeds, every sequence keeps the rows it still claims, *)
(* and on success every group has its cells.                                *)
LEMMA FillKeeps ==
  ASSUME NEW V, NEW st, Good(st, V), NEW batch, IsBatch(st, V, batch),
         NEW res, res = FillBatchInputs(st, batch)
  PROVE  Filled(V, st, res, batch)
<1> DEFINE N == Len(batch)
           cow == CopyOnWrite(st, batch)
           alone == Len(batch) = 1
           a == cow.kv
<1>0. N \in Nat /\ Len(batch) \in Nat
  BY DEF IsBatch
<1>1. /\ Cowed(V, st, a, batch)
      /\ cow.ok => \A i \in 1 .. Len(batch) : a.seqs[batch[i].seq].shared.rows <= batch[i].pos
  BY CopyOnWriteKeeps
<1>2. FillBatchInputs(st, batch) = OwnLoop!Fold(alone, cow, batch)
  BY DEF FillBatchInputs, Through, OwnLoop!Fold, OwnStep, The, OwnLoop!The
<1> HIDE DEF cow, alone
<1>3. PICK f : OwnTrace(f, alone, cow, batch)
  BY <1>0, OwnUnfolds
<1>4. f[0] = cow /\ res = f[N] /\ \A n \in 1 .. N : f[n] = OwnStep(alone, f[n - 1], batch[n])
  BY <1>2, <1>3 DEF OwnTrace
<1>5. Good(a, V) /\ Live(a) = Live(st)
  BY <1>1 DEF Cowed, Framed
<1>6. \A i \in 1 .. N : batch[i].seq \in Live(a) /\ batch[i].pos \in Nat /\ Len(batch[i].vals) \in Nat \ {0}
  BY <1>5 DEF IsBatch
<1> DEFINE R(k) == /\ Owned(V, a, f[k].kv, batch)
                   /\ f[k].ok => cow.ok /\ \A i \in 1 .. k : Covered(f[k].kv, batch[i])
           T == {k \in 0 .. N : R(k)}
<1>7. R(0)
  <2>1. Owned(V, a, a, batch)
    BY <1>5, GoodFacts DEF Owned
  <2> QED
    BY <1>4, <2>1
<1>8. ASSUME NEW k \in 0 .. N - 1, R(k) PROVE R(k + 1)
  <2>1. k + 1 \in 1 .. N /\ (k + 1) - 1 = k
    BY <1>0
  <2>2. f[k + 1] = OwnStep(alone, f[k], batch[k + 1])
    BY <1>4, <2>1
  <2>3. CASE ~f[k].ok
    <3>1. f[k + 1] = f[k]
      BY <2>2, <2>3 DEF OwnStep
    <3> QED
      BY <1>8, <2>3, <3>1
  <2>4. CASE f[k].ok
    <3> DEFINE b == f[k].kv
               r == f[k + 1]
               j == k + 1
    <3>1. r = OwnGroup(b, batch[j], alone)
      BY <2>2, <2>4 DEF OwnStep
    <3>2. Owned(V, a, b, batch) /\ j \in 1 .. Len(batch)
      BY <1>8, <2>1
    <3>3. cow.ok /\ \A i \in 1 .. k : Covered(b, batch[i])
      BY <1>8, <2>4
    <3>4. a.seqs[batch[j].seq].shared.rows <= batch[j].pos
      BY <1>1, <3>2, <3>3
    <3>5. batch[j].seq \in Live(a) /\ batch[j].pos \in Nat /\ Len(batch[j].vals) \in Nat \ {0}
      BY <1>6, <3>2
    <3> HIDE DEF a, b, r, j
    <3>6. /\ Owned(V, a, r.kv, batch) /\ Owned(V, b, r.kv, batch)
          /\ r.ok => Covered(r.kv, batch[j])
      BY <1>5, <3>1, <3>2, <3>4, <3>5, OwnStepKeeps
    <3>7. ASSUME NEW i \in 1 .. k PROVE Covered(r.kv, batch[i])
      <4>1. i \in 1 .. Len(batch) /\ i \in 1 .. N
        BY <1>0, <1>8
      <4>2. Good(b, V) /\ Live(b) = Live(a)
        BY <3>2 DEF Owned
      <4>3. batch[i].seq \in Live(b) /\ batch[i].pos \in Nat /\ Len(batch[i].vals) \in Nat \ {0}
        BY <1>6, <4>1, <4>2
      <4>4. Covered(b, batch[i])
        BY <3>3
      <4> QED
        BY <3>6, <4>1, <4>2, <4>3, <4>4, CoveredOwned
    <3>8. \A i \in 1 .. k + 1 : i = j \/ i \in 1 .. k
      BY <1>0 DEF j
    <3> QED
      BY <3>3, <3>6, <3>7, <3>8 DEF r
  <2> QED
    BY <2>3, <2>4
<1> HIDE DEF R
<1>9. 0 \in T /\ \A n \in 0 .. N - 1 : n \in T => n + 1 \in T
  BY <1>0, <1>7, <1>8
<1> HIDE DEF T
<1>10. N \in T
  <2>1. N \in Nat /\ N \in 0 .. N
    BY <1>0
  <2> HIDE DEF N
  <2>2. \A n \in 0 .. N : n \in T
    BY <1>9, <2>1, Induct
  <2> QED
    BY <2>1, <2>2
<1>11. R(N)
  BY <1>10 DEF T
<1>12. Owned(V, a, res.kv, batch) /\ (res.ok => \A i \in 1 .. Len(batch) : Covered(res.kv, batch[i]))
  BY <1>4, <1>11 DEF R
<1> QED
  BY <1>1, <1>12, CowedFilled

(* A row somebody claims lies outside the cells a spared group writes. *)
LEMMA RowsClear ==
  ASSUME NEW V, NEW st, Good(st, V), NEW u \in Live(st), NEW p \in Nat, p < st.seqs[u].written,
         NEW s \in Live(st), NEW pos \in Nat, Spared(st, s, pos), st.seqs[s].shared.rows <= pos,
         u = s => p < pos, NEW c, c = CellOf(st.seqs[u], p)
  PROVE  /\ c \in Cells
         /\ c < st.seqs[s].start + (pos - st.seqs[s].shared.rows) \/ st.seqs[s].start + st.seqs[s].cap <= c
<1> DEFINE a == st.seqs[u].start
           b == st.seqs[u].cap
           g == st.seqs[u].shared.cell
           h == st.seqs[u].shared.rows
           w == st.seqs[u].written
           x == st.seqs[s].start
           n == st.seqs[s].cap
           r == st.seqs[s].shared.rows
           low == x + (pos - r)
<1>1. /\ a \in Nat /\ b \in Nat /\ g \in Nat /\ h \in Nat /\ w \in Nat /\ w <= h + b /\ a + b <= NCtx
      /\ x \in Nat /\ n \in Nat /\ n >= 1 /\ r \in Nat /\ r <= pos /\ p < w
  BY GoodFacts
<1>2. c = IF p < h THEN g + p ELSE a + (p - h)
  BY DEF CellOf
<1>3. Low(st.seqs[s], pos) = low
  <2>1. Low(st.seqs[s], pos) = x + (IF pos > r THEN pos - r ELSE 0)
    BY DEF Low
  <2> HIDE DEF x, r
  <2> QED
    BY <1>1, <2>1
<1>4. h > 0 => (g + h <= low \/ x + n <= g) /\ g + h <= NCtx
  <2> SUFFICES ASSUME h > 0 PROVE (g + h <= low \/ x + n <= g) /\ g + h <= NCtx
    OBVIOUS
  <2>1. PICK v \in Live(st) :
           /\ Lends(st, v, u) /\ v # u /\ g + h <= st.seqs[v].start + st.seqs[v].cap
           /\ \A q \in Live(st) \ {v} : g + h <= st.seqs[q].start \/ st.seqs[q].start + st.seqs[q].cap <= g
    BY LoanFacts
  <2>2. g + h <= NCtx
    <3>1. st.seqs[v].start \in Nat /\ st.seqs[v].cap \in Nat /\ st.seqs[v].start + st.seqs[v].cap <= NCtx
      BY GoodFacts
    <3> HIDE DEF g, h
    <3> QED
      BY <1>1, <2>1, <3>1, NCtxAssumption
  <2>3. CASE u # s
    <3>1. g + h <= Low(st.seqs[s], pos) \/ x + n <= g
      BY <2>3 DEF Spared
    <3> HIDE DEF low
    <3> QED
      BY <1>3, <2>2, <3>1
  <2>4. CASE u = s
    <3>1. g + h <= x \/ x + n <= g
      BY <2>1, <2>4
    <3> HIDE DEF g, h, x, n, r
    <3> QED
      BY <1>1, <2>2, <3>1
  <2> QED
    BY <2>3, <2>4
<1>5. u # s => a + b <= x \/ x + n <= a
  BY GoodFacts
<1>6. u = s => a = x /\ h = r /\ p < pos
  OBVIOUS
<1> HIDE DEF a, b, g, h, w, x, n, r
<1>7. c \in Int /\ c >= 0 /\ c < NCtx /\ (c < low \/ x + n <= c)
  <2>1. CASE p < h
    BY <1>1, <1>2, <1>4, <2>1, NCtxAssumption
  <2>2. CASE ~(p < h) /\ u # s
    BY <1>1, <1>2, <1>5, <2>2, NCtxAssumption
  <2>3. CASE ~(p < h) /\ u = s
    BY <1>1, <1>2, <1>6, <2>3, NCtxAssumption
  <2> QED
    BY <2>1, <2>2, <2>3
<1>8. c \in Cells
  BY <1>7, NCtxAssumption DEF Cells
<1> QED
  BY <1>7, <1>8 DEF x, n, r

(* The stored rows of a filled batch are what it feeds, and nobody else's change. *)
StoreLeaves(V, st, st2, batch, done) ==
    /\ Good(st2, V) /\ st2.seqs = st.seqs
    /\ \A u \in Live(st) \ Fed(batch) : Untouched(st, st2, u)
    /\ \A i \in 1 .. Len(batch) : Keeps(st, st2, batch[i].seq, batch[i].pos)
    /\ \A i \in done : \A j \in 1 .. Len(batch[i].vals) :
          RowAt(st2, batch[i].seq, batch[i].pos + j - 1) = batch[i].vals[j]

(* store_kv of all or some groups of a filled batch. *)
LEMMA StoreKeeps ==
  ASSUME NEW V, NEW st, Good(st, V), NEW batch, Len(batch) \in Nat,
         \A i \in 1 .. Len(batch) :
            /\ batch[i].seq \in Live(st) /\ batch[i].pos \in Nat
            /\ Len(batch[i].vals) \in Nat \ {0}
            /\ \A j \in 1 .. Len(batch[i].vals) : batch[i].vals[j] \in V
            /\ Spared(st, batch[i].seq, batch[i].pos) /\ Covered(st, batch[i]),
         \A i, j \in 1 .. Len(batch) : i # j => batch[i].seq # batch[j].seq,
         NEW done \in SUBSET (1 .. Len(batch)),
         NEW st2, st2 = StoreRows(st, batch, done)
  PROVE  StoreLeaves(V, st, st2, batch, done)
<1> DEFINE D == st.data
           seq(i) == batch[i].seq
           pos(i) == batch[i].pos
           n(i) == Len(batch[i].vals)
           x(i) == st.seqs[seq(i)].start
           cap(i) == st.seqs[seq(i)].cap
           r(i) == st.seqs[seq(i)].shared.rows
           rows == UNION {{<<i, p>> : p \in batch[i].pos .. batch[i].pos + Len(batch[i].vals) - 1} :
                           i \in done}
           at(c) == {y \in rows : CellOf(st.seqs[batch[y[1]].seq], y[2]) = c}
           val(y) == batch[y[1]].vals[y[2] - batch[y[1]].pos + 1]
           e == [c \in Cells |-> IF at(c) = {} THEN D[c] ELSE val(CHOOSE y \in at(c) : TRUE)]
<1>1. st2 = [st EXCEPT !.data = e]
  BY DEF StoreRows
<1>2. D \in [Cells -> V]
  BY DEF Good, IsStore
<1>3. \A i \in 1 .. Len(batch) :
         /\ seq(i) \in Live(st) /\ pos(i) \in Nat /\ n(i) \in Nat /\ n(i) >= 1
         /\ x(i) \in Nat /\ cap(i) \in Nat /\ r(i) \in Nat /\ x(i) + cap(i) <= NCtx
         /\ r(i) <= pos(i) /\ pos(i) + n(i) <= r(i) + cap(i)
         /\ st.seqs[seq(i)].written >= pos(i) + n(i) /\ st.seqs[seq(i)].written \in Nat
         /\ \A j \in 1 .. n(i) : batch[i].vals[j] \in V
         /\ Spared(st, seq(i), pos(i))
  <2> SUFFICES ASSUME NEW i \in 1 .. Len(batch)
               PROVE  /\ seq(i) \in Live(st) /\ pos(i) \in Nat /\ n(i) \in Nat /\ n(i) >= 1
                      /\ x(i) \in Nat /\ cap(i) \in Nat /\ r(i) \in Nat /\ x(i) + cap(i) <= NCtx
                      /\ r(i) <= pos(i) /\ pos(i) + n(i) <= r(i) + cap(i)
                      /\ st.seqs[seq(i)].written >= pos(i) + n(i) /\ st.seqs[seq(i)].written \in Nat
                      /\ \A j \in 1 .. n(i) : batch[i].vals[j] \in V
                      /\ Spared(st, seq(i), pos(i))
    OBVIOUS
  <2>1. /\ seq(i) \in Live(st) /\ pos(i) \in Nat /\ n(i) \in Nat \ {0}
        /\ \A j \in 1 .. n(i) : batch[i].vals[j] \in V
        /\ Spared(st, seq(i), pos(i)) /\ Covered(st, batch[i])
    OBVIOUS
  <2>2. /\ x(i) \in Nat /\ cap(i) \in Nat /\ r(i) \in Nat /\ x(i) + cap(i) <= NCtx
        /\ st.seqs[seq(i)].written \in Nat
    BY <2>1, GoodFacts
  <2>3. /\ r(i) <= pos(i) /\ pos(i) + n(i) <= r(i) + cap(i)
        /\ st.seqs[seq(i)].written >= pos(i) + n(i)
    BY <2>1 DEF Covered
  <2> QED
    BY <2>1, <2>2, <2>3
<1>4. \A y \in rows : \E i \in done, p \in Int :
         y = <<i, p>> /\ pos(i) <= p /\ p < pos(i) + n(i)
  <2> SUFFICES ASSUME NEW i \in done, NEW p \in pos(i) .. pos(i) + n(i) - 1
               PROVE  p \in Int /\ pos(i) <= p /\ p < pos(i) + n(i)
    OBVIOUS
  <2>1. pos(i) \in Nat /\ n(i) \in Nat
    BY <1>3
  <2> HIDE DEF pos, n
  <2> QED
    BY <2>1
<1>5. \A i \in done, p \in Int : pos(i) <= p /\ p < pos(i) + n(i) => <<i, p>> \in rows
  <2> SUFFICES ASSUME NEW i \in done, NEW p \in Int, pos(i) <= p, p < pos(i) + n(i)
               PROVE  p \in pos(i) .. pos(i) + n(i) - 1
    OBVIOUS
  <2>1. pos(i) \in Nat /\ n(i) \in Nat
    BY <1>3
  <2> HIDE DEF pos, n
  <2> QED
    BY <2>1
<1>6. \A i \in done, p \in Int : pos(i) <= p =>
         CellOf(st.seqs[seq(i)], p) = x(i) + (p - r(i))
  <2> SUFFICES ASSUME NEW i \in done, NEW p \in Int, pos(i) <= p PROVE ~(p < r(i))
    BY DEF CellOf
  <2>1. pos(i) \in Nat /\ r(i) \in Nat /\ r(i) <= pos(i)
    BY <1>3
  <2> HIDE DEF pos, r
  <2> QED
    BY <2>1
<1>7. \A y \in rows : val(y) \in V
  <2> SUFFICES ASSUME NEW i \in done, NEW p \in Int, pos(i) <= p, p < pos(i) + n(i)
               PROVE  val(<<i, p>>) \in V
    BY <1>4
  <2>1. p - pos(i) + 1 \in 1 .. n(i)
    <3>1. pos(i) \in Nat /\ n(i) \in Nat
      BY <1>3
    <3> HIDE DEF pos, n
    <3> QED
      BY <3>1
  <2>2. val(<<i, p>>) = batch[i].vals[p - pos(i) + 1]
    OBVIOUS
  <2> HIDE DEF val
  <2> QED
    BY <1>3, <2>1, <2>2
<1>8. e \in [Cells -> V]
  <2>1. ASSUME NEW c \in Cells, at(c) # {} PROVE val(CHOOSE y \in at(c) : TRUE) \in V
    <3>1. (CHOOSE y \in at(c) : TRUE) \in at(c)
      <4> HIDE DEF at
      <4> QED
        BY <2>1
    <3>2. (CHOOSE y \in at(c) : TRUE) \in rows
      BY <3>1
    <3> HIDE DEF at, val, rows
    <3> QED
      BY <1>7, <3>2
  <2> HIDE DEF at, val, D
  <2> QED
    BY <1>2, <2>1
<1>9. /\ Good(st2, V) /\ Live(st2) = Live(st) /\ st2.seqs = st.seqs /\ st2.data = e
  <2> HIDE DEF e
  <2> QED
    BY <1>1, <1>8, RewriteGood
<1>10. ASSUME NEW c \in Cells, \A i \in done : c < x(i) + (pos(i) - r(i)) \/ x(i) + cap(i) <= c
       PROVE  e[c] = D[c]
  <2>1. at(c) = {}
    <3> SUFFICES ASSUME NEW y \in rows, CellOf(st.seqs[batch[y[1]].seq], y[2]) = c PROVE FALSE
      OBVIOUS
    <3>1. PICK i \in done, p \in Int : y = <<i, p>> /\ pos(i) <= p /\ p < pos(i) + n(i)
      BY <1>4
    <3>2. CellOf(st.seqs[seq(i)], p) = c
      BY <3>1
    <3>3. c = x(i) + (p - r(i))
      <4> HIDE DEF x, seq, r, pos
      <4> QED
        BY <1>6, <3>1, <3>2
    <3>4. /\ x(i) \in Nat /\ cap(i) \in Nat /\ r(i) \in Nat /\ pos(i) \in Nat /\ n(i) \in Nat
          /\ pos(i) + n(i) <= r(i) + cap(i)
      BY <1>3
    <3>5. c < x(i) + (pos(i) - r(i)) \/ x(i) + cap(i) <= c
      BY <1>10
    <3> HIDE DEF x, cap, r, pos, n
    <3> QED
      BY <3>1, <3>3, <3>4, <3>5, SMTT(60)
  <2> HIDE DEF at, val, D
  <2> QED
    BY <2>1
<1>11. ASSUME NEW i \in done, NEW j \in 1 .. n(i)
       PROVE  RowAt(st2, batch[i].seq, batch[i].pos + j - 1) = batch[i].vals[j]
  <2> DEFINE p == pos(i) + j - 1
             c == x(i) + (p - r(i))
  <2>1. /\ x(i) \in Nat /\ cap(i) \in Nat /\ r(i) \in Nat /\ pos(i) \in Nat /\ n(i) \in Nat
        /\ r(i) <= pos(i) /\ pos(i) + n(i) <= r(i) + cap(i) /\ x(i) + cap(i) <= NCtx
    BY <1>3
  <2>2. p \in Int /\ pos(i) <= p /\ p < pos(i) + n(i) /\ p - pos(i) + 1 = j
    <3>1. n(i) \in Nat /\ pos(i) \in Nat /\ j \in 1 .. n(i)
      BY <2>1
    <3> HIDE DEF n, pos
    <3> QED
      BY <3>1
  <2>3. CellOf(st.seqs[seq(i)], p) = c
    <3> HIDE DEF x, seq, r, pos, p
    <3> QED
      BY <1>6, <2>2
  <2>4. c \in Cells /\ x(i) <= c /\ c < x(i) + cap(i) /\ c \in Int
    <3> HIDE DEF x, cap, r, pos, n, p
    <3>1. c \in Int /\ c >= 0 /\ c < NCtx /\ x(i) <= c /\ c < x(i) + cap(i)
      BY <2>1, <2>2, NCtxAssumption, SMTT(60)
    <3> QED
      BY <3>1, NCtxAssumption DEF Cells
  <2>5. <<i, p>> \in rows
    <3> HIDE DEF rows, pos, n, p
    <3> QED
      BY <1>5, <2>2
  <2>6. <<i, p>> \in at(c)
    BY <2>3, <2>5
  <2>7. ASSUME NEW y \in at(c) PROVE y = <<i, p>>
    <3>1. y \in rows /\ CellOf(st.seqs[batch[y[1]].seq], y[2]) = c
      OBVIOUS
    <3>2. PICK k \in done, q \in Int : y = <<k, q>> /\ pos(k) <= q /\ q < pos(k) + n(k)
      BY <1>4, <3>1
    <3>3. CellOf(st.seqs[seq(k)], q) = c
      BY <3>1, <3>2
    <3>4. c = x(k) + (q - r(k))
      <4> HIDE DEF x, seq, r, pos, c
      <4> QED
        BY <1>6, <3>2, <3>3
    <3>5. /\ x(k) \in Nat /\ cap(k) \in Nat /\ r(k) \in Nat /\ pos(k) \in Nat /\ n(k) \in Nat
          /\ r(k) <= pos(k) /\ pos(k) + n(k) <= r(k) + cap(k)
      BY <1>3
    <3>6. k = i
      <4> SUFFICES ASSUME k # i PROVE FALSE
        OBVIOUS
      <4>1. seq(k) # seq(i) /\ seq(k) \in Live(st) /\ seq(i) \in Live(st)
        BY <1>3
      <4>2. x(k) + cap(k) <= x(i) \/ x(i) + cap(i) <= x(k)
        BY <4>1, GoodFacts
      <4>3. x(k) <= c /\ c < x(k) + cap(k)
        <5> HIDE DEF x, cap, r, pos, n, c
        <5> QED
          BY <2>4, <3>2, <3>4, <3>5, SMTT(60)
      <4> HIDE DEF x, cap, c
      <4> QED
        BY <2>1, <2>4, <3>5, <4>2, <4>3
    <3>7. q = p
      <4>1. x(i) + (q - r(i)) = x(i) + (p - r(i))
        BY <3>4, <3>6
      <4> HIDE DEF x, r, p
      <4> QED
        BY <2>1, <2>2, <3>2, <4>1
    <3> QED
      BY <3>2, <3>6, <3>7
  <2>8. (CHOOSE y \in at(c) : TRUE) = <<i, p>>
    <3> HIDE DEF at, c, p
    <3> QED
      BY <2>6, <2>7
  <2>9. e[c] = val(<<i, p>>)
    <3> HIDE DEF at, c, val, D, p
    <3> QED
      BY <2>4, <2>6, <2>8
  <2>10. val(<<i, p>>) = batch[i].vals[j]
    <3>1. val(<<i, p>>) = batch[i].vals[p - pos(i) + 1]
      OBVIOUS
    <3> HIDE DEF val, p
    <3> QED
      BY <2>2, <3>1
  <2>11. RowAt(st2, seq(i), p) = e[c]
    <3> HIDE DEF e, c, p
    <3> QED
      BY <1>9, <2>3 DEF RowAt
  <2> HIDE DEF e, val, c
  <2> QED
    BY <2>9, <2>10, <2>11
<1>12. ASSUME NEW u \in Live(st), NEW p \in Nat, p < st.seqs[u].written,
              \A i \in 1 .. Len(batch) : u = seq(i) => p < pos(i)
       PROVE  RowAt(st2, u, p) = RowAt(st, u, p)
  <2> DEFINE c == CellOf(st.seqs[u], p)
  <2>1. \A i \in 1 .. Len(batch) :
           c \in Cells /\ (c < x(i) + (pos(i) - r(i)) \/ x(i) + cap(i) <= c)
    <3> SUFFICES ASSUME NEW i \in 1 .. Len(batch)
                 PROVE  c \in Cells /\ (c < x(i) + (pos(i) - r(i)) \/ x(i) + cap(i) <= c)
      OBVIOUS
    <3> DEFINE s == seq(i)
               t == pos(i)
    <3>1. s \in Live(st) /\ t \in Nat /\ Spared(st, s, t) /\ st.seqs[s].shared.rows <= t
          /\ (u = s => p < t)
      BY <1>3, <1>12
    <3>2. c = CellOf(st.seqs[u], p)
      OBVIOUS
    <3> HIDE DEF s, t, c
    <3>3. c \in Cells /\ (c < st.seqs[s].start + (t - st.seqs[s].shared.rows) \/ st.seqs[s].start + st.seqs[s].cap <= c)
      BY <1>12, <3>1, <3>2, RowsClear
    <3> QED
      BY <3>3 DEF s, t
  <2>2. CASE done = {}
    <3>1. \A y : y \notin rows
      BY <2>2
    <3>2. \A d : at(d) = {}
      BY <3>1
    <3>3. e = [d \in Cells |-> D[d]]
      <4> HIDE DEF at, val, D
      <4> QED
        BY <3>2
    <3>4. e = D
      <4> HIDE DEF e, D
      <4> QED
        BY <1>2, <3>3
    <3> QED
      BY <1>9, <3>4 DEF RowAt
  <2>3. CASE done # {}
    <3>1. c \in Cells
      BY <2>1, <2>3
    <3>2. \A i \in done : c < x(i) + (pos(i) - r(i)) \/ x(i) + cap(i) <= c
      BY <2>1
    <3> HIDE DEF c, x, pos, r, cap, e, D
    <3>3. e[c] = D[c]
      BY <1>10, <3>1, <3>2
    <3> QED
      BY <1>9, <3>3 DEF RowAt, c, D
  <2> QED
    BY <2>2, <2>3
<1>13. ASSUME NEW u \in Live(st) \ Fed(batch) PROVE Untouched(st, st2, u)
  <2>1. \A i \in 1 .. Len(batch) : u # seq(i)
    BY DEF Fed
  <2>2. ASSUME NEW p \in 0 .. st.seqs[u].written - 1 PROVE RowAt(st2, u, p) = RowAt(st, u, p)
    <3>1. p \in Nat /\ p < st.seqs[u].written
      BY GoodFacts
    <3> QED
      BY <1>12, <2>1, <3>1
  <2> QED
    BY <1>9, <2>2 DEF Untouched
<1>14. ASSUME NEW i \in 1 .. Len(batch) PROVE Keeps(st, st2, batch[i].seq, batch[i].pos)
  <2> SUFFICES ASSUME NEW p \in 0 .. pos(i) - 1 PROVE RowAt(st2, seq(i), p) = RowAt(st, seq(i), p)
    BY DEF Keeps
  <2>1. /\ seq(i) \in Live(st) /\ pos(i) \in Nat /\ n(i) \in Nat
        /\ st.seqs[seq(i)].written >= pos(i) + n(i) /\ st.seqs[seq(i)].written \in Nat
    BY <1>3
  <2>2. p \in Nat /\ p < pos(i) /\ p < st.seqs[seq(i)].written
    <3>1. p \in 0 .. pos(i) - 1
      OBVIOUS
    <3> HIDE DEF pos, n, seq
    <3> QED
      BY <2>1, <3>1
  <2>3. \A k \in 1 .. Len(batch) : seq(i) = seq(k) => p < pos(k)
    BY <2>2
  <2> HIDE DEF seq, pos
  <2> QED
    BY <1>12, <2>1, <2>2, <2>3
<1> QED
  BY <1>9, <1>11, <1>13, <1>14 DEF StoreLeaves
=============================================================================
