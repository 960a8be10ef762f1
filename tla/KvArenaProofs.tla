---------------------------- MODULE KvArenaProofs ---------------------------
(***************************************************************************)
(* The KV arena keeps conversations apart, for every context size, number  *)
(* of sequences and contents of rows, through any sequence of calls.       *)
(* Callers that share prefixes in place are assumed to spare the rows      *)
(* others read (Pinned); callers that copy them are not assumed anything.  *)
(***************************************************************************)
EXTENDS KvArena, KvCellsProofs

(* What a cell can hold. *)
Rows == Vals \cup {NoRow}

(* Callers of a device that reads prefixes in place spare what others read. *)
Pinned == by.share => by.pin

(* The rows of s hold what its caller was told. *)
Holds(st, s, told) ==
    told # <<>> => /\ s \in Live(st) /\ Len(told) <= st.seqs[s].written
                   /\ \A i \in 1 .. Len(told) : RowAt(st, s, i - 1) = told[i]

(* What the calls keep: a good store, and every sequence holding what its   *)
(* caller was told.                                                         *)
Kept(st, lg) ==
    /\ Good(st, Rows)
    /\ lg \in [SeqIds -> Seq(Vals)]
    /\ \A s \in SeqIds : Holds(st, s, lg[s])
    /\ by.share \/ NoLoans(st)

(* The inductive invariant of the arena. *)
IInv == by \in Callers /\ (Pinned => Kept(kv, log))

(* A call that leaves s alone leaves it what its caller was told. *)
LEMMA HoldsUntouched ==
  ASSUME NEW V, NEW st, Good(st, V), NEW st2, NEW s, NEW told \in Seq(Vals),
         Holds(st, s, told), s \in Live(st) => Untouched(st, st2, s)
  PROVE  Holds(st2, s, told)
<1> SUFFICES ASSUME told # <<>>
             PROVE  /\ s \in Live(st2) /\ Len(told) <= st2.seqs[s].written
                    /\ \A i \in 1 .. Len(told) : RowAt(st2, s, i - 1) = told[i]
  BY DEF Holds
<1>1. /\ s \in Live(st) /\ Len(told) <= st.seqs[s].written
      /\ \A i \in 1 .. Len(told) : RowAt(st, s, i - 1) = told[i]
  BY DEF Holds
<1>2. Untouched(st, st2, s)
  BY <1>1
<1>3. st.seqs[s].written \in Nat /\ Len(told) \in Nat
  BY <1>1, GoodFacts
<1>4. \A i \in 1 .. Len(told) : i - 1 \in 0 .. st.seqs[s].written - 1
  BY <1>1, <1>3
<1> QED
  BY <1>1, <1>2, <1>4 DEF Untouched

(* Where nobody reads s from position pos on, feeding s from there is safe. *)
LEMMA UnreadSpares ==
  ASSUME NEW V, Good(kv, V), NEW s \in Live(kv), NEW pos \in Nat, Unread(s, pos)
  PROVE  Spared(kv, s, pos)
<1> SUFFICES ASSUME NEW t \in Live(kv) \ {s}, kv.seqs[t].shared.rows > 0
             PROVE  \/ kv.seqs[t].shared.cell + kv.seqs[t].shared.rows <= Low(kv.seqs[s], pos)
                    \/ kv.seqs[s].start + kv.seqs[s].cap <= kv.seqs[t].shared.cell
  BY DEF Spared
<1> DEFINE x == kv.seqs[s].start
           n == kv.seqs[s].cap
           r == kv.seqs[s].shared.rows
           g == kv.seqs[t].shared.cell
           h == kv.seqs[t].shared.rows
<1>1. /\ x \in Nat /\ n \in Nat /\ r \in Nat /\ g \in Nat /\ h \in Nat /\ h > 0
  BY GoodFacts
<1>2. PICK u \in Live(kv) :
         /\ kv.seqs[u].shared.rows = 0 /\ kv.seqs[u].start <= g
         /\ g + h <= kv.seqs[u].start + kv.seqs[u].cap
         /\ \A q \in Live(kv) \ {u} : g + h <= kv.seqs[q].start \/ kv.seqs[q].start + kv.seqs[q].cap <= g
  BY LoanFacts
<1>3. Low(kv.seqs[s], pos) = x + (IF pos > r THEN pos - r ELSE 0)
  BY DEF Low
<1>4. CASE u # s
  <2>1. g + h <= x \/ x + n <= g
    BY <1>2, <1>4
  <2> HIDE DEF x, n, r, g, h
  <2>2. g + h <= x + (IF pos > r THEN pos - r ELSE 0) \/ x + n <= g
    BY <1>1, <2>1
  <2> QED
    BY <1>3, <2>2 DEF x, n, g, h
<1>5. CASE u = s
  <2>1. r = 0 /\ x <= g /\ g + h <= x + n
    BY <1>2, <1>5
  <2> DEFINE c == g + h - 1
             p == c - x
  <2>2. ASSUME ~(g + h <= x + pos) PROVE FALSE
    <3>1. p \in Int /\ p >= 0 /\ p < n /\ p >= pos /\ x + p = c
      <4> HIDE DEF x, n, r, g, h
      <4> QED
        BY <1>1, <2>1, <2>2
    <3>2. p \in Positions(kv.seqs[s])
      <4>1. Positions(kv.seqs[s]) = 0 .. r + n - 1
        BY DEF Positions
      <4> HIDE DEF p, r, n
      <4> QED
        BY <1>1, <2>1, <3>1, <4>1
    <3>3. CellOf(kv.seqs[s], p) = c
      <4>1. CellOf(kv.seqs[s], p) = IF p < r THEN kv.seqs[s].shared.cell + p ELSE x + (p - r)
        BY DEF CellOf
      <4> HIDE DEF p, r, x, c
      <4> QED
        BY <1>1, <2>1, <3>1, <4>1
    <3>4. c \in SharedCells(kv.seqs[t])
      <4>1. SharedCells(kv.seqs[t]) = g .. g + h - 1
        BY DEF SharedCells
      <4>2. c \in g .. g + h - 1
        <5> HIDE DEF g, h
        <5> QED
          BY <1>1
      <4> QED
        BY <4>1, <4>2
    <3> HIDE DEF p, c
    <3> QED
      BY <3>1, <3>2, <3>3, <3>4 DEF Unread
  <2>3. x + (IF pos > r THEN pos - r ELSE 0) = x + pos
    <3> HIDE DEF x, r
    <3> QED
      BY <1>1, <2>1
  <2> QED
    BY <1>3, <2>2, <2>3
<1> QED
  BY <1>4, <1>5

(* A run nobody reads from its first row on lends nothing. *)
LEMMA SparedLendsNone ==
  ASSUME NEW V, NEW st, Good(st, V), NEW s \in Live(st), Spared(st, s, 0),
         NEW t \in Live(st), st.seqs[t].shared.rows > 0
  PROVE  ~Lends(st, s, t)
<1> SUFFICES ASSUME Lends(st, s, t) PROVE FALSE
  OBVIOUS
<1> DEFINE x == st.seqs[s].start
           n == st.seqs[s].cap
           w == st.seqs[s].written
           r == st.seqs[s].shared.rows
           g == st.seqs[t].shared.cell
           h == st.seqs[t].shared.rows
<1>1. t # s /\ r = 0 /\ x <= g /\ g + h <= x + w
  BY DEF Lends
<1>2. /\ x \in Nat /\ n \in Nat /\ r \in Nat /\ g \in Nat /\ h \in Nat /\ h > 0 /\ w \in Nat
      /\ w <= r + n
  BY GoodFacts
<1>3. Low(st.seqs[s], 0) = x + (IF 0 > r THEN 0 - r ELSE 0)
  BY DEF Low
<1>4. g + h <= x + (IF 0 > r THEN 0 - r ELSE 0) \/ x + n <= g
  BY <1>1, <1>3 DEF Spared
<1> HIDE DEF x, n, w, r, g, h
<1> QED
  BY <1>1, <1>2, <1>4

-----------------------------------------------------------------------------

(* An empty arena, with nobody told anything. *)
LEMMA InitKept ==
  ASSUME Init
  PROVE  IInv
<1>1. by \in Callers
  BY DEF Init
<1>2. kv.seqs = [s \in {} |-> SeqSlot(0, 0)] /\ kv.owner = [c \in Cells |-> Free]
      /\ kv.data = [c \in Cells |-> NoRow]
      /\ kv = [seqs |-> kv.seqs, owner |-> kv.owner, data |-> kv.data]
  BY DEF Init, EmptyStore
<1>3. Live(kv) = {}
  BY <1>2 DEF Live
<1>4. IsStore(kv, Rows)
  <2>1. IsTable(kv)
    BY <1>2, <1>3 DEF IsTable
  <2> QED
    BY <1>2, <2>1 DEF IsStore, Rows
<1>5. Good(kv, Rows) /\ NoLoans(kv)
  BY <1>2, <1>3, <1>4 DEF Good, Separate, Fits, Stamped, Lent, NoLoans
<1>6. log \in [SeqIds -> Seq(Vals)] /\ \A s \in SeqIds : log[s] = <<>>
  BY DEF Init
<1>7. \A s \in SeqIds : Holds(kv, s, log[s])
  BY <1>6 DEF Holds
<1> QED
  BY <1>1, <1>5, <1>6, <1>7 DEF IInv, Kept

(* kv_reserve_seq_with_defrag keeps what callers were told. *)
LEMMA ReserveStep ==
  ASSUME by \in Callers, Kept(kv, log), NEW s \in SeqIds, NEW cap \in 1 .. NCtx, Reserve(s, cap)
  PROVE  Kept(kv, log)'
<1> DEFINE st2 == KvReserveSeqWithDefrag(kv, s, cap).kv
<1>1. kv' = st2 /\ log' = log /\ by' = by /\ s \notin Live(kv)
  BY DEF Reserve
<1>2. Good(kv, Rows) /\ log \in [SeqIds -> Seq(Vals)] /\ (by.share \/ NoLoans(kv))
      /\ \A t \in SeqIds : Holds(kv, t, log[t])
  BY DEF Kept
<1>3. /\ Good(st2, Rows)
      /\ \A t \in Live(kv) : Untouched(kv, st2, t)
      /\ \A t \in Live(st2) \ Live(kv) : st2.seqs[t].shared.rows = 0
  BY <1>1, <1>2, ReserveKeeps
<1> HIDE DEF st2
<1>4. NoLoans(kv) => NoLoans(st2)
  BY <1>3 DEF NoLoans, Untouched
<1>5. \A t \in SeqIds : Holds(st2, t, log[t])
  BY <1>2, <1>3, HoldsUntouched
<1> QED
  BY <1>1, <1>2, <1>3, <1>4, <1>5 DEF Kept, Rows

(* kv_set_cap_with_defrag keeps what callers were told. *)
LEMMA ResizeStep ==
  ASSUME by \in Callers, Kept(kv, log), NEW s \in SeqIds, NEW cap \in 1 .. NCtx, Resize(s, cap)
  PROVE  Kept(kv, log)'
<1> DEFINE st2 == KvSetCapWithDefrag(kv, s, cap).kv
<1>1. kv' = st2 /\ log' = log /\ by' = by /\ s \in Live(kv)
  BY DEF Resize
<1>2. Good(kv, Rows) /\ log \in [SeqIds -> Seq(Vals)] /\ (by.share \/ NoLoans(kv))
      /\ \A t \in SeqIds : Holds(kv, t, log[t])
  BY DEF Kept
<1>3. Good(st2, Rows) /\ Live(st2) = Live(kv) /\ \A t \in Live(kv) : Untouched(kv, st2, t)
  BY <1>1, <1>2, ResizeKeeps
<1> HIDE DEF st2
<1>4. NoLoans(kv) => NoLoans(st2)
  BY <1>3 DEF NoLoans, Untouched
<1>5. \A t \in SeqIds : Holds(st2, t, log[t])
  BY <1>2, <1>3, HoldsUntouched
<1> QED
  BY <1>1, <1>2, <1>3, <1>4, <1>5 DEF Kept, Rows

(* kv_release_seq: the caller of s forgets, the others still hold. *)
LEMMA ReleaseStep ==
  ASSUME by \in Callers, Pinned, Kept(kv, log), NEW s \in SeqIds, Release(s)
  PROVE  Kept(kv, log)'
<1> DEFINE st2 == ReleaseSeq(kv, s)
<1>1. /\ kv' = st2 /\ log' = [log EXCEPT ![s] = <<>>] /\ by' = by /\ s \in Live(kv)
      /\ by.pin => Unread(s, 0)
  BY DEF Release
<1>2. Good(kv, Rows) /\ log \in [SeqIds -> Seq(Vals)] /\ (by.share \/ NoLoans(kv))
      /\ \A t \in SeqIds : Holds(kv, t, log[t])
  BY DEF Kept
<1>3. Spared(kv, s, 0)
  <2>1. CASE NoLoans(kv)
    BY <1>1, <1>2, <2>1, NoLoansSpares
  <2>2. CASE by.share
    <3>1. Unread(s, 0)
      BY <1>1, <2>2 DEF Pinned
    <3> QED
      BY <1>1, <1>2, <3>1, UnreadSpares
  <2> QED
    BY <1>2, <2>1, <2>2
<1>4. \A t \in Live(kv) : kv.seqs[t].shared.rows > 0 => ~Lends(kv, s, t)
  BY <1>1, <1>2, <1>3, SparedLendsNone
<1>5. /\ Good(st2, Rows) /\ Live(st2) = Live(kv) \ {s}
      /\ \A t \in Live(kv) \ {s} : Untouched(kv, st2, t)
  BY <1>1, <1>2, <1>4, ReleaseKeeps
<1> HIDE DEF st2
<1>6. NoLoans(kv) => NoLoans(st2)
  BY <1>5 DEF NoLoans, Untouched
<1>7. log' \in [SeqIds -> Seq(Vals)] /\ log'[s] = <<>> /\ \A t \in SeqIds \ {s} : log'[t] = log[t]
  BY <1>1, <1>2
<1>8. ASSUME NEW t \in SeqIds PROVE Holds(st2, t, log'[t])
  <2>1. CASE t = s
    BY <1>7, <2>1 DEF Holds
  <2>2. CASE t # s
    <3>1. t \in Live(kv) => Untouched(kv, st2, t)
      BY <1>5, <2>2
    <3> QED
      BY <1>2, <1>7, <2>2, <3>1, HoldsUntouched
  <2> QED
    BY <2>1, <2>2
<1> QED
  BY <1>1, <1>2, <1>5, <1>6, <1>7, <1>8 DEF Kept, Rows

(* copy_prefix_from: the borrower holds the rows it was told of, copied or  *)
(* shared, or nothing changed.                                              *)
LEMMA BorrowStep ==
  ASSUME by \in Callers, Pinned, Kept(kv, log), NEW src \in SeqIds, NEW dst \in SeqIds,
         NEW rows \in 1 .. NCtx, Borrow(src, dst, rows)
  PROVE  Kept(kv, log)'
<1> DEFINE res == IF by.share THEN SharePrefix(kv, src, dst, rows) ELSE KvCopyPrefix(kv, src, dst, rows)
           st2 == res.kv
<1>1. /\ src # dst /\ dst \in Live(kv) /\ rows \in 1 .. Len(log[src])
      /\ (by.share /\ by.pin) => kv.seqs[src].shared.rows = 0
      /\ kv' = st2 /\ by' = by
      /\ log' = IF res.ok THEN [log EXCEPT ![dst] = SubSeq(log[src], 1, rows)] ELSE log
  BY DEF Borrow
<1>2. Good(kv, Rows) /\ log \in [SeqIds -> Seq(Vals)] /\ (by.share \/ NoLoans(kv))
      /\ \A t \in SeqIds : Holds(kv, t, log[t])
  BY DEF Kept
<1>3. log[src] \in Seq(Vals) /\ Len(log[src]) \in Nat /\ rows \in Nat \ {0} /\ rows <= Len(log[src])
      /\ log[src] # <<>>
  BY <1>1, <1>2
<1>4. /\ src \in Live(kv) /\ Len(log[src]) <= kv.seqs[src].written
      /\ \A i \in 1 .. Len(log[src]) : RowAt(kv, src, i - 1) = log[src][i]
  BY <1>2, <1>3 DEF Holds
<1>5. /\ Good(st2, Rows) /\ Live(st2) = Live(kv) /\ (by.share \/ NoLoans(st2))
      /\ \A t \in Live(kv) \ {dst} : Untouched(kv, st2, t)
      /\ IF res.ok
         THEN /\ rows <= st2.seqs[dst].written
              /\ \A p \in 0 .. rows - 1 : RowAt(st2, dst, p) = RowAt(kv, src, p)
         ELSE Untouched(kv, st2, dst)
  <2>1. CASE by.share
    <3>1. res = SharePrefix(kv, src, dst, rows) /\ kv.seqs[src].shared.rows = 0
      BY <1>1, <2>1 DEF Pinned
    <3> HIDE DEF res
    <3> QED
      BY <1>1, <1>2, <1>3, <1>4, <2>1, <3>1, SharePrefixKeeps, SMTT(60)
  <2>2. CASE ~by.share
    <3>1. res = KvCopyPrefix(kv, src, dst, rows) /\ NoLoans(kv)
      BY <1>2, <2>2
    <3> HIDE DEF res
    <3>2. CopyLeaves(Rows, kv, res, src, dst, rows)
      BY <1>1, <1>2, <1>3, <3>1, CopyPrefixKeeps
    <3> QED
      BY <3>1, <3>2 DEF CopyLeaves
  <2> QED
    BY <2>1, <2>2
<1> HIDE DEF res
<1> DEFINE told == SubSeq(log[src], 1, rows)
<1>6. told \in Seq(Vals) /\ Len(told) = rows /\ \A i \in 1 .. rows : told[i] = log[src][i]
  BY <1>3
<1> HIDE DEF told
<1>7. CASE res.ok
  <2>1. log' \in [SeqIds -> Seq(Vals)] /\ log'[dst] = told /\ \A t \in SeqIds \ {dst} : log'[t] = log[t]
    <3>1. log' = [log EXCEPT ![dst] = told]
      BY <1>1, <1>7 DEF told
    <3> QED
      BY <1>2, <1>6, <3>1
  <2>2. Holds(st2, dst, told)
    <3>1. \A i \in 1 .. rows : i - 1 \in 0 .. rows - 1 /\ i \in 1 .. Len(log[src])
      BY <1>3
    <3>2. \A i \in 1 .. rows : RowAt(st2, dst, i - 1) = told[i]
      BY <1>4, <1>5, <1>6, <1>7, <3>1
    <3> QED
      BY <1>1, <1>5, <1>6, <1>7, <3>2 DEF Holds
  <2>3. ASSUME NEW t \in SeqIds PROVE Holds(st2, t, log'[t])
    <3>1. CASE t = dst
      BY <2>1, <2>2, <3>1
    <3>2. CASE t # dst
      <4>1. t \in Live(kv) => Untouched(kv, st2, t)
        BY <1>5, <3>2
      <4> QED
        BY <1>2, <2>1, <3>2, <4>1, HoldsUntouched
    <3> QED
      BY <3>1, <3>2
  <2> QED
    BY <1>1, <1>5, <2>1, <2>3 DEF Kept, Rows
<1>8. CASE ~res.ok
  <2>1. log' = log
    BY <1>1, <1>8
  <2>2. \A t \in Live(kv) : Untouched(kv, st2, t)
    BY <1>5, <1>8
  <2>3. \A t \in SeqIds : Holds(st2, t, log[t])
    BY <1>2, <2>2, HoldsUntouched
  <2> QED
    BY <1>1, <1>2, <1>5, <2>1, <2>3 DEF Kept, Rows
<1> QED
  BY <1>7, <1>8

(* Callers feed distinct sequences, from what they hold, sparing the readers. *)
LEMMA BatchIs ==
  ASSUME by \in Callers, Pinned, Kept(kv, log), NEW batch \in Batches,
         by.pin => \A i \in DOMAIN batch : Unread(batch[i].seq, batch[i].pos)
  PROVE  /\ IsBatch(kv, Rows, batch) /\ InBatch(batch) = Fed(batch)
         /\ \A i \in 1 .. Len(batch) : /\ batch[i].pos <= Len(log[batch[i].seq])
                                       /\ batch[i].seq \in SeqIds
                                       /\ batch[i].vals \in Seq(Vals)
<1>1. Good(kv, Rows) /\ log \in [SeqIds -> Seq(Vals)] /\ (by.share \/ NoLoans(kv))
      /\ \A t \in SeqIds : Holds(kv, t, log[t])
  BY DEF Kept
<1>2. Live(kv) \subseteq SeqIds
  BY <1>1 DEF Good, IsStore, IsTable
<1>3. ASSUME NEW g \in Groups
      PROVE  /\ g.seq \in Live(kv) /\ g.pos \in Nat /\ g.pos <= Len(log[g.seq])
             /\ g.pos <= kv.seqs[g.seq].written
             /\ g.vals \in Seq(Vals) /\ Len(g.vals) \in Nat \ {0}
  <2>1. g.seq \in Live(kv) /\ g.pos \in 0 .. NCtx /\ g.pos <= Len(log[g.seq])
        /\ g.vals \in UNION {[1 .. n -> Vals] : n \in 1 .. MaxFeed}
    BY DEF Groups
  <2>2. PICK n \in 1 .. MaxFeed : g.vals \in [1 .. n -> Vals]
    BY <2>1
  <2>3. n \in Nat \ {0} /\ g.pos \in Nat
    BY <2>1, ArenaAssumption, NCtxAssumption
  <2>4. g.vals \in Seq(Vals) /\ Len(g.vals) = n
    BY <2>2, <2>3
  <2>5. log[g.seq] \in Seq(Vals) /\ Len(log[g.seq]) \in Nat
    BY <1>1, <1>2, <2>1
  <2>6. kv.seqs[g.seq].written \in Nat
    BY <1>1, <2>1, GoodFacts
  <2>7. g.pos <= kv.seqs[g.seq].written
    <3>1. CASE log[g.seq] = <<>>
      BY <2>1, <2>3, <2>6, <3>1
    <3>2. CASE log[g.seq] # <<>>
      <4>1. Len(log[g.seq]) <= kv.seqs[g.seq].written
        BY <1>1, <1>2, <2>1, <3>2 DEF Holds
      <4> QED
        BY <2>1, <2>3, <2>5, <2>6, <4>1
    <3> QED
      BY <3>1, <3>2
  <2> QED
    BY <2>1, <2>3, <2>4, <2>7
<1>4. /\ Len(batch) \in Nat /\ DOMAIN batch = 1 .. Len(batch)
      /\ \A i \in 1 .. Len(batch) : batch[i] \in Groups
      /\ \A i, j \in 1 .. Len(batch) : i # j => batch[i].seq # batch[j].seq
  <2>1. CASE batch \in {<<g>> : g \in Groups}
    <3>1. PICK g \in Groups : batch = <<g>>
      BY <2>1
    <3>2. Len(batch) = 1 /\ batch[1] = g /\ DOMAIN batch = 1 .. 1
      BY <3>1
    <3> QED
      BY <3>2
  <2>2. CASE ~(batch \in {<<g>> : g \in Groups})
    <3> DEFINE S == {f \in Groups : Len(f.vals) = 1}
    <3>1. batch \in S \X S /\ batch[1].seq < batch[2].seq
      BY <2>2 DEF Batches
    <3>2. Len(batch) = 2 /\ DOMAIN batch = 1 .. 2 /\ batch[1] \in S /\ batch[2] \in S
      <4> HIDE DEF S
      <4>1. batch = <<batch[1], batch[2]>> /\ batch[1] \in S /\ batch[2] \in S
        BY <3>1
      <4> QED
        BY <4>1
    <3>3. batch[1] \in Groups /\ batch[2] \in Groups
      BY <3>2
    <3>4. batch[1].seq \in Nat /\ batch[2].seq \in Nat
      BY <1>2, <1>3, <3>3, SeqIdsAssumption
    <3>5. batch[1].seq # batch[2].seq
      BY <3>1, <3>4
    <3>6. \A i \in 1 .. 2 : i = 1 \/ i = 2
      OBVIOUS
    <3> QED
      BY <3>2, <3>3, <3>5, <3>6
  <2> QED
    BY <2>1, <2>2
<1>5. ASSUME NEW i \in 1 .. Len(batch)
      PROVE  Spared(kv, batch[i].seq, batch[i].pos)
  <2>1. batch[i].seq \in Live(kv) /\ batch[i].pos \in Nat
    BY <1>3, <1>4
  <2>2. CASE NoLoans(kv)
    BY <1>1, <2>1, <2>2, NoLoansSpares
  <2>3. CASE by.share
    <3>1. Unread(batch[i].seq, batch[i].pos)
      BY <1>4, <2>3 DEF Pinned
    <3> QED
      BY <1>1, <2>1, <3>1, UnreadSpares
  <2> QED
    BY <1>1, <2>2, <2>3
<1>6. \A i \in 1 .. Len(batch) : \A j \in 1 .. Len(batch[i].vals) : batch[i].vals[j] \in Rows
  <2> SUFFICES ASSUME NEW i \in 1 .. Len(batch), NEW j \in 1 .. Len(batch[i].vals)
               PROVE  batch[i].vals[j] \in Vals
    BY DEF Rows
  <2>1. batch[i].vals \in Seq(Vals)
    BY <1>3, <1>4
  <2> QED
    BY <2>1
<1>7. IsBatch(kv, Rows, batch)
  BY <1>3, <1>4, <1>5, <1>6 DEF IsBatch
<1>8. InBatch(batch) = Fed(batch)
  BY <1>4 DEF InBatch, Fed
<1> QED
  BY <1>2, <1>3, <1>4, <1>7, <1>8

(* What a forward leaves: the rows of the groups done, and the rows of the  *)
(* sequences it does not feed.                                              *)
ForwardLeaves(V, st, st2, batch, done) ==
    /\ Good(st2, V) /\ Framed(st, st2)
    /\ \A u \in Live(st) \ Fed(batch) : Untouched(st, st2, u)
    /\ \A i \in 1 .. Len(batch) :
          /\ Keeps(st, st2, batch[i].seq, batch[i].pos)
          /\ st2.seqs[batch[i].seq].written >= batch[i].pos + Len(batch[i].vals)
    /\ \A i \in done : \A j \in 1 .. Len(batch[i].vals) :
          RowAt(st2, batch[i].seq, batch[i].pos + j - 1) = batch[i].vals[j]

(* fill_batch_inputs then store_kv, of some or all groups, on a good store. *)
LEMMA ForwardKeeps ==
  ASSUME NEW V, NEW st, Good(st, V), NEW batch, IsBatch(st, V, batch),
         NEW filled, filled = FillBatchInputs(st, batch), filled.ok,
         NEW done \in SUBSET (1 .. Len(batch)), NEW st2, st2 = StoreRows(filled.kv, batch, done)
  PROVE  ForwardLeaves(V, st, st2, batch, done)
<1> DEFINE st1 == filled.kv
<1>1. Filled(V, st, filled, batch)
  BY FillKeeps
<1>2. /\ Good(st1, V) /\ Framed(st, st1) /\ Live(st1) = Live(st)
      /\ \A u \in Live(st) \ Fed(batch) : Untouched(st, st1, u)
      /\ \A i \in 1 .. Len(batch) : /\ Keeps(st, st1, batch[i].seq, batch[i].pos)
                                    /\ Spared(st1, batch[i].seq, batch[i].pos)
                                    /\ Covered(st1, batch[i])
  BY <1>1 DEF Filled, Framed
<1>3. /\ Len(batch) \in Nat
      /\ \A i \in 1 .. Len(batch) :
            /\ batch[i].seq \in Live(st1) /\ batch[i].pos \in Nat
            /\ Len(batch[i].vals) \in Nat \ {0}
            /\ \A j \in 1 .. Len(batch[i].vals) : batch[i].vals[j] \in V
            /\ Spared(st1, batch[i].seq, batch[i].pos) /\ Covered(st1, batch[i])
      /\ \A i, j \in 1 .. Len(batch) : i # j => batch[i].seq # batch[j].seq
  BY <1>2 DEF IsBatch
<1>4. st2 = StoreRows(st1, batch, done)
  OBVIOUS
<1> HIDE DEF st1
<1>5. StoreLeaves(V, st1, st2, batch, done)
  BY <1>2, <1>3, <1>4, StoreKeeps
<1>6. /\ Good(st2, V) /\ st2.seqs = st1.seqs /\ Live(st2) = Live(st1)
      /\ \A u \in Live(st1) \ Fed(batch) : Untouched(st1, st2, u)
      /\ \A i \in 1 .. Len(batch) : Keeps(st1, st2, batch[i].seq, batch[i].pos)
      /\ \A i \in done : \A j \in 1 .. Len(batch[i].vals) :
            RowAt(st2, batch[i].seq, batch[i].pos + j - 1) = batch[i].vals[j]
  BY <1>5 DEF StoreLeaves, Live
<1>7. Framed(st, st2)
  BY <1>2, <1>6 DEF Framed
<1>8. \A u \in Live(st) \ Fed(batch) : Untouched(st, st2, u)
  BY <1>2, <1>6, UntouchedChain
<1>9. \A i \in 1 .. Len(batch) : Keeps(st, st2, batch[i].seq, batch[i].pos)
  BY <1>2, <1>6 DEF Keeps
<1>10. \A i \in 1 .. Len(batch) : st2.seqs[batch[i].seq].written >= batch[i].pos + Len(batch[i].vals)
  BY <1>2, <1>6 DEF Covered
<1> QED
  BY <1>6, <1>7, <1>8, <1>9, <1>10 DEF ForwardLeaves

(* c is the first m entries of a, then b. *)
Rewound(S, c, a, m, b) ==
    /\ c \in Seq(S) /\ Len(c) = m + Len(b)
    /\ \A k \in 1 .. m : c[k] = a[k]
    /\ \A k \in m + 1 .. m + Len(b) : c[k] = b[k - m]

(* What a caller records of a group: the rows it rewound to and those it fed. *)
LEMMA RewoundIs ==
  ASSUME NEW S, NEW a \in Seq(S), NEW b \in Seq(S), NEW m \in Nat, m <= Len(a)
  PROVE  Rewound(S, SubSeq(a, 1, m) \o b, a, m, b)
<1> DEFINE pre == SubSeq(a, 1, m)
<1>1. pre \in Seq(S) /\ Len(pre) = m /\ \A k \in 1 .. m : pre[k] = a[k]
  OBVIOUS
<1> HIDE DEF pre
<1>2. pre \o b \in Seq(S)
  BY <1>1
<1>3. Len(pre \o b) = m + Len(b)
  BY <1>1
<1>4. \A k \in 1 .. m : (pre \o b)[k] = pre[k]
  BY <1>1
<1>5. \A k \in m + 1 .. m + Len(b) : (pre \o b)[k] = b[k - m]
  BY <1>1
<1>6. Rewound(S, pre \o b, a, m, b)
  BY <1>1, <1>2, <1>3, <1>4, <1>5 DEF Rewound
<1> QED
  BY <1>6 DEF pre

(* A step that lends nobody more than before, where nobody borrowed, lends  *)
(* nothing.                                                                 *)
LEMMA FramedNoLoans ==
  ASSUME NEW V, NEW st, Good(st, V), NEW st2, Good(st2, V), Framed(st, st2), NoLoans(st)
  PROVE  NoLoans(st2)
<1>1. Live(st2) = Live(st)
  BY DEF Framed
<1>2. \A u \in Live(st) : st2.seqs[u].shared.rows \in Nat /\ st2.seqs[u].shared.rows <= 0
  BY <1>1, GoodFacts DEF Framed, NoLoans
<1> QED
  BY <1>1, <1>2 DEF NoLoans

(* A forward that succeeds: each group's caller holds the rows it rewound   *)
(* to and those it fed, the others what they held.                          *)
LEMMA ForwardStep ==
  ASSUME by \in Callers, Pinned, Kept(kv, log), NEW batch \in Batches,
         by.pin => \A i \in DOMAIN batch : Unread(batch[i].seq, batch[i].pos),
         NEW filled, filled = FillBatchInputs(kv, batch), Forward(batch, filled)
  PROVE  Kept(kv, log)'
<1> DEFINE st2 == StoreRows(filled.kv, batch, DOMAIN batch)
<1>1. Good(kv, Rows) /\ log \in [SeqIds -> Seq(Vals)] /\ (by.share \/ NoLoans(kv))
      /\ \A t \in SeqIds : Holds(kv, t, log[t])
  BY DEF Kept
<1>2. /\ IsBatch(kv, Rows, batch) /\ InBatch(batch) = Fed(batch)
      /\ \A i \in 1 .. Len(batch) : /\ batch[i].pos <= Len(log[batch[i].seq])
                                    /\ batch[i].seq \in SeqIds
                                    /\ batch[i].vals \in Seq(Vals)
  BY BatchIs
<1>3. /\ Len(batch) \in Nat /\ DOMAIN batch = 1 .. Len(batch)
      /\ \A i \in 1 .. Len(batch) :
          /\ batch[i].seq \in Live(kv) /\ batch[i].pos \in Nat
          /\ Len(batch[i].vals) \in Nat \ {0}
      /\ \A i, j \in 1 .. Len(batch) : i # j => batch[i].seq # batch[j].seq
  BY <1>2 DEF IsBatch
<1>4. /\ filled.ok /\ kv' = st2 /\ by' = by
      /\ log' = [s \in SeqIds |->
             IF s \in InBatch(batch) THEN Logged(CHOOSE g \in Range(batch) : g.seq = s) ELSE log[s]]
  BY DEF Forward
<1>5. /\ Good(st2, Rows) /\ Framed(kv, st2)
      /\ \A u \in Live(kv) \ Fed(batch) : Untouched(kv, st2, u)
      /\ \A i \in 1 .. Len(batch) :
            /\ Keeps(kv, st2, batch[i].seq, batch[i].pos)
            /\ st2.seqs[batch[i].seq].written >= batch[i].pos + Len(batch[i].vals)
      /\ \A i \in 1 .. Len(batch) : \A j \in 1 .. Len(batch[i].vals) :
            RowAt(st2, batch[i].seq, batch[i].pos + j - 1) = batch[i].vals[j]
  <2> DEFINE done == 1 .. Len(batch)
  <2>1. done \in SUBSET (1 .. Len(batch)) /\ st2 = StoreRows(filled.kv, batch, done)
    BY <1>3
  <2> HIDE DEF st2, done
  <2>2. ForwardLeaves(Rows, kv, st2, batch, done)
    BY <1>1, <1>2, <1>4, <2>1, ForwardKeeps
  <2> QED
    BY <2>2 DEF ForwardLeaves, done
<1> HIDE DEF st2
<1>6. ASSUME NEW i \in 1 .. Len(batch)
      PROVE  /\ log'[batch[i].seq] \in Seq(Vals)
             /\ Holds(st2, batch[i].seq, log'[batch[i].seq])
  <2> DEFINE g == batch[i]
             s == g.seq
             told == log[s]
             m == g.pos
             n == Len(g.vals)
             now == SubSeq(told, 1, m) \o g.vals
  <2>1. (CHOOSE q \in Range(batch) : q.seq = s) = g
    <3>1. g \in Range(batch) /\ g.seq = s
      BY <1>3 DEF Range
    <3>2. \A q \in Range(batch) : q.seq = s => q = g
      BY <1>3 DEF Range
    <3> QED
      BY <3>1, <3>2
  <2>2. s \in SeqIds /\ s \in InBatch(batch) /\ s \in Live(kv)
    BY <1>2, <1>3 DEF Fed
  <2>3. log'[s] = now
    <3>1. log'[s] = Logged(g)
      BY <1>4, <2>1, <2>2
    <3> QED
      BY <3>1 DEF Logged
  <2>4. told \in Seq(Vals) /\ g.vals \in Seq(Vals) /\ m \in Nat /\ m <= Len(told) /\ Len(told) \in Nat
        /\ n \in Nat /\ n >= 1
    BY <1>1, <1>2, <1>3, <2>2
  <2>5. /\ now \in Seq(Vals) /\ Len(now) = m + n
        /\ \A k \in 1 .. m : now[k] = told[k]
        /\ \A k \in m + 1 .. m + n : now[k] = g.vals[k - m]
    <3>1. Rewound(Vals, now, told, m, g.vals)
      <4> DEFINE v == g.vals
      <4>1. v \in Seq(Vals)
        BY <2>4
      <4> HIDE DEF v, told, m
      <4>2. Rewound(Vals, SubSeq(told, 1, m) \o v, told, m, v)
        BY <2>4, <4>1, RewoundIs
      <4> QED
        BY <4>2 DEF v
    <3> QED
      BY <3>1 DEF Rewound
  <2>6. s \in Live(st2)
    BY <1>5, <2>2 DEF Framed
  <2>7. m + n <= st2.seqs[s].written
    <3>1. st2.seqs[s].written \in Nat
      BY <1>5, <2>6, GoodFacts
    <3> QED
      BY <1>5, <2>4, <3>1
  <2>8. \A k \in 1 .. m : RowAt(st2, s, k - 1) = told[k]
    <3> SUFFICES ASSUME NEW k \in 1 .. m PROVE RowAt(st2, s, k - 1) = told[k]
      OBVIOUS
    <3>1. k - 1 \in 0 .. m - 1 /\ k \in 1 .. Len(told) /\ told # <<>>
      <4>1. k \in 1 .. m
        OBVIOUS
      <4> HIDE DEF m, told
      <4> QED
        BY <2>4, <4>1
    <3>2. RowAt(kv, s, k - 1) = told[k]
      BY <1>1, <2>2, <3>1 DEF Holds
    <3>3. RowAt(st2, s, k - 1) = RowAt(kv, s, k - 1)
      BY <1>5, <3>1 DEF Keeps
    <3> QED
      BY <3>2, <3>3
  <2>9. \A k \in m + 1 .. m + n : RowAt(st2, s, k - 1) = g.vals[k - m]
    <3> SUFFICES ASSUME NEW k \in m + 1 .. m + n PROVE RowAt(st2, s, k - 1) = g.vals[k - m]
      OBVIOUS
    <3> DEFINE j == k - m
    <3>1. j \in 1 .. n /\ m + j - 1 = k - 1
      <4>1. k \in m + 1 .. m + n
        OBVIOUS
      <4> HIDE DEF m, n
      <4> QED
        BY <2>4, <4>1
    <3>2. RowAt(st2, s, m + j - 1) = g.vals[j]
      <4> HIDE DEF j
      <4> QED
        BY <1>5, <3>1
    <3> QED
      BY <3>1, <3>2
  <2> HIDE DEF now, told, m, n
  <2>10. \A k \in 1 .. Len(now) : RowAt(st2, s, k - 1) = now[k]
    <3> SUFFICES ASSUME NEW k \in 1 .. Len(now) PROVE RowAt(st2, s, k - 1) = now[k]
      OBVIOUS
    <3>1. k \in 1 .. m \/ k \in m + 1 .. m + n
      BY <2>4, <2>5
    <3> QED
      BY <2>5, <2>8, <2>9, <3>1
  <2>11. Holds(st2, s, now)
    BY <2>5, <2>6, <2>7, <2>10 DEF Holds
  <2> QED
    BY <2>3, <2>5, <2>11
<1>7. ASSUME NEW t \in SeqIds \ Fed(batch)
      PROVE  log'[t] = log[t] /\ log[t] \in Seq(Vals) /\ Holds(st2, t, log[t])
  <2>1. log'[t] = log[t] /\ log[t] \in Seq(Vals)
    BY <1>1, <1>2, <1>4
  <2>2. t \in Live(kv) => Untouched(kv, st2, t)
    BY <1>5
  <2> QED
    BY <1>1, <2>1, <2>2, HoldsUntouched
<1>8. \A t \in SeqIds : log'[t] \in Seq(Vals) /\ Holds(st2, t, log'[t])
  BY <1>6, <1>7 DEF Fed
<1>9. log' \in [SeqIds -> Seq(Vals)]
  BY <1>4, <1>8
<1>10. by.share \/ NoLoans(st2)
  BY <1>1, <1>5, FramedNoLoans
<1> QED
  BY <1>4, <1>5, <1>8, <1>9, <1>10 DEF Kept, Rows

(* A forward that fails at any point: the callers of the batch forget, the  *)
(* others still hold.                                                       *)
LEMMA ForwardFailsStep ==
  ASSUME by \in Callers, Pinned, Kept(kv, log), NEW batch \in Batches,
         by.pin => \A i \in DOMAIN batch : Unread(batch[i].seq, batch[i].pos),
         NEW filled, filled = FillBatchInputs(kv, batch), NEW done \in SUBSET DOMAIN batch,
         ForwardFails(batch, filled, done)
  PROVE  Kept(kv, log)'
<1> DEFINE st2 == IF filled.ok THEN StoreRows(filled.kv, batch, done) ELSE filled.kv
<1>1. Good(kv, Rows) /\ log \in [SeqIds -> Seq(Vals)] /\ (by.share \/ NoLoans(kv))
      /\ \A t \in SeqIds : Holds(kv, t, log[t])
  BY DEF Kept
<1>2. IsBatch(kv, Rows, batch) /\ InBatch(batch) = Fed(batch)
  BY BatchIs
<1>3. done \in SUBSET (1 .. Len(batch))
  BY <1>2 DEF IsBatch
<1>4. /\ kv' = st2 /\ by' = by
      /\ log' = [s \in SeqIds |-> IF s \in InBatch(batch) THEN <<>> ELSE log[s]]
  BY DEF ForwardFails
<1>5. /\ Good(st2, Rows) /\ Framed(kv, st2)
      /\ \A u \in Live(kv) \ Fed(batch) : Untouched(kv, st2, u)
  <2>1. CASE filled.ok
    <3>1. st2 = StoreRows(filled.kv, batch, done)
      BY <2>1
    <3> HIDE DEF st2
    <3>2. ForwardLeaves(Rows, kv, st2, batch, done)
      BY <1>1, <1>2, <1>3, <2>1, <3>1, ForwardKeeps
    <3> QED
      BY <3>2 DEF ForwardLeaves
  <2>2. CASE ~filled.ok
    <3>1. st2 = filled.kv
      BY <2>2
    <3>2. Filled(Rows, kv, filled, batch)
      BY <1>1, <1>2, FillKeeps
    <3> HIDE DEF st2
    <3> QED
      BY <3>1, <3>2 DEF Filled
  <2> QED
    BY <2>1, <2>2
<1> HIDE DEF st2
<1>6. ASSUME NEW t \in SeqIds PROVE log'[t] \in Seq(Vals) /\ Holds(st2, t, log'[t])
  <2>1. CASE t \in Fed(batch)
    <3>1. log'[t] = <<>>
      BY <1>2, <1>4, <2>1
    <3> QED
      BY <3>1 DEF Holds
  <2>2. CASE t \notin Fed(batch)
    <3>1. log'[t] = log[t] /\ log[t] \in Seq(Vals)
      BY <1>1, <1>2, <1>4, <2>2
    <3>2. t \in Live(kv) => Untouched(kv, st2, t)
      BY <1>5, <2>2
    <3>3. Holds(st2, t, log[t])
      BY <1>1, <3>1, <3>2, HoldsUntouched
    <3> QED
      BY <3>1, <3>3
  <2> QED
    BY <2>1, <2>2
<1>7. log' \in [SeqIds -> Seq(Vals)]
  BY <1>4, <1>6
<1>8. by.share \/ NoLoans(st2)
  BY <1>1, <1>5, FramedNoLoans
<1> QED
  BY <1>4, <1>5, <1>6, <1>7, <1>8 DEF Kept, Rows

(* Every call keeps the invariant. *)
LEMMA NextKept ==
  ASSUME IInv, [Next]_vars
  PROVE  IInv'
<1> USE DEF IInv
<1>0. \A s \in by.seqs : s \in SeqIds
  BY ArenaAssumption
<1>1. CASE UNCHANGED vars
  BY <1>1 DEF vars, Pinned, Kept, Good, IsStore, IsTable, Separate, Fits, Stamped, Lent, Lends, Holds,
              NoLoans, RowAt, Live, Rows
<1>2. CASE Next
  <2>1. by' = by
    BY <1>2 DEF Next, Reserve, Resize, Release, Borrow, Forward, ForwardFails
  <2>2. Pinned' = Pinned
    BY <2>1 DEF Pinned
  <2> SUFFICES ASSUME Pinned PROVE Kept(kv, log)'
    BY <2>1, <2>2
  <2>3. by \in Callers /\ Kept(kv, log)
    OBVIOUS
  <2>4. CASE \E s \in by.seqs, cap \in 1 .. NCtx : Reserve(s, cap) \/ Resize(s, cap)
    BY <1>0, <2>3, <2>4, ReserveStep, ResizeStep
  <2>5. CASE \E s \in by.seqs : Release(s)
    BY <1>0, <2>3, <2>5, ReleaseStep
  <2>6. CASE \E src, dst \in by.seqs, rows \in 1 .. NCtx : Borrow(src, dst, rows)
    BY <1>0, <2>3, <2>6, BorrowStep
  <2>7. CASE \E batch \in Batches :
          /\ by.pin => \A i \in DOMAIN batch : Unread(batch[i].seq, batch[i].pos)
          /\ \E filled \in {FillBatchInputs(kv, batch)} :
                \/ Forward(batch, filled)
                \/ \E done \in SUBSET DOMAIN batch : ForwardFails(batch, filled, done)
    <3>1. PICK batch \in Batches :
            /\ by.pin => \A i \in DOMAIN batch : Unread(batch[i].seq, batch[i].pos)
            /\ \E filled \in {FillBatchInputs(kv, batch)} :
                  \/ Forward(batch, filled)
                  \/ \E done \in SUBSET DOMAIN batch : ForwardFails(batch, filled, done)
      BY <2>7
    <3>2. PICK filled \in {FillBatchInputs(kv, batch)} :
            \/ Forward(batch, filled)
            \/ \E done \in SUBSET DOMAIN batch : ForwardFails(batch, filled, done)
      BY <3>1
    <3>3. filled = FillBatchInputs(kv, batch)
      BY <3>2
    <3> QED
      BY <2>3, <3>1, <3>2, <3>3, ForwardStep, ForwardFailsStep
  <2> QED
    BY <1>2, <2>4, <2>5, <2>6, <2>7 DEF Next
<1> QED
  BY <1>1, <1>2

-----------------------------------------------------------------------------

(* The inductive invariant holds in every state the calls reach, for every  *)
(* context size, set of sequences and contents.                             *)
THEOREM ArenaInvariant == Spec => []IInv
<1>1. Init => IInv
  BY InitKept
<1>2. IInv /\ [Next]_vars => IInv'
  BY NextKept
<1> QED
  BY <1>1, <1>2, PTL DEF Spec

(* The run table, the owner stamps, the rows and the callers' record keep   *)
(* their types: starts and capacities stay in the arena through every call. *)
THEOREM ArenaTypeCorrect == Spec => [](Pinned => TypeOK)
<1>1. IInv => (Pinned => TypeOK)
  BY DEF IInv, Kept, Good, IsStore, IsTable, TypeOK, Rows
<1> QED
  BY <1>1, ArenaInvariant, PTL

(* Runs never overlap and never leave the arena, through any sequence of    *)
(* reservations, resizes, compactions and failures of any callers that      *)
(* spare the rows others read in place.                                     *)
THEOREM RunsStayApart == Spec => [](Pinned => RunsDisjoint)
<1>1. ASSUME Good(kv, Rows) PROVE RunsDisjoint
  <2>1. ASSUME NEW s \in Live(kv) PROVE RunCells(kv.seqs[s]) \subseteq Cells
    <3>1. kv.seqs[s].start \in Nat /\ kv.seqs[s].cap \in Nat /\ kv.seqs[s].start + kv.seqs[s].cap <= NCtx
      BY <1>1, GoodFacts
    <3> QED
      BY <3>1, NCtxAssumption DEF RunCells, Cells
  <2>2. ASSUME NEW s \in Live(kv), NEW t \in Live(kv), s # t
        PROVE  RunCells(kv.seqs[s]) \cap RunCells(kv.seqs[t]) = {}
    <3>1. /\ kv.seqs[s].start \in Nat /\ kv.seqs[s].cap \in Nat
          /\ kv.seqs[t].start \in Nat /\ kv.seqs[t].cap \in Nat
          /\ \/ kv.seqs[s].start + kv.seqs[s].cap <= kv.seqs[t].start
             \/ kv.seqs[t].start + kv.seqs[t].cap <= kv.seqs[s].start
      BY <1>1, <2>2, GoodFacts
    <3> QED
      BY <3>1 DEF RunCells
  <2> QED
    BY <2>1, <2>2 DEF RunsDisjoint
<1>2. IInv => (Pinned => RunsDisjoint)
  BY <1>1 DEF IInv, Kept
<1> QED
  BY <1>2, ArenaInvariant, PTL

(* A stamped cell lies in the run of the live sequence it names: Stamped    *)
(* says more, that it lies below what that sequence has written.            *)
THEOREM StampsFollowRuns == Spec => [](Pinned => OwnersMatchRuns)
<1>1. ASSUME Good(kv, Rows) PROVE OwnersMatchRuns
  <2> SUFFICES ASSUME NEW c \in Cells, kv.owner[c] # Free
               PROVE  kv.owner[c] \in Live(kv) /\ c \in RunCells(kv.seqs[kv.owner[c]])
    BY DEF OwnersMatchRuns
  <2> DEFINE o == kv.owner[c]
             sl == kv.seqs[o]
  <2>1. o \in Live(kv) /\ sl.start <= c /\ c < sl.start + PrivateWritten(sl)
    BY <1>1 DEF Good, Stamped
  <2>2. /\ sl.start \in Nat /\ sl.cap \in Nat /\ sl.shared.rows \in Nat /\ sl.written \in Nat
        /\ sl.written <= sl.shared.rows + sl.cap
        /\ PrivateWritten(sl) = IF sl.written >= sl.shared.rows THEN sl.written - sl.shared.rows ELSE 0
    BY <1>1, <2>1, GoodFacts
  <2>3. c \in Nat
    BY NCtxAssumption DEF Cells
  <2>4. c \in RunCells(sl)
    <3> HIDE DEF sl
    <3> QED
      BY <2>1, <2>2, <2>3 DEF RunCells
  <2> QED
    BY <2>1, <2>4
<1>2. IInv => (Pinned => OwnersMatchRuns)
  BY <1>1 DEF IInv, Kept
<1> QED
  BY <1>2, ArenaInvariant, PTL

(* Every written position of a sequence has a cell of the arena. *)
THEOREM WrittenRowsCovered == Spec => [](Pinned => WrittenCovered)
<1>1. ASSUME Good(kv, Rows) PROVE WrittenCovered
  <2> SUFFICES ASSUME NEW s \in Live(kv), NEW p \in 0 .. kv.seqs[s].written - 1
               PROVE  p \in Positions(kv.seqs[s]) /\ CellOf(kv.seqs[s], p) \in Cells
    BY DEF WrittenCovered
  <2> DEFINE sl == kv.seqs[s]
  <2>1. /\ sl.start \in Nat /\ sl.cap \in Nat /\ sl.shared.rows \in Nat /\ sl.shared.cell \in Nat
        /\ sl.written \in Nat /\ sl.written <= sl.shared.rows + sl.cap /\ sl.start + sl.cap <= NCtx
    BY <1>1, GoodFacts
  <2>2. p \in 0 .. sl.written - 1
    OBVIOUS
  <2>3. sl.shared.rows > 0 => sl.shared.cell + sl.shared.rows <= NCtx
    <3> SUFFICES ASSUME sl.shared.rows > 0 PROVE sl.shared.cell + sl.shared.rows <= NCtx
      OBVIOUS
    <3>1. PICK u \in Live(kv) : sl.shared.cell + sl.shared.rows <= kv.seqs[u].start + kv.seqs[u].cap
      BY <1>1, LoanFacts
    <3>2. kv.seqs[u].start \in Nat /\ kv.seqs[u].cap \in Nat /\ kv.seqs[u].start + kv.seqs[u].cap <= NCtx
      BY <1>1, GoodFacts
    <3> HIDE DEF sl
    <3> QED
      BY <2>1, <3>1, <3>2, NCtxAssumption
  <2> HIDE DEF sl
  <2>4. p \in Positions(sl) /\ CellOf(sl, p) \in Cells
    BY <2>1, <2>2, <2>3, NCtxAssumption DEF Positions, CellOf, Cells
  <2> QED
    BY <2>4 DEF sl
<1>2. IInv => (Pinned => WrittenCovered)
  BY <1>1 DEF IInv, Kept
<1> QED
  BY <1>2, ArenaInvariant, PTL

(* Every sequence reads back exactly what its own calls stored, whatever    *)
(* happens to the others: for callers that copy prefixes always, and for    *)
(* callers that share them provided they spare the rows others read in      *)
(* place.                                                                   *)
THEOREM Isolation == Spec => [](Pinned => RowsHoldLog)
<1>1. ASSUME Kept(kv, log) PROVE RowsHoldLog
  <2> SUFFICES ASSUME NEW s \in SeqIds, NEW i \in 1 .. Len(log[s])
               PROVE  s \in Live(kv) /\ RowAt(kv, s, i - 1) = log[s][i]
    BY DEF RowsHoldLog
  <2>1. log[s] \in Seq(Vals) /\ Holds(kv, s, log[s])
    BY <1>1 DEF Kept
  <2>2. log[s] # <<>>
    BY <2>1
  <2> QED
    BY <2>1, <2>2 DEF Holds
<1>2. IInv => (Pinned => RowsHoldLog)
  BY <1>1 DEF IInv
<1> QED
  BY <1>2, ArenaInvariant, PTL
=============================================================================
