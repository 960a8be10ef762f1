-------------------------- MODULE EngineRowsProofs --------------------------
(***************************************************************************)
(* The rows of the batching engine where prefixes are copied: whatever is  *)
(* reclaimed, moved, copied between slots, fed in chunks or lost with a    *)
(* failed decode step, the mirror of a slot (cached_tokens) names the rows *)
(* its sequence holds.                                                     *)
(***************************************************************************)
EXTENDS BatchEngineProofs

(* A good store of token prefixes, in which nobody borrows. *)
Plain(st) == Good(st, Seq(Tokens)) /\ NoLoans(st)

(* The first Len(c) rows of sequence i were computed from the prefixes of c. *)
Mirrored(k, i, c) ==
    /\ c \in Seq(Tokens)
    /\ c # <<>> => /\ i \in Live(k) /\ Len(c) <= k.seqs[i].written
                   /\ \A n \in 1 .. Len(c) : RowAt(k, i, n - 1) = SubSeq(c, 1, n)

(* Every slot holds the rows its mirror names. *)
Rooted(k, ss) == Plain(k) /\ \A i \in Slots : Mirrored(k, i, ss[i].cached)

(* m is k after idx was given cells: others lost their run or nothing. *)
Carries(k, m, idx) ==
    /\ Plain(m) /\ Live(m) \subseteq Live(k) \cup {idx}
    /\ idx \in Live(k) => idx \in Live(m)
    /\ \A t \in Live(k) : t \in Live(m) => Untouched(k, m, t)

(* The prefix of a sequence. *)
LEMMA PrefixOf ==
  ASSUME NEW S, NEW f \in Seq(S), NEW p \in Nat, p <= Len(f)
  PROVE  /\ SubSeq(f, 1, p) \in Seq(S) /\ Len(SubSeq(f, 1, p)) = p
         /\ \A i \in 1 .. p : SubSeq(f, 1, p)[i] = f[i]
         /\ \A j \in 0 .. p : SubSeq(SubSeq(f, 1, p), 1, j) = SubSeq(f, 1, j)
<1>1. Len(f) \in Nat /\ \A i \in 1 .. Len(f) : f[i] \in S
  BY ElementOfSeq, LenProperties
<1>2. /\ SubSeq(f, 1, p) \in Seq(S) /\ Len(SubSeq(f, 1, p)) = IF 1 <= p THEN p - 1 + 1 ELSE 0
      /\ \A i \in 1 .. p - 1 + 1 : SubSeq(f, 1, p)[i] = f[1 + i - 1]
  <2>1. 1 \in Int /\ p \in Int /\ \A i \in 1 .. p : f[i] \in S
    BY <1>1
  <2> QED
    BY <2>1, SubSeqProperties
<1>3. Len(SubSeq(f, 1, p)) = p /\ \A i \in 1 .. p : SubSeq(f, 1, p)[i] = f[i]
  BY <1>2
<1>4. ASSUME NEW j \in 0 .. p PROVE SubSeq(SubSeq(f, 1, p), 1, j) = SubSeq(f, 1, j)
  <2>1. CASE j = 0
    <3>1. SubSeq(SubSeq(f, 1, p), 1, 0) = <<>> /\ SubSeq(f, 1, 0) = <<>>
      BY SubSeqEmpty
    <3> QED
      BY <2>1, <3>1
  <2>2. CASE j # 0
    <3>1. 1 \in 1 .. Len(f) /\ p \in 1 .. Len(f) /\ 1 \in 1 .. p - 1 + 1 /\ j \in 1 .. p - 1 + 1
      BY <1>1, <2>2
    <3>2. SubSeq(SubSeq(f, 1, p), 1, j) = SubSeq(f, 1 + 1 - 1, 1 + j - 1)
      BY <3>1, SubSeqOfSubSeq
    <3> QED
      BY <3>2
  <2> QED
    BY <2>1, <2>2
<1> QED
  BY <1>2, <1>3, <1>4

(* Sequences that agree up to p have the same prefix. *)
LEMMA SamePrefix ==
  ASSUME NEW S, NEW f \in Seq(S), NEW g \in Seq(S), NEW p \in Nat, p <= Len(f), p <= Len(g),
         \A i \in 1 .. p : f[i] = g[i]
  PROVE  SubSeq(f, 1, p) = SubSeq(g, 1, p)
<1> DEFINE a == SubSeq(f, 1, p)
           b == SubSeq(g, 1, p)
<1>1. a \in Seq(S) /\ b \in Seq(S) /\ Len(a) = Len(b) /\ \A i \in 1 .. Len(a) : a[i] = b[i]
  BY PrefixOf
<1> HIDE DEF a, b
<1>2. a = b
  BY <1>1, SeqEqual
<1> QED
  BY <1>2 DEF a, b

(* What is behind position p, and what the rows of it are computed from. *)
LEMMA RestOf ==
  ASSUME NEW S, NEW f \in Seq(S), NEW p \in Nat, p < Len(f)
  PROVE  /\ SubSeq(f, p + 1, Len(f)) \in Seq(S) /\ Len(SubSeq(f, p + 1, Len(f))) = Len(f) - p
         /\ \A j \in 1 .. Len(f) - p :
               SubSeq(f, 1, p) \o SubSeq(SubSeq(f, p + 1, Len(f)), 1, j) = SubSeq(f, 1, p + j)
<1> DEFINE L == Len(f)
           r == SubSeq(f, p + 1, L)
<1>1. L \in Nat /\ \A i \in 1 .. L : f[i] \in S
  BY ElementOfSeq, LenProperties
<1> HIDE DEF L
<1>2. r \in Seq(S) /\ Len(r) = IF p + 1 <= L THEN L - (p + 1) + 1 ELSE 0
  <2>1. p + 1 \in Int /\ L \in Int /\ \A i \in p + 1 .. L : f[i] \in S
    BY <1>1
  <2> QED
    BY <2>1, SubSeqProperties
<1>3. Len(r) = L - p
  BY <1>1, <1>2 DEF L
<1>4. ASSUME NEW j \in 1 .. L - p PROVE SubSeq(f, 1, p) \o SubSeq(r, 1, j) = SubSeq(f, 1, p + j)
  <2>1. p + 1 \in 1 .. Len(f) /\ L \in 1 .. Len(f) /\ 1 \in 1 .. L - (p + 1) + 1 /\ j \in 1 .. L - (p + 1) + 1
    BY <1>1 DEF L
  <2>2. SubSeq(r, 1, j) = SubSeq(f, (p + 1) + 1 - 1, (p + 1) + j - 1)
    BY <2>1, SubSeqOfSubSeq
  <2>3. SubSeq(r, 1, j) = SubSeq(f, p + 1, p + j)
    BY <1>1, <2>2
  <2>4. 1 \in 1 .. Len(f) + 1 /\ p \in 1 - 1 .. Len(f) /\ p + j \in p .. Len(f)
    BY <1>1 DEF L
  <2>5. SubSeq(f, 1, p) \o SubSeq(f, p + 1, p + j) = SubSeq(f, 1, p + j)
    BY <2>4, ConcatAdjacentSubSeq
  <2> QED
    BY <2>3, <2>5
<1> QED
  BY <1>2, <1>3, <1>4 DEF L

(* A slot's mirror is a prefix of the prompt as far as common_prefix_len says. *)
LEMMA CommonPrefix ==
  ASSUME NEW S, NEW a \in Seq(S), NEW b \in Seq(S)
  PROVE  /\ CommonPrefixLen(a, b) \in Nat
         /\ CommonPrefixLen(a, b) <= Len(a) /\ CommonPrefixLen(a, b) <= Len(b)
         /\ \A i \in 1 .. CommonPrefixLen(a, b) : a[i] = b[i]
<1> DEFINE C == {n \in DOMAIN a \cap DOMAIN b : \A i \in 1 .. n : a[i] = b[i]}
           G == {n \in Nat : n + 1 \notin C}
<1>1. DOMAIN a = 1 .. Len(a) /\ Len(a) \in Nat /\ DOMAIN b = 1 .. Len(b) /\ Len(b) \in Nat
  BY LenProperties
<1>2. \A n : n \in C <=> n \in Int /\ 1 <= n /\ n <= Len(a) /\ n <= Len(b) /\ \A i \in 1 .. n : a[i] = b[i]
  BY <1>1
<1> HIDE DEF C
<1>3. G \in SUBSET Nat /\ Len(a) \in G
  BY <1>1, <1>2
<1>4. PICK m \in G : \A x \in G : m <= x
  BY <1>3, CopyLoop!LeastNat
<1>5. \A n \in 1 .. m : n \in C
  <2> SUFFICES ASSUME NEW n \in 1 .. m, n \notin C PROVE FALSE
    OBVIOUS
  <2>1. n - 1 \in Nat /\ (n - 1) + 1 = n /\ n - 1 < m
    OBVIOUS
  <2> QED
    BY <1>4, <2>1
<1>6. \A n \in C : n \in 1 .. m
  <2> SUFFICES ASSUME NEW n \in C, ~(n <= m) PROVE FALSE
    BY <1>2, <1>4
  <2>1. m + 1 \in C
    BY <1>2, <1>4
  <2> QED
    BY <1>4, <2>1
<1>7. C = 1 .. m
  BY <1>5, <1>6
<1>8. Cardinality(C) = m
  <2>1. Cardinality(1 .. m) = IF 1 > m THEN 0 ELSE m - 1 + 1
    BY <1>4, FS_Interval
  <2> QED
    BY <1>4, <1>7, <2>1
<1>9. m = 0 \/ m \in C
  BY <1>4, <1>5
<1>10. m <= Len(a) /\ m <= Len(b) /\ \A i \in 1 .. m : a[i] = b[i]
  BY <1>1, <1>2, <1>4, <1>9
<1> QED
  BY <1>4, <1>8, <1>10 DEF CommonPrefixLen, C

(* The rows of s were not touched, so its mirror still names them. *)
LEMMA MirrorUntouched ==
  ASSUME NEW k, Plain(k), NEW m, NEW i, NEW c, Mirrored(k, i, c),
         i \in Live(k) => Untouched(k, m, i)
  PROVE  Mirrored(m, i, c)
<1>1. c \in Seq(Tokens) /\ Len(c) \in Nat
  BY LenProperties DEF Mirrored
<1>2. ASSUME c # <<>>
      PROVE  /\ i \in Live(m) /\ Len(c) <= m.seqs[i].written
             /\ \A n \in 1 .. Len(c) : RowAt(m, i, n - 1) = SubSeq(c, 1, n)
  <2>1. /\ i \in Live(k) /\ Len(c) <= k.seqs[i].written
        /\ \A n \in 1 .. Len(c) : RowAt(k, i, n - 1) = SubSeq(c, 1, n)
    BY <1>2 DEF Mirrored
  <2>2. k.seqs[i].written \in Nat
    BY <2>1, GoodFacts DEF Plain
  <2>3. /\ i \in Live(m) /\ m.seqs[i].written = k.seqs[i].written
        /\ \A p \in 0 .. k.seqs[i].written - 1 : RowAt(m, i, p) = RowAt(k, i, p)
    BY <2>1 DEF Untouched
  <2>4. \A n \in 1 .. Len(c) : n - 1 \in 0 .. k.seqs[i].written - 1
    BY <1>1, <2>1, <2>2
  <2> QED
    BY <2>1, <2>3, <2>4
<1> QED
  BY <1>1, <1>2 DEF Mirrored

(* The prefix of a mirror names the rows below. *)
LEMMA MirrorPrefix ==
  ASSUME NEW k, Plain(k), NEW i, NEW c, Mirrored(k, i, c), NEW p \in Nat, p <= Len(c)
  PROVE  Mirrored(k, i, SubSeq(c, 1, p))
<1> DEFINE d == SubSeq(c, 1, p)
<1>1. c \in Seq(Tokens) /\ Len(c) \in Nat
  BY LenProperties DEF Mirrored
<1>2. d \in Seq(Tokens) /\ Len(d) = p /\ \A j \in 0 .. p : SubSeq(d, 1, j) = SubSeq(c, 1, j)
  BY <1>1, PrefixOf
<1> HIDE DEF d
<1>3. ASSUME d # <<>>
      PROVE  /\ i \in Live(k) /\ Len(d) <= k.seqs[i].written
             /\ \A n \in 1 .. Len(d) : RowAt(k, i, n - 1) = SubSeq(d, 1, n)
  <2>1. p # 0
    BY <1>2, <1>3, EmptySeq
  <2>2. c # <<>>
    BY <1>1, <2>1, EmptySeq
  <2>3. /\ i \in Live(k) /\ Len(c) <= k.seqs[i].written
        /\ \A n \in 1 .. Len(c) : RowAt(k, i, n - 1) = SubSeq(c, 1, n)
    BY <2>2 DEF Mirrored
  <2>4. k.seqs[i].written \in Nat
    BY <2>3, GoodFacts DEF Plain
  <2>5. \A n \in 1 .. p : n \in 0 .. p /\ n \in 1 .. Len(c)
    BY <1>1
  <2>6. Len(d) <= k.seqs[i].written
    <3> DEFINE w == k.seqs[i].written
    <3>1. w \in Nat /\ Len(c) <= w
      BY <2>3, <2>4
    <3> HIDE DEF w
    <3>2. Len(d) <= w
      BY <1>1, <1>2, <3>1
    <3> QED
      BY <3>2 DEF w
  <2>7. ASSUME NEW n \in 1 .. Len(d) PROVE RowAt(k, i, n - 1) = SubSeq(d, 1, n)
    <3>1. n \in 1 .. p
      BY <1>2
    <3> QED
      BY <1>2, <2>3, <2>5, <3>1
  <2> QED
    BY <2>3, <2>6, <2>7
<1> QED
  BY <1>2, <1>3 DEF Mirrored, d

-----------------------------------------------------------------------------
(* Giving a slot its cells. *)

LEMMA CarriesRefl ==
  ASSUME NEW k, Plain(k), NEW idx
  PROVE  Carries(k, k, idx)
BY DEF Carries, Untouched

LEMMA CarriesChain ==
  ASSUME NEW k, NEW m, NEW n, NEW idx, Carries(k, m, idx), Carries(m, n, idx)
  PROVE  Carries(k, n, idx)
<1>1. ASSUME NEW t \in Live(k), t \in Live(n) PROVE Untouched(k, n, t)
  <2>1. t \in Live(m)
    BY <1>1 DEF Carries
  <2>2. Untouched(k, m, t) /\ Untouched(m, n, t)
    BY <1>1, <2>1 DEF Carries
  <2> QED
    BY <2>2, UntouchedChain
<1> QED
  BY <1>1 DEF Carries

(* A slot that still has its run has its rows. *)
LEMMA MirrorCarried ==
  ASSUME NEW k, Plain(k), NEW m, NEW idx, Carries(k, m, idx), NEW i, NEW c, Mirrored(k, i, c),
         c # <<>> => i \in Live(m)
  PROVE  Mirrored(m, i, c)
<1>1. CASE c = <<>>
  BY <1>1 DEF Mirrored
<1>2. CASE c # <<>>
  <2>1. i \in Live(k) => Untouched(k, m, i)
    BY <1>2 DEF Carries
  <2> QED
    BY <2>1, MirrorUntouched
<1> QED
  BY <1>1, <1>2

(* One idle slot released: its mirror is emptied with it. *)
LEMMA ReleaseRoots ==
  ASSUME NEW k, NEW ss, Sound(k, ss), Rooted(k, ss), NEW j \in Slots, NEW idx \in Slots, j # idx,
         NEW m, m = ReleaseSeq(k, j), NEW tt, tt = Released(ss, j)
  PROVE  Rooted(m, tt) /\ Carries(k, m, idx)
<1>1. Plain(k) /\ Good(k, Seq(Tokens)) /\ NoLoans(k)
  BY DEF Rooted, Plain
<1>2. Plain(m) /\ Live(m) = Live(k) \ {j} /\ \A t \in Live(k) \ {j} : Untouched(k, m, t)
  <2>1. CASE j \notin Live(k)
    <3>1. m = k
      BY <2>1 DEF ReleaseSeq
    <3> QED
      BY <1>1, <2>1, <3>1 DEF Untouched
  <2>2. CASE j \in Live(k)
    <3>1. \A t \in Live(k) : k.seqs[t].shared.rows > 0 => ~Lends(k, j, t)
      BY <1>1 DEF NoLoans
    <3>2. /\ Good(m, Seq(Tokens)) /\ Live(m) = Live(k) \ {j}
          /\ \A t \in Live(k) \ {j} : Untouched(k, m, t)
      BY <1>1, <2>2, <3>1, ReleaseKeeps
    <3>3. NoLoans(m)
      BY <1>1, <3>2 DEF NoLoans, Untouched
    <3> QED
      BY <3>2, <3>3 DEF Plain
  <2> QED
    BY <2>1, <2>2
<1>3. Carries(k, m, idx)
  BY <1>2 DEF Carries
<1>4. /\ tt[j].cached = <<>> /\ \A i \in Slots \ {j} : tt[i] = ss[i]
  <2>1. ss = [i \in Slots |-> ss[i]] /\ Shaped(ss[j])
    BY DEF Sound
  <2>2. tt = [ss EXCEPT ![j] = Emptied(ss[j])]
    BY <2>1, ReleasedForm
  <2> DEFINE sl == Emptied(ss[j])
             old == ss[j]
  <2>3. sl = SlotRec(old.start, 0, <<>>, old.run) /\ old.run \in RunRec \cup {Idle}
    BY <2>1, SlotForms DEF Shaped
  <2>4. sl.cached = <<>>
    <3> HIDE DEF sl, old
    <3> QED
      BY <2>3, ShapedOf
  <2> HIDE DEF sl
  <2>5. tt = [ss EXCEPT ![j] = sl]
    BY <2>2 DEF sl
  <2>6. tt[j] = sl /\ \A i \in Slots \ {j} : tt[i] = ss[i]
    BY <2>1, <2>5, OneSlot
  <2> QED
    BY <2>4, <2>6
<1>5. ASSUME NEW i \in Slots PROVE Mirrored(m, i, tt[i].cached)
  <2>1. CASE i = j
    BY <1>4, <2>1, EmptySeq DEF Mirrored
  <2>2. CASE i # j
    <3>1. Mirrored(k, i, ss[i].cached) /\ tt[i] = ss[i]
      BY <1>4, <2>2 DEF Rooted
    <3> DEFINE c == ss[i].cached
    <3>2. Mirrored(k, i, c) /\ (i \in Live(k) => Untouched(k, m, i))
      BY <1>2, <2>2, <3>1
    <3> HIDE DEF c
    <3>3. Mirrored(m, i, c)
      BY <1>1, <3>2, MirrorUntouched
    <3> QED
      BY <3>1, <3>3 DEF c
  <2> QED
    BY <2>1, <2>2
<1> QED
  BY <1>2, <1>3, <1>5 DEF Rooted

(* Reclaiming takes the mirrors of the slots it releases, and no other. *)
LEMMA ReclaimRoots ==
  ASSUME NEW st, Sound(st.kv, st.slots), Rooted(st.kv, st.slots), NEW idx \in Slots, NEW need,
         NEW res, res = Reclaim(st, idx, need)
  PROVE  Rooted(res.kv, res.slots) /\ Carries(st.kv, res.kv, idx)
<1> DEFINE c == [idx |-> idx, need |-> need]
           N == Cardinality(Slots)
<1>2. c.idx = idx /\ c.need = need
  OBVIOUS
<1> HIDE DEF c
<1>1. res = ReclaimLoop!Fold(c, st, InOrder)
  BY <1>2, ReclaimFold
<1>3. PICK g : ReclaimTrace(g, c, st)
  BY ReclaimUnfolds
<1> DEFINE P(n) == /\ Sound(g[n].kv, g[n].slots)
                   /\ Rooted(g[n].kv, g[n].slots) /\ Carries(st.kv, g[n].kv, idx)
           T == {n \in 0 .. N : P(n)}
<1>4. N \in Nat /\ Slots = 1 .. N
  BY SlotsInOrder
<1> HIDE DEF N
<1>5. 0 \in T
  <2>1. g[0] = st
    BY <1>3 DEF ReclaimTrace
  <2>2. Carries(st.kv, st.kv, idx)
    BY CarriesRefl DEF Rooted
  <2> QED
    BY <1>4, <2>1, <2>2
<1>6. ASSUME NEW n \in 0 .. N - 1, n \in T PROVE n + 1 \in T
  <2>1. n + 1 \in Slots /\ (n + 1) - 1 = n /\ n + 1 \in 0 .. N
    BY <1>4
  <2> DEFINE j == n + 1
             m == ReleaseSeq(g[n].kv, j)
             tt == Released(g[n].slots, j)
  <2>2. g[j] = ReclaimStep(c, g[n], j)
    BY <1>3, <2>1 DEF ReclaimTrace
  <2>3. P(n)
    BY <1>6
  <2> HIDE DEF j
  <2>4. \/ g[j] = g[n]
        \/ j # idx /\ g[n].slots[j].run = Idle /\ g[j] = [kv |-> m, slots |-> tt]
    BY <1>2, <2>2 DEF ReclaimStep
  <2>5. CASE g[j] = g[n]
    BY <2>1, <2>3, <2>5 DEF j
  <2>6. CASE j # idx /\ g[n].slots[j].run = Idle /\ g[j] = [kv |-> m, slots |-> tt]
    <3>1. g[j].kv = m /\ g[j].slots = tt
      BY <2>6
    <3> DEFINE k == g[n].kv
               ss == g[n].slots
    <3>2. /\ m = ReleaseSeq(k, j) /\ tt = Released(ss, j)
          /\ j \in Slots /\ Sound(k, ss) /\ ss[j].run = Idle /\ Rooted(k, ss) /\ Carries(st.kv, k, idx)
      BY <2>1, <2>3, <2>6 DEF j
    <3> HIDE DEF m, tt, k, ss
    <3>3. Around(k, ss, m, tt, idx)
      BY <2>6, <3>2, ReleaseAround
    <3>4. Rooted(m, tt) /\ Carries(k, m, idx)
      BY <2>6, <3>2, ReleaseRoots
    <3>5. P(j)
      BY <3>1, <3>2, <3>3, <3>4, CarriesChain DEF Around
    <3> QED
      BY <2>1, <3>5 DEF j
  <2> QED
    BY <2>4, <2>5, <2>6
<1> HIDE DEF T
<1>7. \A n \in 0 .. N : n \in T
  BY <1>4, <1>5, <1>6, Induct
<1>8. P(N)
  BY <1>4, <1>7 DEF T
<1>9. res = g[N]
  BY <1>1, <1>3 DEF ReclaimTrace, N
<1> QED
  BY <1>8, <1>9

(* Another place in the arena leaves a slot's mirror as it is. *)
LEMMA PlaceCached ==
  ASSUME NEW sl, sl = SlotRec(sl.start, sl.cap, sl.cached, sl.run), NEW x, NEW y
  PROVE  Given(sl, x, y).cached = sl.cached /\ [sl EXCEPT !.start = x].cached = sl.cached
<1>1. /\ Given(sl, x, y) = SlotRec(x, y, sl.cached, sl.run)
      /\ [sl EXCEPT !.start = x] = SlotRec(x, sl.cap, sl.cached, sl.run)
  BY GivenForm, SlotForms, ZenonT(60)
<1>2. \A a, b : SlotRec(a, b, sl.cached, sl.run).cached = sl.cached
  BY DEF SlotRec
<1> QED
  BY <1>1, <1>2

LEMMA AdoptCached ==
  ASSUME NEW old, Sound(old.kv, old.slots), NEW idx \in Slots, NEW res, NEW q, q = Adopt(old, res, idx)
  PROVE  q.kv = res.kv /\ \A i \in Slots : q.slots[i].cached = old.slots[i].cached
<1> DEFINE ss == old.slots
           m == res.kv
           tt == FollowMoves(ss, old.kv, m, idx)
<1>1. q.kv = m /\ (~res.ok => q.slots = ss) /\ (res.ok => q.slots = tt)
  BY DEF Adopt
<1>2. ASSUME NEW i \in Slots PROVE tt[i].cached = ss[i].cached
  <2> DEFINE was == ss[i]
             x == m.seqs[i].start
             y == m.seqs[i].cap
  <2>1. was = SlotRec(was.start, was.cap, was.cached, was.run)
    BY DEF Sound, Shaped
  <2>2. tt[i] = Given(was, x, y) \/ tt[i] = [was EXCEPT !.start = x] \/ tt[i] = was
    BY DEF FollowMoves, Given
  <2> HIDE DEF was, x, y, tt
  <2>3. Given(was, x, y).cached = was.cached /\ [was EXCEPT !.start = x].cached = was.cached
    BY <2>1, PlaceCached
  <2>6. tt[i].cached = was.cached
    BY <2>2, <2>3
  <2> QED
    BY <2>6 DEF was
<1> QED
  BY <1>1, <1>2

(* A slot given a run by the arena: every mirror still names its rows. *)
LEMMA AdoptRoots ==
  ASSUME NEW old, Sound(old.kv, old.slots), Rooted(old.kv, old.slots), NEW idx \in Slots, NEW res,
         Good(res.kv, Seq(Tokens)), Live(res.kv) \subseteq Live(old.kv) \cup {idx},
         \A t \in Live(old.kv) : Untouched(old.kv, res.kv, t),
         \A t \in Live(res.kv) \ Live(old.kv) : res.kv.seqs[t].shared.rows = 0,
         NEW q, q = Adopt(old, res, idx)
  PROVE  Rooted(q.kv, q.slots) /\ Carries(old.kv, q.kv, idx)
<1> DEFINE k == old.kv
           m == res.kv
<1>1. q.kv = m /\ \A i \in Slots : q.slots[i].cached = old.slots[i].cached
  BY AdoptCached
<1>2. Plain(k)
  BY DEF Rooted
<1>3. Plain(m)
  BY <1>2 DEF Plain, NoLoans, Untouched
<1>4. Carries(k, m, idx)
  BY <1>3 DEF Carries, Untouched
<1>5. ASSUME NEW i \in Slots PROVE Mirrored(m, i, old.slots[i].cached)
  <2> DEFINE c == old.slots[i].cached
  <2>1. Mirrored(k, i, c)
    BY DEF Rooted
  <2>2. i \in Live(k) => Untouched(k, m, i)
    OBVIOUS
  <2> HIDE DEF c, k, m
  <2>3. Mirrored(m, i, c)
    BY <1>2, <2>1, <2>2, MirrorUntouched
  <2> QED
    BY <2>3 DEF c, m
<1> QED
  BY <1>1, <1>3, <1>4, <1>5 DEF Rooted

(* Sizing a slot, with all that is reclaimed, resized and moved for it. *)
LEMMA GrownRoots ==
  ASSUME NEW st, Sound(st.kv, st.slots), Rooted(st.kv, st.slots), NEW idx \in Slots,
         NEW want \in 1 .. NCtx, NEW q, q = Grown(st, idx, want)
  PROVE  Rooted(q.kv, q.slots) /\ Carries(st.kv, q.kv, idx)
<1>0. idx \in SeqIds /\ Table(st.kv) /\ Shaped(st.slots[idx]) /\ Backs(st.kv, idx, st.slots[idx])
      /\ Good(st.kv, Seq(Tokens)) /\ want \in Nat /\ want > 0
  BY NCtxAssumption DEF Slots, Sound, Rooted, Plain
<1>1. CASE st.slots[idx].cap = 0
  <2> DEFINE res == KvReserveSeqWithDefrag(st.kv, idx, want)
  <2>1. q = Adopt(st, res, idx)
    <3> HIDE DEF res
    <3>1. The({Adopt(st, r, idx) : r \in {res}}) = Adopt(st, res, idx)
      BY DEF The
    <3> QED
      BY <1>1, <3>1 DEF Grown, res
  <2>2. OnlyTouches(st.kv, res.kv, idx)
    BY <1>0, ReserveCaps
  <2>3. /\ Good(res.kv, Seq(Tokens))
        /\ \A t \in Live(st.kv) : Untouched(st.kv, res.kv, t)
        /\ \A t \in Live(res.kv) \ Live(st.kv) : res.kv.seqs[t].shared.rows = 0
    BY <1>0, ReserveKeeps
  <2> HIDE DEF res
  <2>4. Live(res.kv) \subseteq Live(st.kv) \cup {idx}
    BY <2>2 DEF OnlyTouches
  <2> QED
    BY <2>1, <2>3, <2>4, AdoptRoots
<1>2. CASE st.slots[idx].cap # 0
  <2> DEFINE need == want - st.slots[idx].cap
             rest == Reclaim(st, idx, need)
             res == KvSetCapWithDefrag(rest.kv, idx, want)
  <2>1. q = Adopt(rest, res, idx)
    <3> HIDE DEF rest
    <3>1. The({The({Adopt(r, x, idx) : x \in {KvSetCapWithDefrag(r.kv, idx, want)}}) : r \in {rest}})
            = Adopt(rest, res, idx)
      BY DEF The
    <3> QED
      BY <1>2, <3>1 DEF Grown, rest
  <2>2. Rooted(rest.kv, rest.slots) /\ Carries(st.kv, rest.kv, idx)
        /\ Around(st.kv, st.slots, rest.kv, rest.slots, idx) /\ rest.slots[idx] = st.slots[idx]
    <3> HIDE DEF need
    <3> QED
      BY ReclaimRoots, ReclaimAround
  <2> HIDE DEF rest, need
  <2>3. Sound(rest.kv, rest.slots) /\ Backs(rest.kv, idx, rest.slots[idx]) /\ Good(rest.kv, Seq(Tokens))
    BY <2>2 DEF Around, Sound, Rooted, Plain
  <2>4. idx \in Live(rest.kv)
    BY <1>0, <1>2, <2>2, <2>3 DEF Backs, Shaped
  <2>5. /\ Good(res.kv, Seq(Tokens)) /\ Live(res.kv) = Live(rest.kv)
        /\ \A t \in Live(rest.kv) : Untouched(rest.kv, res.kv, t)
    <3> DEFINE k == rest.kv
    <3>1. res.kv = KvSetCapWithDefrag(k, idx, want).kv /\ Good(k, Seq(Tokens)) /\ idx \in Live(k)
      BY <2>3, <2>4
    <3> HIDE DEF k
    <3> QED
      BY <3>1, ResizeKeeps DEF k
  <2> HIDE DEF res
  <2>6. Rooted(q.kv, q.slots) /\ Carries(rest.kv, q.kv, idx)
    BY <2>1, <2>2, <2>3, <2>5, AdoptRoots
  <2> QED
    BY <2>2, <2>6, CarriesChain
<1> QED
  BY <1>1, <1>2

(* ensure_slot_capacity. *)
LEMMA EnsureRoots ==
  ASSUME NEW st, Sound(st.kv, st.slots), Rooted(st.kv, st.slots), NEW idx \in Slots,
         NEW wanted \in Nat, NEW q, q = EnsureSlotCapacity(st, idx, wanted)
  PROVE  Rooted(q.kv, q.slots) /\ Carries(st.kv, q.kv, idx)
<1> DEFINE want == Min({wanted, NCtx})
<1>1. NCtx \in Nat /\ st.slots[idx].cap \in Nat
  BY NCtxAssumption DEF Sound, Shaped
<1>2. want \in Nat /\ want <= NCtx
  BY <1>1, MinPair
<1>3. \/ q = st
      \/ ~(st.slots[idx].cap >= want) /\ q = Grown(st, idx, want)
  BY DEF EnsureSlotCapacity
<1> HIDE DEF want
<1>4. CASE q = st
  BY <1>4, CarriesRefl DEF Rooted
<1>5. CASE ~(st.slots[idx].cap >= want) /\ q = Grown(st, idx, want)
  <2>1. want \in 1 .. NCtx
    BY <1>1, <1>2, <1>5
  <2> QED
    BY <1>5, <2>1, GrownRoots
<1> QED
  BY <1>3, <1>4, <1>5


-----------------------------------------------------------------------------
(* Finding the rows to start from. *)

(* What is common to a mirror and a prompt names the rows below in the prompt too. *)
LEMMA CommonRows ==
  ASSUME NEW k, Plain(k), NEW i, NEW c, Mirrored(k, i, c), NEW prompt \in Seq(Tokens),
         NEW n \in Nat, n <= CommonPrefixLen(c, prompt)
  PROVE  /\ n <= Len(c) /\ SubSeq(c, 1, n) = SubSeq(prompt, 1, n)
         /\ SubSeq(prompt, 1, n) \in Seq(Tokens) /\ Len(SubSeq(prompt, 1, n)) = n
         /\ Mirrored(k, i, SubSeq(prompt, 1, n))
<1> DEFINE m == CommonPrefixLen(c, prompt)
<1>1. c \in Seq(Tokens) /\ Len(c) \in Nat /\ Len(prompt) \in Nat
  BY LenProperties DEF Mirrored
<1>2. m \in Nat /\ m <= Len(c) /\ m <= Len(prompt) /\ \A j \in 1 .. m : c[j] = prompt[j]
  BY <1>1, CommonPrefix
<1>3. n <= m
  OBVIOUS
<1> HIDE DEF m
<1>4. n <= Len(c) /\ n <= Len(prompt) /\ \A j \in 1 .. n : c[j] = prompt[j]
  BY <1>1, <1>2, <1>3
<1>5. SubSeq(c, 1, n) = SubSeq(prompt, 1, n)
  BY <1>1, <1>4, SamePrefix
<1>6. Mirrored(k, i, SubSeq(c, 1, n))
  BY <1>4, MirrorPrefix
<1>7. SubSeq(prompt, 1, n) \in Seq(Tokens) /\ Len(SubSeq(prompt, 1, n)) = n
  BY <1>4, PrefixOf
<1> QED
  BY <1>4, <1>5, <1>6, <1>7

(* prefill_span and shared_prefix leave the last token of the prompt to be fed. *)
LEMMA SpanFacts ==
  ASSUME NEW ss, NEW i, ss[i].cached \in Seq(Tokens), NEW prompt \in Seq(Tokens), Len(prompt) \in Nat \ {0}
  PROVE  /\ FeedFrom(ss, i, prompt) \in Nat /\ FeedFrom(ss, i, prompt) < Len(prompt)
         /\ FeedFrom(ss, i, prompt) <= CommonPrefixLen(ss[i].cached, prompt)
         /\ Usable(ss, i, prompt) \in Nat /\ Usable(ss, i, prompt) < Len(prompt)
         /\ Usable(ss, i, prompt) <= CommonPrefixLen(ss[i].cached, prompt)
<1> DEFINE m == CommonPrefixLen(ss[i].cached, prompt)
           L == Len(prompt) - 1
           f == Min({m, L})
<1>1. m \in Nat /\ L \in Nat /\ L < Len(prompt)
  BY CommonPrefix
<1>2. FeedFrom(ss, i, prompt) = f /\ Usable(ss, i, prompt) \in {0, f}
  BY DEF FeedFrom, Usable
<1> HIDE DEF m, L
<1>3. f \in Nat /\ f <= m /\ f <= L
  BY <1>1, MinPair
<1> HIDE DEF f
<1>4. f < Len(prompt) /\ 0 < Len(prompt) /\ 0 <= m
  BY <1>1, <1>3
<1> QED
  BY <1>1, <1>2, <1>3, <1>4 DEF m

(* shared_prefix picks one of the slots with a longer prefix. *)
LEMMA DonorExists ==
  ASSUME NEW ss, \A i \in Slots : ss[i].cached \in Seq(Tokens), NEW prompt \in Seq(Tokens),
         Len(prompt) \in Nat \ {0}, NEW idx, NEW own, Donors(ss, idx, prompt, own) # {}
  PROVE  BestDonor(ss, idx, prompt, own) \in Donors(ss, idx, prompt, own)
<1> DEFINE F == Donors(ss, idx, prompt, own)
           M(i) == Usable(ss, i, prompt)
           L == Len(prompt)
           G == {L - M(i) : i \in F}
           H == {M(i) : i \in F}
           best == Max(H)
           B == {i \in F : M(i) = best}
<1>1. L \in Nat /\ \A i \in F : M(i) \in Nat /\ M(i) < L
  BY SpanFacts DEF Donors
<1>2. F \subseteq Nat
  BY SlotsInOrder DEF Donors
<1>3. BestDonor(ss, idx, prompt, own) = Min(B)
  BY DEF BestDonor
<1> HIDE DEF M, L, F
<1>4. G \in SUBSET Nat /\ G # {}
  BY <1>1 DEF F
<1>5. PICK m \in G : \A x \in G : m <= x
  BY <1>4, PlaceLoop!LeastNat
<1>6. PICK i \in F : m = L - M(i)
  BY <1>5
<1>7. \A k \in F : M(k) <= M(i)
  <2> SUFFICES ASSUME NEW k \in F PROVE M(k) <= M(i)
    OBVIOUS
  <2>1. L - M(i) <= L - M(k)
    BY <1>5, <1>6
  <2> QED
    BY <1>1, <2>1
<1>8. best = M(i)
  <2>1. H \in SUBSET Int /\ M(i) \in H /\ \A y \in H : M(i) >= y
    BY <1>1, <1>6, <1>7
  <2> HIDE DEF H
  <2> QED
    BY <2>1, MaxIs
<1> HIDE DEF best
<1>9. B # {} /\ B \in SUBSET Nat /\ B \subseteq F
  BY <1>2, <1>6, <1>8
<1> HIDE DEF B
<1>10. Min(B) \in B
  BY <1>9, MinIn
<1> QED
  BY <1>3, <1>9, <1>10 DEF F

(* kv_copy_prefix: the copy holds the rows the mirror of the donor names. *)
LEMMA CopyRoots ==
  ASSUME NEW k, Plain(k), NEW src, NEW dst, src # dst, NEW rows \in Nat \ {0},
         NEW d, Mirrored(k, src, d), Len(d) = rows,
         NEW r, r = KvCopyPrefix(k, src, dst, rows)
  PROVE  /\ Plain(r.kv) /\ Live(r.kv) = Live(k)
         /\ \A t \in Live(k) \ {dst} : Untouched(k, r.kv, t)
         /\ IF r.ok THEN Mirrored(r.kv, dst, d) ELSE (dst \in Live(k) => Untouched(k, r.kv, dst))
<1>1. CASE dst \notin Live(k)
  <2>1. r = Err(k)
    BY <1>1 DEF KvCopyPrefix
  <2> QED
    BY <1>1, <2>1 DEF Err, Untouched
<1>2. CASE dst \in Live(k)
  <2> DEFINE m == r.kv
  <2>1. Good(k, Seq(Tokens)) /\ \A t \in Live(k) : k.seqs[t].shared.rows = 0
    BY DEF Plain, NoLoans
  <2>2. /\ Good(m, Seq(Tokens)) /\ Live(m) = Live(k)
        /\ \A t \in Live(k) : m.seqs[t].shared.rows = 0
        /\ \A t \in Live(k) \ {dst} : Untouched(k, m, t)
        /\ IF r.ok
           THEN /\ src \in Live(k) /\ rows <= m.seqs[dst].written
                /\ \A p \in 0 .. rows - 1 : RowAt(m, dst, p) = RowAt(k, src, p)
           ELSE Untouched(k, m, dst)
    <3> DEFINE V == Seq(Tokens)
    <3>1. Good(k, V) /\ NoLoans(k)
      BY DEF Plain
    <3> HIDE DEF V, m
    <3>2. CopyLeaves(V, k, r, src, dst, rows)
      BY <1>2, <3>1, CopyPrefixKeeps
    <3> QED
      BY <3>2 DEF CopyLeaves, NoLoans, V, m
  <2> HIDE DEF m
  <2>3. Plain(m)
    BY <2>2 DEF Plain, NoLoans
  <2>4. ASSUME r.ok PROVE Mirrored(m, dst, d)
    <3>1. d \in Seq(Tokens) /\ d # <<>>
      BY EmptySeq DEF Mirrored
    <3>2. \A n \in 1 .. Len(d) : RowAt(k, src, n - 1) = SubSeq(d, 1, n)
      BY <3>1 DEF Mirrored
    <3>3. \A n \in 1 .. Len(d) : n - 1 \in 0 .. rows - 1
      OBVIOUS
    <3> QED
      BY <1>2, <2>2, <2>4, <3>1, <3>2, <3>3 DEF Mirrored
  <2> QED
    BY <2>2, <2>3, <2>4 DEF m
<1> QED
  BY <1>1, <1>2

(* What shared_prefix, the copy and the mirror it takes over leave behind. *)
Starts(k, q, idx, prompt) ==
    /\ Rooted(q.kv, q.slots) /\ Live(q.kv) = Live(k)
    /\ \A t \in Live(k) \ {idx} : Untouched(k, q.kv, t)
    /\ q.from \in Nat /\ q.from < Len(prompt)
    /\ Mirrored(q.kv, idx, SubSeq(prompt, 1, q.from))

(* The rows a slot already holds. *)
LEMMA OwnStarts ==
  ASSUME NEW st, Rooted(st.kv, st.slots), NEW idx \in Slots, NEW prompt \in Seq(Tokens),
         Len(prompt) \in Nat \ {0}, NEW m, Plain(m), Live(m) = Live(st.kv),
         \A t \in Live(st.kv) : Untouched(st.kv, m, t),
         NEW q, q.kv = m, q.slots = st.slots, q.from = FeedFrom(st.slots, idx, prompt)
  PROVE  Starts(st.kv, q, idx, prompt)
<1> DEFINE k == st.kv
           ss == st.slots
           c == ss[idx].cached
           n == FeedFrom(ss, idx, prompt)
           d == SubSeq(prompt, 1, n)
<1>1. Plain(k) /\ \A i \in Slots : Mirrored(k, i, ss[i].cached)
  BY DEF Rooted
<1>2. n \in Nat /\ n < Len(prompt) /\ n <= CommonPrefixLen(c, prompt)
  <2>1. ss[idx].cached \in Seq(Tokens)
    BY <1>1 DEF Mirrored
  <2> QED
    BY <2>1, SpanFacts
<1>3. Mirrored(k, idx, d)
  <2>1. Mirrored(k, idx, c)
    BY <1>1
  <2> HIDE DEF k, c, n
  <2> QED
    BY <1>1, <1>2, <2>1, CommonRows
<1>4. Mirrored(m, idx, d)
  <2> HIDE DEF d
  <2> QED
    BY <1>1, <1>3, MirrorUntouched
<1>5. ASSUME NEW i \in Slots PROVE Mirrored(m, i, ss[i].cached)
  <2> DEFINE e == ss[i].cached
  <2>1. Mirrored(k, i, e)
    BY <1>1
  <2> HIDE DEF e
  <2>2. Mirrored(m, i, e)
    BY <1>1, <2>1, MirrorUntouched
  <2> QED
    BY <2>2 DEF e
<1> HIDE DEF n
<1>6. q.from = n
  BY DEF n
<1> QED
  BY <1>2, <1>4, <1>5, <1>6 DEF Starts, Rooted

LEMMA StartRoots ==
  ASSUME ~Gathers, NEW st, Sound(st.kv, st.slots), Rooted(st.kv, st.slots), NEW idx \in Slots,
         NEW prompt \in Seq(Tokens), Len(prompt) \in Nat \ {0}, NEW q, q = StartFrom(st, idx, prompt)
  PROVE  Starts(st.kv, q, idx, prompt)
<1> DEFINE k == st.kv
           ss == st.slots
           own == FeedFrom(ss, idx, prompt)
           src == BestDonor(ss, idx, prompt, own)
           rows == Usable(ss, src, prompt)
           res == KvCopyPrefix(k, src, idx, rows)
           x == SubSeq(ss[src].cached, 1, rows)
           tt == [ss EXCEPT ![idx].cached = x]
<1>1. Plain(k) /\ (\A i \in Slots : Mirrored(k, i, ss[i].cached)) /\ \A i \in Slots : ss[i].cached \in Seq(Tokens)
  BY DEF Rooted, Mirrored
<1>2. CASE Donors(ss, idx, prompt, own) = {}
  <2>1. q = [kv |-> k, slots |-> ss, from |-> own]
    BY <1>2 DEF StartFrom
  <2>2. q.kv = k /\ q.slots = ss /\ q.from = own
    <3> HIDE DEF own
    <3> QED
      BY <2>1
  <2>3. \A t \in Live(k) : Untouched(k, k, t)
    BY DEF Untouched
  <2> QED
    BY <1>1, <2>2, <2>3, OwnStarts
<1>3. CASE Donors(ss, idx, prompt, own) # {}
  <2>1. q = CopyPrefixFrom(st, src, idx, rows, own)
    <3> HIDE DEF src
    <3>1. The({CopyPrefixFrom(st, s, idx, Usable(st.slots, s, prompt), own) : s \in {src}})
            = CopyPrefixFrom(st, src, idx, rows, own)
      BY DEF The
    <3> QED
      BY <1>3, <3>1 DEF StartFrom, src
  <2>2. src \in Slots \ {idx} /\ rows > own
    <3>1. src \in Donors(ss, idx, prompt, own)
      BY <1>1, <1>3, DonorExists
    <3> QED
      BY <3>1 DEF Donors
  <2>3. /\ own \in Nat /\ rows \in Nat \ {0} /\ rows < Len(prompt)
        /\ rows <= CommonPrefixLen(ss[src].cached, prompt)
    <3>1. own \in Nat
      BY <1>1, SpanFacts
    <3>2. rows \in Nat /\ rows < Len(prompt) /\ rows <= CommonPrefixLen(ss[src].cached, prompt)
      <4> HIDE DEF src
      <4> QED
        BY <1>1, <2>2, SpanFacts
    <3> HIDE DEF own, rows
    <3>3. rows # 0
      BY <2>2, <3>1, <3>2
    <3> QED
      BY <3>1, <3>2, <3>3
  <2> HIDE DEF src, rows
  <2>4. /\ q.kv = res.kv /\ q.from = (IF res.ok THEN rows ELSE own)
        /\ q.slots = IF res.ok THEN tt ELSE ss
    <3> DEFINE v == [kv |-> res.kv, from |-> IF res.ok THEN rows ELSE own,
                     slots |-> IF res.ok THEN tt ELSE ss]
    <3>1. CopyPrefixFrom(st, src, idx, rows, own) = v
      <4> HIDE DEF res
      <4>1. The({[kv |-> r.kv, from |-> IF r.ok THEN rows ELSE own,
                  slots |-> IF r.ok THEN tt ELSE ss] : r \in {res}}) = v
        BY DEF The
      <4> QED
        BY <4>1 DEF CopyPrefixFrom, res
    <3> HIDE DEF res, tt, own
    <3> QED
      BY <2>1, <3>1
  <2> DEFINE c == ss[src].cached
             d == SubSeq(prompt, 1, rows)
  <2>5. Mirrored(k, src, d) /\ Len(d) = rows /\ x = d /\ d \in Seq(Tokens)
    <3>1. Mirrored(k, src, c)
      BY <1>1, <2>2
    <3> HIDE DEF k, c
    <3>2. /\ SubSeq(c, 1, rows) = d /\ d \in Seq(Tokens) /\ Len(d) = rows /\ Mirrored(k, src, d)
      BY <1>1, <2>3, <3>1, CommonRows DEF c
    <3> QED
      BY <3>2 DEF c
  <2> HIDE DEF x
  <2>6. /\ Plain(res.kv) /\ Live(res.kv) = Live(k)
        /\ \A t \in Live(k) \ {idx} : Untouched(k, res.kv, t)
        /\ IF res.ok THEN Mirrored(res.kv, idx, d) ELSE (idx \in Live(k) => Untouched(k, res.kv, idx))
    <3> HIDE DEF d, k
    <3> QED
      BY <1>1, <2>2, <2>3, <2>5, CopyRoots
  <2> HIDE DEF res
  <2>7. CASE ~res.ok
    <3>1. q.kv = res.kv /\ q.slots = ss /\ q.from = own
      BY <2>4, <2>7
    <3>2. \A t \in Live(k) : Untouched(k, res.kv, t)
      BY <2>6, <2>7
    <3> QED
      BY <2>6, <3>1, <3>2, OwnStarts
  <2>8. CASE res.ok
    <3>1. q.kv = res.kv /\ q.slots = tt /\ q.from = rows
      BY <2>4, <2>8
    <3> DEFINE sl == [ss[idx] EXCEPT !.cached = x]
    <3>2. ss = [i \in Slots |-> ss[i]] /\ Shaped(ss[idx])
      BY DEF Sound
    <3>3. tt = [ss EXCEPT ![idx] = sl]
      BY <3>2, CachedForm
    <3>4. sl = SlotRec(ss[idx].start, ss[idx].cap, x, ss[idx].run)
      BY <3>2, SlotForms DEF Shaped
    <3>5. sl.cached = x
      <4> HIDE DEF sl
      <4> QED
        BY <3>4 DEF SlotRec
    <3> HIDE DEF sl, tt
    <3>6. tt[idx] = sl /\ \A i \in Slots \ {idx} : tt[i] = ss[i]
      <4> HIDE DEF ss
      <4> QED
        BY <3>2, <3>3, OneSlot
    <3>7. ASSUME NEW i \in Slots PROVE Mirrored(res.kv, i, tt[i].cached)
      <4>1. CASE i = idx
        BY <2>5, <2>6, <2>8, <3>5, <3>6, <4>1
      <4>2. CASE i # idx
        <5> DEFINE e == ss[i].cached
        <5>1. Mirrored(k, i, e) /\ tt[i].cached = e /\ (i \in Live(k) => Untouched(k, res.kv, i))
          BY <1>1, <2>6, <3>6, <4>2
        <5> HIDE DEF e, k
        <5>2. Mirrored(res.kv, i, e)
          BY <1>1, <5>1, MirrorUntouched
        <5> QED
          BY <5>1, <5>2
      <4> QED
        BY <4>1, <4>2
    <3> HIDE DEF d
    <3>8. Mirrored(res.kv, idx, SubSeq(prompt, 1, q.from))
      BY <2>6, <2>8, <3>1 DEF d
    <3> QED
      BY <2>3, <2>6, <3>1, <3>7, <3>8 DEF Starts, Rooted
  <2> QED
    BY <2>7, <2>8
<1> QED
  BY <1>2, <1>3

-----------------------------------------------------------------------------
(* The groups of a forward. *)

(* Group e feeds what is left of f: the rows below its position hold the    *)
(* prefixes of f, while its sequence has a run at all.                      *)
Feeds(k, e, f) ==
    /\ e = [seq |-> e.seq, pos |-> e.pos, vals |-> e.vals]
    /\ e.seq \in Slots /\ e.pos \in Nat /\ f \in Seq(Tokens) /\ e.pos < Len(f)
    /\ e.vals = SubSeq(f, e.pos + 1, Len(f))
    /\ e.seq \in Live(k) => Mirrored(k, e.seq, SubSeq(f, 1, e.pos))

LEMMA FeedsKept ==
  ASSUME NEW k, Plain(k), NEW e, NEW f, Feeds(k, e, f), NEW m,
         e.seq \in Live(m) => e.seq \in Live(k) /\ Untouched(k, m, e.seq)
  PROVE  Feeds(m, e, f)
<1> DEFINE d == SubSeq(f, 1, e.pos)
           i == e.seq
<1>1. ASSUME i \in Live(m) PROVE Mirrored(m, i, d)
  <2>1. Mirrored(k, i, d) /\ Untouched(k, m, i)
    BY <1>1 DEF Feeds
  <2> HIDE DEF d, i
  <2> QED
    BY <2>1, MirrorUntouched
<1> QED
  BY <1>1 DEF Feeds

(* One job of a group prepared: its rows found, its slot sized. *)
LEMMA PrepareForm ==
  ASSUME NEW acc, acc.ok, NEW p, NEW res, res = Prepare(acc, p),
         NEW st, st = StartFrom([kv |-> acc.kv, slots |-> acc.slots], p.slot, p.job.prompt),
         NEW after, after = EnsureSlotCapacity([kv |-> st.kv, slots |-> st.slots], p.slot,
                                WantedCells(Len(p.job.prompt), p.job.max, st.slots[p.slot].cap))
  PROVE  /\ res.kv = after.kv /\ res.slots = after.slots
         /\ res.batch = Append(acc.batch, [seq |-> p.slot, pos |-> st.from,
                                           vals |-> SubSeq(p.job.prompt, st.from + 1, Len(p.job.prompt))])
<1> DEFINE nt == Len(p.job.prompt)
           sized(s) == EnsureSlotCapacity([kv |-> s.kv, slots |-> s.slots], p.slot,
                           WantedCells(nt, p.job.max, s.slots[p.slot].cap))
           e(s) == [seq |-> p.slot, pos |-> s.from, vals |-> SubSeq(p.job.prompt, s.from + 1, nt)]
           joined(s, a) ==
              [ok |-> nt <= a.slots[p.slot].cap, kv |-> a.kv, slots |-> a.slots,
               batch |-> Append(acc.batch, e(s))]
<1>1. res = The({The({joined(s, a) : a \in {sized(s)}}) :
                   s \in {StartFrom([kv |-> acc.kv, slots |-> acc.slots], p.slot, p.job.prompt)}})
  BY DEF Prepare
<1>2. The({The({joined(s, a) : a \in {sized(s)}}) : s \in {st}}) = joined(st, sized(st))
  <2> HIDE DEF joined, sized
  <2> QED
    BY DEF The
<1>3. res = joined(st, after)
  BY <1>1, <1>2, ZenonT(60)
<1> DEFINE yes == nt <= after.slots[p.slot].cap
           b == Append(acc.batch, e(st))
<1>4. res = [ok |-> yes, kv |-> after.kv, slots |-> after.slots, batch |-> b]
  BY <1>3, ZenonT(60)
<1> HIDE DEF yes, b, nt, e
<1>5. res.kv = after.kv /\ res.slots = after.slots /\ res.batch = b
  BY <1>4
<1> QED
  BY <1>5 DEF b, e, nt

LEMMA PrepareRoots ==
  ASSUME ~Gathers, NEW acc, acc.ok, Sound(acc.kv, acc.slots), Rooted(acc.kv, acc.slots),
         NEW p \in Placement, acc.slots[p.slot].run = Idle, NEW res, res = Prepare(acc, p)
  PROVE  /\ Rooted(res.kv, res.slots) /\ Live(res.kv) \subseteq Live(acc.kv) \cup {p.slot}
         /\ \A t \in Live(acc.kv) \ {p.slot} : t \in Live(res.kv) => Untouched(acc.kv, res.kv, t)
         /\ \E e : /\ e.seq = p.slot /\ res.batch = Append(acc.batch, e)
                   /\ Feeds(res.kv, e, p.job.prompt)
<1> DEFINE was == [kv |-> acc.kv, slots |-> acc.slots]
           st == StartFrom(was, p.slot, p.job.prompt)
           now == [kv |-> st.kv, slots |-> st.slots]
           wanted == WantedCells(Len(p.job.prompt), p.job.max, st.slots[p.slot].cap)
           after == EnsureSlotCapacity(now, p.slot, wanted)
           idx == p.slot
           f == p.job.prompt
           e == [seq |-> idx, pos |-> st.from, vals |-> SubSeq(f, st.from + 1, Len(f))]
<1>1. res.kv = after.kv /\ res.slots = after.slots /\ res.batch = Append(acc.batch, e)
  BY PrepareForm
<1>2. idx \in Slots /\ f \in Seq(Tokens) /\ Len(f) \in Nat \ {0} /\ p.job.max \in MaxTokens
  BY JobsOk DEF Placement
<1>3. was.kv = acc.kv /\ was.slots = acc.slots /\ now.kv = st.kv /\ now.slots = st.slots
  OBVIOUS
<1>4. Sound(was.kv, was.slots) /\ Rooted(was.kv, was.slots) /\ was.slots[idx].run = Idle
  BY <1>3
<1> HIDE DEF was, idx, f
<1>5. /\ Starts(was.kv, st, idx, f) /\ Around(was.kv, was.slots, st.kv, st.slots, idx)
  <2>1. st = StartFrom(was, idx, f)
    BY DEF idx, f
  <2> HIDE DEF st
  <2> QED
    BY <1>2, <1>4, <2>1, StartRoots, StartAround
<1> HIDE DEF st, now
<1>6. /\ Sound(now.kv, now.slots) /\ Rooted(now.kv, now.slots)
      /\ wanted \in Nat
  <2>1. Sound(st.kv, st.slots) /\ Rooted(st.kv, st.slots)
    BY <1>5 DEF Around, Starts
  <2>2. st.slots[p.slot].cap \in Nat
    BY <1>2, <2>1 DEF Sound, Shaped, idx
  <2>3. wanted \in Nat
    BY <1>2, <2>2, WantedIsNat DEF f
  <2> QED
    BY <1>3, <2>1, <2>3
<1> HIDE DEF wanted
<1>7. Rooted(after.kv, after.slots) /\ Carries(now.kv, after.kv, idx)
  <2>1. after = EnsureSlotCapacity(now, idx, wanted)
    BY DEF idx
  <2> HIDE DEF after
  <2> QED
    BY <1>2, <1>6, <2>1, EnsureRoots
<1> HIDE DEF after
<1> DEFINE k == was.kv
           n == st.kv
           m == after.kv
<1>8. /\ Live(n) = Live(k) /\ (\A t \in Live(k) \ {idx} : Untouched(k, n, t))
      /\ Plain(n) /\ Carries(n, m, idx) /\ Rooted(m, after.slots)
      /\ st.from \in Nat /\ st.from < Len(f) /\ Mirrored(n, idx, SubSeq(f, 1, st.from))
  BY <1>3, <1>5, <1>7 DEF Starts, Rooted
<1> HIDE DEF k, n, m
<1>9. /\ Live(m) \subseteq Live(k) \cup {idx} /\ (idx \in Live(n) => idx \in Live(m))
      /\ \A t \in Live(n) : t \in Live(m) => Untouched(n, m, t)
  BY <1>8 DEF Carries
<1>10. ASSUME NEW t \in Live(k) \ {idx}, t \in Live(m) PROVE Untouched(k, m, t)
  <2>1. Untouched(k, n, t) /\ Untouched(n, m, t)
    BY <1>8, <1>9, <1>10
  <2> QED
    BY <2>1, UntouchedChain
<1>11. Mirrored(m, idx, SubSeq(f, 1, st.from))
  <2> DEFINE d == SubSeq(f, 1, st.from)
  <2>1. Mirrored(n, idx, d) /\ (d # <<>> => idx \in Live(m))
    BY <1>8, <1>9 DEF Mirrored
  <2> HIDE DEF d
  <2>2. Mirrored(m, idx, d)
    BY <1>8, <2>1, MirrorCarried
  <2> QED
    BY <2>2 DEF d
<1>12. e.seq = idx /\ Feeds(m, e, f)
  <2>1. /\ e.seq = idx /\ e.pos = st.from /\ e.vals = SubSeq(f, st.from + 1, Len(f))
        /\ e = [seq |-> e.seq, pos |-> e.pos, vals |-> e.vals]
    OBVIOUS
  <2> HIDE DEF e
  <2> QED
    BY <1>2, <1>8, <1>11, <2>1 DEF Feeds
<1> HIDE DEF e
<1>13. res.kv = m /\ res.slots = after.slots /\ k = acc.kv
  BY <1>1, <1>3 DEF m, k
<1> QED
  BY <1>1, <1>8, <1>9, <1>10, <1>12, <1>13 DEF idx, f

(* The first n jobs of a group prepared: every slot holds what its mirror   *)
(* names, and each prompt has the rows below the position it is fed from.   *)
PreparedRows(prep, placed, n) ==
    /\ Rooted(prep.kv, prep.slots)
    /\ prep.ok => \A i \in 1 .. n : Feeds(prep.kv, prep.batch[i], placed[i].job.prompt)

LEMMA PrepareRows ==
  ASSUME ~Gathers, NEW acc, NEW placed, NEW n \in Nat, NEW ss, Waiting(placed, ss),
         n + 1 \in 1 .. Len(placed), PreparedTo(acc, placed, n, ss), PreparedRows(acc, placed, n),
         NEW res, res = Prepare(acc, placed[n + 1])
  PROVE  PreparedRows(res, placed, n + 1)
<1> DEFINE p == placed[n + 1]
<1>1. /\ p \in Placement /\ p.slot \in Slots /\ ss[p.slot].run = Idle
      /\ \A i \in 1 .. n : placed[i].slot # p.slot /\ placed[i].slot \in Slots
  <2>1. Len(placed) \in Nat /\ placed \in Seq(Placement) /\ n + 1 <= Len(placed)
    BY DEF Waiting
  <2>2. p \in Placement /\ \A i \in 1 .. n : placed[i] \in Placement
    BY <2>1, ElementOfSeq
  <2>3. \A i \in 1 .. n : i \in 1 .. Len(placed) /\ i # n + 1
    BY <2>1
  <2> QED
    BY <2>2, <2>3 DEF Waiting, Placement
<1>2. CASE ~acc.ok
  <2>1. res = acc
    BY <1>2 DEF Prepare
  <2> QED
    BY <1>2, <2>1 DEF PreparedRows
<1>3. CASE acc.ok
  <2>1. acc.slots[p.slot].run = Idle /\ Sound(acc.kv, acc.slots) /\ res = Prepare(acc, p)
        /\ Rooted(acc.kv, acc.slots)
    BY <1>1 DEF PreparedTo, OthersKeep, PreparedRows
  <2> HIDE DEF p
  <2>2. /\ Rooted(res.kv, res.slots) /\ Live(res.kv) \subseteq Live(acc.kv) \cup {p.slot}
        /\ \A t \in Live(acc.kv) \ {p.slot} : t \in Live(res.kv) => Untouched(acc.kv, res.kv, t)
        /\ \E e : /\ e.seq = p.slot /\ res.batch = Append(acc.batch, e)
                  /\ Feeds(res.kv, e, p.job.prompt)
    BY <1>1, <1>3, <2>1, PrepareRoots
  <2>4. PICK e : e.seq = p.slot /\ res.batch = Append(acc.batch, e) /\ Feeds(res.kv, e, p.job.prompt)
    BY <2>2
  <2>5. PICK S : acc.batch \in Seq(S)
    BY <1>3 DEF PreparedTo
  <2>6. Len(acc.batch) = n
    BY <1>3 DEF PreparedTo
  <2>7. /\ \A i \in 1 .. n : res.batch[i] = acc.batch[i]
        /\ res.batch[n + 1] = e
    BY <2>4, <2>5, <2>6, AppendOne
  <2>8. ASSUME NEW i \in 1 .. n + 1 PROVE Feeds(res.kv, res.batch[i], placed[i].job.prompt)
    <3>1. CASE i = n + 1
      BY <2>4, <2>7, <3>1 DEF p
    <3>2. CASE i # n + 1
      <4> DEFINE g == acc.batch[i]
                 f == placed[i].job.prompt
                 k == acc.kv
      <4>1. i \in 1 .. n
        BY <3>2
      <4>2. g.seq = placed[i].slot /\ Feeds(k, g, f) /\ Plain(k) /\ res.batch[i] = g
        BY <1>3, <2>1, <2>7, <4>1 DEF PreparedTo, PreparedRows, Rooted
      <4>3. g.seq # p.slot
        BY <1>1, <4>1, <4>2
      <4>4. g.seq \in Live(res.kv) => g.seq \in Live(k) /\ Untouched(k, res.kv, g.seq)
        BY <2>2, <4>3
      <4> HIDE DEF g, f, k
      <4>5. Feeds(res.kv, g, f)
        BY <4>2, <4>4, FeedsKept
      <4> QED
        BY <4>2, <4>5 DEF f
    <3> QED
      BY <3>1, <3>2
  <2> QED
    BY <2>2, <2>8 DEF PreparedRows
<1> QED
  BY <1>2, <1>3

LEMMA PreparedRoots ==
  ASSUME ~Gathers, NEW k, NEW ss, Sound(k, ss), Rooted(k, ss), NEW placed, Waiting(placed, ss),
         NEW prep, prep = Through(Prepare, [ok |-> TRUE, kv |-> k, slots |-> ss, batch |-> <<>>], placed)
  PROVE  PreparedTo(prep, placed, Len(placed), ss) /\ PreparedRows(prep, placed, Len(placed))
<1> DEFINE N == Len(placed)
           base == [ok |-> TRUE, kv |-> k, slots |-> ss, batch |-> <<>>]
<1>1. N \in Nat
  BY DEF Waiting
<1>2. base.ok /\ base.kv = k /\ base.slots = ss /\ base.batch = <<>>
  OBVIOUS
<1>3. prep = PrepareLoop!Fold(0, base, placed)
  BY PreparedFold
<1> HIDE DEF base
<1>4. PICK g : PrepareTrace(g, base, placed)
  BY <1>1, PrepareUnfolds
<1> HIDE DEF N
<1> DEFINE T == {n \in 0 .. N : PreparedTo(g[n], placed, n, ss) /\ PreparedRows(g[n], placed, n)}
<1>5. 0 \in T
  <2>1. g[0] = base
    BY <1>4 DEF PrepareTrace
  <2>2. base.batch \in Seq({}) /\ Len(base.batch) = 0
    BY <1>2, EmptySeq
  <2>3. PreparedTo(base, placed, 0, ss) /\ PreparedRows(base, placed, 0)
    BY <1>2, <2>2 DEF PreparedTo, OthersKeep, PreparedRows
  <2> QED
    BY <1>1, <2>1, <2>3
<1>6. ASSUME NEW n \in 0 .. N - 1, n \in T PROVE n + 1 \in T
  <2>1. n \in Nat /\ n + 1 \in 1 .. Len(placed) /\ (n + 1) - 1 = n /\ n + 1 \in 0 .. N
    BY <1>1 DEF N
  <2>2. g[n + 1] = Prepare(g[n], placed[n + 1])
    BY <1>4, <2>1 DEF PrepareTrace
  <2>3. PreparedTo(g[n + 1], placed, n + 1, ss)
    BY <1>6, <2>1, <2>2, PrepareOne
  <2>4. PreparedRows(g[n + 1], placed, n + 1)
    BY <1>6, <2>1, <2>2, PrepareRows
  <2> QED
    BY <2>1, <2>3, <2>4
<1> HIDE DEF T
<1>7. \A n \in 0 .. N : n \in T
  BY <1>1, <1>5, <1>6, Induct
<1>8. PreparedTo(g[N], placed, N, ss) /\ PreparedRows(g[N], placed, N)
  BY <1>1, <1>7 DEF T
<1>9. prep = g[N]
  BY <1>3, <1>4 DEF PrepareTrace, N
<1> QED
  BY <1>8, <1>9 DEF N

-----------------------------------------------------------------------------
(* The rows of a forward. *)

(* A batch that feeds the sequences of F, each group its own; a group that  *)
(* is alone has its run.                                                    *)
Feeding(k, batch, F) ==
    /\ Len(batch) \in Nat /\ DOMAIN batch = 1 .. Len(batch)
    /\ \A i \in 1 .. Len(batch) : Feeds(k, batch[i], F[i])
    /\ \A i, j \in 1 .. Len(batch) : i # j => batch[i].seq # batch[j].seq
    /\ Len(batch) = 1 => batch[1].seq \in Live(k)

(* Where nobody borrows there is nothing to copy on write. *)
LEMMA NothingCowed ==
  ASSUME NEW k, Plain(k), NEW batch, Len(batch) \in Nat, \A i \in 1 .. Len(batch) : batch[i].pos \in Nat
  PROVE  CopyOnWrite(k, batch) = Ok(k)
<1> DEFINE N == Len(batch)
<1>1. CopyOnWrite(k, batch) = CowLoop!Fold(0, Ok(k), batch)
  BY DEF CopyOnWrite, Through, CowLoop!Fold, CowStep, The, CowLoop!The
<1>2. PICK g : CowTrace(g, Ok(k), batch)
  BY CowUnfolds
<1>3. g[0] = Ok(k) /\ CowLoop!Fold(0, Ok(k), batch) = g[N]
      /\ \A n \in 1 .. N : g[n] = CowStep(0, g[n - 1], batch[n])
  BY <1>2 DEF CowTrace
<1> DEFINE T == {n \in 0 .. N : g[n] = Ok(k)}
<1>4. N \in Nat
  OBVIOUS
<1>5. 0 \in T
  BY <1>3, <1>4
<1>6. ASSUME NEW n \in 0 .. N - 1, n \in T PROVE n + 1 \in T
  <2>1. n + 1 \in 1 .. N /\ (n + 1) - 1 = n /\ n + 1 \in 0 .. N
    BY <1>4
  <2> DEFINE s == batch[n + 1].seq
             t == batch[n + 1].pos
  <2>2. g[n + 1] = CowStep(0, Ok(k), batch[n + 1])
    BY <1>3, <1>6, <2>1
  <2>3. g[n + 1] = KvPrivateRowFor(k, s, t)
    BY <2>2 DEF CowStep, Ok
  <2>4. t \in Nat
    BY <2>1
  <2>5. s \notin Live(k) \/ t >= k.seqs[s].shared.rows
    BY <2>4 DEF Plain, NoLoans
  <2>6. KvPrivateRowFor(k, s, t) = Ok(k)
    BY <2>5 DEF KvPrivateRowFor
  <2> QED
    BY <2>1, <2>3, <2>6
<1> HIDE DEF N, T
<1>7. \A n \in 0 .. N : n \in T
  BY <1>4, <1>5, <1>6, Induct
<1>8. g[N] = Ok(k)
  BY <1>4, <1>7 DEF T
<1> QED
  BY <1>1, <1>3, <1>8

(* The stamping loop on its own. *)
LEMMA FillForm ==
  ASSUME NEW k, Plain(k), NEW batch, Len(batch) \in Nat, \A i \in 1 .. Len(batch) : batch[i].pos \in Nat
  PROVE  \E f : OwnTrace(f, Len(batch) = 1, Ok(k), batch) /\ FillBatchInputs(k, batch) = f[Len(batch)]
<1> DEFINE alone == Len(batch) = 1
           cow == CopyOnWrite(k, batch)
<1>1. FillBatchInputs(k, batch) = OwnLoop!Fold(alone, cow, batch)
  BY DEF FillBatchInputs, Through, OwnLoop!Fold, OwnStep, The, OwnLoop!The
<1>2. cow = Ok(k)
  BY NothingCowed
<1> HIDE DEF alone, cow
<1>3. PICK f : OwnTrace(f, alone, Ok(k), batch)
  BY OwnUnfolds
<1>4. FillBatchInputs(k, batch) = f[Len(batch)]
  BY <1>1, <1>2, <1>3 DEF OwnTrace
<1> QED
  BY <1>3, <1>4 DEF alone

(* fill_batch_inputs stamps cells and copies nothing; where it fails it has *)
(* stamped some.                                                            *)
LEMMA FillRows ==
  ASSUME NEW k, Plain(k), NEW batch, NEW F, Feeding(k, batch, F), NEW res, res = FillBatchInputs(k, batch)
  PROVE  /\ Owned(Seq(Tokens), k, res.kv, batch)
         /\ res.ok => \A i \in 1 .. Len(batch) : batch[i].seq \in Live(k) /\ Covered(res.kv, batch[i])
<1> DEFINE N == Len(batch)
           V == Seq(Tokens)
           alone == Len(batch) = 1
<1>0. N \in Nat /\ Len(batch) \in Nat /\ Good(k, V) /\ NoLoans(k)
  BY DEF Feeding, Plain
<1>1. ASSUME NEW i \in 1 .. N PROVE batch[i].pos \in Nat /\ Len(batch[i].vals) \in Nat \ {0}
  <2> DEFINE e == batch[i]
             f == F[i]
             r == SubSeq(f, e.pos + 1, Len(f))
  <2>1. Feeds(k, e, f)
    BY DEF Feeding
  <2> HIDE DEF e, f
  <2>2. e.pos \in Nat /\ f \in Seq(Tokens) /\ e.pos < Len(f) /\ e.vals = r
    BY <2>1 DEF Feeds
  <2>3. Len(r) = Len(f) - e.pos /\ Len(f) \in Nat
    BY <2>2, RestOf, LenProperties
  <2>4. Len(e.vals) \in Nat \ {0}
    BY <2>2, <2>3
  <2> QED
    BY <2>2, <2>4 DEF e
<1>2. PICK f : OwnTrace(f, alone, Ok(k), batch) /\ FillBatchInputs(k, batch) = f[Len(batch)]
  BY <1>0, <1>1, FillForm
<1> HIDE DEF V, alone
<1>4. f[0] = Ok(k) /\ res = f[N] /\ \A n \in 1 .. N : f[n] = OwnStep(alone, f[n - 1], batch[n])
  BY <1>2 DEF OwnTrace
<1> DEFINE R(n) == /\ Owned(V, k, f[n].kv, batch)
                   /\ f[n].ok => \A i \in 1 .. n : batch[i].seq \in Live(k) /\ Covered(f[n].kv, batch[i])
           T == {n \in 0 .. N : R(n)}
<1>7. R(0)
  <2>1. Owned(V, k, k, batch)
    BY <1>0, GoodFacts DEF Owned
  <2>2. f[0].kv = k
    BY <1>4 DEF Ok
  <2> QED
    BY <2>1, <2>2
<1>8. ASSUME NEW n \in 0 .. N - 1, R(n) PROVE R(n + 1)
  <2>1. n + 1 \in 1 .. N /\ (n + 1) - 1 = n
    BY <1>0
  <2>2. f[n + 1] = OwnStep(alone, f[n], batch[n + 1])
    BY <1>4, <2>1
  <2>3. CASE ~f[n].ok
    <3>1. f[n + 1] = f[n]
      BY <2>2, <2>3 DEF OwnStep
    <3> QED
      BY <1>8, <2>3, <3>1
  <2>4. CASE f[n].ok
    <3> DEFINE b == f[n].kv
               r == f[n + 1]
               j == n + 1
    <3>1. r = OwnGroup(b, batch[j], alone)
      BY <2>2, <2>4 DEF OwnStep
    <3>2. Owned(V, k, b, batch) /\ j \in 1 .. Len(batch) /\ Live(b) = Live(k)
      BY <1>8, <2>1 DEF Owned
    <3>3. \A i \in 1 .. n : batch[i].seq \in Live(k) /\ Covered(b, batch[i])
      BY <1>8, <2>4
    <3>4. batch[j].pos \in Nat /\ Len(batch[j].vals) \in Nat \ {0}
      BY <1>1, <3>2
    <3>5. CASE batch[j].seq \notin Live(k)
      <4>1. ~alone
        <5>1. alone => j = 1 /\ batch[1].seq \in Live(k)
          BY <3>2 DEF Feeding, alone
        <5> QED
          BY <3>5, <5>1
      <4>2. r = Err(b)
        BY <3>1, <3>2, <3>5, <4>1 DEF OwnGroup
      <4> HIDE DEF b, r, j
      <4>3. r.kv = b /\ ~r.ok
        BY <4>2 DEF Err
      <4> QED
        BY <3>2, <4>3 DEF r
    <3>6. CASE batch[j].seq \in Live(k)
      <4>1. k.seqs[batch[j].seq].shared.rows <= batch[j].pos
        BY <1>0, <3>4, <3>6 DEF NoLoans
      <4> HIDE DEF b, r, j
      <4>2. /\ Owned(V, k, r.kv, batch) /\ Owned(V, b, r.kv, batch)
            /\ r.ok => Covered(r.kv, batch[j])
        BY <1>0, <3>1, <3>2, <3>4, <3>6, <4>1, OwnStepKeeps
      <4>3. ASSUME NEW i \in 1 .. n PROVE batch[i].seq \in Live(k) /\ Covered(r.kv, batch[i])
        <5>1. i \in 1 .. Len(batch) /\ i \in 1 .. N
          BY <1>0, <1>8
        <5>2. Good(b, V)
          BY <3>2 DEF Owned
        <5>3. batch[i].seq \in Live(b) /\ batch[i].pos \in Nat /\ Len(batch[i].vals) \in Nat \ {0}
          BY <1>1, <3>2, <3>3, <5>1
        <5>4. Covered(b, batch[i])
          BY <3>3
        <5>5. Covered(r.kv, batch[i])
          BY <4>2, <5>1, <5>2, <5>3, <5>4, CoveredOwned
        <5> QED
          BY <3>3, <5>5
      <4>4. \A i \in 1 .. n + 1 : i = j \/ i \in 1 .. n
        BY <1>0 DEF j
      <4> QED
        BY <3>6, <4>2, <4>3, <4>4 DEF r
    <3> QED
      BY <3>5, <3>6
  <2> QED
    BY <2>3, <2>4
<1> HIDE DEF R
<1>9. 0 \in T /\ \A n \in 0 .. N - 1 : n \in T => n + 1 \in T
  BY <1>0, <1>7, <1>8
<1> HIDE DEF T
<1>10. N \in T
  <2>1. N \in Nat /\ N \in 0 .. N
    BY <1>0
  <2> HIDE DEF N
  <2>2. \A n \in 0 .. N : n \in T
    BY <1>9, <2>1, Induct
  <2> QED
    BY <2>1, <2>2
<1>11. R(N)
  BY <1>10 DEF T
<1> QED
  BY <1>4, <1>11 DEF R, V

(* A group inside the run of its sequence is filled. *)
LEMMA FillsAlone ==
  ASSUME NEW k, Plain(k), NEW batch, NEW F, Feeding(k, batch, F), Len(batch) = 1,
         batch[1].pos + Len(batch[1].vals) <= k.seqs[batch[1].seq].cap, Len(batch[1].vals) \in Nat
  PROVE  FillBatchInputs(k, batch).ok
<1> DEFINE e == batch[1]
           s == e.seq
           n == Len(e.vals)
           cap == k.seqs[s].cap
<1>1. e.pos \in Nat /\ s \in Live(k) /\ Good(k, Seq(Tokens)) /\ n \in Nat /\ e.pos + n <= cap
      /\ k.seqs[s].shared.rows = 0 /\ Len(batch) \in Nat /\ \A i \in 1 .. Len(batch) : batch[i].pos \in Nat
  BY DEF Feeding, Feeds, Plain, NoLoans
<1>2. PICK f : OwnTrace(f, Len(batch) = 1, Ok(k), batch) /\ FillBatchInputs(k, batch) = f[Len(batch)]
  BY <1>1, FillForm
<1>3. f[0] = Ok(k) /\ f[1] = OwnStep(Len(batch) = 1, f[1 - 1], e) /\ FillBatchInputs(k, batch) = f[1]
  BY <1>2 DEF OwnTrace
<1>4. f[1] = OwnGroup(k, e, Len(batch) = 1)
  BY <1>3 DEF OwnStep, Ok
<1>5. f[1] = OwnPositions(k, s, e.pos, n)
  BY <1>1, <1>4 DEF OwnGroup
<1> DEFINE covered == {p \in e.pos .. e.pos + n - 1 : p \in Positions(k.seqs[s])}
<1>6. covered = e.pos .. e.pos + n - 1
  <2>1. Positions(k.seqs[s]) = 0 .. cap - 1 /\ cap \in Nat
    BY <1>1, GoodFacts DEF Positions
  <2> HIDE DEF cap, n, e
  <2> QED
    BY <1>1, <2>1
<1>7. f[1].ok = (covered = e.pos .. e.pos + n - 1)
  BY <1>5 DEF OwnPositions
<1> QED
  BY <1>3, <1>6, <1>7

(* A stamp changes no row a mirror names. *)
LEMMA OwnedMirror ==
  ASSUME NEW k, Plain(k), NEW b, NEW batch, Owned(Seq(Tokens), k, b, batch)
  PROVE  /\ Plain(b) /\ Live(b) = Live(k)
         /\ \A u \in Live(k) : \A p : RowAt(b, u, p) = RowAt(k, u, p)
         /\ \A u \in Live(k) \ Fed(batch) : Untouched(k, b, u)
         /\ \A i, c : Mirrored(k, i, c) => Mirrored(b, i, c)
<1>1. /\ Good(b, Seq(Tokens)) /\ Live(b) = Live(k) /\ b.data = k.data
      /\ \A u \in Live(k) :
            /\ b.seqs[u].start = k.seqs[u].start /\ b.seqs[u].shared = k.seqs[u].shared
            /\ b.seqs[u].written >= k.seqs[u].written
      /\ \A u \in Live(k) \ Fed(batch) : b.seqs[u] = k.seqs[u]
  BY DEF Owned
<1>2. Plain(b)
  BY <1>1 DEF Plain, NoLoans
<1>3. ASSUME NEW u \in Live(k), NEW p PROVE RowAt(b, u, p) = RowAt(k, u, p)
  BY <1>1 DEF RowAt, CellOf
<1>4. ASSUME NEW u \in Live(k) \ Fed(batch) PROVE Untouched(k, b, u)
  BY <1>1, <1>3 DEF Untouched
<1>5. ASSUME NEW i, NEW c, Mirrored(k, i, c) PROVE Mirrored(b, i, c)
  <2>1. CASE c = <<>>
    BY <1>5, <2>1 DEF Mirrored
  <2>2. CASE c # <<>>
    <3>1. /\ i \in Live(k) /\ Len(c) <= k.seqs[i].written /\ c \in Seq(Tokens)
          /\ \A n \in 1 .. Len(c) : RowAt(k, i, n - 1) = SubSeq(c, 1, n)
      BY <1>5, <2>2 DEF Mirrored
    <3>2. k.seqs[i].written \in Nat /\ b.seqs[i].written \in Nat /\ Len(c) \in Nat
      BY <1>1, <3>1, GoodFacts, LenProperties DEF Plain
    <3>3. Len(c) <= b.seqs[i].written
      BY <1>1, <3>1, <3>2
    <3> QED
      BY <1>1, <1>3, <3>1, <3>3 DEF Mirrored
  <2> QED
    BY <2>1, <2>2
<1> QED
  BY <1>1, <1>2, <1>3, <1>4, <1>5

(* Sequence i reads the same rows in both stores. *)
ReadsSame(b, k, i) == \A p : RowAt(b, i, p) = RowAt(k, i, p)

(* v are the prefixes of f that end behind position e.pos. *)
Spells(v, e, f) ==
    /\ Len(e.vals) = Len(f) - e.pos /\ Len(v) = Len(f) - e.pos /\ Len(f) - e.pos \in Nat \ {0}
    /\ \A j \in 1 .. Len(f) - e.pos : v[j] \in Seq(Tokens) /\ v[j] = SubSeq(f, 1, e.pos + j)

(* The rows a group computes, each from the one below, are the prefixes of  *)
(* the sequence it feeds.                                                   *)
LEMMA RowsFeed ==
  ASSUME NEW k, NEW e, NEW f, Feeds(k, e, f), e.seq \in Live(k), NEW b,
         ReadsSame(b, k, e.seq),
         NEW v, v = Rows(b, e.seq, e.pos, e.vals)
  PROVE  Spells(v, e, f)
<1> DEFINE s == e.seq
           pos == e.pos
           L == Len(f)
           d == SubSeq(f, 1, pos)
           r == SubSeq(f, pos + 1, L)
           n == L - pos
           below == IF pos = 0 THEN <<>> ELSE RowAt(b, s, pos - 1)
<1>1. /\ f \in Seq(Tokens) /\ pos \in Nat /\ L \in Nat /\ pos < L /\ e.vals = r /\ Mirrored(k, s, d)
      /\ n \in Nat \ {0}
  BY LenProperties DEF Feeds
<1>2. /\ r \in Seq(Tokens) /\ Len(r) = n
      /\ \A j \in 1 .. n : d \o SubSeq(r, 1, j) = SubSeq(f, 1, pos + j)
  BY <1>1, RestOf
<1>3. d \in Seq(Tokens) /\ Len(d) = pos /\ \A j \in 0 .. pos : SubSeq(d, 1, j) = SubSeq(f, 1, j)
  BY <1>1, PrefixOf
<1>4. below = d
  <2>1. CASE pos = 0
    <3>1. d = <<>>
      BY <1>3, <2>1, EmptySeq
    <3> QED
      BY <2>1, <3>1
  <2>2. CASE pos # 0
    <3>1. d # <<>>
      BY <1>1, <1>3, <2>2, EmptySeq
    <3>2. \A m \in 1 .. Len(d) : RowAt(k, s, m - 1) = SubSeq(d, 1, m)
      BY <1>1, <3>1 DEF Mirrored
    <3>3. pos \in 1 .. Len(d) /\ pos \in 0 .. pos
      BY <1>1, <1>3, <2>2
    <3>4. RowAt(k, s, pos - 1) = SubSeq(d, 1, pos) /\ SubSeq(d, 1, pos) = SubSeq(f, 1, pos)
      BY <1>3, <3>2, <3>3
    <3> QED
      BY <2>2, <3>4 DEF ReadsSame
  <2> QED
    BY <2>1, <2>2
<1>5. v = [i \in 1 .. Len(e.vals) |-> below \o SubSeq(e.vals, 1, i)]
  BY DEF Rows
<1> HIDE DEF below, d, r, n
<1>6. v = [i \in 1 .. n |-> d \o SubSeq(r, 1, i)]
  BY <1>1, <1>2, <1>4, <1>5
<1>7. \A j \in 1 .. n : v[j] = SubSeq(f, 1, pos + j)
  BY <1>2, <1>6
<1>8. ASSUME NEW j \in 1 .. n PROVE SubSeq(f, 1, pos + j) \in Seq(Tokens)
  <2>1. pos + j \in Nat /\ pos + j <= Len(f)
    BY <1>1 DEF n
  <2> QED
    BY <1>1, <2>1, PrefixOf
<1>9. Len(v) = n
  <2>1. v \in Seq(Seq(Tokens)) /\ DOMAIN v = 1 .. n
    <3>1. v = [i \in 1 .. n |-> v[i]] /\ \A i \in 1 .. n : v[i] \in Seq(Tokens)
      BY <1>6, <1>7, <1>8
    <3>2. v \in [1 .. n -> Seq(Tokens)]
      BY <3>1
    <3> QED
      BY <1>1, <3>1, <3>2
  <2>2. DOMAIN v = 1 .. Len(v) /\ Len(v) \in Nat
    BY <2>1, LenProperties
  <2> HIDE DEF n
  <2> QED
    BY <1>1, <2>1, <2>2
<1> QED
  BY <1>1, <1>2, <1>7, <1>8, <1>9 DEF n, Spells

(* What a forward that stored the groups in done leaves of the rows. *)
Forwards(k, m, batch, F, done) ==
    /\ Plain(m) /\ Live(m) = Live(k)
    /\ \A u \in Live(k) \ Fed(batch) : Untouched(k, m, u)
    /\ \A i \in done : Mirrored(m, batch[i].seq, F[i])

(* The rows of group i, once stored, are the prefixes of the sequence it fed. *)
LEMMA StoredMirror ==
  ASSUME NEW k, NEW e, NEW f, Feeds(k, e, f), e.seq \in Live(k), NEW b,
         ReadsSame(b, k, e.seq),
         NEW v, v = Rows(b, e.seq, e.pos, e.vals), NEW m, e.seq \in Live(m),
         Keeps(b, m, e.seq, e.pos), m.seqs[e.seq].written \in Nat,
         m.seqs[e.seq].written >= e.pos + Len(e.vals),
         \A j \in 1 .. Len(v) : RowAt(m, e.seq, e.pos + j - 1) = v[j]
  PROVE  Mirrored(m, e.seq, f)
<1> DEFINE s == e.seq
           pos == e.pos
           L == Len(f)
           d == SubSeq(f, 1, pos)
<1>1. f \in Seq(Tokens) /\ pos \in Nat /\ L \in Nat /\ pos < L /\ Mirrored(k, s, d)
  BY LenProperties DEF Feeds
<1>2. /\ Len(e.vals) = L - pos /\ Len(v) = L - pos
      /\ \A j \in 1 .. L - pos : v[j] = SubSeq(f, 1, pos + j)
  <2>1. Spells(v, e, f)
    BY RowsFeed
  <2> QED
    BY <2>1 DEF Spells
<1>3. L <= m.seqs[s].written
  <2> DEFINE w == m.seqs[s].written
  <2>1. w \in Nat /\ w >= pos + (L - pos)
    BY <1>2
  <2> HIDE DEF w, L, pos
  <2>2. L <= w
    BY <1>1, <2>1
  <2> QED
    BY <2>2 DEF w, L
<1>4. d \in Seq(Tokens) /\ Len(d) = pos /\ \A j \in 0 .. pos : SubSeq(d, 1, j) = SubSeq(f, 1, j)
  BY <1>1, PrefixOf
<1>5. ASSUME NEW n \in 1 .. L PROVE RowAt(m, s, n - 1) = SubSeq(f, 1, n)
  <2>1. CASE n <= pos
    <3>1. n \in 0 .. pos /\ n \in 1 .. Len(d) /\ n - 1 \in 0 .. pos - 1 /\ pos # 0
      BY <1>1, <1>4, <2>1
    <3>2. d # <<>>
      BY <1>4, <3>1, EmptySeq
    <3>3. RowAt(k, s, n - 1) = SubSeq(d, 1, n)
      BY <1>1, <3>1, <3>2 DEF Mirrored
    <3>4. RowAt(m, s, n - 1) = RowAt(b, s, n - 1) /\ RowAt(b, s, n - 1) = RowAt(k, s, n - 1)
      BY <3>1 DEF Keeps, ReadsSame
    <3> QED
      BY <1>4, <3>1, <3>3, <3>4
  <2>2. CASE ~(n <= pos)
    <3> DEFINE j == n - pos
    <3>1. j \in 1 .. L - pos /\ pos + j - 1 = n - 1 /\ pos + j = n
      BY <1>1, <2>2
    <3> HIDE DEF j
    <3>2. RowAt(m, s, pos + j - 1) = v[j] /\ v[j] = SubSeq(f, 1, pos + j)
      BY <1>2, <3>1
    <3> QED
      BY <3>1, <3>2
  <2> QED
    BY <2>1, <2>2
<1> QED
  BY <1>1, <1>3, <1>5 DEF Mirrored

(* A forward of a filled batch. *)
LEMMA StoredRows ==
  ASSUME NEW k, Plain(k), NEW batch, NEW F, Feeding(k, batch, F), NEW res, res = FillBatchInputs(k, batch),
         res.ok, NEW done \in SUBSET (1 .. Len(batch)), NEW m, m = Stored(batch, res, done)
  PROVE  Forwards(k, m, batch, F, done)
<1> DEFINE b == res.kv
           C == Computed(b, batch)
           N == Len(batch)
           V == Seq(Tokens)
<1>1. Owned(V, k, b, batch) /\ \A i \in 1 .. N : batch[i].seq \in Live(k) /\ Covered(b, batch[i])
  BY FillRows
<1>2. /\ Plain(b) /\ Live(b) = Live(k)
      /\ \A u \in Live(k) : \A p : RowAt(b, u, p) = RowAt(k, u, p)
      /\ \A u \in Live(k) \ Fed(batch) : Untouched(k, b, u)
  BY <1>1, OwnedMirror
<1>3. m = StoreRows(b, C, done)
  BY DEF Stored
<1>4. N \in Nat /\ DOMAIN batch = 1 .. N /\ \A i \in 1 .. N : Feeds(k, batch[i], F[i])
  BY DEF Feeding
<1> HIDE DEF b, V
<1> DEFINE v(i) == Rows(b, batch[i].seq, batch[i].pos, batch[i].vals)
<1>5. ASSUME NEW i \in 1 .. N PROVE C[i].seq = batch[i].seq /\ C[i].pos = batch[i].pos /\ C[i].vals = v(i)
  <2> DEFINE e == batch[i]
             x == v(i)
  <2>1. C[i] = [e EXCEPT !.vals = x]
    BY <1>4 DEF Computed
  <2>2. e = [seq |-> e.seq, pos |-> e.pos, vals |-> e.vals]
    BY <1>4 DEF Feeds
  <2> HIDE DEF e, x, C
  <2>3. C[i] = [seq |-> e.seq, pos |-> e.pos, vals |-> x]
    BY <2>1, <2>2
  <2> QED
    BY <2>3 DEF e, x
<1>6. Len(C) = N
  <2>1. C \in Seq({C[i] : i \in 1 .. N}) /\ DOMAIN C = 1 .. N
    <3>1. C = [i \in 1 .. N |-> C[i]]
      BY <1>4 DEF Computed
    <3> HIDE DEF C
    <3> QED
      BY <1>4, <3>1
  <2> HIDE DEF C, N
  <2>2. DOMAIN C = 1 .. Len(C) /\ Len(C) \in Nat
    BY <2>1, LenProperties
  <2> QED
    BY <1>4, <2>1, <2>2
<1> HIDE DEF C
<1>7. ASSUME NEW i \in 1 .. N
      PROVE  /\ Len(v(i)) = Len(batch[i].vals) /\ Len(v(i)) \in Nat \ {0}
             /\ \A j \in 1 .. Len(v(i)) : v(i)[j] \in V
  <2> DEFINE e == batch[i]
             f == F[i]
             x == v(i)
  <2>1. Feeds(k, e, f) /\ e.seq \in Live(k) /\ x = Rows(b, e.seq, e.pos, e.vals)
        /\ ReadsSame(b, k, e.seq)
    BY <1>1, <1>2, <1>4 DEF ReadsSame
  <2> HIDE DEF e, f, x
  <2>2. /\ Len(e.vals) = Len(f) - e.pos /\ Len(x) = Len(f) - e.pos /\ Len(f) - e.pos \in Nat \ {0}
        /\ \A j \in 1 .. Len(f) - e.pos : x[j] \in Seq(Tokens)
    BY <2>1, RowsFeed DEF Spells
  <2>3. Len(x) = Len(e.vals) /\ Len(x) \in Nat \ {0} /\ \A j \in 1 .. Len(x) : x[j] \in V
    BY <2>2 DEF V
  <2> QED
    BY <2>3 DEF e, x
<1> HIDE DEF v
<1>8. StoreLeaves(V, b, m, C, done)
  <2>1. Good(b, V) /\ NoLoans(b) /\ Len(C) \in Nat /\ done \in SUBSET (1 .. Len(C))
    BY <1>2, <1>4, <1>6 DEF Plain, V
  <2>2. ASSUME NEW i \in 1 .. Len(C)
        PROVE  /\ C[i].seq \in Live(b) /\ C[i].pos \in Nat
               /\ Len(C[i].vals) \in Nat \ {0}
               /\ \A j \in 1 .. Len(C[i].vals) : C[i].vals[j] \in V
               /\ Spared(b, C[i].seq, C[i].pos) /\ Covered(b, C[i])
    <3> DEFINE e == batch[i]
               x == v(i)
               g == C[i]
    <3>1. i \in 1 .. N /\ g.seq = e.seq /\ g.pos = e.pos /\ g.vals = x
      BY <1>5, <1>6
    <3>2. /\ Len(x) = Len(e.vals) /\ Len(x) \in Nat \ {0} /\ (\A j \in 1 .. Len(x) : x[j] \in V)
          /\ e.seq \in Live(b) /\ e.pos \in Nat /\ Covered(b, e)
      BY <1>1, <1>2, <1>4, <1>7, <3>1 DEF Feeds
    <3> HIDE DEF e, x, g
    <3>3. Spared(b, e.seq, e.pos)
      BY <2>1, <3>2, NoLoansSpares
    <3>4. Covered(b, g)
      BY <3>1, <3>2 DEF Covered
    <3> QED
      BY <3>1, <3>2, <3>3, <3>4 DEF g
  <2>3. \A i, j \in 1 .. Len(C) : i # j => C[i].seq # C[j].seq
    BY <1>5, <1>6 DEF Feeding
  <2> QED
    BY <1>3, <2>1, <2>2, <2>3, StoreKeeps
<1>9. /\ Good(m, V) /\ m.seqs = b.seqs
      /\ \A u \in Live(b) \ Fed(C) : Untouched(b, m, u)
      /\ \A i \in 1 .. Len(C) : Keeps(b, m, C[i].seq, C[i].pos)
      /\ \A i \in done : \A j \in 1 .. Len(C[i].vals) :
            RowAt(m, C[i].seq, C[i].pos + j - 1) = C[i].vals[j]
  BY <1>8 DEF StoreLeaves
<1>10. Fed(C) = Fed(batch)
  BY <1>5, <1>6 DEF Fed
<1>11. Live(m) = Live(k) /\ Plain(m)
  BY <1>2, <1>9 DEF Live, Plain, NoLoans, V
<1>12. ASSUME NEW u \in Live(k) \ Fed(batch) PROVE Untouched(k, m, u)
  <2>1. Untouched(k, b, u) /\ Untouched(b, m, u)
    BY <1>2, <1>9, <1>10
  <2> QED
    BY <2>1, UntouchedChain
<1>13. ASSUME NEW i \in done PROVE Mirrored(m, batch[i].seq, F[i])
  <2> DEFINE e == batch[i]
             f == F[i]
             x == v(i)
  <2>1. i \in 1 .. N /\ i \in 1 .. Len(C)
    BY <1>6
  <2>2. Feeds(k, e, f) /\ e.seq \in Live(k) /\ x = Rows(b, e.seq, e.pos, e.vals)
        /\ ReadsSame(b, k, e.seq)
    BY <1>1, <1>2, <1>4, <2>1 DEF v, ReadsSame
  <2>3. C[i].seq = e.seq /\ C[i].pos = e.pos /\ C[i].vals = x
    BY <1>5, <2>1
  <2>4. Keeps(b, m, e.seq, e.pos) /\ \A j \in 1 .. Len(x) : RowAt(m, e.seq, e.pos + j - 1) = x[j]
    BY <1>9, <2>1, <2>3
  <2>5. m.seqs[e.seq].written \in Nat /\ m.seqs[e.seq].written >= e.pos + Len(e.vals) /\ e.seq \in Live(m)
    <3>1. Covered(b, e) /\ Good(m, V) /\ e.seq \in Live(m)
      BY <1>1, <1>9, <1>11, <2>1, <2>2
    <3> QED
      BY <1>9, <3>1, GoodFacts DEF Covered
  <2> HIDE DEF e, f, x
  <2>6. Mirrored(m, e.seq, f)
    BY <2>2, <2>4, <2>5, StoredMirror
  <2> QED
    BY <2>6 DEF e, f
<1> QED
  BY <1>11, <1>12, <1>13 DEF Forwards

-----------------------------------------------------------------------------
(* Slots and their mirrors. *)

(* The next row of a run is the one behind its mirror, and at most one      *)
(* committed token waits for its forward.                                   *)
Steady(sl) == sl.run # Idle => sl.run.pos = Len(sl.cached) /\ Len(sl.run.pend) <= 1

AllSteady(ss) == \A i \in Slots : Steady(ss[i])

LEMMA SteadyKept ==
  ASSUME NEW ss, NEW tt, OthersKeep(ss, tt), AllSteady(ss)
  PROVE  AllSteady(tt)
BY DEF OthersKeep, AllSteady, Steady

(* A run that was just installed. *)
LEMMA HostedSteady ==
  ASSUME NEW old, Shaped(old), NEW job \in Jobs, NEW sl, sl = Hosting(old, job.prompt, Run(job))
  PROVE  sl.cached = job.prompt /\ Steady(sl)
<1> DEFINE r == Run(job)
           x == job.prompt
<1>1. r.pos = Len(x) /\ r.pend = <<>>
  BY DEF Run, None
<1>2. old = SlotRec(old.start, old.cap, old.cached, old.run)
  BY DEF Shaped
<1>3. sl = Hosting(old, x, r) /\ Len(<<>>) <= 1
  BY EmptySeq
<1> HIDE DEF r, x
<1>4. sl = SlotRec(old.start, old.cap, x, r)
  BY <1>2, <1>3, GivenForm
<1>5. sl.cached = x /\ sl.run = r
  BY <1>4 DEF SlotRec
<1> QED
  BY <1>1, <1>3, <1>5 DEF Steady, x

(* The mirror of a forwarded slot has grown by the pending token. *)
LEMMA ForwardedSteady ==
  ASSUME NEW old, Shaped(old), HasRoom(old), old.run # Idle, old.run.pend # None, Steady(old),
         NEW sl, sl = Forwarded(old)
  PROVE  Steady(sl) /\ sl.cached = old.cached \o old.run.pend
<1> DEFINE r == old.run
           c == old.cached
           x == r.pos + 1
           q == [r EXCEPT !.pos = x, !.pend = None]
           d == c \o r.pend
<1>1. /\ r \in RunRec /\ old = SlotRec(old.start, old.cap, c, r) /\ c \in Seq(Tokens)
  BY DEF Shaped, HasRoom
<1>2. r.pend \in Seq(Tokens) /\ r.pos \in Nat
  BY <1>1 DEF RunRec
<1>3. Len(d) = x
  <2> DEFINE p == r.pend
             a == r.pos
  <2>1. p \in Seq(Tokens) /\ p # <<>> /\ Len(p) <= 1 /\ a = Len(c) /\ a \in Nat
    BY <1>2 DEF Steady, None
  <2> HIDE DEF p, a, c
  <2>2. Len(p) = 1
    <3>1. p \in Seq(Tokens) /\ p # <<>> /\ Len(p) <= 1
      BY <2>1
    <3> DEFINE l == Len(p)
    <3>2. l \in Nat /\ l # 0
      BY <3>1, EmptySeq, LenProperties
    <3>3. l <= 1
      BY <3>1
    <3> HIDE DEF l
    <3>4. l = 1
      BY <3>2, <3>3
    <3> QED
      BY <3>4 DEF l
  <2>3. Len(c \o p) = Len(c) + Len(p)
    BY <1>1, <2>1, ConcatProperties
  <2> QED
    BY <2>1, <2>2, <2>3 DEF p, a
<1>4. q.pos = x /\ q.pend = None
  BY <1>1 DEF RunRec
<1>5. sl.cached = d /\ sl.run = q
  <2> DEFINE a == old.start
             b == old.cap
  <2>1. old = [start |-> a, cap |-> b, cached |-> c, run |-> r]
    BY <1>1 DEF SlotRec
  <2>2. sl = [old EXCEPT !.cached = d, !.run = q]
    BY <2>1 DEF Forwarded
  <2> HIDE DEF a, b, d, q, c, r
  <2> QED
    BY <2>1, <2>2
<1>6. Len(None) <= 1
  BY EmptySeq DEF None
<1> HIDE DEF q, d, x
<1> QED
  BY <1>3, <1>4, <1>5, <1>6 DEF Steady, d

(* However the step of a slot ends, its mirror stays or is dropped. *)
LEMMA AdvancedSteady ==
  ASSUME NEW old, Shaped(old), HasRoom(old), old.run # Idle, Steady(old), NEW sl \in Advanced(old)
  PROVE  Steady(sl) /\ (sl.cached = old.cached \/ sl.cached = <<>>)
<1> DEFINE r == old.run
           c == old.cached
           com(t) == [old EXCEPT !.run.out = Append(r.out, t), !.run.pend = <<t>>]
<1>1. r \in RunRec /\ old = SlotRec(old.start, old.cap, c, r)
  BY DEF Shaped
<1>2. \/ sl = Ended(old) \/ sl = Failed(old)
      \/ \E t \in Tokens : sl = com(t)
  BY DEF Advanced
<1>3. CASE sl = Ended(old)
  <2>1. sl = SlotRec(old.start, old.cap, c, Idle)
    BY <1>1, <1>3, SlotForms DEF Ended
  <2>2. sl.run = Idle /\ sl.cached = c
    BY <2>1 DEF SlotRec
  <2> QED
    BY <2>2 DEF Steady
<1>4. CASE sl = Failed(old)
  <2>1. sl = SlotRec(old.start, old.cap, <<>>, Idle)
    BY <1>1, <1>4, SlotForms
  <2>2. sl.run = Idle /\ sl.cached = <<>>
    BY <2>1 DEF SlotRec
  <2> QED
    BY <2>2 DEF Steady
<1>5. ASSUME NEW t \in Tokens, sl = com(t)
      PROVE  Steady(sl) /\ sl.cached = old.cached
  <2> DEFINE o == Append(r.out, t)
             w == <<t>>
             q == [r EXCEPT !.out = o, !.pend = w]
             a == old.start
             b == old.cap
  <2>1. old = [start |-> a, cap |-> b, cached |-> c, run |-> r]
    BY <1>1 DEF SlotRec
  <2>2. sl = [old EXCEPT !.run.out = o, !.run.pend = w]
    BY <1>5
  <2>3. Len(w) <= 1
    OBVIOUS
  <2> HIDE DEF o, w
  <2>4. sl = [old EXCEPT !.run = q]
    BY <2>1, <2>2
  <2>5. q.pos = r.pos /\ q.pend = w /\ r.pos = Len(c)
    BY <1>1 DEF RunRec, Steady
  <2> HIDE DEF q, a, b, c, r
  <2>6. sl.run = q /\ sl.cached = c
    BY <2>1, <2>4
  <2>7. sl.run.pos = Len(sl.cached) /\ Len(sl.run.pend) <= 1
    BY <2>5, <2>6, <2>3
  <2> QED
    BY <2>6, <2>7 DEF Steady, c
<1> QED
  BY <1>2, <1>3, <1>4, <1>5

(* tick takes each slot once. *)
LEMMA RowsDistinct ==
  ASSUME NEW ss, NEW rows, rows = RowsLoop!Fold(ss, <<>>, InOrder)
  PROVE  \A q, r \in 1 .. Len(rows) : q # r => rows[q] # rows[r]
<1> DEFINE N == Cardinality(Slots)
           P(h, n) == /\ h \in Seq(Slots)
                      /\ \A r \in 1 .. Len(h) : h[r] \in 1 .. n
                      /\ \A q, r \in 1 .. Len(h) : q # r => h[q] # h[r]
<1>1. N \in Nat /\ Slots = 1 .. N
  BY SlotsInOrder
<1>2. PICK g : RowsTrace(g, ss)
  BY RowsUnfolds
<1>3. rows = g[N] /\ g[0] = <<>> /\ \A n \in Slots : g[n] = RowsStep(ss, g[n - 1], n)
  BY <1>2 DEF RowsTrace
<1> HIDE DEF N
<1> DEFINE T == {n \in 0 .. N : P(g[n], n)}
<1>4. 0 \in T
  <2>1. g[0] \in Seq(Slots) /\ Len(g[0]) = 0
    BY <1>3, EmptySeq
  <2> QED
    BY <1>1, <2>1
<1>5. ASSUME NEW n \in 0 .. N - 1, n \in T PROVE n + 1 \in T
  <2> DEFINE h == g[n]
             j == n + 1
             u == Append(h, j)
  <2>1. n \in Nat /\ j \in 1 .. N /\ j \in Slots /\ j - 1 = n /\ j \in 0 .. N
    BY <1>1
  <2>2. g[j] = u \/ g[j] = h
    BY <1>3, <2>1 DEF RowsStep
  <2>3. P(h, n) /\ Len(h) \in Nat
    BY <1>5
  <2>4. (\A i \in 1 .. n : i \in 1 .. j /\ i # j) /\ j \in 1 .. j
    BY <2>1
  <2> HIDE DEF h
  <2>5. CASE g[j] = u
    <3>1. u \in Seq(Slots) /\ Len(u) = Len(h) + 1 /\ (\A r \in 1 .. Len(h) : u[r] = h[r]) /\ u[Len(h) + 1] = j
      BY <2>1, <2>3
    <3>2. \A r \in 1 .. Len(u) : r \in 1 .. Len(h) \/ r = Len(h) + 1
      BY <2>3, <3>1
    <3> HIDE DEF u, j
    <3>3. \A r \in 1 .. Len(u) : u[r] \in 1 .. j
      BY <2>3, <2>4, <3>1, <3>2
    <3>4. ASSUME NEW q \in 1 .. Len(u), NEW r \in 1 .. Len(u), q # r PROVE u[q] # u[r]
      <4>1. CASE q \in 1 .. Len(h) /\ r \in 1 .. Len(h)
        BY <2>3, <3>1, <3>4, <4>1
      <4>2. CASE q \in 1 .. Len(h) /\ r = Len(h) + 1
        BY <2>3, <2>4, <3>1, <4>2
      <4>3. CASE q = Len(h) + 1 /\ r \in 1 .. Len(h)
        BY <2>3, <2>4, <3>1, <4>3
      <4> QED
        BY <3>2, <3>4, <4>1, <4>2, <4>3
    <3>5. P(u, j)
      BY <3>1, <3>3, <3>4
    <3> QED
      BY <2>1, <2>5, <3>5 DEF j
  <2>6. CASE g[j] = h
    <3> HIDE DEF j
    <3>1. P(h, j)
      BY <2>3, <2>4
    <3> QED
      BY <2>1, <2>6, <3>1 DEF j
  <2> QED
    BY <2>2, <2>5, <2>6
<1> HIDE DEF T
<1>6. \A n \in 0 .. N : n \in T
  BY <1>1, <1>4, <1>5, Induct
<1>7. P(g[N], N)
  <2>1. N \in T
    BY <1>1, <1>6
  <2> QED
    BY <2>1 DEF T
<1> QED
  BY <1>3, <1>7

-----------------------------------------------------------------------------
(* The inductive invariant. *)

(* Outside the slot of a prefill in progress every mirror names the rows of *)
(* its slot; the prefill has computed its prompt up to where it stands.     *)
MirrorAt(k, ss, pr) ==
    /\ Plain(k) /\ AllSteady(ss)
    /\ \A i \in Slots \ {pr.slot} : Mirrored(k, i, ss[i].cached)
    /\ pr # NoPrefill => /\ pr.from \in Nat /\ pr.from < Len(pr.job.prompt)
                         /\ Mirrored(k, pr.slot, SubSeq(pr.job.prompt, 1, pr.from))

MirrorInv == MirrorAt(kv, slots, pre)

LEMMA NoPrefillSlot == NoPrefill.slot \notin Slots
<1>1. NoPrefill.slot = 0
  BY DEF NoPrefill
<1>2. 0 \notin Slots
  BY SlotsInOrder
<1> QED
  BY <1>1, <1>2

(* Between prefills every slot holds what its mirror names. *)
LEMMA Unprefilled ==
  ASSUME NEW k, NEW ss
  PROVE  MirrorAt(k, ss, NoPrefill) <=> Rooted(k, ss) /\ AllSteady(ss)
BY NoPrefillSlot DEF MirrorAt, Rooted

LEMMA NothingMirrored ==
  ASSUME NEW k, NEW i PROVE Mirrored(k, i, <<>>)
BY EmptySeq DEF Mirrored

(* A slot that generates is not the one being prefilled; it has its rows    *)
(* and its cells.                                                           *)
LEMMA RunningMirrored ==
  ASSUME EngineInv, MirrorInv, NEW i \in Slots, slots[i].run # Idle
  PROVE  /\ i # pre.slot /\ i \in Live(kv) /\ Mirrored(kv, i, slots[i].cached)
         /\ Shaped(slots[i]) /\ HasRoom(slots[i]) /\ Steady(slots[i])
<1>1. i # pre.slot
  <2>1. CASE pre = NoPrefill
    BY <2>1, NoPrefillSlot
  <2>2. CASE pre # NoPrefill
    BY <2>2 DEF EngineInv, PreOk
  <2> QED
    BY <2>1, <2>2
<1>2. Shaped(slots[i]) /\ HasRoom(slots[i]) /\ Backs(kv, i, slots[i])
  BY DEF EngineInv, Sound
<1>3. slots[i].run \in RunRec /\ slots[i].cap \in Nat
  BY <1>2 DEF Shaped
<1>4. slots[i].run.pos \in Nat \ {0}
  BY <1>3 DEF RunRec
<1>5. slots[i].cap > 0
  BY <1>2, <1>3, <1>4 DEF HasRoom
<1>6. Steady(slots[i]) /\ Mirrored(kv, i, slots[i].cached)
  BY <1>1 DEF MirrorInv, MirrorAt, AllSteady
<1> QED
  BY <1>1, <1>2, <1>5, <1>6 DEF Backs

(* The pending token of a slot is what follows its mirror. *)
LEMMA PendingFeeds ==
  ASSUME NEW k, NEW i \in Slots, NEW sl, Shaped(sl), HasRoom(sl), Pending(sl), Steady(sl),
         Mirrored(k, i, sl.cached),
         NEW e, e = [seq |-> i, pos |-> sl.run.pos, vals |-> sl.run.pend],
         NEW f, f = sl.cached \o sl.run.pend
  PROVE  Feeds(k, e, f)
<1> DEFINE c == sl.cached
           p == sl.run.pend
           n == sl.run.pos
<1>1. sl.run \in RunRec
  BY DEF Shaped, Pending
<1>2. c \in Seq(Tokens) /\ p \in Seq(Tokens) /\ p # <<>> /\ n = Len(c)
  BY <1>1 DEF RunRec, HasRoom, Pending, Steady, None
<1>3. e.seq = i /\ e.pos = n /\ e.vals = p /\ e = [seq |-> e.seq, pos |-> e.pos, vals |-> e.vals]
  OBVIOUS
<1>4. f = c \o p /\ Mirrored(k, i, c)
  OBVIOUS
<1> HIDE DEF c, p, n
<1> DEFINE a == Len(c)
           b == Len(p)
<1>5. a \in Nat /\ b \in Nat \ {0}
  BY <1>2, EmptySeq, LenProperties
<1>6. f \in Seq(Tokens) /\ Len(f) = a + b
  BY <1>2, <1>4, ConcatProperties
<1>7. p = SubSeq(f, a + 1, a + b)
  <2>1. a + 1 \in a + 1 .. a + b /\ a + b \in a + 1 .. a + b /\ (a + 1) - a = 1 /\ (a + b) - a = b
    <3> HIDE DEF a, b
    <3> QED
      BY <1>5
  <2>2. SubSeq(f, a + 1, a + b) = SubSeq(p, (a + 1) - a, (a + b) - a)
    BY <1>2, <1>4, <2>1, SubSeqOfConcat2
  <2>3. SubSeq(p, 1, b) = p
    BY <1>2, SubSeqFull
  <2> QED
    BY <2>1, <2>2, <2>3
<1>8. SubSeq(f, 1, a) = c
  <2>1. SubSeq(c, 1, a) = c
    BY <1>2, SubSeqFull
  <2>2. ASSUME a # 0 PROVE SubSeq(f, 1, a) = SubSeq(c, 1, a)
    <3>1. 1 \in 1 .. a /\ a \in 1 .. a
      BY <1>5, <2>2
    <3> QED
      BY <1>2, <1>4, <3>1, SubSeqOfConcat1
  <2>3. ASSUME a = 0 PROVE SubSeq(f, 1, a) = c
    <3>1. c = <<>>
      BY <1>2, <2>3, EmptySeq
    <3>2. SubSeq(f, 1, 0) = <<>>
      BY <1>6, SubSeqEmpty
    <3> QED
      BY <2>3, <3>1, <3>2
  <2> QED
    BY <2>1, <2>2, <2>3
<1>9. n \in Nat /\ n < Len(f) /\ Len(f) = n + b
  BY <1>2, <1>5, <1>6
<1>10. p = SubSeq(f, n + 1, Len(f)) /\ SubSeq(f, 1, n) = c
  BY <1>2, <1>6, <1>7, <1>8
<1> HIDE DEF a, b
<1> QED
  BY <1>3, <1>4, <1>6, <1>9, <1>10 DEF Feeds

(* What the groups of a decode step feed: the mirror and the pending token. *)
DecodeText ==
    [r \in DOMAIN BatchRows |-> slots[BatchRows[r]].cached \o slots[BatchRows[r]].run.pend]

LEMMA DecodeFeeds ==
  ASSUME EngineInv, MirrorInv
  PROVE  /\ Feeding(kv, DecodeBatch, DecodeText)
         /\ Fed(DecodeBatch) = Range(BatchRows) /\ DOMAIN DecodeBatch = 1 .. Len(DecodeBatch)
         /\ \A i \in Range(BatchRows) : i \in Slots /\ Pending(slots[i])
         /\ \A i \in Range(BatchRows) : \E r \in 1 .. Len(DecodeBatch) :
               DecodeBatch[r].seq = i /\ DecodeText[r] = slots[i].cached \o slots[i].run.pend
<1> DEFINE R == BatchRows
           B == DecodeBatch
           F == DecodeText
<1>1. RowsOf(R, slots)
  BY DecodeIsBatch
<1>2. \A q, r \in 1 .. Len(R) : q # r => R[q] # R[r]
  BY RowsFold, RowsDistinct
<1>3. B = [r \in DOMAIN R |-> [seq |-> R[r], pos |-> slots[R[r]].run.pos, vals |-> slots[R[r]].run.pend]]
  BY DEF DecodeBatch
<1>4. F = [r \in DOMAIN R |-> slots[R[r]].cached \o slots[R[r]].run.pend]
  BY DEF DecodeText
<1> HIDE DEF R, B, F
<1>5. DOMAIN R = 1 .. Len(R) /\ Len(R) \in Nat /\ \A r \in 1 .. Len(R) : R[r] \in Slots /\ Pending(slots[R[r]])
  <2>1. R \in Seq(Slots)
    BY <1>1 DEF RowsOf
  <2>2. DOMAIN R = 1 .. Len(R) /\ Len(R) \in Nat
    BY <2>1, LenProperties
  <2> QED
    BY <1>1, <2>1, <2>2, ElementOfSeq DEF RowsOf
<1>6. Len(B) = Len(R) /\ DOMAIN B = 1 .. Len(R)
  BY <1>3, <1>5
<1>7. ASSUME NEW r \in 1 .. Len(R)
      PROVE  /\ B[r].seq = R[r] /\ F[r] = slots[R[r]].cached \o slots[R[r]].run.pend
             /\ Feeds(kv, B[r], F[r]) /\ R[r] \in Live(kv)
  <2> DEFINE i == R[r]
             sl == slots[i]
             e == B[r]
             f == F[r]
  <2>1. /\ i \in Slots /\ Pending(sl) /\ f = sl.cached \o sl.run.pend
        /\ e = [seq |-> i, pos |-> sl.run.pos, vals |-> sl.run.pend]
    BY <1>3, <1>4, <1>5, <1>7
  <2>2. sl.run # Idle
    BY <2>1 DEF Pending
  <2>3. i \in Live(kv) /\ Mirrored(kv, i, sl.cached) /\ Shaped(sl) /\ HasRoom(sl) /\ Steady(sl)
    BY <2>1, <2>2, RunningMirrored
  <2> HIDE DEF i, sl, e, f
  <2>4. Feeds(kv, e, f)
    BY <2>1, <2>3, PendingFeeds
  <2>5. e.seq = i
    BY <2>1
  <2> QED
    BY <2>1, <2>3, <2>4, <2>5 DEF i, sl, e, f
<1>8. Feeding(kv, B, F)
  <2>1. \A q, r \in 1 .. Len(B) : q # r => B[q].seq # B[r].seq
    <3>1. \A r \in 1 .. Len(R) : B[r].seq = R[r]
      BY <1>7
    <3> QED
      BY <1>2, <1>6, <3>1
  <2>2. Len(B) = 1 => B[1].seq \in Live(kv)
    BY <1>6, <1>7
  <2> QED
    BY <1>5, <1>6, <1>7, <2>1, <2>2 DEF Feeding
<1>9. Fed(B) = Range(R)
  BY <1>5, <1>6, <1>7 DEF Fed, Range
<1>10. \A i \in Range(R) : \E r \in 1 .. Len(R) : R[r] = i
  BY <1>5 DEF Range
<1>11. \A i \in Range(R) : i \in Slots /\ Pending(slots[i])
  BY <1>5, <1>10
<1>12. ASSUME NEW i \in Range(R)
       PROVE  \E r \in 1 .. Len(B) : B[r].seq = i /\ F[r] = slots[i].cached \o slots[i].run.pend
  <2>1. PICK r \in 1 .. Len(R) : R[r] = i
    BY <1>10
  <2>2. B[r].seq = i /\ F[r] = slots[i].cached \o slots[i].run.pend
    BY <1>7, <2>1
  <2> QED
    BY <1>6, <2>2
<1>13. DOMAIN B = 1 .. Len(B)
  BY <1>6
<1> QED
  BY <1>8, <1>9, <1>11, <1>12, <1>13 DEF R, B, F

-----------------------------------------------------------------------------
(* The actions. *)

(* A forward leaves the rows of the sequences it does not feed. *)
LEMMA ForwardSpares ==
  ASSUME NEW k, Plain(k), NEW m, NEW batch, NEW F, NEW done, Forwards(k, m, batch, F, done),
         NEW i, i \notin Fed(batch), NEW c, Mirrored(k, i, c)
  PROVE  Mirrored(m, i, c)
<1>1. i \in Live(k) => Untouched(k, m, i)
  BY DEF Forwards
<1> QED
  BY <1>1, MirrorUntouched

(* A decode step leaves a prefill where it stands. *)
LEMMA TickMirrors ==
  ASSUME EngineInv, MirrorInv, AfterTick, Plain(kv'), AllSteady(slots'),
         \A i \in Slots \ {pre.slot} : Mirrored(kv', i, slots'[i].cached),
         pre # NoPrefill => Mirrored(kv', pre.slot, SubSeq(pre.job.prompt, 1, pre.from))
  PROVE  MirrorInv'
<1>1. CASE pre = NoPrefill
  <2>1. pre' = NoPrefill
    BY <1>1 DEF AfterTick
  <2> QED
    BY <1>1, <2>1 DEF MirrorInv, MirrorAt
<1>2. CASE pre # NoPrefill
  <2>1. pre' = [pre EXCEPT !.tick = FALSE]
    BY <1>2 DEF AfterTick
  <2>2. pre = [slot |-> pre.slot, job |-> pre.job, from |-> pre.from, tick |-> pre.tick]
    BY <1>2 DEF EngineInv, PreOk
  <2>3. pre'.slot = pre.slot /\ pre'.job = pre.job /\ pre'.from = pre.from
    BY <2>1, <2>2
  <2>4. pre.from \in Nat /\ pre.from < Len(pre.job.prompt)
    BY <1>2 DEF MirrorInv, MirrorAt
  <2> QED
    BY <1>2, <2>3, <2>4 DEF MirrorInv, MirrorAt
<1> QED
  BY <1>1, <1>2

(* The slot of a prefill takes no part in a decode step. *)
LEMMA PrefillSpared ==
  ASSUME EngineInv, pre # NoPrefill, \A i \in Range(BatchRows) : i \in Slots /\ Pending(slots[i])
  PROVE  pre.slot \notin Range(BatchRows)
<1>1. slots[pre.slot].run = Idle
  BY DEF EngineInv, PreOk
<1> QED
  BY <1>1 DEF Pending

LEMMA TickMirror == ASSUME EngineInv, MirrorInv, Tick PROVE MirrorInv'
<1> DEFINE R == BatchRows
           B == DecodeBatch
           F == DecodeText
           fwd(i) == IF i \in Range(R) THEN Forwarded(slots[i]) ELSE slots[i]
           filled == FillBatchInputs(kv, B)
<1>1. filled.ok /\ kv' = Stored(B, filled, DOMAIN B) /\ AfterTick /\ slots' \in Stepped
  BY DEF Tick
<1>2. \A i \in Slots : slots'[i] \in IF slots[i].run # Idle THEN Advanced(fwd(i)) ELSE {slots[i]}
  BY <1>1 DEF Stepped, Running
<1>3. Plain(kv) /\ AllSteady(slots) /\ \A i \in Slots \ {pre.slot} : Mirrored(kv, i, slots[i].cached)
  BY DEF MirrorInv, MirrorAt
<1>4. /\ Feeding(kv, B, F) /\ Fed(B) = Range(R) /\ DOMAIN B = 1 .. Len(B)
      /\ \A i \in Range(R) : i \in Slots /\ Pending(slots[i])
      /\ \A i \in Range(R) : \E r \in 1 .. Len(B) :
            B[r].seq = i /\ F[r] = slots[i].cached \o slots[i].run.pend
  BY DecodeFeeds
<1> HIDE DEF R, B, F
<1>5. Forwards(kv, kv', B, F, 1 .. Len(B))
  <2>1. 1 .. Len(B) \in SUBSET (1 .. Len(B)) /\ kv' = Stored(B, filled, 1 .. Len(B))
    BY <1>1, <1>4
  <2> QED
    BY <1>1, <1>3, <1>4, <2>1, StoredRows
<1>6. ASSUME NEW i \in Slots
      PROVE  Steady(slots'[i]) /\ (i # pre.slot => Mirrored(kv', i, slots'[i].cached))
  <2>1. CASE slots[i].run = Idle
    <3>1. i \notin Fed(B) /\ slots'[i] = slots[i]
      BY <1>2, <1>4, <2>1 DEF Pending
    <3>2. Steady(slots'[i])
      BY <2>1, <3>1 DEF Steady
    <3>3. ASSUME i # pre.slot PROVE Mirrored(kv', i, slots[i].cached)
      <4>1. Mirrored(kv, i, slots[i].cached)
        BY <1>3, <3>3
      <4> QED
        BY <1>3, <1>5, <3>1, <4>1, ForwardSpares
    <3> QED
      BY <3>1, <3>2, <3>3
  <2>2. CASE slots[i].run # Idle
    <3> DEFINE f == fwd(i)
    <3>1. /\ Mirrored(kv, i, slots[i].cached) /\ Shaped(slots[i]) /\ HasRoom(slots[i]) /\ Steady(slots[i])
      BY <2>2, RunningMirrored
    <3>2. slots'[i] \in Advanced(f)
      BY <1>2, <2>2
    <3>3. Shaped(f) /\ HasRoom(f) /\ f.run # Idle /\ Steady(f) /\ Mirrored(kv', i, f.cached)
      <4>1. CASE i \in Range(R)
        <5>1. f = Forwarded(slots[i]) /\ slots[i].run.pend # None
          BY <1>4, <4>1 DEF Pending
        <5> HIDE DEF f
        <5>2. Shaped(f) /\ HasRoom(f) /\ f.run # Idle
          BY <2>2, <3>1, <5>1, ForwardedOk
        <5>3. Steady(f) /\ f.cached = slots[i].cached \o slots[i].run.pend
          BY <2>2, <3>1, <5>1, ForwardedSteady
        <5>4. PICK r \in 1 .. Len(B) : B[r].seq = i /\ F[r] = slots[i].cached \o slots[i].run.pend
          BY <1>4, <4>1
        <5>5. Mirrored(kv', i, slots[i].cached \o slots[i].run.pend)
          BY <1>5, <5>4 DEF Forwards
        <5> QED
          BY <5>2, <5>3, <5>5
      <4>2. CASE i \notin Range(R)
        <5>1. f = slots[i] /\ i \notin Fed(B)
          BY <1>4, <4>2
        <5> HIDE DEF f
        <5>2. Mirrored(kv', i, slots[i].cached)
          BY <1>3, <1>5, <3>1, <5>1, ForwardSpares
        <5> QED
          BY <2>2, <3>1, <5>1, <5>2
      <4> QED
        BY <4>1, <4>2
    <3> HIDE DEF f
    <3>4. Steady(slots'[i]) /\ (slots'[i].cached = f.cached \/ slots'[i].cached = <<>>)
      BY <3>2, <3>3, AdvancedSteady
    <3>5. Mirrored(kv', i, <<>>)
      BY NothingMirrored
    <3> QED
      BY <3>3, <3>4, <3>5
  <2> QED
    BY <2>1, <2>2
<1>7. ASSUME pre # NoPrefill PROVE Mirrored(kv', pre.slot, SubSeq(pre.job.prompt, 1, pre.from))
  <2> DEFINE c == SubSeq(pre.job.prompt, 1, pre.from)
             j == pre.slot
  <2>1. Mirrored(kv, j, c)
    BY <1>7 DEF MirrorInv, MirrorAt
  <2>2. j \notin Fed(B)
    BY <1>4, <1>7, PrefillSpared DEF R
  <2> HIDE DEF c, j
  <2>3. Mirrored(kv', j, c)
    BY <1>3, <1>5, <2>1, <2>2, ForwardSpares
  <2> QED
    BY <2>3 DEF c, j
<1>8. Plain(kv')
  BY <1>5 DEF Forwards
<1>9. AllSteady(slots')
  BY <1>6 DEF AllSteady
<1> QED
  BY <1>1, <1>6, <1>7, <1>8, <1>9, TickMirrors

LEMMA TickFailsMirror == ASSUME EngineInv, MirrorInv, TickFails PROVE MirrorInv'
<1> DEFINE R == BatchRows
           B == DecodeBatch
           F == DecodeText
           filled == FillBatchInputs(kv, B)
<1>1. PICK done \in SUBSET DOMAIN B : kv' = Stored(B, filled, done)
  BY DEF TickFails
<1>2. AfterTick /\ slots' = [i \in Slots |-> IF i \in Range(R) THEN Failed(slots[i]) ELSE slots[i]]
  BY DEF TickFails
<1>3. Plain(kv) /\ AllSteady(slots) /\ \A i \in Slots \ {pre.slot} : Mirrored(kv, i, slots[i].cached)
  BY DEF MirrorInv, MirrorAt
<1>4. /\ Feeding(kv, B, F) /\ Fed(B) = Range(R) /\ DOMAIN B = 1 .. Len(B)
      /\ \A i \in Range(R) : i \in Slots /\ Pending(slots[i])
  BY DecodeFeeds
<1>5. Sound(kv, slots)
  BY DEF EngineInv
<1> HIDE DEF R, B, F
<1>6. /\ Plain(kv')
      /\ \A i, c : Mirrored(kv, i, c) /\ i \notin Fed(B) => Mirrored(kv', i, c)
  <2>1. CASE filled.ok
    <3>1. Forwards(kv, kv', B, F, done)
      BY <1>1, <1>3, <1>4, <2>1, StoredRows
    <3>2. Plain(kv')
      BY <3>1 DEF Forwards
    <3> QED
      BY <1>3, <3>1, <3>2, ForwardSpares
  <2>2. CASE ~filled.ok
    <3>1. kv' = filled.kv
      BY <1>1, <2>2 DEF Stored
    <3>2. Owned(Seq(Tokens), kv, filled.kv, B)
      BY <1>3, <1>4, FillRows
    <3> HIDE DEF filled
    <3> QED
      BY <1>3, <3>1, <3>2, OwnedMirror
  <2> QED
    BY <2>1, <2>2
<1>7. ASSUME NEW i \in Slots
      PROVE  Steady(slots'[i]) /\ (i # pre.slot => Mirrored(kv', i, slots'[i].cached))
  <2>1. CASE i \in Range(R)
    <3> DEFINE old == slots[i]
               sl == slots'[i]
    <3>1. sl = Failed(old) /\ old = SlotRec(old.start, old.cap, old.cached, old.run)
      BY <1>2, <1>5, <2>1 DEF Sound, Shaped
    <3> HIDE DEF old, sl
    <3>2. sl = SlotRec(old.start, old.cap, <<>>, Idle)
      BY <3>1, SlotForms
    <3>3. sl.run = Idle /\ sl.cached = <<>>
      BY <3>2 DEF SlotRec
    <3> QED
      BY <3>3, NothingMirrored DEF Steady, sl
  <2>2. CASE i \notin Range(R)
    BY <1>2, <1>3, <1>4, <1>6, <2>2 DEF AllSteady
  <2> QED
    BY <2>1, <2>2
<1>8. ASSUME pre # NoPrefill PROVE Mirrored(kv', pre.slot, SubSeq(pre.job.prompt, 1, pre.from))
  <2>1. Mirrored(kv, pre.slot, SubSeq(pre.job.prompt, 1, pre.from))
    BY <1>8 DEF MirrorInv, MirrorAt
  <2>2. pre.slot \notin Fed(B)
    BY <1>4, <1>8, PrefillSpared DEF R
  <2> QED
    BY <1>6, <2>1, <2>2
<1>9. AllSteady(slots')
  BY <1>7 DEF AllSteady
<1> QED
  BY <1>2, <1>6, <1>7, <1>8, <1>9, TickMirrors

(* f is p up to c, with what the chunk from b to c feeds. *)
ChunkOf(f, p, b, c) ==
    /\ Len(f) = c /\ Len(SubSeq(p, b + 1, c)) = c - b
    /\ SubSeq(p, b + 1, c) = SubSeq(f, b + 1, c) /\ SubSeq(p, 1, b) = SubSeq(f, 1, b)

LEMMA ChunkText ==
  ASSUME NEW S, NEW p \in Seq(S), NEW b \in Nat, NEW c \in Nat, b < c, c <= Len(p),
         NEW f, f = SubSeq(p, 1, c)
  PROVE  f \in Seq(S) /\ ChunkOf(f, p, b, c)
<1> DEFINE N == Len(p)
<1>1. f \in Seq(S) /\ Len(f) = c /\ \A j \in 0 .. c : SubSeq(f, 1, j) = SubSeq(p, 1, j)
  BY PrefixOf
<1>2. N \in Nat /\ \A i \in 1 .. N : p[i] \in S
  BY LenProperties, ElementOfSeq
<1>3. c <= N
  OBVIOUS
<1> HIDE DEF N
<1>4. 1 \in 1 .. N /\ c \in 1 .. N /\ b + 1 \in 1 .. c - 1 + 1 /\ c \in 1 .. c - 1 + 1 /\ b \in 0 .. c
  BY <1>2, <1>3
<1>5. 1 + (b + 1) - 1 = b + 1 /\ 1 + c - 1 = c
  OBVIOUS
<1>6. SubSeq(f, b + 1, c) = SubSeq(p, 1 + (b + 1) - 1, 1 + c - 1)
  BY <1>4, SubSeqOfSubSeq DEF N
<1>7. Len(SubSeq(p, b + 1, c)) = c - b
  <2>1. b + 1 \in Int /\ c \in Int /\ \A i \in b + 1 .. c : p[i] \in S
    BY <1>2, <1>3
  <2>2. Len(SubSeq(p, b + 1, c)) = IF b + 1 <= c THEN c - (b + 1) + 1 ELSE 0
    BY <2>1, SubSeqProperties
  <2> QED
    BY <2>2
<1> QED
  BY <1>1, <1>4, <1>5, <1>6, <1>7 DEF ChunkOf

LEMMA OneGroup ==
  ASSUME NEW e PROVE Len(<<e>>) = 1 /\ <<e>>[1] = e /\ DOMAIN <<e>> = 1 .. 1
OBVIOUS

(* A chunk ends behind where it starts, inside the prompt. *)
LEMMA ChunkEnds ==
  ASSUME pre.from \in Nat, Len(pre.job.prompt) \in Nat, pre.from < Len(pre.job.prompt)
  PROVE  ChunkEnd \in Nat /\ pre.from < ChunkEnd /\ ChunkEnd <= Len(pre.job.prompt)
<1> DEFINE a == pre.from
           n == Len(pre.job.prompt)
           b == a + NBatch
<1>1. a \in Nat /\ n \in Nat /\ a < n /\ NBatch \in Nat
  BY EngineAssumption
<1>2. ChunkEnd = IF NBatch = 0 THEN n ELSE Min({b, n})
  BY DEF ChunkEnd
<1> HIDE DEF a, n
<1>3. b \in Nat /\ (NBatch # 0 => a < b)
  BY <1>1
<1> HIDE DEF b
<1>4. Min({b, n}) = IF b <= n THEN b ELSE n
  BY <1>1, <1>3, MinPair
<1>5. ChunkEnd \in Nat /\ a < ChunkEnd /\ ChunkEnd <= n
  BY <1>1, <1>2, <1>3, <1>4
<1> QED
  BY <1>5 DEF a, n

(* The next chunk feeds the prompt up to its end, from the rows computed so *)
(* far, into cells the slot has.                                            *)
LEMMA ChunkFeeds ==
  ASSUME EngineInv, MirrorInv, pre # NoPrefill, NEW f, f = SubSeq(pre.job.prompt, 1, ChunkEnd)
  PROVE  /\ Feeding(kv, Chunk, <<f>>) /\ Fed(Chunk) = {pre.slot} /\ Len(Chunk) = 1
         /\ FillBatchInputs(kv, Chunk).ok
<1> DEFINE x == pre.job.prompt
           a == pre.from
           c == ChunkEnd
           s == pre.slot
           e == [seq |-> s, pos |-> a, vals |-> SubSeq(x, a + 1, c)]
<1>1. /\ s \in Slots /\ pre.job \in Jobs /\ Len(x) <= slots[s].cap /\ Sound(kv, slots)
  BY DEF EngineInv, PreOk
<1>2. x \in Seq(Tokens) /\ Len(x) \in Nat \ {0}
  BY <1>1, JobsOk
<1>3. Plain(kv) /\ a \in Nat /\ a < Len(x) /\ Mirrored(kv, s, SubSeq(x, 1, a))
  BY DEF MirrorInv, MirrorAt
<1>4. c \in Nat /\ a < c /\ c <= Len(x)
  BY <1>2, <1>3, ChunkEnds
<1>5. s \in Live(kv) /\ slots[s].cap <= kv.seqs[s].cap /\ slots[s].cap \in Nat /\ kv.seqs[s].cap \in Nat
  <2>1. Backs(kv, s, slots[s]) /\ slots[s].cap \in Nat /\ Table(kv)
    BY <1>1 DEF Sound, Shaped
  <2>2. slots[s].cap > 0
    BY <1>1, <1>2, <2>1
  <2>3. s \in Live(kv) /\ slots[s].cap <= kv.seqs[s].cap
    BY <2>1, <2>2 DEF Backs
  <2> QED
    BY <2>1, <2>3 DEF Table, HasSlot
<1>6. Chunk = <<e>>
  BY DEF Chunk
<1>7. f = SubSeq(x, 1, c)
  OBVIOUS
<1> HIDE DEF x, a, c, s
<1>8. /\ f \in Seq(Tokens) /\ Len(f) = c
      /\ SubSeq(x, a + 1, c) = SubSeq(f, a + 1, c) /\ SubSeq(x, 1, a) = SubSeq(f, 1, a)
      /\ Len(SubSeq(x, a + 1, c)) = c - a
  <2> HIDE DEF e
  <2>1. x \in Seq(Tokens) /\ a \in Nat /\ c \in Nat /\ a < c /\ c <= Len(x)
    BY <1>2, <1>3, <1>4
  <2>2. f \in Seq(Tokens) /\ ChunkOf(f, x, a, c)
    BY <1>7, <2>1, ChunkText
  <2> QED
    BY <2>2 DEF ChunkOf
<1>9. /\ e = [seq |-> e.seq, pos |-> e.pos, vals |-> e.vals]
      /\ e.seq = s /\ e.pos = a /\ e.vals = SubSeq(f, a + 1, c)
  BY <1>8
<1>10. Len(e.vals) = c - a
  BY <1>8, <1>9
<1>11. f \in Seq(Tokens)
  BY <1>8
<1> HIDE DEF e
<1>12. Feeds(kv, e, f)
  <2>1. e.pos \in Nat /\ e.pos < Len(f) /\ e.vals = SubSeq(f, e.pos + 1, Len(f))
    BY <1>3, <1>4, <1>8, <1>9
  <2>2. e.seq \in Slots /\ Mirrored(kv, e.seq, SubSeq(f, 1, e.pos))
    BY <1>1, <1>3, <1>8, <1>9
  <2>3. e = [seq |-> e.seq, pos |-> e.pos, vals |-> e.vals]
    BY <1>9
  <2> QED
    BY <1>11, <2>1, <2>2, <2>3 DEF Feeds
<1>13. Len(<<e>>) = 1 /\ <<e>>[1] = e /\ <<f>>[1] = f /\ DOMAIN <<e>> = 1 .. 1
  BY OneGroup
<1>14. Feeding(kv, Chunk, <<f>>)
  <2>1. \A i \in 1 .. 1 : i = 1
    OBVIOUS
  <2> QED
    BY <1>5, <1>6, <1>9, <1>12, <1>13, <2>1 DEF Feeding
<1>15. Fed(Chunk) = {s}
  <2>1. \A i : i \in 1 .. 1 <=> i = 1
    OBVIOUS
  <2> QED
    BY <1>6, <1>9, <1>13, <2>1 DEF Fed
<1>16. Len(Chunk) = 1 /\ Chunk[1] = e
  BY <1>6, <1>13
<1>17. e.pos + Len(e.vals) <= kv.seqs[e.seq].cap /\ Len(e.vals) \in Nat
  <2> DEFINE u == kv.seqs[s].cap
             v == slots[s].cap
             l == Len(x)
             w == Len(e.vals)
  <2>1. u \in Nat /\ v \in Nat /\ v <= u /\ l \in Nat /\ l <= v
    BY <1>1, <1>2, <1>5 DEF x, s
  <2>2. c <= l /\ w = c - a
    BY <1>4, <1>10
  <2> HIDE DEF u, v, l, w
  <2>3. a + w <= u /\ w \in Nat
    BY <1>3, <1>4, <2>1, <2>2
  <2> QED
    BY <1>9, <2>3 DEF u, w
<1>18. FillBatchInputs(kv, Chunk).ok
  <2>1. /\ Chunk[1].pos + Len(Chunk[1].vals) <= kv.seqs[Chunk[1].seq].cap
        /\ Len(Chunk[1].vals) \in Nat
    BY <1>16, <1>17
  <2> QED
    BY <1>3, <1>14, <1>16, <2>1, FillsAlone
<1> QED
  BY <1>14, <1>15, <1>16, <1>18 DEF s

LEMMA PrefillChunkMirror == ASSUME EngineInv, MirrorInv, PrefillChunk PROVE MirrorInv'
<1> DEFINE idx == pre.slot
           job == pre.job
           c == ChunkEnd
           f == SubSeq(job.prompt, 1, c)
           F == <<f>>
           B == Chunk
           filled == FillBatchInputs(kv, B)
           sl == Hosting(slots[idx], job.prompt, Run(job))
<1>1. /\ pre # NoPrefill /\ kv' = Stored(B, filled, {1})
      /\ \/ slots' = Installed(slots, idx, job) /\ pre' = NoPrefill /\ c = Len(job.prompt)
         \/ /\ pre' = [pre EXCEPT !.from = c, !.tick = HasPendingDecode]
            /\ slots' = slots /\ c # Len(job.prompt)
  BY DEF PrefillChunk
<1>2. /\ pre = [slot |-> pre.slot, job |-> pre.job, from |-> pre.from, tick |-> pre.tick]
      /\ idx \in Slots /\ job \in Jobs /\ slots[idx].run = Idle
      /\ Sound(kv, slots)
  BY <1>1 DEF EngineInv, PreOk
<1>3. job.prompt \in Seq(Tokens) /\ Len(job.prompt) \in Nat
  BY <1>2, JobsOk
<1>4. c \in Nat /\ c <= Len(job.prompt)
  <2>1. pre.from \in Nat /\ pre.from < Len(pre.job.prompt)
    BY <1>1 DEF MirrorInv, MirrorAt
  <2> QED
    BY <1>3, <2>1, ChunkEnds
<1>5. /\ Plain(kv) /\ AllSteady(slots)
      /\ \A i \in Slots \ {idx} : Mirrored(kv, i, slots[i].cached)
  BY DEF MirrorInv, MirrorAt
<1>6. Feeding(kv, B, F) /\ Fed(B) = {idx} /\ Len(B) = 1 /\ filled.ok
  BY <1>1, ChunkFeeds
<1>7. F[1] = f
  BY OneGroup
<1> HIDE DEF idx, job, c, f, F, B
<1>8. Forwards(kv, kv', B, F, {1})
  <2>1. {1} \in SUBSET (1 .. Len(B))
    BY <1>6
  <2> QED
    BY <1>1, <1>5, <1>6, <2>1, StoredRows
<1>9. Plain(kv') /\ Mirrored(kv', idx, f)
  <2>1. B[1].seq = idx
    BY <1>6 DEF Fed
  <2> QED
    BY <1>7, <1>8, <2>1 DEF Forwards
<1>10. \A i \in Slots \ {idx} : Mirrored(kv', i, slots[i].cached)
  BY <1>5, <1>6, <1>8, ForwardSpares
<1>11. CASE /\ pre' = [pre EXCEPT !.from = c, !.tick = HasPendingDecode]
            /\ slots' = slots /\ c # Len(job.prompt)
  <2> DEFINE b == HasPendingDecode
  <2>1. pre' = [pre EXCEPT !.from = c, !.tick = b]
    BY <1>11
  <2> HIDE DEF b
  <2>2. pre'.slot = idx /\ pre'.job = job /\ pre'.from = c
    BY <1>2, <2>1 DEF idx, job
  <2>3. c < Len(job.prompt)
    BY <1>3, <1>4, <1>11
  <2>4. Mirrored(kv', idx, SubSeq(job.prompt, 1, c))
    BY <1>9 DEF f
  <2> QED
    BY <1>4, <1>5, <1>9, <1>10, <1>11, <2>2, <2>3, <2>4 DEF MirrorInv, MirrorAt
<1>12. CASE slots' = Installed(slots, idx, job) /\ pre' = NoPrefill /\ c = Len(job.prompt)
  <2> DEFINE ss == slots
             tt == slots'
  <2>1. ss = [i \in Slots |-> ss[i]] /\ Shaped(ss[idx]) /\ idx \in Slots
    BY <1>2 DEF Sound
  <2>2. tt = [ss EXCEPT ![idx] = sl]
    BY <1>12, <2>1 DEF Installed, Hosting
  <2>3. sl.cached = job.prompt /\ Steady(sl)
    BY <1>2, <2>1, HostedSteady
  <2>4. f = job.prompt
    BY <1>3, <1>12, SubSeqFull DEF f
  <2> HIDE DEF sl, ss, tt
  <2>5. tt[idx] = sl /\ \A i \in Slots \ {idx} : tt[i] = ss[i]
    BY <2>1, <2>2, OneSlot
  <2>6. \A i \in Slots : Mirrored(kv', i, tt[i].cached)
    BY <1>9, <1>10, <2>3, <2>4, <2>5 DEF ss
  <2>7. AllSteady(tt)
    BY <1>5, <2>3, <2>5 DEF AllSteady, ss
  <2>8. MirrorAt(kv', tt, NoPrefill)
    BY <1>9, <2>6, <2>7, Unprefilled DEF Rooted
  <2> QED
    BY <1>12, <2>8 DEF MirrorInv, tt
<1> QED
  BY <1>1, <1>11, <1>12

(* A chunk always fits the cells its slot was given, so a prefill fails     *)
(* only where the forward itself does.                                      *)
LEMMA PrefillFailsMirror ==
  ASSUME "prefill" \notin Faults, EngineInv, MirrorInv, PrefillFails PROVE MirrorInv'
<1>1. pre # NoPrefill /\ ~FillBatchInputs(kv, Chunk).ok
  BY DEF PrefillFails
<1>2. FillBatchInputs(kv, Chunk).ok
  BY <1>1, ChunkFeeds
<1> QED
  BY <1>1, <1>2

LEMMA SubmitOnMirror == ASSUME ~Gathers, EngineInv, MirrorInv, SubmitOn PROVE MirrorInv'
<1> DEFINE p == Head(todo)
           nt == Len(p.job.prompt)
           was == [kv |-> kv, slots |-> slots]
           wanted == WantedCells(nt, p.job.max, slots[p.slot].cap)
           sized == EnsureSlotCapacity(was, p.slot, wanted)
           st == StartFrom(sized, p.slot, p.job.prompt)
<1>1. /\ pre = NoPrefill /\ todo # <<>>
      /\ \/ kv' = sized.kv /\ slots' = sized.slots /\ pre' = pre
         \/ /\ kv' = st.kv /\ slots' = st.slots
            /\ pre' = [slot |-> p.slot, job |-> p.job, from |-> st.from, tick |-> FALSE]
  BY DEF SubmitOn
<1>2. Sound(kv, slots) /\ Waiting(todo, slots)
  BY DEF EngineInv
<1>3. p \in Placement /\ slots[p.slot].run = Idle
  BY <1>1, <1>2, TailWaits
<1>4. Rooted(kv, slots) /\ AllSteady(slots)
  BY <1>1, Unprefilled DEF MirrorInv
<1> HIDE DEF p
<1>5. /\ p.slot \in Slots /\ p.job \in Jobs /\ nt \in Nat \ {0} /\ p.job.max \in MaxTokens
      /\ p.job.prompt \in Seq(Tokens)
  BY <1>3, JobsOk DEF Placement
<1>6. wanted \in Nat
  <2>1. slots[p.slot].cap \in Nat
    BY <1>2, <1>5 DEF Sound, Shaped
  <2> HIDE DEF nt
  <2> QED
    BY <1>5, <2>1, WantedIsNat
<1>7. was.kv = kv /\ was.slots = slots
  OBVIOUS
<1> HIDE DEF was, wanted
<1>8. /\ Around(kv, slots, sized.kv, sized.slots, p.slot) /\ Rooted(sized.kv, sized.slots)
  <2>1. /\ Sound(was.kv, was.slots) /\ was.slots[p.slot].run = Idle /\ Rooted(was.kv, was.slots)
    BY <1>2, <1>3, <1>4, <1>7
  <2>2. Around(was.kv, was.slots, sized.kv, sized.slots, p.slot)
    BY <1>5, <1>6, <2>1, EnsureAround
  <2>3. Rooted(sized.kv, sized.slots)
    BY <1>5, <1>6, <2>1, EnsureRoots
  <2> QED
    BY <1>7, <2>2, <2>3
<1> HIDE DEF sized
<1>9. Sound(sized.kv, sized.slots) /\ sized.slots[p.slot].run = Idle
  BY <1>3, <1>5, <1>8 DEF Around
<1>10. /\ Around(sized.kv, sized.slots, st.kv, st.slots, p.slot)
       /\ Starts(sized.kv, st, p.slot, p.job.prompt)
  <2> DEFINE x == p.job.prompt
  <2>1. x \in Seq(Tokens) /\ Len(x) \in Nat \ {0}
    BY <1>5
  <2> HIDE DEF x
  <2>2. Around(sized.kv, sized.slots, st.kv, st.slots, p.slot)
    BY <1>5, <1>9, StartAround
  <2>3. Starts(sized.kv, st, p.slot, x)
    <3>1. st = StartFrom(sized, p.slot, x)
      BY DEF x
    <3> HIDE DEF st
    <3> QED
      BY <1>5, <1>8, <1>9, <2>1, <3>1, StartRoots
  <2> QED
    BY <2>2, <2>3 DEF x
<1> HIDE DEF st
<1>11. Around(kv, slots, st.kv, st.slots, p.slot)
  BY <1>8, <1>10, AroundChain
<1>12. ASSUME NEW k, NEW tt, Around(kv, slots, k, tt, p.slot) PROVE AllSteady(tt)
  <2>1. OthersKeep(slots, tt)
    BY <1>3, <1>5, <1>12, AroundUntouched
  <2> QED
    BY <1>4, <2>1, SteadyKept
<1>13. CASE kv' = sized.kv /\ slots' = sized.slots /\ pre' = pre
  <2>1. AllSteady(slots') /\ Rooted(kv', slots')
    BY <1>8, <1>12, <1>13
  <2> QED
    BY <1>1, <1>13, <2>1, Unprefilled DEF MirrorInv
<1>14. CASE /\ kv' = st.kv /\ slots' = st.slots
            /\ pre' = [slot |-> p.slot, job |-> p.job, from |-> st.from, tick |-> FALSE]
  <2>1. pre'.slot = p.slot /\ pre'.job = p.job /\ pre'.from = st.from
    BY <1>14
  <2>2. AllSteady(slots')
    BY <1>11, <1>12, <1>14
  <2>3. /\ Rooted(kv', slots') /\ st.from \in Nat /\ st.from < Len(p.job.prompt)
        /\ Mirrored(kv', p.slot, SubSeq(p.job.prompt, 1, st.from))
    BY <1>10, <1>14 DEF Starts
  <2> QED
    BY <2>1, <2>2, <2>3 DEF MirrorInv, MirrorAt, Rooted
<1> QED
  BY <1>1, <1>13, <1>14

(* The prompts of a group of jobs. *)
PromptsOf(placed) == [n \in 1 .. Len(placed) |-> placed[n].job.prompt]

(* The forward of a prepared group feeds every prompt of it. *)
LEMMA GroupFeeds ==
  ASSUME NEW prep, prep.ok, NEW placed, NEW ss, Waiting(placed, ss), Len(placed) > 1,
         PreparedTo(prep, placed, Len(placed), ss), PreparedRows(prep, placed, Len(placed))
  PROVE  /\ Feeding(prep.kv, prep.batch, PromptsOf(placed)) /\ Len(prep.batch) = Len(placed)
         /\ Fed(prep.batch) = {placed[n].slot : n \in 1 .. Len(placed)}
         /\ \A n \in 1 .. Len(placed) : prep.batch[n].seq = placed[n].slot
<1> DEFINE N == Len(placed)
           B == prep.batch
           F == PromptsOf(placed)
           P(n) == placed[n].slot
<1>1. N \in Nat /\ N > 1 /\ \A m, n \in 1 .. N : m # n => P(m) # P(n)
  BY DEF Waiting
<1>2. /\ \E S : B \in Seq(S)
      /\ Len(B) = N /\ \A n \in 1 .. N : B[n].seq = P(n)
  BY DEF PreparedTo
<1>3. \A n \in 1 .. N : Feeds(prep.kv, B[n], placed[n].job.prompt)
  BY DEF PreparedRows
<1>4. \A n \in 1 .. N : F[n] = placed[n].job.prompt
  BY DEF PromptsOf
<1>5. DOMAIN B = 1 .. Len(B)
  BY <1>2, LenProperties
<1> HIDE DEF N, B, F, P
<1>6. \A n \in 1 .. N : Feeds(prep.kv, B[n], F[n])
  BY <1>3, <1>4
<1>7. N # 1
  BY <1>1
<1>8. \A m, n \in 1 .. N : m # n => B[m].seq # B[n].seq
  BY <1>1, <1>2
<1>9. Feeding(prep.kv, B, F)
  BY <1>1, <1>2, <1>5, <1>6, <1>7, <1>8 DEF Feeding
<1>10. Fed(B) = {P(n) : n \in 1 .. N}
  BY <1>2 DEF Fed
<1> QED
  BY <1>2, <1>9, <1>10 DEF N, B, F, P

(* The slots of a group after its forward: the new runs have the rows of    *)
(* their prompts, the other slots what they had.                            *)
LEMMA GroupRoots ==
  ASSUME NEW ss, AllSteady(ss), NEW placed, Waiting(placed, ss), Len(placed) > 1, NEW prep, prep.ok,
         PreparedTo(prep, placed, Len(placed), ss), PreparedRows(prep, placed, Len(placed)),
         NEW filled, filled = FillBatchInputs(prep.kv, prep.batch), filled.ok,
         NEW m, m = Stored(prep.batch, filled, DOMAIN prep.batch),
         NEW tt, tt = InstallLoop!Fold(0, prep.slots, placed)
  PROVE  Rooted(m, tt) /\ AllSteady(tt)
<1> DEFINE uu == prep.slots
           k == prep.kv
           B == prep.batch
           F == PromptsOf(placed)
           N == Len(placed)
<1>1. /\ Sound(k, uu) /\ uu = [i \in Slots |-> uu[i]] /\ OthersKeep(ss, uu) /\ Rooted(k, uu)
  BY DEF PreparedTo, PreparedRows, Sound
<1>2. AllSteady(uu)
  BY <1>1, SteadyKept
<1>3. /\ Feeding(k, B, F) /\ Len(B) = N /\ Fed(B) = {placed[n].slot : n \in 1 .. N}
      /\ \A n \in 1 .. N : B[n].seq = placed[n].slot
  BY GroupFeeds, ZenonT(60)
<1>4. \A n \in 1 .. N : placed[n].slot \in Slots /\ placed[n].job \in Jobs
  <2>1. \A n \in 1 .. N : placed[n] \in Placement
    BY ElementOfSeq DEF Waiting
  <2> QED
    BY <2>1 DEF Placement
<1>5. \A n \in 1 .. N : F[n] = placed[n].job.prompt
  BY DEF PromptsOf
<1> HIDE DEF uu, k, B, F
<1>6. /\ \A n \in 1 .. N : Hosts(uu, tt, placed[n])
      /\ \A i \in Slots : (\A n \in 1 .. N : placed[n].slot # i) => tt[i] = uu[i]
  <2>1. tt = InstallLoop!Fold(0, uu, placed)
    BY DEF uu
  <2> QED
    BY <1>1, <2>1, InstallHosts
<1>7. Forwards(k, m, B, F, 1 .. N)
  <2>1. /\ filled = FillBatchInputs(k, B) /\ m = Stored(B, filled, 1 .. Len(B))
        /\ 1 .. Len(B) \in SUBSET (1 .. Len(B)) /\ Plain(k)
    BY <1>1, <1>3 DEF Feeding, k, B, Rooted
  <2>2. Forwards(k, m, B, F, 1 .. Len(B))
    BY <1>3, <2>1, StoredRows
  <2> QED
    BY <1>3, <2>2
<1> HIDE DEF N
<1>8. ASSUME NEW i \in Slots PROVE Mirrored(m, i, tt[i].cached) /\ Steady(tt[i])
  <2>1. Shaped(uu[i]) /\ Mirrored(k, i, uu[i].cached) /\ Steady(uu[i]) /\ Plain(k)
    BY <1>1, <1>2 DEF Sound, Rooted, AllSteady
  <2>2. CASE \A n \in 1 .. N : placed[n].slot # i
    <3>1. tt[i] = uu[i] /\ i \notin Fed(B)
      BY <1>3, <1>6, <2>2
    <3>2. Mirrored(m, i, uu[i].cached)
      BY <1>7, <2>1, <3>1, ForwardSpares
    <3> QED
      BY <2>1, <3>1, <3>2
  <2>3. ASSUME NEW n \in 1 .. N, placed[n].slot = i
        PROVE  Mirrored(m, i, tt[i].cached) /\ Steady(tt[i])
    <3> DEFINE job == placed[n].job
    <3>1. /\ tt[i] = Hosting(uu[i], job.prompt, Run(job)) /\ job \in Jobs
          /\ B[n].seq = i /\ F[n] = job.prompt
      BY <1>3, <1>4, <1>5, <1>6, <2>3 DEF Hosts
    <3> HIDE DEF job
    <3>2. tt[i].cached = job.prompt /\ Steady(tt[i])
      BY <2>1, <3>1, HostedSteady
    <3>3. Mirrored(m, B[n].seq, F[n])
      BY <1>7 DEF Forwards
    <3> QED
      BY <3>1, <3>2, <3>3
  <2> QED
    BY <2>2, <2>3
<1> QED
  BY <1>7, <1>8 DEF Rooted, AllSteady, Forwards

LEMMA AdmitMirror ==
  ASSUME ~Gathers, "prefill" \notin Faults, EngineInv, MirrorInv, Admit
  PROVE  MirrorInv'
<1>1. PICK js \in Arrivals : /\ MayAdmit(js)
                             /\ \E placed \in {Place(js)} :
                                   AdmitEach(placed) \/ AdmitGroup(placed) \/ AdmitGroupFails(placed)
  BY DEF Admit
<1> DEFINE placed == Place(js)
<1>2. AdmitEach(placed) \/ AdmitGroup(placed) \/ AdmitGroupFails(placed)
  BY <1>1
<1>3. pre = NoPrefill
  BY <1>1 DEF MayAdmit
<1>4. Waiting(placed, slots)
  BY <1>1, PlacedWaits
<1> HIDE DEF placed
<1>5. Sound(kv, slots)
  BY DEF EngineInv
<1>6. Rooted(kv, slots) /\ AllSteady(slots)
  BY <1>3, Unprefilled DEF MirrorInv
<1>7. CASE AdmitEach(placed)
  BY <1>7 DEF AdmitEach, MirrorInv
<1> DEFINE prep == Prepared(placed)
           filled == FillBatchInputs(prep.kv, prep.batch)
<1>8. PreparedTo(prep, placed, Len(placed), slots) /\ PreparedRows(prep, placed, Len(placed))
  <2>1. prep = Through(Prepare, [ok |-> TRUE, kv |-> kv, slots |-> slots, batch |-> <<>>], placed)
    BY DEF Prepared
  <2> HIDE DEF prep
  <2> QED
    BY <1>4, <1>5, <1>6, <2>1, PreparedRoots
<1>9. ASSUME Grouped(placed) PROVE Len(placed) > 1
  BY <1>9 DEF Grouped
<1>10. CASE AdmitGroup(placed)
  <2>1. /\ Grouped(placed) /\ prep.ok /\ filled.ok
        /\ kv' = Stored(prep.batch, filled, DOMAIN prep.batch)
        /\ pre' = pre
    BY <1>10 DEF AdmitGroup
  <2>2. slots' = InstallLoop!Fold(0, prep.slots, placed)
    <3>1. slots' = Through(LAMBDA ss, p : Installed(ss, p.slot, p.job), prep.slots, placed)
      BY <1>10 DEF AdmitGroup
    <3> QED
      BY <3>1, InstallFold
  <2> HIDE DEF prep
  <2>3. Rooted(kv', slots') /\ AllSteady(slots')
    BY <1>4, <1>6, <1>8, <1>9, <2>1, <2>2, GroupRoots
  <2> QED
    BY <1>3, <2>1, <2>3, Unprefilled DEF MirrorInv
<1>11. CASE AdmitGroupFails(placed)
  <2>1. /\ slots' = prep.slots /\ pre' = pre /\ Grouped(placed)
        /\ \/ kv' = prep.kv
           \/ prep.ok /\ ~filled.ok /\ \E done : kv' = Stored(prep.batch, filled, done)
    BY <1>11 DEF AdmitGroupFails
  <2> HIDE DEF prep
  <2>2. Rooted(prep.kv, prep.slots) /\ OthersKeep(slots, prep.slots)
    BY <1>8 DEF PreparedRows, PreparedTo
  <2>3. AllSteady(slots')
    BY <1>6, <2>1, <2>2, SteadyKept
  <2>4. Rooted(kv', slots')
    <3>1. CASE kv' = prep.kv
      BY <2>1, <2>2, <3>1
    <3>2. CASE prep.ok /\ ~filled.ok /\ \E done : kv' = Stored(prep.batch, filled, done)
      <4>1. kv' = filled.kv
        BY <3>2 DEF Stored
      <4>2. Feeding(prep.kv, prep.batch, PromptsOf(placed))
        BY <1>4, <1>8, <1>9, <2>1, <3>2, GroupFeeds
      <4>3. Plain(prep.kv)
        BY <2>2 DEF Rooted
      <4>4. Owned(Seq(Tokens), prep.kv, filled.kv, prep.batch)
        BY <4>2, <4>3, FillRows
      <4> HIDE DEF filled
      <4>5. Plain(filled.kv) /\ \A i, c : Mirrored(prep.kv, i, c) => Mirrored(filled.kv, i, c)
        BY <4>3, <4>4, OwnedMirror
      <4> QED
        BY <2>1, <2>2, <4>1, <4>5 DEF Rooted
    <3> QED
      BY <2>1, <3>1, <3>2
  <2> QED
    BY <1>3, <2>1, <2>3, <2>4, Unprefilled DEF MirrorInv
<1> QED
  BY <1>2, <1>7, <1>10, <1>11

(* The arena cut into equal runs: they are not empty, lie inside it and do  *)
(* not overlap.                                                             *)
LEMMA TimesGrows ==
  ASSUME NEW a \in Nat, NEW b \in Nat, NEW c \in Nat, a <= b
  PROVE  a * c <= b * c /\ a * c \in Nat
<1> DEFINE d == b - a
<1>1. d \in Nat /\ b = a + d
  OBVIOUS
<1> HIDE DEF d
<1>2. d * c \in Nat /\ a * c \in Nat
  BY <1>1
<1>3. (a + d) * c = a * c + d * c
  BY <1>1
<1> QED
  BY <1>1, <1>2, <1>3

LEMMA EqualRuns ==
  ASSUME NEW N \in Nat, NEW M \in 1 .. N, NEW cap, cap = N \div M
  PROVE  /\ cap \in 1 .. N
         /\ \A i \in 1 .. M : (i - 1) * cap \in Nat /\ (i - 1) * cap + cap <= N
         /\ \A i, j \in 1 .. M : i < j => (i - 1) * cap + cap <= (j - 1) * cap
<1>1. cap \in Nat /\ M * cap <= N /\ cap >= 1 /\ cap <= N
  <2>1. cap \in Nat
    OBVIOUS
  <2>2. M * cap <= N
    OBVIOUS
  <2>3. cap >= 1
    OBVIOUS
  <2>4. 1 * cap <= M * cap
    BY <2>1, TimesGrows
  <2>5. 1 * cap = cap
    BY <2>1
  <2> QED
    BY <2>1, <2>2, <2>3, <2>4, <2>5
<1>2. ASSUME NEW i \in 1 .. M
      PROVE  (i - 1) * cap \in Nat /\ (i - 1) * cap + cap = i * cap
  <2> DEFINE h == i - 1
  <2>1. h \in Nat /\ i = h + 1
    OBVIOUS
  <2> HIDE DEF h
  <2>2. h * cap \in Nat /\ (h + 1) * cap = h * cap + cap
    BY <1>1, <2>1
  <2> QED
    BY <2>1, <2>2 DEF h
<1>3. ASSUME NEW i \in 1 .. M PROVE (i - 1) * cap \in Nat /\ (i - 1) * cap + cap <= N
  <2>1. i * cap <= M * cap /\ i * cap \in Nat
    BY <1>1, TimesGrows
  <2>2. (i - 1) * cap \in Nat /\ (i - 1) * cap + cap = i * cap
    BY <1>2
  <2> DEFINE u == (i - 1) * cap
             v == i * cap
             w == M * cap
  <2>3. u \in Nat /\ u + cap = v /\ v <= w /\ v \in Nat /\ w <= N
    BY <1>1, <2>1, <2>2
  <2>4. w \in Nat
    BY <1>1
  <2> HIDE DEF u, v, w
  <2>5. u + cap <= N
    BY <1>1, <2>3, <2>4
  <2> QED
    BY <2>3, <2>5 DEF u
<1>4. ASSUME NEW i \in 1 .. M, NEW j \in 1 .. M, i < j
      PROVE  (i - 1) * cap + cap <= (j - 1) * cap
  <2>1. i \in Nat /\ j - 1 \in Nat /\ i <= j - 1
    BY <1>4
  <2>2. i * cap <= (j - 1) * cap
    BY <1>1, <2>1, TimesGrows
  <2>3. (i - 1) * cap + cap = i * cap
    BY <1>2
  <2> QED
    BY <2>2, <2>3
<1>5. cap \in 1 .. N
  BY <1>1
<1> QED
  BY <1>3, <1>4, <1>5

(* BatchEngine::new: a good store with nothing in it. *)
LEMMA InitMirror == Init => MirrorInv
<1> SUFFICES ASSUME Init PROVE MirrorInv
  OBVIOUS
<1> DEFINE M == Cardinality(Slots)
           cap == NCtx \div M
           run(i) == (i - 1) * cap
           T == [i \in Slots |-> SeqSlot(run(i), cap)]
           O == [c \in Cells |-> Free]
           D == [c \in Cells |-> NoRow]
<1>1. M \in 1 .. NCtx /\ NCtx \in Nat /\ Slots = 1 .. M /\ Slots \subseteq SeqIds
  BY NCtxAssumption, EngineAssumption DEF Slots
<1>2. /\ kv = [EmptyStore EXCEPT !.seqs = T] /\ pre = NoPrefill
      /\ slots = [i \in Slots |-> [start |-> run(i), cap |-> cap, cached |-> <<>>, run |-> Idle]]
  BY DEF Init
<1> HIDE DEF M
<1>3. /\ cap \in 1 .. NCtx
      /\ \A i \in 1 .. M : run(i) \in Nat /\ run(i) + cap <= NCtx
      /\ \A i, j \in 1 .. M : i < j => run(i) + cap <= run(j)
  <2>1. cap = NCtx \div M
    OBVIOUS
  <2> HIDE DEF cap
  <2> QED
    BY <1>1, <2>1, EqualRuns
<1> HIDE DEF cap, run
<1>4. kv = [seqs |-> T, owner |-> O, data |-> D]
  <2> DEFINE E == [s \in {} |-> SeqSlot(0, 0)]
  <2>1. EmptyStore = [seqs |-> E, owner |-> O, data |-> D]
    BY DEF EmptyStore
  <2> HIDE DEF E, O, D, T
  <2> QED
    BY <1>2, <2>1
<1>5. ASSUME NEW i \in Slots
      PROVE  /\ T[i] \in SeqSlots /\ T[i].start = run(i) /\ T[i].cap = cap
             /\ T[i].shared.rows = 0 /\ T[i].written = 0
  <2> DEFINE a == run(i)
  <2>1. a \in Cells /\ 0 \in Cells
    BY <1>1, <1>3, NCtxAssumption DEF Cells
  <2>2. T[i] = SeqSlot(a, cap)
    OBVIOUS
  <2>3. 0 \in 0 .. 2 * NCtx /\ 0 \in 0 .. NCtx
    BY <1>1
  <2> HIDE DEF a, T
  <2>4. SeqSlot(a, cap) \in SeqSlots
    BY <1>3, <2>1, <2>3 DEF SeqSlot, SeqSlots
  <2>5. /\ T[i].start = a /\ T[i].cap = cap /\ T[i].shared.rows = 0 /\ T[i].written = 0
    BY <2>2 DEF SeqSlot
  <2> QED
    BY <2>2, <2>4, <2>5 DEF a
<1>6. DOMAIN T = Slots /\ T = [i \in Slots |-> T[i]]
  OBVIOUS
<1>7. O \in [Cells -> SeqIds \cup {Free}] /\ D \in [Cells -> Seq(Tokens)]
  BY EngineAssumption, EmptySeq
<1>8. \A c \in Cells : O[c] = Free
  OBVIOUS
<1> HIDE DEF T, O, D
<1>9. kv.seqs = T /\ kv.owner = O /\ kv.data = D /\ Live(kv) = Slots
  BY <1>4, <1>6 DEF Live
<1>10. IsStore(kv, Seq(Tokens))
  <2>1. T \in [Slots -> SeqSlots]
    BY <1>5, <1>6
  <2>2. IsTable(kv)
    BY <1>1, <1>9, <2>1 DEF IsTable
  <2>3. kv = [seqs |-> kv.seqs, owner |-> kv.owner, data |-> kv.data]
    BY <1>4
  <2> QED
    BY <1>7, <1>9, <2>2, <2>3 DEF IsStore
<1>11. Separate(kv)
  <2>1. \A s \in Slots : run(s) \in Nat /\ run(s) + cap <= NCtx
    BY <1>1, <1>3
  <2>2. \A s, t \in Slots : s # t => s < t \/ t < s
    BY <1>1
  <2>3. \A s, t \in Slots : s < t => run(s) + cap <= run(t)
    BY <1>1, <1>3
  <2>4. \A s, t \in Slots : s < t => run(s) < run(t)
    BY <1>1, <1>3, <2>1, <2>3
  <2>5. \A s, t \in Slots : s # t => run(s) # run(t)
    BY <2>1, <2>2, <2>4
  <2>6. ASSUME NEW s \in Slots, NEW t \in Slots, run(s) < run(t) PROVE run(s) + cap <= run(t)
    <3>1. s < t
      <4>1. s # t
        BY <2>1, <2>6
      <4>2. ~(t < s)
        BY <2>1, <2>4, <2>6
      <4> QED
        BY <2>2, <4>1, <4>2
    <3> QED
      BY <2>3, <3>1
  <2> QED
    BY <1>5, <1>9, <2>1, <2>5, <2>6 DEF Separate
<1>12. Fits(kv)
  BY <1>3, <1>5, <1>9 DEF Fits
<1>13. Stamped(kv)
  BY <1>8, <1>9 DEF Stamped
<1>14. Lent(kv) /\ NoLoans(kv)
  BY <1>5, <1>9 DEF Lent, NoLoans
<1>15. Plain(kv)
  BY <1>10, <1>11, <1>12, <1>13, <1>14 DEF Plain, Good
<1>16. ASSUME NEW i \in Slots PROVE slots[i].cached = <<>> /\ slots[i].run = Idle
  BY <1>2
<1>17. AllSteady(slots)
  BY <1>16 DEF AllSteady, Steady
<1>18. Rooted(kv, slots)
  BY <1>15, <1>16, NothingMirrored DEF Rooted
<1> QED
  BY <1>2, <1>17, <1>18, Unprefilled DEF MirrorInv

LEMMA NextMirror ==
  ASSUME ~Gathers, "prefill" \notin Faults
  PROVE  EngineInv /\ MirrorInv /\ [Next]_vars => MirrorInv'
<1> SUFFICES ASSUME EngineInv, MirrorInv, [Next]_vars PROVE MirrorInv'
  OBVIOUS
<1>1. CASE UNCHANGED vars
  BY <1>1 DEF vars, MirrorInv
<1>2. CASE Wait
  BY <1>2 DEF Wait, vars, MirrorInv
<1> QED
  BY <1>1, <1>2, AdmitMirror, SubmitOnMirror, PrefillChunkMirror, PrefillFailsMirror, TickMirror,
     TickFailsMirror
     DEF Next, Submit, Step

-----------------------------------------------------------------------------
(* Where prefixes are copied and no prefill forward fails, what admission   *)
(* compares prompts with is what attention reads: every row of a slot that  *)
(* is not in the middle of its own prefill was computed from the token      *)
(* prefix the slot's mirror records, for every number of slots, context     *)
(* size, prompt, chunk and batch size, whatever ensure_slot_capacity        *)
(* reclaims, resizes and compacts, whatever copy_prefix_from takes from     *)
(* another slot, whichever decode step fails.  A prefix read in place can   *)
(* be overwritten under its reader, and a prefill that fails leaves rows    *)
(* its slot's mirror does not know of: both hypotheses are needed.          *)
THEOREM RowsMatchMirror == ~Gathers /\ "prefill" \notin Faults => (Spec => []RowsHoldMirror)
<1> SUFFICES ASSUME ~Gathers, "prefill" \notin Faults PROVE Spec => []RowsHoldMirror
  OBVIOUS
<1>1. Init => EngineInv /\ MirrorInv
  BY InitEngine, InitMirror
<1>2. EngineInv /\ MirrorInv /\ [Next]_vars => (EngineInv /\ MirrorInv)'
  BY NextKeeps, NextMirror DEF Kept
<1>3. MirrorInv => RowsHoldMirror
  <2> SUFFICES ASSUME MirrorInv, NEW i \in Slots, i # pre.slot, NEW n \in 1 .. Len(slots[i].cached)
               PROVE  i \in Live(kv) /\ RowAt(kv, i, n - 1) = SubSeq(slots[i].cached, 1, n)
    BY DEF RowsHoldMirror
  <2> DEFINE c == slots[i].cached
  <2>1. Mirrored(kv, i, c)
    BY DEF MirrorInv, MirrorAt
  <2> HIDE DEF c
  <2>2. c # <<>>
    <3>1. n \in 1 .. Len(c)
      BY DEF c
    <3>2. ASSUME c = <<>> PROVE FALSE
      <4>1. Len(c) = 0
        BY <3>2, EmptySeq
      <4> QED
        BY <3>1, <4>1
    <3> QED
      BY <3>2
  <2> QED
    BY <2>1, <2>2 DEF Mirrored, c
<1> QED
  BY <1>1, <1>2, <1>3, PTL DEF Spec
=============================================================================
