----------------------------- MODULE FoldProofs -----------------------------
(***************************************************************************)
(* Folds from the left, as the models write the loops of the code: what    *)
(* the recursive function of a fold computes, step by step.  Step(c, r, x) *)
(* is the body of the loop on element x, r the result so far and c what    *)
(* the body reads from its surroundings.  A module that proves a fact of a *)
(* loop instantiates Step with the body.                                   *)
(***************************************************************************)
EXTENDS Integers, Sequences, TLAPS, WellFoundedInduction

CONSTANT Step(_, _, _)

The(S) == CHOOSE x \in S : TRUE

Fold(c, base, seq) ==
    LET f[n \in 0 .. Len(seq)] ==
            IF n = 0 THEN base ELSE The({Step(c, r, seq[n]) : r \in {f[n - 1]}})
    IN  f[Len(seq)]

(* Every nonempty set of naturals has a least member. *)
LEMMA LeastNat == ASSUME NEW T \in SUBSET Nat, T # {} PROVE \E m \in T : \A k \in T : m <= k
<1>1. IsWellFoundedOn(OpToRel(<, Nat), Nat)
  BY NatLessThanWellFounded
<1>2. PICK m \in T : \A k \in T : ~(<<k, m>> \in OpToRel(<, Nat))
  BY <1>1, WFMin
<1>3. \A k \in T : ~(k < m)
  BY <1>2 DEF OpToRel
<1> QED
  BY <1>3

(* A set that holds 0 and the successor of each member below N holds 0..N:  *)
(* induction along a loop of N steps.                                       *)
LEMMA Induct ==
  ASSUME NEW N \in Nat, NEW T, 0 \in T, \A n \in 0 .. N - 1 : n \in T => n + 1 \in T
  PROVE  \A n \in 0 .. N : n \in T
<1> DEFINE U == {n \in 0 .. N : n \notin T}
<1> SUFFICES ASSUME U # {} PROVE FALSE
  OBVIOUS
<1>1. U \in SUBSET Nat
  OBVIOUS
<1>2. PICK m \in U : \A k \in U : m <= k
  BY <1>1, LeastNat
<1>3. m # 0 /\ m - 1 \in 0 .. N - 1 /\ m - 1 \notin U
  BY <1>2
<1>4. m - 1 \in T /\ m = (m - 1) + 1
  BY <1>2, <1>3
<1>5. m \in T
  BY <1>3, <1>4
<1> QED
  BY <1>2, <1>5

(* A loop has intermediate results: the first is the base, each next one is *)
(* the body applied to the one before, and the fold is the last of them.    *)
LEMMA FoldUnfolds ==
  ASSUME NEW c, NEW base, NEW seq, Len(seq) \in Nat
  PROVE  \E f : /\ f[0] = base
                /\ \A n \in 1 .. Len(seq) : f[n] = Step(c, f[n - 1], seq[n])
                /\ Fold(c, base, seq) = f[Len(seq)]
<1> DEFINE N == Len(seq)
           Upto(f, m) == /\ f = [n \in 0 .. m |-> f[n]]
                         /\ f[0] = base
                         /\ \A n \in 1 .. m : f[n] = Step(c, f[n - 1], seq[n])
           T == {m \in 0 .. N : \E f : Upto(f, m)}
           IsIt(g) == g = [n \in 0 .. N |->
                              IF n = 0 THEN base ELSE The({Step(c, r, seq[n]) : r \in {g[n - 1]}})]
           it == CHOOSE g : IsIt(g)
<1>1. \A r, n : The({Step(c, q, seq[n]) : q \in {r}}) = Step(c, r, seq[n])
  BY DEF The
<1>2. Fold(c, base, seq) = it[N]
  BY DEF Fold
<1>3. N \in Nat
  OBVIOUS
<1> HIDE DEF N
<1>4. 0 \in T
  <2> DEFINE z == [n \in 0 .. 0 |-> base]
  <2>1. Upto(z, 0)
    OBVIOUS
  <2> HIDE DEF Upto, z
  <2> QED
    BY <1>3, <2>1
<1>5. ASSUME NEW m \in 0 .. N - 1, m \in T PROVE m + 1 \in T
  <2>1. PICK f : Upto(f, m)
    BY <1>5
  <2> DEFINE g == [n \in 0 .. m + 1 |-> IF n = m + 1 THEN Step(c, f[m], seq[m + 1]) ELSE f[n]]
  <2>2. \A n \in 0 .. m : g[n] = f[n]
    OBVIOUS
  <2>3. g[m + 1] = Step(c, f[m], seq[m + 1])
    OBVIOUS
  <2>4. g = [n \in 0 .. m + 1 |-> g[n]]
    OBVIOUS
  <2> HIDE DEF g
  <2>5. g[0] = base
    BY <2>1, <2>2
  <2>6. ASSUME NEW n \in 1 .. m + 1 PROVE g[n] = Step(c, g[n - 1], seq[n])
    <3>1. CASE n = m + 1
      BY <2>2, <2>3, <3>1
    <3>2. CASE n # m + 1
      <4>1. n \in 1 .. m /\ g[n] = f[n] /\ g[n - 1] = f[n - 1]
        BY <2>2, <3>2
      <4> QED
        BY <2>1, <4>1
    <3> QED
      BY <3>1, <3>2
  <2>7. Upto(g, m + 1)
    BY <2>4, <2>5, <2>6
  <2> HIDE DEF Upto
  <2> QED
    BY <1>3, <2>7
<1>6. \A n \in 0 .. N : n \in T
  <2> HIDE DEF T
  <2> QED
    BY <1>3, <1>4, <1>5, Induct
<1>7. PICK f : Upto(f, N)
  BY <1>3, <1>6
<1>8. IsIt(f)
  <2>1. ASSUME NEW n \in 0 .. N
        PROVE f[n] = IF n = 0 THEN base ELSE The({Step(c, r, seq[n]) : r \in {f[n - 1]}})
    <3>1. CASE n = 0
      BY <1>7, <3>1
    <3>2. CASE n # 0
      <4>1. n \in 1 .. N
        BY <1>3, <3>2
      <4>2. f[n] = Step(c, f[n - 1], seq[n])
        BY <1>7, <4>1
      <4> QED
        BY <1>1, <3>2, <4>2
    <3> QED
      BY <3>1, <3>2
  <2>2. f = [n \in 0 .. N |-> f[n]]
    BY <1>7
  <2> QED
    BY <2>1, <2>2
<1> HIDE DEF IsIt
<1>9. IsIt(it)
  BY <1>8
<1> HIDE DEF it
<1>10. it = [n \in 0 .. N |-> IF n = 0 THEN base ELSE The({Step(c, r, seq[n]) : r \in {it[n - 1]}})]
  BY <1>9 DEF IsIt
<1>11. it[0] = base
  BY <1>3, <1>10
<1>12. ASSUME NEW n \in 1 .. N PROVE it[n] = Step(c, it[n - 1], seq[n])
  <2>1. n \in 0 .. N /\ n # 0
    BY <1>3
  <2>2. it[n] = The({Step(c, r, seq[n]) : r \in {it[n - 1]}})
    BY <1>10, <2>1
  <2> QED
    BY <1>1, <2>2
<1> QED
  BY <1>2, <1>11, <1>12 DEF N
=============================================================================
