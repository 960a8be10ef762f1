------------------------- MODULE ConversationProofs -------------------------
(***************************************************************************)
(* The mirror of the CLI conversation: its stream is the rows and spells   *)
(* the messages, for every context, sampled spelling, stop string, drop    *)
(* and crash.                                                              *)
(***************************************************************************)
EXTENDS Conversation, SequenceTheorems, FiniteSetTheorems, TLAPS

(* Characters of a rendered text and tokens of a stream. *)
Chars == {1, 2, 10, 11, 12, 13}
Tok == Chars \cup {Merged}

(* The loop that joins pieces of text. *)
Join(a, b) == a \o b
Glue(x, r, piece) == Join(r, piece)
GlueLoop == INSTANCE FoldProofs WITH Step <- Glue

(* The loop of encode. *)
SpellStep(x, r, ch) == Spelled(r, ch)
SpellLoop == INSTANCE FoldProofs WITH Step <- SpellStep

(* The loop of plan_overflow_drop. *)
DropStep(messages, p, m) == DropOneMore(messages, p)
DropLoop == INSTANCE FoldProofs WITH Step <- DropStep

-----------------------------------------------------------------------------
(* Joining the pieces of a text. *)

(* Induction along a loop of N steps. *)
LEMMA Induct ==
  ASSUME NEW N \in Nat, NEW T, 0 \in T, \A n \in 0 .. N - 1 : n \in T => n + 1 \in T
  PROVE  \A n \in 0 .. N : n \in T
  BY GlueLoop!Induct

(* The algebra of concatenation. *)
LEMMA JoinFacts ==
  ASSUME NEW S
  PROVE  /\ <<>> \in Seq(S)
         /\ \A a, b \in Seq(S) : Join(a, b) \in Seq(S)
         /\ \A a \in Seq(S) : Join(<<>>, a) = a /\ Join(a, <<>>) = a
         /\ \A a, b, d \in Seq(S) : Join(Join(a, b), d) = Join(a, Join(b, d))
<1>1. ASSUME NEW a \in Seq(S), NEW b \in Seq(S) PROVE Join(a, b) \in Seq(S)
  BY ConcatProperties DEF Join
<1>2. ASSUME NEW a \in Seq(S) PROVE Join(<<>>, a) = a /\ Join(a, <<>>) = a
  BY ConcatEmptySeq DEF Join
<1>3. ASSUME NEW a \in Seq(S), NEW b \in Seq(S), NEW d \in Seq(S)
      PROVE  Join(Join(a, b), d) = Join(a, Join(b, d))
  BY ConcatAssociative DEF Join
<1>4. <<>> \in Seq(S)
  BY EmptySeq
<1> QED
  BY <1>1, <1>2, <1>3, <1>4

(* The same, of concatenation as it is written. *)
LEMMA JoinIs == \A a, b : Join(a, b) = a \o b
  BY DEF Join

(* What FlattenSeq's recursive function computes, piece by piece. *)
LEMMA FlattenUnfolds ==
  ASSUME NEW S, NEW ss \in Seq(Seq(S))
  PROVE  \E f : /\ f[0] = <<>>
                /\ \A n \in 1 .. Len(ss) : f[n] = Join(f[n - 1], ss[n])
                /\ \A n \in 0 .. Len(ss) : f[n] \in Seq(S)
                /\ FlattenSeq(ss) = f[Len(ss)]
<1> DEFINE N == Len(ss)
           E == <<>>
<1>1. N \in Nat /\ DOMAIN ss = 1 .. N /\ \A n \in 1 .. N : ss[n] \in Seq(S)
  OBVIOUS
<1>2. /\ E \in Seq(S)
      /\ \A a, b \in Seq(S) : Join(a, b) \in Seq(S)
      /\ \A a \in Seq(S) : Join(E, a) = a
  BY JoinFacts
<1> HIDE DEF E
<1>3. PICK f : f[0] = E /\ \A n \in 1 .. N : f[n] = Join(f[n - 1], ss[n])
  <2>1. \E f : /\ f[0] = E
               /\ \A n \in 1 .. Len(ss) : f[n] = Glue(0, f[n - 1], ss[n])
               /\ GlueLoop!Fold(0, E, ss) = f[Len(ss)]
    <3>1. Len(ss) \in Nat
      BY <1>1
    <3> QED
      BY <3>1, GlueLoop!FoldUnfolds, SMTT(60)
  <2> QED
    BY <2>1 DEF Glue
<1>4. \A n \in 0 .. N : f[n] \in Seq(S)
  <2> DEFINE T == {n \in 0 .. N : f[n] \in Seq(S)}
  <2> HIDE DEF N
  <2>1. 0 \in T
    BY <1>2, <1>1, <1>3
  <2>2. ASSUME NEW n \in 0 .. N - 1, n \in T PROVE n + 1 \in T
    <3>1. n + 1 \in 1 .. N /\ f[n + 1] = Join(f[n], ss[n + 1]) /\ ss[n + 1] \in Seq(S)
      BY <1>1, <1>3
    <3>2. f[n] \in Seq(S) /\ n + 1 \in 0 .. N
      BY <1>1, <2>2
    <3>3. f[n + 1] \in Seq(S)
      BY <1>2, <3>1, <3>2
    <3> QED
      BY <3>2, <3>3
  <2>3. \A n \in 0 .. N : n \in T
    <3> HIDE DEF T
    <3> QED
      BY <1>1, <2>1, <2>2, Induct
  <2> QED
    BY <2>3
<1>5. CASE N = 0
  <2>1. FlattenSeq(ss) = ss /\ ss = <<>>
    BY <1>1, <1>5 DEF FlattenSeq
  <2> QED
    BY <1>1, <1>3, <1>4, <1>5, <2>1 DEF E
<1>6. CASE N # 0
  <2> DEFINE Body(g, i) == IF i = 1 THEN ss[i] ELSE Join(g[i - 1], ss[i])
             IsIt(g) == g = [i \in 1 .. N |-> Body(g, i)]
             it == CHOOSE g : IsIt(g)
             h == [i \in 1 .. N |-> f[i]]
  <2>1. FlattenSeq(ss) = it[N]
    BY <1>6 DEF FlattenSeq, Join
  <2> HIDE DEF N
  <2>2. IsIt(h)
    <3>1. ASSUME NEW i \in 1 .. N PROVE f[i] = Body(h, i)
      <4>1. f[i] = Join(f[i - 1], ss[i]) /\ ss[i] \in Seq(S)
        BY <1>1, <1>3
      <4>2. CASE i = 1
        BY <1>2, <1>3, <4>1, <4>2
      <4>3. CASE i # 1
        <5>1. i - 1 \in 1 .. N
          BY <1>1, <4>3
        <5>2. h[i - 1] = f[i - 1]
          BY <5>1
        <5> QED
          BY <4>1, <4>3, <5>2
      <4> QED
        BY <4>2, <4>3
    <3> HIDE DEF Body
    <3> QED
      BY <3>1
  <2> HIDE DEF IsIt
  <2>3. IsIt(it)
    BY <2>2
  <2> HIDE DEF it
  <2>4. \A i \in 1 .. N : it[i] = Body(it, i)
    <3> HIDE DEF Body
    <3> QED
      BY <2>3 DEF IsIt
  <2> DEFINE T == {n \in 0 .. N - 1 : it[n + 1] = f[n + 1]}
  <2>5. 0 \in T
    <3>1. 1 \in 1 .. N
      BY <1>1, <1>6
    <3>2. it[1] = ss[1] /\ f[1] = Join(f[0], ss[1]) /\ ss[1] \in Seq(S)
      BY <1>1, <1>3, <2>4, <3>1
    <3>3. f[1] = ss[1]
      BY <1>2, <1>3, <3>2
    <3> QED
      BY <1>1, <1>6, <3>2, <3>3
  <2>6. ASSUME NEW n \in 0 .. (N - 1) - 1, n \in T PROVE n + 1 \in T
    <3>1. n + 2 \in 1 .. N /\ n + 2 # 1 /\ (n + 2) - 1 = n + 1 /\ (n + 1) + 1 = n + 2 /\ n + 1 \in 0 .. N - 1
      BY <1>1
    <3>2. it[n + 2] = Join(it[n + 1], ss[n + 2]) /\ f[n + 2] = Join(f[n + 1], ss[n + 2])
      BY <1>3, <2>4, <3>1
    <3>3. it[n + 2] = f[n + 2]
      BY <2>6, <3>2
    <3> QED
      BY <3>1, <3>3
  <2>7. \A n \in 0 .. N - 1 : n \in T
    <3>1. N - 1 \in Nat
      BY <1>1, <1>6
    <3> HIDE DEF T
    <3> QED
      BY <2>5, <2>6, <3>1, Induct
  <2>8. it[N] = f[N]
    <3>1. N - 1 \in 0 .. N - 1 /\ (N - 1) + 1 = N
      BY <1>1, <1>6
    <3>2. N - 1 \in T
      BY <2>7, <3>1
    <3> QED
      BY <3>1, <3>2
  <2> QED
    BY <1>3, <1>4, <2>1, <2>8 DEF N, E
<1> QED
  BY <1>5, <1>6

(* Joined pieces are a text. *)
LEMMA FlattenType ==
  ASSUME NEW S, NEW ss \in Seq(Seq(S))
  PROVE  FlattenSeq(ss) \in Seq(S)
<1>1. PICK f : /\ \A n \in 0 .. Len(ss) : f[n] \in Seq(S)
               /\ FlattenSeq(ss) = f[Len(ss)]
  BY FlattenUnfolds
<1> QED
  BY <1>1

(* Joining no piece. *)
LEMMA FlattenEmpty == FlattenSeq(<<>>) = <<>>
  BY DEF FlattenSeq

(* Joining two lists of pieces. *)
LEMMA FlattenConcat ==
  ASSUME NEW S, NEW ss \in Seq(Seq(S)), NEW tt \in Seq(Seq(S))
  PROVE  FlattenSeq(ss \o tt) = Join(FlattenSeq(ss), FlattenSeq(tt))
<1> DEFINE M == Len(ss)
           N == Len(tt)
           uu == ss \o tt
           E == <<>>
<1>1. /\ E \in Seq(S)
      /\ \A a \in Seq(S) : Join(a, E) = a
      /\ \A a, b, d \in Seq(S) : Join(Join(a, b), d) = Join(a, Join(b, d))
  BY JoinFacts
<1>2. /\ uu \in Seq(Seq(S)) /\ M \in Nat /\ N \in Nat /\ Len(uu) = M + N
      /\ \A i \in 1 .. M : uu[i] = ss[i]
      /\ \A i \in 1 .. N : uu[M + i] = tt[i]
      /\ \A i \in 1 .. M : ss[i] \in Seq(S)
      /\ \A i \in 1 .. N : tt[i] \in Seq(S)
  <2>1. /\ uu \in Seq(Seq(S)) /\ M \in Nat /\ N \in Nat /\ Len(uu) = M + N
        /\ \A i \in 1 .. M + N : uu[i] = IF i <= M THEN ss[i] ELSE tt[i - M]
    BY ConcatProperties
  <2> HIDE DEF uu, M, N
  <2>2. ASSUME NEW i \in 1 .. N PROVE uu[M + i] = tt[i]
    <3>1. M + i \in 1 .. M + N /\ ~(M + i <= M) /\ (M + i) - M = i
      BY <2>1
    <3> QED
      BY <2>1, <3>1
  <2>3. ASSUME NEW i \in 1 .. M PROVE uu[i] = ss[i]
    <3>1. i \in 1 .. M + N /\ i <= M
      BY <2>1
    <3> QED
      BY <2>1, <3>1
  <2>4. (\A i \in 1 .. M : ss[i] \in Seq(S)) /\ (\A i \in 1 .. N : tt[i] \in Seq(S))
    BY ElementOfSeq DEF M, N
  <2> QED
    BY <2>1, <2>2, <2>3, <2>4
<1> HIDE DEF M, N, uu, E
<1>3. PICK f : /\ f[0] = E /\ \A n \in 1 .. M : f[n] = Join(f[n - 1], ss[n])
               /\ \A n \in 0 .. M : f[n] \in Seq(S)
               /\ FlattenSeq(ss) = f[M]
  BY FlattenUnfolds DEF M, E
<1>4. PICK g : /\ g[0] = E /\ \A n \in 1 .. N : g[n] = Join(g[n - 1], tt[n])
               /\ \A n \in 0 .. N : g[n] \in Seq(S)
               /\ FlattenSeq(tt) = g[N]
  BY FlattenUnfolds DEF N, E
<1>5. PICK h : /\ h[0] = E /\ \A n \in 1 .. M + N : h[n] = Join(h[n - 1], uu[n])
               /\ \A n \in 0 .. M + N : h[n] \in Seq(S)
               /\ FlattenSeq(uu) = h[M + N]
  <2>1. \E h : /\ h[0] = E /\ \A n \in 1 .. Len(uu) : h[n] = Join(h[n - 1], uu[n])
               /\ \A n \in 0 .. Len(uu) : h[n] \in Seq(S)
               /\ FlattenSeq(uu) = h[Len(uu)]
    BY <1>2, FlattenUnfolds DEF E
  <2> QED
    BY <1>2, <2>1
<1>6. h[M] = f[M]
  <2> DEFINE T == {n \in 0 .. M : h[n] = f[n]}
  <2>1. 0 \in T
    BY <1>2, <1>3, <1>5
  <2>2. ASSUME NEW n \in 0 .. M - 1, n \in T PROVE n + 1 \in T
    <3>1. n + 1 \in 1 .. M /\ n + 1 \in 1 .. M + N /\ (n + 1) - 1 = n /\ n + 1 \in 0 .. M
      BY <1>2
    <3>2. h[n + 1] = Join(h[n], ss[n + 1]) /\ f[n + 1] = Join(f[n], ss[n + 1])
      BY <1>2, <1>3, <1>5, <3>1
    <3>3. h[n + 1] = f[n + 1]
      BY <2>2, <3>2
    <3> QED
      BY <3>1, <3>3
  <2>3. \A n \in 0 .. M : n \in T
    <3> HIDE DEF T
    <3> QED
      BY <1>2, <2>1, <2>2, Induct
  <2> QED
    BY <1>2, <2>3
<1>7. h[M + N] = Join(f[M], g[N])
  <2> DEFINE T == {n \in 0 .. N : h[M + n] = Join(f[M], g[n])}
  <2>1. f[M] \in Seq(S)
    BY <1>2, <1>3
  <2>2. 0 \in T
    <3>1. Join(f[M], g[0]) = f[M] /\ M + 0 = M
      BY <1>1, <1>2, <1>4, <2>1
    <3> QED
      BY <1>2, <1>6, <3>1
  <2>3. ASSUME NEW n \in 0 .. N - 1, n \in T PROVE n + 1 \in T
    <3>1. /\ n + 1 \in 1 .. N /\ M + (n + 1) \in 1 .. M + N /\ (M + (n + 1)) - 1 = M + n
          /\ n \in 0 .. N /\ (n + 1) - 1 = n /\ n + 1 \in 0 .. N
      BY <1>2
    <3>2. /\ h[M + (n + 1)] = Join(h[M + n], tt[n + 1])
          /\ g[n + 1] = Join(g[n], tt[n + 1])
          /\ g[n] \in Seq(S) /\ tt[n + 1] \in Seq(S)
      BY <1>2, <1>4, <1>5, <3>1
    <3>3. Join(Join(f[M], g[n]), tt[n + 1]) = Join(f[M], Join(g[n], tt[n + 1]))
      BY <1>1, <2>1, <3>2
    <3>4. h[M + (n + 1)] = Join(f[M], g[n + 1])
      BY <2>3, <3>2, <3>3
    <3> QED
      BY <3>1, <3>4
  <2>4. \A n \in 0 .. N : n \in T
    <3> HIDE DEF T
    <3> QED
      BY <1>2, <2>2, <2>3, Induct
  <2>5. N \in T
    BY <1>2, <2>4
  <2> QED
    BY <2>5
<1> QED
  BY <1>3, <1>4, <1>5, <1>7 DEF uu

(* Joining one piece. *)
LEMMA FlattenOne ==
  ASSUME NEW S, NEW x \in Seq(S)
  PROVE  FlattenSeq(<<x>>) = x
<1> DEFINE ss == <<x>>
           E == <<>>
<1>1. ss \in Seq(Seq(S)) /\ Len(ss) = 1 /\ ss[1] = x
  OBVIOUS
<1>2. Join(E, x) = x
  BY JoinFacts
<1> HIDE DEF ss, E
<1>3. PICK f : /\ f[0] = E /\ \A n \in 1 .. Len(ss) : f[n] = Join(f[n - 1], ss[n])
               /\ FlattenSeq(ss) = f[Len(ss)]
  BY <1>1, FlattenUnfolds DEF E
<1>4. f[1] = Join(E, x)
  BY <1>1, <1>3
<1> QED
  BY <1>1, <1>2, <1>3, <1>4 DEF ss

-----------------------------------------------------------------------------
(* Texts made by joining what each element of a list stands for. *)
Mapped(F, a) == [i \in DOMAIN a |-> F[a[i]]]
Flat(F, a) == FlattenSeq(Mapped(F, a))

(* Such a text of a list is the texts of its parts, one after the other. *)
LEMMA FlatFacts ==
  ASSUME NEW A, NEW S, NEW F \in [A -> Seq(S)]
  PROVE  /\ Flat(F, <<>>) = <<>>
         /\ \A a \in Seq(A) : Flat(F, a) \in Seq(S)
         /\ \A a, b \in Seq(A) : Flat(F, a \o b) = Join(Flat(F, a), Flat(F, b))
         /\ \A x \in A : Flat(F, <<x>>) = F[x]
<1>1. Flat(F, <<>>) = <<>>
  <2>1. Mapped(F, <<>>) = <<>>
    BY DEF Mapped
  <2> QED
    BY <2>1, FlattenEmpty DEF Flat
<1>2. ASSUME NEW a \in Seq(A)
      PROVE  /\ Mapped(F, a) \in Seq(Seq(S)) /\ Len(Mapped(F, a)) = Len(a)
             /\ \A i \in 1 .. Len(a) : Mapped(F, a)[i] = F[a[i]]
  <2>1. Len(a) \in Nat /\ DOMAIN a = 1 .. Len(a)
    BY LenProperties
  <2>2. \A i \in 1 .. Len(a) : a[i] \in A
    BY ElementOfSeq
  <2>3. \A i \in 1 .. Len(a) : F[a[i]] \in Seq(S)
    BY <2>2
  <2>4. Mapped(F, a) = [i \in 1 .. Len(a) |-> F[a[i]]]
    BY <2>1 DEF Mapped
  <2>5. Mapped(F, a) \in [1 .. Len(a) -> Seq(S)]
    BY <2>3, <2>4
  <2>6. Mapped(F, a) \in Seq(Seq(S))
    <3>1. Mapped(F, a) \in UNION {[1 .. n -> Seq(S)] : n \in Nat}
      BY <2>1, <2>5
    <3> QED
      BY <3>1, SeqDef
  <2>7. Len(Mapped(F, a)) = Len(a)
    BY <2>1, <2>4, <2>6
  <2> QED
    BY <2>4, <2>6, <2>7
<1>3. ASSUME NEW a \in Seq(A) PROVE Flat(F, a) \in Seq(S)
  <2>1. Mapped(F, a) \in Seq(Seq(S))
    BY <1>2
  <2> QED
    BY <2>1, FlattenType DEF Flat
<1>4. ASSUME NEW a \in Seq(A), NEW b \in Seq(A)
      PROVE  Flat(F, a \o b) = Join(Flat(F, a), Flat(F, b))
  <2> DEFINE u == a \o b
             ma == Mapped(F, a)
             mb == Mapped(F, b)
             mu == Mapped(F, u)
  <2>1. /\ u \in Seq(A) /\ Len(u) = Len(a) + Len(b) /\ Len(a) \in Nat /\ Len(b) \in Nat
        /\ \A i \in 1 .. Len(a) + Len(b) : u[i] = IF i <= Len(a) THEN a[i] ELSE b[i - Len(a)]
    BY ConcatProperties, LenProperties
  <2> HIDE DEF u
  <2>2. /\ ma \in Seq(Seq(S)) /\ Len(ma) = Len(a) /\ \A i \in 1 .. Len(a) : ma[i] = F[a[i]]
        /\ mb \in Seq(Seq(S)) /\ Len(mb) = Len(b) /\ \A i \in 1 .. Len(b) : mb[i] = F[b[i]]
        /\ mu \in Seq(Seq(S)) /\ Len(mu) = Len(u) /\ \A i \in 1 .. Len(u) : mu[i] = F[u[i]]
    BY <1>2, <2>1
  <2> HIDE DEF ma, mb, mu
  <2> DEFINE mm == ma \o mb
  <2>3. /\ mm \in Seq(Seq(S)) /\ Len(mm) = Len(ma) + Len(mb)
        /\ \A i \in 1 .. Len(ma) + Len(mb) : mm[i] = IF i <= Len(ma) THEN ma[i] ELSE mb[i - Len(ma)]
    <3>1. ma \in Seq(Seq(S)) /\ mb \in Seq(Seq(S))
      BY <2>2
    <3> QED
      BY <3>1, ConcatProperties
  <2> HIDE DEF mm
  <2>4. ASSUME NEW i \in 1 .. Len(u) PROVE mm[i] = mu[i]
    <3>1. CASE i <= Len(a)
      <4>1. i \in 1 .. Len(a) /\ i \in 1 .. Len(a) + Len(b)
        BY <2>1, <3>1
      <4>2. mm[i] = ma[i] /\ ma[i] = F[a[i]]
        BY <2>2, <2>3, <3>1, <4>1
      <4>3. mu[i] = F[u[i]] /\ u[i] = a[i]
        BY <2>1, <2>2, <3>1, <4>1
      <4> QED
        BY <4>2, <4>3
    <3>2. CASE ~(i <= Len(a))
      <4>1. i - Len(a) \in 1 .. Len(b) /\ i \in 1 .. Len(a) + Len(b)
        BY <2>1, <3>2
      <4>2. mm[i] = mb[i - Len(a)] /\ mb[i - Len(a)] = F[b[i - Len(a)]]
        BY <2>2, <2>3, <3>2, <4>1
      <4>3. mu[i] = F[u[i]] /\ u[i] = b[i - Len(a)]
        BY <2>1, <2>2, <3>2, <4>1
      <4> QED
        BY <4>2, <4>3
    <3> QED
      BY <3>1, <3>2
  <2>5. mm = mu
    <3>1. Len(mm) = Len(mu) /\ \A i \in 1 .. Len(mm) : mm[i] = mu[i]
      BY <2>1, <2>2, <2>3, <2>4
    <3> QED
      BY <2>2, <2>3, <3>1, SeqEqual
  <2>6. FlattenSeq(mm) = Join(FlattenSeq(ma), FlattenSeq(mb))
    BY <2>2, FlattenConcat DEF mm
  <2> QED
    BY <2>5, <2>6 DEF Flat, ma, mb, mu, u
<1>5. ASSUME NEW x \in A PROVE Flat(F, <<x>>) = F[x]
  <2>1. Mapped(F, <<x>>) = <<F[x]>>
    BY DEF Mapped
  <2>2. F[x] \in Seq(S)
    OBVIOUS
  <2> QED
    BY <2>1, <2>2, FlattenOne DEF Flat
<1> QED
  BY <1>1, <1>3, <1>4, <1>5

(* What a token spells. *)
Piece == [t \in Tok |-> IF t = Merged THEN <<1, 1>> ELSE <<t>>]

LEMMA PieceType == Piece \in [Tok -> Seq(Chars)]
<1>1. ASSUME NEW t \in Tok PROVE (IF t = Merged THEN <<1, 1>> ELSE <<t>>) \in Seq(Chars)
  <2>1. <<1, 1>> \in Seq(Chars)
    BY DEF Chars
  <2>2. CASE t = Merged
    BY <2>1, <2>2
  <2>3. CASE t # Merged
    <3>1. t \in Chars
      BY <2>3 DEF Tok
    <3>2. <<t>> \in Seq(Chars)
      BY <3>1
    <3> QED
      BY <2>3, <3>2
  <2> QED
    BY <2>2, <2>3
<1> QED
  BY <1>1 DEF Piece

(* decode is such a text. *)
LEMMA DecodeIsFlat == ASSUME NEW a \in Seq(Tok) PROVE decode(a) = Flat(Piece, a)
<1>1. \A i \in DOMAIN a : a[i] \in Tok
  BY ElementOfSeq, LenProperties
<1>2. [i \in DOMAIN a |-> IF a[i] = Merged THEN <<1, 1>> ELSE <<a[i]>>] = [i \in DOMAIN a |-> Piece[a[i]]]
  BY <1>1 DEF Piece
<1> QED
  BY <1>2 DEF decode, Flat, Mapped

(* decode_bytes spells a stream token by token. *)
LEMMA DecodeFacts ==
  /\ decode(<<>>) = <<>>
  /\ \A a \in Seq(Tok) : decode(a) \in Seq(Chars)
  /\ \A a, b \in Seq(Tok) : decode(a \o b) = Join(decode(a), decode(b))
  /\ \A t \in Tok : decode(<<t>>) = IF t = Merged THEN <<1, 1>> ELSE <<t>>
<1>1. /\ Flat(Piece, <<>>) = <<>>
      /\ \A a \in Seq(Tok) : Flat(Piece, a) \in Seq(Chars)
      /\ \A a, b \in Seq(Tok) : Flat(Piece, a \o b) = Join(Flat(Piece, a), Flat(Piece, b))
      /\ \A x \in Tok : Flat(Piece, <<x>>) = Piece[x]
  BY PieceType, FlatFacts
<1>2. decode(<<>>) = <<>>
  <2>1. <<>> \in Seq(Tok)
    BY EmptySeq
  <2> QED
    BY <1>1, <2>1, DecodeIsFlat
<1>3. ASSUME NEW a \in Seq(Tok) PROVE decode(a) \in Seq(Chars)
  BY <1>1, DecodeIsFlat
<1>4. ASSUME NEW a \in Seq(Tok), NEW b \in Seq(Tok) PROVE decode(a \o b) = Join(decode(a), decode(b))
  <2>1. a \o b \in Seq(Tok)
    BY ConcatProperties
  <2>2. decode(a \o b) = Flat(Piece, a \o b)
    BY <2>1, DecodeIsFlat
  <2> QED
    BY <1>1, <2>2, DecodeIsFlat
<1>5. ASSUME NEW t \in Tok PROVE decode(<<t>>) = IF t = Merged THEN <<1, 1>> ELSE <<t>>
  <2>1. <<t>> \in Seq(Tok)
    OBVIOUS
  <2>2. decode(<<t>>) = Piece[t]
    BY <1>1, <2>1, DecodeIsFlat
  <2> QED
    BY <2>2 DEF Piece
<1> QED
  BY <1>2, <1>3, <1>4, <1>5

(* Messages of the three roles, and the text of one. *)
Message == {"system", "user", "assistant"} \X Seq(Chars)
Shown == [m \in Message |-> RenderOne(m)]

LEMMA ShownType ==
  /\ Shown \in [Message -> Seq(Chars)]
  /\ \A m \in Message : RenderOne(m) \in Seq(Chars) /\ RenderOne(m) # <<>>
<1>1. ASSUME NEW m \in Message PROVE RenderOne(m) \in Seq(Chars) /\ Len(RenderOne(m)) # 0
  <2>1. m[1] \in {"system", "user", "assistant"} /\ m[2] \in Seq(Chars)
    BY DEF Message
  <2>2. Mark[m[1]] \in Chars
    BY <2>1 DEF Mark, Chars
  <2>3. <<Mark[m[1]]>> \in Seq(Chars) /\ Len(<<Mark[m[1]]>>) = 1
    BY <2>2
  <2>4. <<Eot>> \in Seq(Chars)
    BY DEF Eot, Chars
  <2>5. <<Mark[m[1]]>> \o m[2] \in Seq(Chars) /\ Len(<<Mark[m[1]]>> \o m[2]) = 1 + Len(m[2])
    BY <2>1, <2>3, ConcatProperties
  <2>6. /\ (<<Mark[m[1]]>> \o m[2]) \o <<Eot>> \in Seq(Chars)
        /\ Len((<<Mark[m[1]]>> \o m[2]) \o <<Eot>>) = (1 + Len(m[2])) + Len(<<Eot>>)
    BY <2>4, <2>5, ConcatProperties
  <2>7. Len(m[2]) \in Nat /\ Len(<<Eot>>) = 1
    BY <2>1, LenProperties
  <2> QED
    BY <2>6, <2>7 DEF RenderOne
<1>2. ASSUME NEW m \in Message PROVE RenderOne(m) \in Seq(Chars) /\ RenderOne(m) # <<>>
  BY <1>1, EmptySeq
<1> QED
  BY <1>2 DEF Shown

(* render(messages, false) is such a text too. *)
Rendered(messages) == render(messages, FALSE)

LEMMA RenderIsFlat ==
  ASSUME NEW ms \in Seq(Message)
  PROVE  Rendered(ms) = Flat(Shown, ms) /\ render(ms, TRUE) = Join(Rendered(ms), <<Mark.assistant>>)
<1> DEFINE t == FlattenSeq([i \in DOMAIN ms |-> RenderOne(ms[i])])
<1>1. \A i \in DOMAIN ms : ms[i] \in Message
  BY ElementOfSeq, LenProperties
<1>2. [i \in DOMAIN ms |-> RenderOne(ms[i])] = [i \in DOMAIN ms |-> Shown[ms[i]]]
  BY <1>1 DEF Shown
<1>3. t = Flat(Shown, ms)
  BY <1>2 DEF Flat, Mapped
<1>4. t \in Seq(Chars)
  BY <1>3, ShownType, FlatFacts
<1>5. Rendered(ms) = t \o <<>> /\ render(ms, TRUE) = t \o <<Mark.assistant>>
  BY DEF Rendered, render
<1> HIDE DEF t
<1>6. t \o <<>> = t
  BY <1>4, ConcatEmptySeq
<1> QED
  BY <1>3, <1>5, <1>6 DEF Join

(* A conversation is rendered message by message. *)
LEMMA RenderFacts ==
  /\ Rendered(<<>>) = <<>>
  /\ \A ms \in Seq(Message) : Rendered(ms) \in Seq(Chars) /\ render(ms, TRUE) \in Seq(Chars)
  /\ \A ms, ns \in Seq(Message) : Rendered(ms \o ns) = Join(Rendered(ms), Rendered(ns))
  /\ \A m \in Message : Rendered(<<m>>) = RenderOne(m)
  /\ \A ms \in Seq(Message) : render(ms, TRUE) = Join(Rendered(ms), <<Mark.assistant>>)
<1>1. /\ Flat(Shown, <<>>) = <<>>
      /\ \A a \in Seq(Message) : Flat(Shown, a) \in Seq(Chars)
      /\ \A a, b \in Seq(Message) : Flat(Shown, a \o b) = Join(Flat(Shown, a), Flat(Shown, b))
      /\ \A x \in Message : Flat(Shown, <<x>>) = Shown[x]
  BY ShownType, FlatFacts
<1>2. Rendered(<<>>) = <<>>
  <2>1. <<>> \in Seq(Message)
    BY EmptySeq
  <2> QED
    BY <1>1, <2>1, RenderIsFlat
<1>3. ASSUME NEW a \in Seq(Message) PROVE Rendered(a) \in Seq(Chars) /\ render(a, TRUE) \in Seq(Chars)
  <2>1. Rendered(a) \in Seq(Chars)
    BY <1>1, RenderIsFlat
  <2>2. <<Mark.assistant>> \in Seq(Chars)
    BY DEF Mark, Chars
  <2>3. render(a, TRUE) = Join(Rendered(a), <<Mark.assistant>>)
    BY RenderIsFlat
  <2>4. Join(Rendered(a), <<Mark.assistant>>) \in Seq(Chars)
    <3>1. \A x, y \in Seq(Chars) : Join(x, y) \in Seq(Chars)
      BY JoinFacts
    <3> QED
      BY <2>1, <2>2, <3>1
  <2> QED
    BY <2>1, <2>3, <2>4
<1>4. ASSUME NEW a \in Seq(Message), NEW b \in Seq(Message) PROVE Rendered(a \o b) = Join(Rendered(a), Rendered(b))
  <2>1. a \o b \in Seq(Message)
    BY ConcatProperties
  <2>2. Rendered(a \o b) = Flat(Shown, a \o b)
    BY <2>1, RenderIsFlat
  <2> QED
    BY <1>1, <2>2, RenderIsFlat
<1>5. ASSUME NEW m \in Message PROVE Rendered(<<m>>) = RenderOne(m)
  <2>1. <<m>> \in Seq(Message)
    OBVIOUS
  <2>2. Rendered(<<m>>) = Shown[m]
    BY <1>1, <2>1, RenderIsFlat
  <2> QED
    BY <2>2 DEF Shown
<1> QED
  BY <1>2, <1>3, <1>4, <1>5, RenderIsFlat

-----------------------------------------------------------------------------
(* Encoding a text and decoding it again. *)

(* One more character: merged with the one before or on its own. *)
LEMMA SpelledFacts ==
  ASSUME NEW out \in Seq(Tok), NEW ch \in Chars
  PROVE  Spelled(out, ch) \in Seq(Tok) /\ decode(Spelled(out, ch)) = Join(decode(out), <<ch>>)
<1>1. ch \in Tok /\ ch # Merged /\ Merged \in Tok /\ 1 \in Tok /\ 1 # Merged
  BY DEF Tok, Chars, Merged
<1>2. decode(<<ch>>) = <<ch>> /\ decode(<<1>>) = <<1>> /\ decode(<<Merged>>) = <<1, 1>>
  BY <1>1, DecodeFacts
<1>3. ASSUME NEW a \in Seq(Tok), NEW t \in Tok
      PROVE  Append(a, t) \in Seq(Tok) /\ decode(Append(a, t)) = Join(decode(a), decode(<<t>>))
  <2>1. Append(a, t) \in Seq(Tok) /\ Append(a, t) = a \o <<t>>
    BY AppendProperties, AppendIsConcat
  <2>2. <<t>> \in Seq(Tok)
    OBVIOUS
  <2> QED
    BY <2>1, <2>2, DecodeFacts
<1>4. CASE ch = 1 /\ out # <<>> /\ Last(out) = 1
  <2> DEFINE fr == Front(out)
  <2>1. Len(out) \in Nat \ {0}
    BY <1>4, EmptySeq
  <2>2. fr = SubSeq(out, 1, Len(out) - 1)
    BY DEF Front
  <2>3. fr \in Seq(Tok)
    <3>1. \A i \in 1 .. Len(out) - 1 : out[i] \in Tok
      BY <2>1, ElementOfSeq
    <3> QED
      BY <2>1, <2>2, <3>1, SubSeqProperties
  <2>4. out = Append(fr, 1)
    <3>1. SubSeq(out, 1, Len(out)) = SubSeq(out, 1, Len(out) - 1) \o <<out[Len(out)]>>
      BY <2>1, SubSeqRecursiveSecond
    <3>2. SubSeq(out, 1, Len(out)) = out
      BY SubSeqFull
    <3>3. out[Len(out)] = 1
      BY <1>4 DEF Last
    <3>4. Append(fr, 1) = fr \o <<1>>
      BY <1>1, <2>3, AppendIsConcat
    <3> QED
      BY <2>2, <3>1, <3>2, <3>3, <3>4
  <2>5. Spelled(out, ch) = Append(fr, Merged)
    BY <1>4 DEF Spelled
  <2> HIDE DEF fr
  <2>6. decode(out) = Join(decode(fr), <<1>>) /\ decode(Append(fr, Merged)) = Join(decode(fr), <<1, 1>>)
    BY <1>1, <1>2, <1>3, <2>3, <2>4
  <2>7. <<1, 1>> = Join(<<1>>, <<1>>)
    BY DEF Join
  <2>8. decode(fr) \in Seq(Chars) /\ <<1>> \in Seq(Chars)
    BY <2>3, DecodeFacts DEF Chars
  <2>9. Join(Join(decode(fr), <<1>>), <<1>>) = Join(decode(fr), Join(<<1>>, <<1>>))
    <3>1. \A a, b, d \in Seq(Chars) : Join(Join(a, b), d) = Join(a, Join(b, d))
      BY JoinFacts
    <3> QED
      BY <2>8, <3>1
  <2> QED
    BY <1>1, <1>3, <1>4, <2>3, <2>5, <2>6, <2>7, <2>9
<1>5. CASE ~(ch = 1 /\ out # <<>> /\ Last(out) = 1)
  <2>1. Spelled(out, ch) = Append(out, ch)
    BY <1>5 DEF Spelled
  <2> QED
    BY <1>1, <1>2, <1>3, <2>1
<1> QED
  BY <1>4, <1>5

(* encode spells its text. *)
LEMMA EncodeFacts ==
  ASSUME NEW x \in Seq(Chars)
  PROVE  encode(x) \in Seq(Tok) /\ decode(encode(x)) = x
<1> DEFINE N == Len(x)
           E == <<>>
           pre(n) == SubSeq(x, 1, n)
<1>1. N \in Nat /\ \A n \in 1 .. N : x[n] \in Chars
  BY LenProperties, ElementOfSeq
<1>2. encode(x) = SpellLoop!Fold(0, E, x)
  BY DEF encode, Through, SpellLoop!Fold, SpellStep, The, SpellLoop!The
<1>3. E \in Seq(Tok) /\ decode(E) = E
  BY EmptySeq, DecodeFacts
<1>4. pre(0) = E /\ pre(N) = x /\ \A n \in 0 .. N - 1 : pre(n + 1) = Join(pre(n), <<x[n + 1]>>)
  <2>1. pre(0) = E
    BY SubSeqEmpty
  <2>2. pre(N) = x
    BY SubSeqFull
  <2>3. ASSUME NEW n \in 0 .. N - 1 PROVE pre(n + 1) = Join(pre(n), <<x[n + 1]>>)
    <3>1. 1 \in 1 .. N /\ n + 1 \in 1 .. N /\ (n + 1) - 1 = n
      BY <1>1
    <3>2. SubSeq(x, 1, n + 1) = SubSeq(x, 1, (n + 1) - 1) \o <<x[n + 1]>>
      BY <3>1, SubSeqRecursiveSecond
    <3> QED
      BY <3>1, <3>2 DEF Join
  <2> QED
    BY <2>1, <2>2, <2>3
<1>5. PICK f : /\ f[0] = E
               /\ \A n \in 1 .. N : f[n] = Spelled(f[n - 1], x[n])
               /\ encode(x) = f[N]
  <2>1. \E f : /\ f[0] = E
               /\ \A n \in 1 .. Len(x) : f[n] = SpellStep(0, f[n - 1], x[n])
               /\ SpellLoop!Fold(0, E, x) = f[Len(x)]
    <3>1. Len(x) \in Nat
      BY <1>1
    <3> HIDE DEF E
    <3> QED
      BY <3>1, SpellLoop!FoldUnfolds, SMTT(60)
  <2> QED
    BY <1>2, <2>1 DEF SpellStep
<1> HIDE DEF N, E, pre
<1> DEFINE T == {n \in 0 .. N : f[n] \in Seq(Tok) /\ decode(f[n]) = pre(n)}
<1>6. 0 \in T
  BY <1>1, <1>3, <1>4, <1>5
<1>7. ASSUME NEW n \in 0 .. N - 1, n \in T PROVE n + 1 \in T
  <2>1. n + 1 \in 1 .. N /\ (n + 1) - 1 = n /\ n + 1 \in 0 .. N
    BY <1>1
  <2>2. f[n + 1] = Spelled(f[n], x[n + 1]) /\ x[n + 1] \in Chars
    BY <1>1, <1>5, <2>1
  <2>3. f[n] \in Seq(Tok) /\ decode(f[n]) = pre(n)
    BY <1>7
  <2>4. f[n + 1] \in Seq(Tok) /\ decode(f[n + 1]) = Join(decode(f[n]), <<x[n + 1]>>)
    BY <2>2, <2>3, SpelledFacts
  <2>5. decode(f[n + 1]) = pre(n + 1)
    BY <1>4, <2>3, <2>4
  <2> QED
    BY <2>1, <2>4, <2>5
<1>8. \A n \in 0 .. N : n \in T
  <2> HIDE DEF T
  <2> QED
    BY <1>1, <1>6, <1>7, Induct
<1>9. N \in T
  BY <1>1, <1>8
<1> QED
  BY <1>4, <1>5, <1>9

-----------------------------------------------------------------------------
(* Stop strings and the plan of an overflow. *)

(* The least member of a set of naturals. *)
LEMMA MinFacts ==
  ASSUME NEW S \in SUBSET Nat, S # {}
  PROVE  Min(S) \in S /\ \A y \in S : Min(S) <= y
<1>1. \E m \in S : \A y \in S : m <= y
  BY GlueLoop!LeastNat
<1> QED
  BY <1>1 DEF Min

(* A stop string that ends a text starts inside it. *)
LEMMA StopFacts ==
  ASSUME NEW text \in Seq(Chars), Ends(text)
  PROVE  match_stop_suffix(text) \in 0 .. Len(text)
<1> DEFINE starts == {Len(text) - Len(s) : s \in {t \in StopStrings : IsSuffix(t, text)}}
<1>1. starts # {} /\ match_stop_suffix(text) = Min(starts)
  BY DEF Ends, match_stop_suffix
<1>2. Len(text) \in Nat
  BY LenProperties
<1>3. ASSUME NEW s \in StopStrings, IsSuffix(s, text) PROVE Len(text) - Len(s) \in 0 .. Len(text)
  <2>1. s \in Seq(Ch) /\ Len(s) \in Nat
    BY TextAssumption, LenProperties
  <2>2. Len(Reverse(s)) <= Len(Reverse(text))
    BY <1>3 DEF IsSuffix, IsPrefix
  <2>3. Len(Reverse(s)) = Len(s) /\ Len(Reverse(text)) = Len(text)
    BY <1>2, <2>1 DEF Reverse
  <2> QED
    BY <1>2, <2>1, <2>2, <2>3
<1>4. starts \subseteq 0 .. Len(text)
  BY <1>3
<1>5. Min(starts) \in starts
  <2> HIDE DEF starts
  <2> QED
    BY <1>1, <1>4, MinFacts
<1> QED
  BY <1>1, <1>4, <1>5

(* The oldest turn ends before the newest user message. *)
LEMMA OldestFacts ==
  ASSUME NEW ms \in Seq(Message), oldest_droppable_turn(ms)[2] # 0
  PROVE  LET t == oldest_droppable_turn(ms)
         IN  /\ t[1] \in Nat \ {0} /\ t[2] \in {1, 2}
             /\ t[1] - 1 + t[2] < Len(ms)
<1> DEFINE U == Users(ms)
           i == Min(U)
           t == oldest_droppable_turn(ms)
<1>1. Len(ms) \in Nat /\ DOMAIN ms = 1 .. Len(ms)
  BY LenProperties
<1>2. ~(Cardinality(U) < 2) /\ t = <<i, IF ms[i + 1][1] = "assistant" THEN 2 ELSE 1>>
  BY DEF oldest_droppable_turn
<1>3. U \in SUBSET Nat /\ \A j \in U : j \in 1 .. Len(ms) /\ ms[j][1] = "user"
  BY <1>1 DEF Users
<1> HIDE DEF U
<1>4. U # {}
  <2>1. Cardinality({}) = 0
    BY FS_EmptySet
  <2>2. ~(Cardinality(U) < 2)
    BY <1>2
  <2>3. ASSUME U = {} PROVE Cardinality(U) = 0
    BY <2>1, <2>3, Zenon
  <2> QED
    BY <2>2, <2>3
<1>5. i \in U /\ \A y \in U : i <= y
  BY <1>3, <1>4, MinFacts
<1>6. U # {i}
  <2>1. Cardinality({i}) = 1
    BY FS_Singleton
  <2>2. ~(Cardinality(U) < 2)
    BY <1>2
  <2>3. ASSUME U = {i} PROVE Cardinality(U) = 1
    BY <2>1, <2>3, Zenon
  <2> QED
    BY <2>2, <2>3
<1>7. PICK j \in U : j # i
  BY <1>5, <1>6
<1> HIDE DEF i
<1>8. i \in Nat \ {0} /\ j \in Nat /\ i < j /\ j <= Len(ms)
  BY <1>1, <1>3, <1>5, <1>7
<1>9. CASE ms[i + 1][1] = "assistant"
  <2>1. j # i + 1
    BY <1>3, <1>7, <1>9
  <2>2. t[1] = i /\ t[2] = 2
    BY <1>2, <1>9
  <2> QED
    BY <1>1, <1>8, <2>1, <2>2
<1>10. CASE ms[i + 1][1] # "assistant"
  <2>1. t[1] = i /\ t[2] = 1
    BY <1>2, <1>10
  <2> QED
    BY <1>1, <1>8, <2>1
<1> QED
  BY <1>9, <1>10

(* A plan drops some messages before the last. *)
GoodPlan(ms, p) ==
    p.first \in Nat \ {0} /\ p.count \in Nat \ {0} /\ p.first - 1 + p.count < Len(ms)

LEMMA DropFacts ==
  ASSUME NEW ms \in Seq(Message), NEW p, GoodPlan(ms, p)
  PROVE  /\ Drop(ms, p.first, p.count) \in Seq(Message)
         /\ Len(Drop(ms, p.first, p.count)) = Len(ms) - p.count
         /\ SubSeq(ms, 1, p.first - 1) \in Seq(Message)
         /\ SubSeq(ms, p.first + p.count, Len(ms)) \in Seq(Message)
<1> DEFINE a == SubSeq(ms, 1, p.first - 1)
           b == SubSeq(ms, p.first + p.count, Len(ms))
<1>1. Len(ms) \in Nat /\ p.first \in Nat \ {0} /\ p.count \in Nat \ {0} /\ p.first - 1 + p.count < Len(ms)
  BY LenProperties DEF GoodPlan
<1>2. \A i \in 1 .. Len(ms) : ms[i] \in Message
  BY ElementOfSeq
<1>3. a \in Seq(Message) /\ Len(a) = p.first - 1
  <2>1. /\ p.first - 1 \in Int /\ 1 \in Int
        /\ \A i \in 1 .. p.first - 1 : i \in 1 .. Len(ms)
    BY <1>1
  <2>2. \A i \in 1 .. p.first - 1 : ms[i] \in Message
    BY <1>2, <2>1
  <2>3. a \in Seq(Message) /\ Len(a) = IF 1 <= p.first - 1 THEN p.first - 1 - 1 + 1 ELSE 0
    BY <2>1, <2>2, SubSeqProperties
  <2> QED
    BY <1>1, <2>3
<1>4. b \in Seq(Message) /\ Len(b) = Len(ms) - (p.first + p.count) + 1
  <2>1. /\ p.first + p.count \in Int /\ Len(ms) \in Int /\ p.first + p.count <= Len(ms)
        /\ \A i \in p.first + p.count .. Len(ms) : i \in 1 .. Len(ms)
    BY <1>1
  <2>2. \A i \in p.first + p.count .. Len(ms) : ms[i] \in Message
    BY <1>2, <2>1
  <2>3. /\ b \in Seq(Message)
        /\ Len(b) = IF p.first + p.count <= Len(ms) THEN Len(ms) - (p.first + p.count) + 1 ELSE 0
    BY <2>1, <2>2, SubSeqProperties
  <2> QED
    BY <2>1, <2>3
<1> HIDE DEF a, b
<1>5. a \o b \in Seq(Message) /\ Len(a \o b) = Len(a) + Len(b)
  BY <1>3, <1>4, ConcatProperties
<1>6. Drop(ms, p.first, p.count) = a \o b
  BY DEF Drop, a, b
<1>7. Len(a) + Len(b) = Len(ms) - p.count
  BY <1>1, <1>3, <1>4
<1> QED
  BY <1>3, <1>4, <1>5, <1>6, <1>7 DEF a, b

(* plan_overflow_drop plans nothing or a drop that spares the last message. *)
LEMMA PlanFacts ==
  ASSUME NEW ms \in Seq(Message)
  PROVE  plan_overflow_drop(ms).count = 0 \/ GoodPlan(ms, plan_overflow_drop(ms))
<1> DEFINE N == Len(ms)
           P0 == [first |-> 0, count |-> 0]
           Fine(p) == p.count = 0 \/ GoodPlan(ms, p)
<1>1. N \in Nat
  BY LenProperties
<1>2. plan_overflow_drop(ms) = DropLoop!Fold(ms, P0, ms)
  BY DEF plan_overflow_drop, Through, DropLoop!Fold, DropStep, The, DropLoop!The
<1>3. ASSUME NEW p, Fine(p) PROVE Fine(DropOneMore(ms, p))
  <2> DEFINE left == IF p.count = 0 THEN ms ELSE Drop(ms, p.first, p.count)
             t == oldest_droppable_turn(left)
             q == [first |-> t[1], count |-> p.count + t[2]]
  <2>1. left \in Seq(Message) /\ p.count \in Nat /\ Len(left) = N - p.count
    <3>1. CASE p.count = 0
      BY <1>1, <3>1
    <3>2. CASE p.count # 0
      <4>1. GoodPlan(ms, p) /\ p.count \in Nat
        BY <1>3, <3>2 DEF GoodPlan
      <4>2. left = Drop(ms, p.first, p.count)
        BY <3>2
      <4> QED
        BY <4>1, <4>2, DropFacts
    <3> QED
      BY <3>1, <3>2
  <2>2. DropOneMore(ms, p) = IF Len(encode(render(left, TRUE))) <= n_ctx \/ t[2] = 0 THEN p ELSE q
    BY DEF DropOneMore
  <2> HIDE DEF left
  <2>3. CASE t[2] # 0
    <3>1. t[1] \in Nat \ {0} /\ t[2] \in {1, 2} /\ t[1] - 1 + t[2] < Len(left)
      BY <2>1, <2>3, OldestFacts
    <3>2. GoodPlan(ms, q)
      <4>1. q.first = t[1] /\ q.count = p.count + t[2]
        OBVIOUS
      <4> HIDE DEF t, q
      <4>2. q.first \in Nat \ {0} /\ q.count \in Nat \ {0}
        BY <2>1, <3>1, <4>1
      <4>3. q.first - 1 + q.count < N
        BY <1>1, <2>1, <3>1, <4>1
      <4> QED
        BY <4>2, <4>3 DEF GoodPlan
    <3> HIDE DEF q, t
    <3> QED
      BY <1>3, <2>2, <3>2
  <2>4. CASE t[2] = 0
    BY <1>3, <2>2, <2>4
  <2> QED
    BY <2>3, <2>4
<1>4. PICK f : /\ f[0] = P0
               /\ \A n \in 1 .. N : f[n] = DropOneMore(ms, f[n - 1])
               /\ plan_overflow_drop(ms) = f[N]
  <2>1. \E f : /\ f[0] = P0
               /\ \A n \in 1 .. Len(ms) : f[n] = DropStep(ms, f[n - 1], ms[n])
               /\ DropLoop!Fold(ms, P0, ms) = f[Len(ms)]
    <3>1. Len(ms) \in Nat
      BY <1>1
    <3> HIDE DEF P0
    <3> QED
      BY <3>1, DropLoop!FoldUnfolds, SMTT(60)
  <2> QED
    BY <1>2, <2>1 DEF DropStep
<1>5. Fine(P0)
  OBVIOUS
<1> HIDE DEF Fine, N, P0
<1> DEFINE T == {n \in 0 .. N : Fine(f[n])}
<1>6. 0 \in T
  BY <1>1, <1>4, <1>5
<1>7. ASSUME NEW n \in 0 .. N - 1, n \in T PROVE n + 1 \in T
  <2>1. n + 1 \in 1 .. N /\ (n + 1) - 1 = n /\ n + 1 \in 0 .. N
    BY <1>1
  <2>2. f[n + 1] = DropOneMore(ms, f[n]) /\ Fine(f[n])
    BY <1>4, <1>7, <2>1
  <2>3. Fine(f[n + 1])
    BY <1>3, <2>2
  <2> QED
    BY <2>1, <2>3
<1>8. \A n \in 0 .. N : n \in T
  <2> HIDE DEF T
  <2> QED
    BY <1>1, <1>6, <1>7, Induct
<1>9. N \in T
  BY <1>1, <1>8
<1> QED
  BY <1>4, <1>9 DEF Fine

-----------------------------------------------------------------------------
(* The conversation and the rows of its engine. *)
IsRec(s) ==
    s = [messages |-> s.messages, stream |-> s.stream, pos |-> s.pos, turn_pos |-> s.turn_pos,
         need |-> s.need, rows |-> s.rows, written |-> s.written, odd |-> s.odd]

Conv(s) ==
    /\ IsRec(s)
    /\ s.messages \in Seq(Message) /\ s.stream \in Seq(Tok)
    /\ s.pos \in Nat /\ s.turn_pos \in Nat /\ s.written \in Nat
    /\ s.need \in BOOLEAN /\ s.odd \in BOOLEAN
    /\ s.rows \in [0 .. s.written - 1 -> Tok]
    /\ s.turn_pos <= s.pos /\ s.pos <= s.written

(* The first n tokens of the stream are in their rows. *)
RowsAre(s, n) == \A i \in 1 .. n : s.rows[i - 1] = s.stream[i]

Mirror(s) == s.pos = Len(s.stream) /\ RowsAre(s, s.pos)

(* The larger and the smaller of two numbers. *)
LEMMA TwoFacts ==
  /\ \A a, b \in Int : Max({a, b}) = IF a >= b THEN a ELSE b
  /\ \A a, b \in Int : Min({a, b}) = IF a <= b THEN a ELSE b
<1>1. ASSUME NEW a \in Int, NEW b \in Int PROVE Max({a, b}) = IF a >= b THEN a ELSE b
  <2> DEFINE m == IF a >= b THEN a ELSE b
  <2>1. m \in {a, b} /\ \A y \in {a, b} : m >= y
    OBVIOUS
  <2>2. \A x \in {a, b} : (\A y \in {a, b} : x >= y) => x = m
    OBVIOUS
  <2> HIDE DEF m
  <2>3. \E x \in {a, b} : \A y \in {a, b} : x >= y
    BY <2>1
  <2>4. Max({a, b}) \in {a, b} /\ \A y \in {a, b} : Max({a, b}) >= y
    BY <2>3 DEF Max
  <2>5. Max({a, b}) = m
    BY <2>2, <2>4
  <2> QED
    BY <2>5 DEF m
<1>2. ASSUME NEW a \in Int, NEW b \in Int PROVE Min({a, b}) = IF a <= b THEN a ELSE b
  <2> DEFINE m == IF a <= b THEN a ELSE b
  <2>1. m \in {a, b} /\ \A y \in {a, b} : m <= y
    OBVIOUS
  <2>2. \A x \in {a, b} : (\A y \in {a, b} : x <= y) => x = m
    OBVIOUS
  <2> HIDE DEF m
  <2>3. \E x \in {a, b} : \A y \in {a, b} : x <= y
    BY <2>1
  <2>4. Min({a, b}) \in {a, b} /\ \A y \in {a, b} : Min({a, b}) <= y
    BY <2>3 DEF Min
  <2>5. Min({a, b}) = m
    BY <2>2, <2>4
  <2> QED
    BY <2>5 DEF m
<1> QED
  BY <1>1, <1>2

(* A forward writes its rows and leaves the others. *)
LEMMA ForwardFacts ==
  ASSUME NEW s, Conv(s), NEW toks \in Seq(Tok), NEW at \in Nat, at <= s.written
  PROVE  LET f == Forward(s, toks, at)
         IN  /\ IsRec(f) /\ f.messages = s.messages /\ f.stream = s.stream /\ f.pos = s.pos
             /\ f.turn_pos = s.turn_pos /\ f.need = s.need /\ f.odd = s.odd
             /\ f.written \in Nat /\ f.written >= s.written /\ f.written >= at + Len(toks)
             /\ f.rows \in [0 .. f.written - 1 -> Tok]
             /\ \A i \in 1 .. Len(toks) : f.rows[at + i - 1] = toks[i]
             /\ \A q \in 0 .. s.written - 1 : q < at => f.rows[q] = s.rows[q]
<1> DEFINE f == Forward(s, toks, at)
           n == Len(toks)
           new == at..(at + n - 1)
           r == [q \in new \cup (0 .. s.written - 1) |-> IF q \in new THEN toks[q - at + 1] ELSE s.rows[q]]
           w == IF s.written >= at + n THEN s.written ELSE at + n
<1>1. n \in Nat /\ (\A i \in 1 .. n : toks[i] \in Tok) /\ s.written \in Nat
  BY LenProperties, ElementOfSeq DEF Conv
<1>2. Max({s.written, at + n}) = w
  BY <1>1, TwoFacts
<1>3. f = [s EXCEPT !.rows = r, !.written = Max({s.written, at + n})]
  <2>1. DOMAIN s.rows = 0 .. s.written - 1
    BY DEF Conv
  <2>2. Overwritten(s.rows, toks, at) = r
    BY <2>1 DEF Overwritten
  <2>3. f = [s EXCEPT !.rows = Overwritten(s.rows, toks, at), !.written = Max({s.written, at + n})]
    BY DEF Forward
  <2> HIDE DEF r, f
  <2> QED
    BY <2>2, <2>3
<1> HIDE DEF f, n
<1>4. /\ f.rows = r /\ f.written = w
      /\ IsRec(f) /\ f.messages = s.messages /\ f.stream = s.stream /\ f.pos = s.pos
      /\ f.turn_pos = s.turn_pos /\ f.need = s.need /\ f.odd = s.odd
  <2> HIDE DEF r, w
  <2>1. IsRec(s)
    BY DEF Conv
  <2>2. f = [s EXCEPT !.rows = r, !.written = w]
    BY <1>2, <1>3
  <2>3. f = [messages |-> s.messages, stream |-> s.stream, pos |-> s.pos, turn_pos |-> s.turn_pos,
             need |-> s.need, rows |-> r, written |-> w, odd |-> s.odd]
    BY <2>1, <2>2 DEF IsRec
  <2> QED
    BY <2>3 DEF IsRec
<1>5. w \in Nat /\ w >= s.written /\ w >= at + n
  BY <1>1
<1>6. new \cup (0 .. s.written - 1) = 0 .. w - 1
  <2>1. ASSUME NEW q PROVE q \in new \cup (0 .. s.written - 1) <=> q \in 0 .. w - 1
    BY <1>1
  <2> QED
    BY <2>1
<1>7. ASSUME NEW q \in 0 .. w - 1 PROVE r[q] \in Tok
  <2>1. CASE q \in new
    <3>1. r[q] = toks[q - at + 1] /\ q - at + 1 \in 1 .. n
      BY <1>1, <2>1
    <3> QED
      BY <1>1, <3>1
  <2>2. CASE q \notin new
    <3>1. q \in 0 .. s.written - 1
      BY <1>6, <2>2
    <3>2. r[q] = s.rows[q]
      BY <2>2, <3>1
    <3> QED
      BY <3>1, <3>2 DEF Conv
  <2> QED
    BY <2>1, <2>2
<1>8. r \in [0 .. w - 1 -> Tok]
  <2>1. r = [q \in new \cup (0 .. s.written - 1) |-> r[q]]
    OBVIOUS
  <2> HIDE DEF r, new, w
  <2> QED
    BY <1>6, <1>7, <2>1
<1>9. ASSUME NEW i \in 1 .. n PROVE r[at + i - 1] = toks[i]
  <2>1. at + i - 1 \in new /\ (at + i - 1) - at + 1 = i
    BY <1>1
  <2> QED
    BY <2>1
<1>10. ASSUME NEW q \in 0 .. s.written - 1, q < at PROVE r[q] = s.rows[q]
  BY <1>1, <1>10
<1> HIDE DEF r, w
<1> QED
  BY <1>4, <1>5, <1>8, <1>9, <1>10 DEF f, n

-----------------------------------------------------------------------------
(* The invariant.  Between turns the stream and the pending end-of-turn     *)
(* marker spell the messages, and what a /regen rolls back to spells them   *)
(* without the last turn; in a turn the stream spells the messages and the  *)
(* assistant's marker, and what was generated behind it.                    *)
Pending(s) == IF s.need THEN <<Eot>> ELSE <<>>

Spells(s) == Join(decode(s.stream), Pending(s)) = Rendered(s.messages)

(* Between turns, the last turn begins at turn_pos. *)
LastTurn(s) ==
    s.turn_pos > 0 /\ s.messages # <<>> /\ Last(s.messages)[1] = "assistant" =>
        decode(SubSeq(s.stream, 1, s.turn_pos)) = Rendered(SubSeq(s.messages, 1, Len(s.messages) - 2))

(* In a turn, it begins at turn_pos. *)
ThisTurn(s) ==
    s.turn_pos > 0 =>
        decode(SubSeq(s.stream, 1, s.turn_pos)) = Rendered(SubSeq(s.messages, 1, Len(s.messages) - 1))

(* An answer has its question before it; a turn is about a question. *)
Answered(ms) ==
    ms # <<>> /\ Last(ms)[1] = "assistant" => Len(ms) >= 2 /\ ms[Len(ms) - 1][1] = "user"
Question(ms) == ms # <<>> /\ Last(ms)[1] = "user"

Resting(s) ==
    /\ Answered(s.messages)
    /\ ~s.odd => /\ Mirror(s) /\ LastTurn(s)
                 /\ s.stream # <<>> => Spells(s)
                 /\ s.stream = <<>> => ~s.need

Asked(s) ==
    /\ Question(s.messages)
    /\ ~s.odd => Mirror(s) /\ ThisTurn(s) /\ decode(s.stream) = render(s.messages, TRUE)

(* In rounds the seed is in the stream and not yet in the rows. *)
SeedAhead(s, g) == Len(s.stream) = s.pos + 1 /\ s.stream[s.pos + 1] = g.seed /\ RowsAre(s, s.pos)

Speaking(s, g) ==
    /\ Question(s.messages)
    /\ ~s.odd => /\ Len(s.stream) = s.pos + 1 /\ s.stream[s.pos + 1] = g.seed /\ RowsAre(s, s.pos)
                 /\ ThisTurn(s) /\ decode(s.stream) = Join(render(s.messages, TRUE), g.full)

(* The conversation a KV companion holds. *)
Back(kv) == [kv.host EXCEPT !.rows = kv.rows, !.written = kv.written]

Companion(kv) == kv = None \/ (IsRec(kv.host) /\ Conv(Back(kv)) /\ Resting(Back(kv)) /\ Mirror(Back(kv)))

GenOK == gen.n \in Nat /\ gen.full \in Seq(Chars) /\ (phase = "rounds" => gen.seed \in Tok)

DiskOK ==
    /\ disk = [history |-> disk.history, kv |-> disk.kv]
    /\ disk.history = NoHistory \/ (disk.history \in Seq(Message) /\ Answered(disk.history))
    /\ Companion(disk.kv)

(* Only a drafting session slips, and until it does its stream is its rows,  *)
(* however odd its turns were.                                               *)
RowsInv ==
    /\ slipped \in BOOLEAN /\ (slipped => drafting) /\ (phase = "rounds" => drafting)
    /\ phase \in {"idle", "generate"} /\ ~slipped => Mirror(c)
    /\ phase = "rounds" /\ ~slipped => SeedAhead(c, gen)

ConvInv ==
    /\ Conv(c) /\ GenOK /\ DiskOK /\ RowsInv
    /\ phase \in {"idle", "generate", "rounds", "exited", "crashed"}
    /\ phase = "idle" => Resting(c)
    /\ phase = "generate" => Asked(c)
    /\ phase = "rounds" => Speaking(c, gen)

-----------------------------------------------------------------------------
(* Sequences, cut and joined. *)

(* The first n elements, and the two parts of a sequence. *)
LEMMA CutFacts ==
  ASSUME NEW S, NEW a \in Seq(S), NEW n \in 0 .. Len(a)
  PROVE  /\ SubSeq(a, 1, n) \in Seq(S) /\ Len(SubSeq(a, 1, n)) = n
         /\ \A i \in 1 .. n : SubSeq(a, 1, n)[i] = a[i]
         /\ SubSeq(a, n + 1, Len(a)) \in Seq(S) /\ Len(SubSeq(a, n + 1, Len(a))) = Len(a) - n
         /\ \A i \in 1 .. Len(a) - n : SubSeq(a, n + 1, Len(a))[i] = a[n + i]
         /\ a = SubSeq(a, 1, n) \o SubSeq(a, n + 1, Len(a))
<1>1. Len(a) \in Nat /\ n \in Nat /\ n <= Len(a) /\ \A i \in 1 .. Len(a) : a[i] \in S
  BY LenProperties, ElementOfSeq
<1>2. /\ SubSeq(a, 1, n) \in Seq(S)
      /\ Len(SubSeq(a, 1, n)) = IF 1 <= n THEN n - 1 + 1 ELSE 0
      /\ \A i \in 1 .. n - 1 + 1 : SubSeq(a, 1, n)[i] = a[1 + i - 1]
  <2>1. 1 \in Int /\ n \in Int /\ \A i \in 1 .. n : a[i] \in S
    BY <1>1
  <2> QED
    BY <2>1, SubSeqProperties
<1>3. /\ SubSeq(a, n + 1, Len(a)) \in Seq(S)
      /\ Len(SubSeq(a, n + 1, Len(a))) = IF n + 1 <= Len(a) THEN Len(a) - (n + 1) + 1 ELSE 0
      /\ \A i \in 1 .. Len(a) - (n + 1) + 1 : SubSeq(a, n + 1, Len(a))[i] = a[(n + 1) + i - 1]
  <2>1. n + 1 \in Int /\ Len(a) \in Int /\ \A i \in n + 1 .. Len(a) : a[i] \in S
    BY <1>1
  <2> QED
    BY <2>1, SubSeqProperties
<1>4. SubSeq(a, 1, n) \o SubSeq(a, n + 1, Len(a)) = SubSeq(a, 1, Len(a))
  <2>1. 1 \in 1 .. Len(a) + 1 /\ n \in 1 - 1 .. Len(a) /\ Len(a) \in n .. Len(a)
    BY <1>1
  <2> QED
    BY <2>1, ConcatAdjacentSubSeq
<1>5. SubSeq(a, 1, Len(a)) = a
  BY SubSeqFull
<1>6. ASSUME NEW i \in 1 .. n PROVE SubSeq(a, 1, n)[i] = a[i]
  <2>1. i \in 1 .. n - 1 + 1 /\ 1 + i - 1 = i
    BY <1>1
  <2> QED
    BY <1>2, <2>1
<1>7. ASSUME NEW i \in 1 .. Len(a) - n PROVE SubSeq(a, n + 1, Len(a))[i] = a[n + i]
  <2>1. i \in 1 .. Len(a) - (n + 1) + 1 /\ (n + 1) + i - 1 = n + i
    BY <1>1
  <2> QED
    BY <1>3, <2>1
<1>8. Len(SubSeq(a, 1, n)) = n /\ Len(SubSeq(a, n + 1, Len(a))) = Len(a) - n
  BY <1>1, <1>2, <1>3
<1> QED
  BY <1>2, <1>3, <1>4, <1>5, <1>6, <1>7, <1>8

(* What a longer sequence begins with. *)
LEMMA JoinCut ==
  ASSUME NEW S, NEW a \in Seq(S), NEW b \in Seq(S), NEW n \in 0 .. Len(a)
  PROVE  SubSeq(a \o b, 1, n) = SubSeq(a, 1, n)
<1> DEFINE u == a \o b
<1>1. /\ u \in Seq(S) /\ Len(u) = Len(a) + Len(b)
      /\ \A i \in 1 .. Len(a) + Len(b) : u[i] = IF i <= Len(a) THEN a[i] ELSE b[i - Len(a)]
  BY ConcatProperties
<1>2. Len(a) \in Nat /\ Len(b) \in Nat
  BY LenProperties
<1> HIDE DEF u
<1>3. n \in 0 .. Len(u)
  BY <1>1, <1>2
<1>4. /\ SubSeq(u, 1, n) \in Seq(S) /\ Len(SubSeq(u, 1, n)) = n
      /\ \A i \in 1 .. n : SubSeq(u, 1, n)[i] = u[i]
  BY <1>1, <1>3, CutFacts
<1>5. /\ SubSeq(a, 1, n) \in Seq(S) /\ Len(SubSeq(a, 1, n)) = n
      /\ \A i \in 1 .. n : SubSeq(a, 1, n)[i] = a[i]
  BY CutFacts
<1>6. ASSUME NEW i \in 1 .. n PROVE SubSeq(u, 1, n)[i] = SubSeq(a, 1, n)[i]
  <2>1. i \in 1 .. Len(a) + Len(b) /\ i <= Len(a)
    BY <1>2
  <2> QED
    BY <1>1, <1>4, <1>5, <2>1
<1>7. SubSeq(u, 1, n) = SubSeq(a, 1, n)
  BY <1>4, <1>5, <1>6, SeqEqual
<1> QED
  BY <1>7 DEF u

(* One element more, and all but the last. *)
LEMMA AppendCut ==
  ASSUME NEW S, NEW a \in Seq(S), NEW x \in S
  PROVE  /\ Append(a, x) \in Seq(S) /\ Len(Append(a, x)) = Len(a) + 1
         /\ Append(a, x) # <<>> /\ Last(Append(a, x)) = x
         /\ Append(a, x) = a \o <<x>> /\ SubSeq(Append(a, x), 1, Len(a)) = a
         /\ \A n \in 0 .. Len(a) : SubSeq(Append(a, x), 1, n) = SubSeq(a, 1, n)
         /\ \A i \in 1 .. Len(a) : Append(a, x)[i] = a[i]
<1>1. /\ Append(a, x) \in Seq(S) /\ Len(Append(a, x)) = Len(a) + 1 /\ Append(a, x) # <<>>
      /\ Append(a, x)[Len(a) + 1] = x /\ \A i \in 1 .. Len(a) : Append(a, x)[i] = a[i]
  BY AppendProperties
<1>2. Append(a, x) = a \o <<x>> /\ <<x>> \in Seq(S)
  BY AppendIsConcat
<1>3. ASSUME NEW n \in 0 .. Len(a) PROVE SubSeq(a \o <<x>>, 1, n) = SubSeq(a, 1, n)
  BY <1>2, JoinCut
<1>4. SubSeq(a, 1, Len(a)) = a /\ Len(a) \in 0 .. Len(a)
  BY SubSeqFull, LenProperties
<1> QED
  BY <1>1, <1>2, <1>3, <1>4 DEF Last

(* Feeding tokens to the engine and the stream. *)
LEMMA FedFacts ==
  ASSUME NEW s, Conv(s), NEW toks \in Seq(Tok)
  PROVE  LET f == Fed(s, toks)
         IN  /\ Conv(f) /\ f.messages = s.messages /\ f.stream = s.stream \o toks
             /\ f.pos = s.pos + Len(toks) /\ f.turn_pos = s.turn_pos /\ f.need = s.need /\ f.odd = s.odd
             /\ Len(f.stream) = Len(s.stream) + Len(toks)
             /\ decode(f.stream) = Join(decode(s.stream), decode(toks))
             /\ Mirror(s) => Mirror(f)
             /\ \A n \in 0 .. Len(s.stream) : SubSeq(f.stream, 1, n) = SubSeq(s.stream, 1, n)
<1> DEFINE w == Forward(s, toks, s.pos)
           f == Fed(s, toks)
           u == s.stream \o toks
<1>1. /\ IsRec(s) /\ s.messages \in Seq(Message) /\ s.stream \in Seq(Tok)
      /\ s.pos \in Nat /\ s.turn_pos \in Nat /\ s.written \in Nat
      /\ s.need \in BOOLEAN /\ s.odd \in BOOLEAN /\ s.turn_pos <= s.pos /\ s.pos <= s.written
  BY DEF Conv
<1>2. /\ IsRec(w) /\ w.messages = s.messages /\ w.stream = s.stream /\ w.pos = s.pos
      /\ w.turn_pos = s.turn_pos /\ w.need = s.need /\ w.odd = s.odd
      /\ w.written \in Nat /\ w.written >= s.written /\ w.written >= s.pos + Len(toks)
      /\ w.rows \in [0 .. w.written - 1 -> Tok]
      /\ \A i \in 1 .. Len(toks) : w.rows[s.pos + i - 1] = toks[i]
      /\ \A q \in 0 .. s.written - 1 : q < s.pos => w.rows[q] = s.rows[q]
  BY <1>1, ForwardFacts, ZenonT(60)
<1>3. f = [w EXCEPT !.stream = w.stream \o toks, !.pos = w.pos + Len(toks)]
  BY DEF Fed
<1> HIDE DEF w, f
<1>4. /\ u \in Seq(Tok) /\ Len(u) = Len(s.stream) + Len(toks)
      /\ \A i \in 1 .. Len(s.stream) + Len(toks) :
            u[i] = IF i <= Len(s.stream) THEN s.stream[i] ELSE toks[i - Len(s.stream)]
  BY <1>1, ConcatProperties
<1>5. Len(toks) \in Nat /\ Len(s.stream) \in Nat
  BY <1>1, LenProperties
<1>6. f = [messages |-> s.messages, stream |-> u, pos |-> s.pos + Len(toks), turn_pos |-> s.turn_pos,
           need |-> s.need, rows |-> w.rows, written |-> w.written, odd |-> s.odd]
  <2>1. f = [w EXCEPT !.stream = u, !.pos = s.pos + Len(toks)]
    BY <1>2, <1>3
  <2> HIDE DEF u
  <2> DEFINE m == s.pos + Len(toks)
  <2> HIDE DEF m
  <2>2. f = [w EXCEPT !.stream = u, !.pos = m]
    BY <2>1 DEF m
  <2>3. f = [messages |-> w.messages, stream |-> u, pos |-> m, turn_pos |-> w.turn_pos,
             need |-> w.need, rows |-> w.rows, written |-> w.written, odd |-> w.odd]
    BY <1>2, <2>2 DEF IsRec
  <2> QED
    BY <1>2, <2>3 DEF m
<1>7. decode(u) = Join(decode(s.stream), decode(toks))
  BY <1>1, DecodeFacts
<1>8. \A n \in 0 .. Len(s.stream) : SubSeq(u, 1, n) = SubSeq(s.stream, 1, n)
  BY <1>1, JoinCut
<1> HIDE DEF u
<1>9. /\ f.messages = s.messages /\ f.stream = u /\ f.pos = s.pos + Len(toks) /\ f.turn_pos = s.turn_pos
      /\ f.need = s.need /\ f.odd = s.odd /\ f.rows = w.rows /\ f.written = w.written /\ IsRec(f)
  BY <1>6 DEF IsRec
<1>10. Conv(f)
  BY <1>1, <1>2, <1>4, <1>5, <1>9 DEF Conv
<1>11. ASSUME Mirror(s) PROVE Mirror(f)
  <2>1. s.pos = Len(s.stream) /\ \A i \in 1 .. s.pos : s.rows[i - 1] = s.stream[i]
    BY <1>11 DEF Mirror, RowsAre
  <2>2. f.pos = Len(f.stream)
    BY <1>4, <1>9, <2>1
  <2>3. ASSUME NEW i \in 1 .. f.pos PROVE f.rows[i - 1] = f.stream[i]
    <3>1. i \in 1 .. Len(s.stream) + Len(toks)
      BY <1>9, <2>1
    <3>2. CASE i <= s.pos
      <4>1. i - 1 \in 0 .. s.written - 1 /\ i - 1 < s.pos /\ i \in 1 .. s.pos
        BY <1>1, <3>1, <3>2
      <4>2. w.rows[i - 1] = s.rows[i - 1]
        BY <1>2, <4>1
      <4>3. u[i] = s.stream[i]
        BY <1>4, <2>1, <3>1, <3>2
      <4> QED
        BY <1>9, <2>1, <4>1, <4>2, <4>3
    <3>3. CASE ~(i <= s.pos)
      <4>1. i - s.pos \in 1 .. Len(toks) /\ s.pos + (i - s.pos) - 1 = i - 1
        BY <1>1, <1>5, <2>1, <3>1, <3>3
      <4>2. w.rows[i - 1] = toks[i - s.pos]
        BY <1>2, <4>1
      <4>3. u[i] = toks[i - s.pos]
        BY <1>4, <2>1, <3>1, <3>3
      <4> QED
        BY <1>9, <4>2, <4>3
    <3> QED
      BY <3>2, <3>3
  <2> QED
    BY <2>2, <2>3 DEF Mirror, RowsAre
<1> QED
  BY <1>4, <1>7, <1>8, <1>9, <1>10, <1>11 DEF f, u

(* A prefill of a whole render starts the stream and the rows afresh. *)
LEMMA RehydrateFacts ==
  ASSUME NEW s, Conv(s), NEW toks \in Seq(Tok)
  PROVE  LET f == rehydrate_full(s, toks)
         IN  /\ Conv(f) /\ f.messages = s.messages /\ f.stream = toks /\ f.turn_pos = 0
             /\ f.need = s.need /\ f.odd = FALSE /\ Mirror(f)
<1> DEFINE z == [reset_cache(s) EXCEPT !.stream = <<>>, !.pos = 0, !.turn_pos = 0, !.odd = FALSE]
<1>1. /\ IsRec(s) /\ s.messages \in Seq(Message) /\ s.need \in BOOLEAN
  BY DEF Conv
<1>2. z = [messages |-> s.messages, stream |-> <<>>, pos |-> 0, turn_pos |-> 0,
           need |-> s.need, rows |-> <<>>, written |-> 0, odd |-> FALSE]
  <2> DEFINE E == <<>>
             e == reset_cache(s)
  <2>1. e = [s EXCEPT !.rows = E, !.written = 0]
    BY DEF reset_cache
  <2>2. z = [e EXCEPT !.stream = E, !.pos = 0, !.turn_pos = 0, !.odd = FALSE]
    OBVIOUS
  <2> HIDE DEF E, e, z
  <2>3. e = [messages |-> s.messages, stream |-> s.stream, pos |-> s.pos, turn_pos |-> s.turn_pos,
             need |-> s.need, rows |-> E, written |-> 0, odd |-> s.odd]
    BY <1>1, <2>1 DEF IsRec
  <2>4. z = [messages |-> s.messages, stream |-> E, pos |-> 0, turn_pos |-> 0,
             need |-> s.need, rows |-> E, written |-> 0, odd |-> FALSE]
    BY <2>2, <2>3
  <2> QED
    BY <2>4 DEF E
<1>3. rehydrate_full(s, toks) = Fed(z, toks)
  BY DEF rehydrate_full
<1> HIDE DEF z
<1>4. /\ IsRec(z) /\ z.messages = s.messages /\ z.stream = <<>> /\ z.pos = 0 /\ z.turn_pos = 0
      /\ z.need = s.need /\ z.rows = <<>> /\ z.written = 0 /\ z.odd = FALSE
  BY <1>2 DEF IsRec
<1>5. <<>> \in [0 .. 0 - 1 -> Tok] /\ <<>> \in Seq(Tok) /\ Len(<<>>) = 0
  <2>1. <<>> \in Seq(Tok) /\ Len(<<>>) = 0
    BY EmptySeq
  <2>2. 0 .. 0 - 1 = {}
    OBVIOUS
  <2>3. <<>> = [q \in {} |-> 0]
    OBVIOUS
  <2>4. <<>> \in [{} -> Tok]
    BY <2>3
  <2> QED
    BY <2>1, <2>2, <2>4
<1>6. Conv(z)
  <2>1. z.rows \in [0 .. z.written - 1 -> Tok] /\ z.stream \in Seq(Tok)
    BY <1>4, <1>5
  <2>2. z.turn_pos <= z.pos /\ z.pos <= z.written /\ z.pos \in Nat /\ z.turn_pos \in Nat /\ z.written \in Nat
    BY <1>4
  <2>3. z.odd \in BOOLEAN /\ z.need \in BOOLEAN /\ z.messages \in Seq(Message)
    BY <1>1, <1>4
  <2> QED
    BY <1>4, <2>1, <2>2, <2>3 DEF Conv
<1>7. Mirror(z)
  BY <1>4, <1>5 DEF Mirror, RowsAre
<1>8. z.stream \o toks = toks
  BY <1>4, ConcatEmptySeq
<1>9. LET f == Fed(z, toks)
      IN  /\ Conv(f) /\ f.messages = z.messages /\ f.stream = z.stream \o toks
          /\ f.turn_pos = z.turn_pos /\ f.need = z.need /\ f.odd = z.odd
          /\ Mirror(z) => Mirror(f)
  BY <1>6, FedFacts
<1> QED
  BY <1>3, <1>4, <1>7, <1>8, <1>9

(* Messages of a user and of the assistant, rendered. *)
LEMMA AskRendered ==
  ASSUME NEW ms \in Seq(Message), NEW input \in Seq(Chars)
  PROVE  LET m == <<"user", input>>
         IN  /\ m \in Message /\ m[1] = "user" /\ m[2] = input
             /\ format_single(input) \in Seq(Chars)
             /\ render(Append(ms, m), TRUE) = Join(Rendered(ms), format_single(input))
<1> DEFINE m == <<"user", input>>
           mk == <<Mark.assistant>>
<1>1. m \in Message /\ m[1] = "user" /\ m[2] = input
  BY DEF Message
<1>2. mk \in Seq(Chars)
  BY DEF Mark, Chars
<1>3. format_single(input) = Join(RenderOne(m), mk)
  BY DEF format_single, Join
<1> HIDE DEF m, mk
<1>4. RenderOne(m) \in Seq(Chars)
  BY <1>1, ShownType
<1>5. Append(ms, m) \in Seq(Message) /\ Append(ms, m) = ms \o <<m>> /\ <<m>> \in Seq(Message)
  BY <1>1, AppendCut
<1>6. Rendered(ms \o <<m>>) = Join(Rendered(ms), Rendered(<<m>>)) /\ Rendered(<<m>>) = RenderOne(m)
  BY <1>1, <1>5, RenderFacts
<1>7. render(Append(ms, m), TRUE) = Join(Rendered(Append(ms, m)), mk)
  BY <1>5, RenderFacts DEF mk
<1>8. Rendered(ms) \in Seq(Chars)
  BY RenderFacts
<1>9. /\ Join(RenderOne(m), mk) \in Seq(Chars)
      /\ Join(Join(Rendered(ms), RenderOne(m)), mk) = Join(Rendered(ms), Join(RenderOne(m), mk))
  <2>1. /\ \A a, b \in Seq(Chars) : Join(a, b) \in Seq(Chars)
        /\ \A a, b, d \in Seq(Chars) : Join(Join(a, b), d) = Join(a, Join(b, d))
    BY JoinFacts
  <2> QED
    BY <1>2, <1>4, <1>8, <2>1
<1>10. render(Append(ms, m), TRUE) = Join(Rendered(ms), format_single(input))
  BY <1>3, <1>5, <1>6, <1>7, <1>9
<1> QED
  BY <1>1, <1>3, <1>9, <1>10 DEF m

LEMMA AnswerRendered ==
  ASSUME NEW ms \in Seq(Message), NEW text \in Seq(Chars)
  PROVE  LET m == <<"assistant", text>>
         IN  /\ m \in Message /\ m[1] = "assistant" /\ m[2] = text
             /\ Rendered(Append(ms, m)) = Join(Join(render(ms, TRUE), text), <<Eot>>)
             /\ Len(Rendered(Append(ms, m))) >= 2
<1> DEFINE m == <<"assistant", text>>
           mk == <<Mark.assistant>>
           eot == <<Eot>>
<1>1. m \in Message /\ m[1] = "assistant" /\ m[2] = text
  BY DEF Message
<1>2. mk \in Seq(Chars) /\ eot \in Seq(Chars) /\ Len(mk) = 1 /\ Len(eot) = 1
  BY DEF Mark, Eot, Chars
<1>3. RenderOne(m) = Join(Join(mk, text), eot)
  BY DEF RenderOne, Join
<1>4. /\ Append(ms, m) \in Seq(Message) /\ Append(ms, m) = ms \o <<m>> /\ <<m>> \in Seq(Message)
  <2> HIDE DEF m
  <2> QED
    BY <1>1, AppendCut
<1> HIDE DEF m, mk, eot
<1>5. Rendered(Append(ms, m)) = Join(Rendered(ms), RenderOne(m))
  BY <1>1, <1>4, RenderFacts
<1>6. render(ms, TRUE) = Join(Rendered(ms), mk) /\ Rendered(ms) \in Seq(Chars)
  BY RenderFacts DEF mk
<1>7. /\ \A a, b \in Seq(Chars) : Join(a, b) \in Seq(Chars)
      /\ \A a, b, d \in Seq(Chars) : Join(Join(a, b), d) = Join(a, Join(b, d))
  BY JoinFacts
<1> DEFINE R == Rendered(ms)
<1> HIDE DEF R
<1>8. R \in Seq(Chars) /\ Join(mk, text) \in Seq(Chars) /\ Join(R, mk) \in Seq(Chars)
  BY <1>2, <1>6, <1>7 DEF R
<1>9. Join(Join(Join(R, mk), text), eot) = Join(Join(R, Join(mk, text)), eot)
  BY <1>2, <1>7, <1>8
<1>10. Join(Join(R, Join(mk, text)), eot) = Join(R, Join(Join(mk, text), eot))
  BY <1>2, <1>7, <1>8
<1>11. Rendered(Append(ms, m)) = Join(Join(render(ms, TRUE), text), eot)
  BY <1>3, <1>5, <1>6, <1>9, <1>10 DEF R
<1>12. Len(Rendered(Append(ms, m))) >= 2
  <2>1. Join(Join(R, mk), text) \in Seq(Chars)
    BY <1>7, <1>8
  <2>2. \A a, b \in Seq(Chars) : Len(Join(a, b)) = Len(a) + Len(b)
    BY ConcatProperties DEF Join
  <2>3. Len(Join(Join(Join(R, mk), text), eot)) = ((Len(R) + 1) + Len(text)) + 1
    <3>1. Len(Join(Join(Join(R, mk), text), eot)) = Len(Join(Join(R, mk), text)) + Len(eot)
      BY <1>2, <2>1, <2>2
    <3>2. Len(Join(Join(R, mk), text)) = Len(Join(R, mk)) + Len(text)
      BY <1>8, <2>2
    <3>3. Len(Join(R, mk)) = Len(R) + Len(mk)
      BY <1>2, <1>8, <2>2
    <3> QED
      BY <1>2, <3>1, <3>2, <3>3
  <2>4. Len(R) \in Nat /\ Len(text) \in Nat
    BY <1>8, LenProperties
  <2> QED
    <3>1. Rendered(Append(ms, m)) = Join(Join(Join(R, mk), text), eot)
      BY <1>6, <1>11 DEF R
    <3>2. ((Len(R) + 1) + Len(text)) + 1 >= 2
      BY <2>4
    <3> QED
      BY <2>3, <3>1, <3>2
<1> QED
  BY <1>1, <1>11, <1>12 DEF m, eot

(* The end of a turn: the stream, with the marker that is still to come,    *)
(* spells the messages with the answer.                                     *)
LEMMA AnswerFacts ==
  ASSUME NEW s, Conv(s), NEW text \in Seq(Chars), NEW need \in BOOLEAN, NEW strange \in BOOLEAN,
         Question(s.messages),
         ~s.odd /\ ~strange =>
            /\ Mirror(s) /\ ThisTurn(s)
            /\ Join(decode(s.stream), IF need THEN <<Eot>> ELSE <<>>) = Join(Join(render(s.messages, TRUE), text), <<Eot>>)
  PROVE  LET u == [Said(s, text, need) EXCEPT !.odd = @ \/ strange]
         IN  Conv(u) /\ Resting(u) /\ (Mirror(s) => Mirror(u))
<1> DEFINE m == <<"assistant", text>>
           ms == Append(s.messages, m)
           u == [Said(s, text, need) EXCEPT !.odd = @ \/ strange]
<1>1. /\ IsRec(s) /\ s.messages \in Seq(Message) /\ s.stream \in Seq(Tok)
      /\ s.pos \in Nat /\ s.turn_pos \in Nat /\ s.written \in Nat
      /\ s.need \in BOOLEAN /\ s.odd \in BOOLEAN /\ s.turn_pos <= s.pos /\ s.pos <= s.written
      /\ s.rows \in [0 .. s.written - 1 -> Tok]
  BY DEF Conv
<1>2. /\ m \in Message /\ m[1] = "assistant"
      /\ Rendered(ms) = Join(Join(render(s.messages, TRUE), text), <<Eot>>) /\ Len(Rendered(ms)) >= 2
  BY <1>1, AnswerRendered
<1>3. u = [s EXCEPT !.messages = ms, !.need = need, !.odd = s.odd \/ strange]
  BY <1>1 DEF Said, IsRec
<1> HIDE DEF m
<1>4. /\ ms \in Seq(Message) /\ Len(ms) = Len(s.messages) + 1 /\ ms # <<>> /\ Last(ms) = m
      /\ \A n \in 0 .. Len(s.messages) : SubSeq(ms, 1, n) = SubSeq(s.messages, 1, n)
      /\ \A i \in 1 .. Len(s.messages) : ms[i] = s.messages[i]
  <2>1. s.messages \in Seq(Message) /\ m \in Message
    BY <1>1, <1>2
  <2> QED
    BY <2>1, AppendCut, ZenonT(60)
<1> HIDE DEF ms, u
<1>5. u = [messages |-> ms, stream |-> s.stream, pos |-> s.pos, turn_pos |-> s.turn_pos,
           need |-> need, rows |-> s.rows, written |-> s.written, odd |-> s.odd \/ strange]
  <2> DEFINE o == s.odd \/ strange
  <2> HIDE DEF o
  <2>1. u = [s EXCEPT !.messages = ms, !.need = need, !.odd = o]
    BY <1>3 DEF o
  <2>2. u = [messages |-> ms, stream |-> s.stream, pos |-> s.pos, turn_pos |-> s.turn_pos,
             need |-> need, rows |-> s.rows, written |-> s.written, odd |-> o]
    BY <1>1, <2>1 DEF IsRec
  <2> QED
    BY <2>2 DEF o
<1>6. /\ IsRec(u) /\ u.messages = ms /\ u.stream = s.stream /\ u.pos = s.pos /\ u.turn_pos = s.turn_pos
      /\ u.need = need /\ u.rows = s.rows /\ u.written = s.written /\ u.odd = (s.odd \/ strange)
  BY <1>5 DEF IsRec
<1>7. Conv(u)
  BY <1>1, <1>4, <1>6 DEF Conv
<1>8. Len(s.messages) \in Nat \ {0} /\ Len(ms) >= 2 /\ Len(ms) - 1 = Len(s.messages) /\ Len(ms) - 2 = Len(s.messages) - 1
  <2>1. Len(s.messages) \in Nat \ {0}
    BY <1>1, EmptySeq DEF Question
  <2>2. Len(ms) = Len(s.messages) + 1
    BY <1>4
  <2> QED
    BY <2>1, <2>2
<1>9. Answered(u.messages)
  <2>1. ms[Len(s.messages)] = Last(s.messages)
    BY <1>4, <1>8 DEF Last
  <2>2. Last(s.messages)[1] = "user"
    BY DEF Question
  <2> QED
    BY <1>6, <1>8, <2>1, <2>2 DEF Answered
<1>10. ASSUME ~u.odd PROVE Mirror(u) /\ LastTurn(u) /\ (u.stream # <<>> => Spells(u)) /\ (u.stream = <<>> => ~u.need)
  <2>1. /\ Mirror(s) /\ ThisTurn(s)
        /\ Join(decode(s.stream), IF need THEN <<Eot>> ELSE <<>>) = Rendered(ms)
    BY <1>2, <1>6, <1>10
  <2>2. Mirror(u)
    BY <1>6, <2>1 DEF Mirror, RowsAre
  <2>3. Spells(u)
    BY <1>6, <2>1 DEF Spells, Pending
  <2>4. u.stream # <<>>
    <3>1. SUFFICES ASSUME s.stream = <<>> PROVE FALSE
      BY <1>6
    <3>2. decode(s.stream) = <<>>
      BY <3>1, DecodeFacts
    <3> DEFINE P == IF need THEN <<Eot>> ELSE <<>>
    <3>3. P \in Seq(Chars) /\ Len(P) <= 1
      <4>1. <<Eot>> \in Seq(Chars) /\ Len(<<Eot>>) = 1
        BY DEF Eot, Chars
      <4>2. <<>> \in Seq(Chars) /\ Len(<<>>) = 0
        BY EmptySeq
      <4>3. CASE need
        BY <4>1, <4>3
      <4>4. CASE ~need
        BY <4>2, <4>4
      <4> QED
        BY <4>3, <4>4
    <3> HIDE DEF P
    <3>4. \A a \in Seq(Chars) : Join(<<>>, a) = a
      BY JoinFacts
    <3>5. Rendered(ms) = P
      BY <2>1, <3>2, <3>3, <3>4 DEF P
    <3>6. Len(P) \in Nat
      BY <3>3, LenProperties
    <3>7. Len(P) >= 2
      BY <1>2, <3>5
    <3> QED
      BY <3>3, <3>6, <3>7
  <2>5. LastTurn(u)
    <3>1. SUFFICES ASSUME s.turn_pos > 0
                   PROVE  decode(SubSeq(s.stream, 1, s.turn_pos)) = Rendered(SubSeq(ms, 1, Len(ms) - 2))
      BY <1>6 DEF LastTurn
    <3>2. decode(SubSeq(s.stream, 1, s.turn_pos)) = Rendered(SubSeq(s.messages, 1, Len(s.messages) - 1))
      BY <2>1, <3>1 DEF ThisTurn
    <3>3. Len(ms) - 2 = Len(s.messages) - 1
      BY <1>8
    <3>4. SubSeq(ms, 1, Len(s.messages) - 1) = SubSeq(s.messages, 1, Len(s.messages) - 1)
      BY <1>4, <1>8
    <3> QED
      BY <3>2, <3>3, <3>4
  <2> QED
    BY <2>2, <2>3, <2>4, <2>5
<1>11. Mirror(s) => Mirror(u)
  BY <1>6 DEF Mirror, RowsAre
<1> QED
  BY <1>7, <1>9, <1>10, <1>11 DEF u, Resting

-----------------------------------------------------------------------------
(* Generation without a draft. *)

(* Sampled tokens as a stream. *)
LEMMA WordFacts ==
  ASSUME NEW k \in Nat, NEW S \in SUBSET Tok, NEW w \in [1..k -> S]
  PROVE  w \in Seq(Tok) /\ Len(w) = k /\ \A i \in 1 .. k : w[i] \in S
<1>1. w \in Seq(S)
  <2>1. w \in UNION {[1 .. n -> S] : n \in Nat}
    OBVIOUS
  <2> QED
    BY <2>1, SeqDef
<1>2. Len(w) \in Nat /\ DOMAIN w = 1 .. Len(w) /\ DOMAIN w = 1 .. k
  BY <1>1, LenProperties
<1>3. Len(w) = k
  <2>1. 1 .. Len(w) = 1 .. k
    BY <1>2
  <2>2. CASE k < Len(w)
    <3>1. Len(w) \in 1 .. Len(w) /\ Len(w) \notin 1 .. k
      BY <1>2, <2>2
    <3> QED
      BY <2>1, <3>1
  <2>3. CASE Len(w) < k
    <3>1. k \in 1 .. k /\ k \notin 1 .. Len(w)
      BY <1>2, <2>3
    <3> QED
      BY <2>1, <3>1
  <2> QED
    BY <1>2, <2>2, <2>3
<1>4. w \in Seq(Tok)
  BY <1>1, SeqMonotonic
<1> QED
  BY <1>3, <1>4

LEMMA SampledTok == Sampled \in SUBSET Tok /\ Eot \in Tok /\ Sampled \cup {Eot} \in SUBSET Tok
  BY DEF Sampled, Ch, Tok, Chars, Eot

(* A turn ends: what the lemmas about its answer are for. *)
LEMMA DoneKeeps ==
  ASSUME ConvInv, NEW s, NEW strange, NEW slip \in BOOLEAN, Done(s, strange, slip),
         Conv([s EXCEPT !.odd = @ \/ strange]), Resting([s EXCEPT !.odd = @ \/ strange]),
         slip => drafting, ~slipped /\ ~slip => Mirror([s EXCEPT !.odd = @ \/ strange])
  PROVE  ConvInv'
<1> DEFINE u == [s EXCEPT !.odd = @ \/ strange]
<1>1. Conv(u) /\ Resting(u) /\ (~slipped /\ ~slip => Mirror(u))
  OBVIOUS
<1>2. c' = u /\ phase' = "idle" /\ gen' = NoTurn /\ disk' = disk /\ drafting' = drafting /\ slipped' = (slipped \/ slip)
  BY DEF Done
<1> HIDE DEF u
<1>3. Conv(c') /\ Resting(c')
  BY <1>1, <1>2
<1>4. DiskOK'
  BY <1>2 DEF ConvInv, DiskOK
<1>5. GenOK'
  <2>1. gen'.n = 0 /\ gen'.full = <<>> /\ phase' # "rounds"
    BY <1>2 DEF NoTurn
  <2>2. <<>> \in Seq(Chars)
    BY EmptySeq
  <2> QED
    BY <2>1, <2>2 DEF GenOK
<1>6. RowsInv'
  <2>1. slipped \in BOOLEAN /\ (slipped => drafting)
    BY DEF ConvInv, RowsInv
  <2>2. slipped' \in BOOLEAN /\ (slipped' => drafting') /\ (~slipped' => Mirror(c'))
    BY <1>1, <1>2, <2>1
  <2> QED
    BY <1>2, <2>2 DEF RowsInv
<1> QED
  BY <1>2, <1>3, <1>4, <1>5, <1>6 DEF ConvInv

(* A forward past the context ends the process and loses the turn. *)
LEMMA CrashKeeps == ASSUME ConvInv, Crash PROVE ConvInv'
<1>1. c' = c /\ phase' = "crashed" /\ gen' = NoTurn /\ disk' = disk /\ Conv(c) /\ DiskOK
  BY DEF Crash, ConvInv
<1>2. Conv(c') /\ DiskOK'
  BY <1>1 DEF DiskOK
<1>3. GenOK'
  <2>1. gen'.n = 0 /\ gen'.full = <<>> /\ phase' # "rounds"
    BY <1>1 DEF NoTurn
  <2>2. <<>> \in Seq(Chars)
    BY EmptySeq
  <2> QED
    BY <2>1, <2>2 DEF GenOK
<1>4. RowsInv'
  BY <1>1 DEF Crash, ConvInv, RowsInv
<1> QED
  BY <1>1, <1>2, <1>3, <1>4 DEF ConvInv

(* Tokens fed in a turn. *)
LEMMA FedAsked ==
  ASSUME NEW s, Conv(s), Asked(s), NEW toks \in Seq(Tok)
  PROVE  LET f == Fed(s, toks)
         IN  /\ Conv(f) /\ f.odd = s.odd /\ f.messages = s.messages
             /\ f.pos = s.pos + Len(toks) /\ (Mirror(s) => Mirror(f))
             /\ ~s.odd => /\ Mirror(f) /\ ThisTurn(f)
                          /\ decode(f.stream) = Join(render(s.messages, TRUE), decode(toks))
<1> DEFINE f == Fed(s, toks)
<1>1. /\ Conv(f) /\ f.messages = s.messages /\ f.turn_pos = s.turn_pos /\ f.odd = s.odd
      /\ f.pos = s.pos + Len(toks)
      /\ decode(f.stream) = Join(decode(s.stream), decode(toks))
      /\ Mirror(s) => Mirror(f)
      /\ \A n \in 0 .. Len(s.stream) : SubSeq(f.stream, 1, n) = SubSeq(s.stream, 1, n)
  BY FedFacts
<1> HIDE DEF f
<1>2. ASSUME ~s.odd PROVE ThisTurn(f) /\ Mirror(f) /\ decode(f.stream) = Join(render(s.messages, TRUE), decode(toks))
  <2>1. Mirror(s) /\ ThisTurn(s) /\ decode(s.stream) = render(s.messages, TRUE)
    BY <1>2 DEF Asked
  <2>2. s.turn_pos \in 0 .. Len(s.stream)
    BY <2>1 DEF Mirror, Conv
  <2>3. SubSeq(f.stream, 1, s.turn_pos) = SubSeq(s.stream, 1, s.turn_pos)
    BY <1>1, <2>2
  <2> QED
    BY <1>1, <2>1, <2>3 DEF ThisTurn
<1> QED
  BY <1>1, <1>2 DEF f

(* The text of a stop is what was said before it. *)
LEMMA StopCut ==
  ASSUME NEW a \in Seq(Tok), NEW t \in Tok, NEW before \in Seq(Chars),
         NEW text, text = Join(Join(before, decode(a)), decode(<<t>>))
  PROVE  /\ text \in Seq(Chars)
         /\ SubSeq(text, 1, Len(Join(before, decode(a)))) = Join(before, decode(a))
<1> DEFINE x == Join(before, decode(a))
           y == decode(<<t>>)
<1>1. <<t>> \in Seq(Tok)
  OBVIOUS
<1>2. decode(a) \in Seq(Chars) /\ y \in Seq(Chars)
  BY <1>1, DecodeFacts
<1>3. \A p, q \in Seq(Chars) : Join(p, q) \in Seq(Chars)
  BY JoinFacts
<1>4. x \in Seq(Chars)
  BY <1>2, <1>3
<1> HIDE DEF x, y
<1>5. Join(x, y) \in Seq(Chars) /\ Join(x, y) = x \o y
  BY <1>2, <1>3, <1>4 DEF Join
<1>6. Len(x) \in 0 .. Len(x) /\ SubSeq(x, 1, Len(x)) = x
  BY <1>4, LenProperties, SubSeqFull
<1>7. SubSeq(x \o y, 1, Len(x)) = SubSeq(x, 1, Len(x))
  BY <1>2, <1>4, <1>6, JoinCut
<1>8. text = Join(x, y)
  BY DEF x, y
<1> QED
  BY <1>5, <1>6, <1>7, <1>8 DEF x

(* A plain turn ends in a message its tokens spell. *)
LEMMA PlainKeeps == ConvInv /\ Plain => ConvInv'
<1> SUFFICES ASSUME ConvInv, Plain PROVE ConvInv'
  OBVIOUS
<1>1. Conv(c) /\ Asked(c) /\ c.pos \in Nat /\ c.messages \in Seq(Message) /\ c.odd \in BOOLEAN /\ Mirror(c)
  BY DEF ConvInv, Plain, Conv, RowsInv
<1>2. Question(c.messages)
  BY <1>1 DEF Asked
<1>3. Min({n_predict, Max({0, n_ctx - c.pos})}) \in Nat
  <2>1. n_predict \in Nat /\ n_ctx - c.pos \in Int
    BY <1>1, ConversationAssumption
  <2>2. Max({0, n_ctx - c.pos}) \in Nat
    BY <2>1, TwoFacts
  <2> QED
    BY <2>1, <2>2, TwoFacts
<1>4. PICK k \in 0..Min({n_predict, Max({0, n_ctx - c.pos})}) : \E w \in [1..k -> Sampled] :
        \/ Done(Said(Fed(c, w), decode(w), TRUE), FALSE, FALSE)
        \/ Done(Said(Fed(c, Append(w, Eot)), decode(w), FALSE), FALSE, FALSE)
        \/ /\ k > 0 /\ Ends(decode(w))
           /\ Done(Said(Fed(c, Front(w)), SubSeq(decode(w), 1, match_stop_suffix(decode(w))), TRUE),
                   match_stop_suffix(decode(w)) # Len(decode(Front(w))), FALSE)
  BY Zenon DEF Plain
<1>5. PICK w \in [1..k -> Sampled] :
        \/ Done(Said(Fed(c, w), decode(w), TRUE), FALSE, FALSE)
        \/ Done(Said(Fed(c, Append(w, Eot)), decode(w), FALSE), FALSE, FALSE)
        \/ /\ k > 0 /\ Ends(decode(w))
           /\ Done(Said(Fed(c, Front(w)), SubSeq(decode(w), 1, match_stop_suffix(decode(w))), TRUE),
                   match_stop_suffix(decode(w)) # Len(decode(Front(w))), FALSE)
  BY <1>4
<1> DEFINE text == decode(w)
           cut == match_stop_suffix(text)
           R == render(c.messages, TRUE)
           eot == <<Eot>>
<1>6. k \in Nat /\ w \in Seq(Tok) /\ Len(w) = k
  <2>1. k \in Nat
    BY <1>3
  <2> QED
    BY <2>1, WordFacts, SampledTok
<1>7. text \in Seq(Chars) /\ R \in Seq(Chars) /\ eot \in Seq(Chars) /\ Eot \in Tok
  <2>1. text \in Seq(Chars)
    BY <1>6, DecodeFacts
  <2>2. R \in Seq(Chars)
    BY <1>1, RenderFacts
  <2>3. Eot \in Chars /\ Eot \in Tok
    BY DEF Eot, Chars, Tok
  <2>4. <<Eot>> \in Seq(Chars)
    BY <2>3
  <2> QED
    BY <2>1, <2>2, <2>3, <2>4
<1>8. /\ \A a, b \in Seq(Chars) : Join(a, b) \in Seq(Chars)
      /\ \A a \in Seq(Chars) : Join(<<>>, a) = a /\ Join(a, <<>>) = a
      /\ \A a, b, d \in Seq(Chars) : Join(Join(a, b), d) = Join(a, Join(b, d))
  BY JoinFacts
<1>9. CASE Done(Said(Fed(c, w), text, TRUE), FALSE, FALSE)
  <2> DEFINE s == Fed(c, w)
  <2>1. /\ Conv(s) /\ Mirror(s) /\ s.odd = c.odd /\ s.messages = c.messages
        /\ ~c.odd => Mirror(s) /\ ThisTurn(s) /\ decode(s.stream) = Join(R, text)
    BY <1>1, <1>6, FedAsked
  <2> HIDE DEF s, text, R
  <2>2. ~s.odd /\ ~FALSE =>
            /\ Mirror(s) /\ ThisTurn(s)
            /\ Join(decode(s.stream), IF TRUE THEN <<Eot>> ELSE <<>>) = Join(Join(render(s.messages, TRUE), text), <<Eot>>)
    BY <2>1 DEF R
  <2>3. LET u == [Said(s, text, TRUE) EXCEPT !.odd = @ \/ FALSE] IN Conv(u) /\ Resting(u) /\ Mirror(u)
    BY <1>7, <2>1, <2>2, <1>2, AnswerFacts
  <2> QED
    BY <1>9, <2>3, DoneKeeps DEF s
<1>10. CASE Done(Said(Fed(c, Append(w, Eot)), text, FALSE), FALSE, FALSE)
  <2> DEFINE s == Fed(c, Append(w, Eot))
  <2>1. Append(w, Eot) \in Seq(Tok) /\ Append(w, Eot) = w \o <<Eot>> /\ <<Eot>> \in Seq(Tok)
    BY <1>6, <1>7, AppendCut
  <2>2. decode(Append(w, Eot)) = Join(text, eot)
    <3>1. decode(<<Eot>>) = <<Eot>>
      BY <1>7, DecodeFacts DEF Eot, Merged
    <3> QED
      BY <1>6, <2>1, <3>1, DecodeFacts
  <2>3. /\ Conv(s) /\ Mirror(s) /\ s.odd = c.odd /\ s.messages = c.messages
        /\ ~c.odd => Mirror(s) /\ ThisTurn(s) /\ decode(s.stream) = Join(R, Join(text, eot))
    BY <1>1, <2>1, <2>2, FedAsked
  <2> HIDE DEF s, text, R, eot
  <2>4. Join(Join(R, Join(text, eot)), <<>>) = Join(Join(R, text), eot)
    <3>1. Join(text, eot) \in Seq(Chars)
      BY <1>7, <1>8
    <3>2. Join(R, Join(text, eot)) \in Seq(Chars)
      BY <1>7, <1>8, <3>1
    <3> QED
      BY <1>7, <1>8, <3>2
  <2>5. ~s.odd /\ ~FALSE =>
            /\ Mirror(s) /\ ThisTurn(s)
            /\ Join(decode(s.stream), IF FALSE THEN <<Eot>> ELSE <<>>) = Join(Join(render(s.messages, TRUE), text), <<Eot>>)
    BY <2>3, <2>4 DEF R, eot
  <2>6. LET u == [Said(s, text, FALSE) EXCEPT !.odd = @ \/ FALSE] IN Conv(u) /\ Resting(u) /\ Mirror(u)
    BY <1>7, <2>3, <2>5, <1>2, AnswerFacts
  <2> QED
    BY <1>10, <2>6, DoneKeeps DEF s
<1>11. CASE /\ k > 0 /\ Ends(text)
            /\ Done(Said(Fed(c, Front(w)), SubSeq(text, 1, cut), TRUE), cut # Len(decode(Front(w))), FALSE)
  <2> DEFINE fr == Front(w)
             s == Fed(c, fr)
             strange == cut # Len(decode(fr))
             kept == SubSeq(text, 1, cut)
  <2>1. k - 1 \in 0 .. Len(w) /\ Len(w) - 1 = k - 1 /\ k \in 1 .. Len(w)
    BY <1>6, <1>11
  <2>2. fr = SubSeq(w, 1, k - 1)
    BY <2>1 DEF Front
  <2>3. fr \in Seq(Tok) /\ w = fr \o <<w[k]>>
    <3>1. SubSeq(w, 1, k) = SubSeq(w, 1, k - 1) \o <<w[k]>>
      <4>1. 1 \in 1 .. Len(w) /\ k \in 1 .. Len(w)
        BY <1>6, <2>1
      <4> QED
        BY <1>6, <4>1, SubSeqRecursiveSecond
    <3>2. SubSeq(w, 1, k) = w
      BY <1>6, SubSeqFull
    <3>3. SubSeq(w, 1, k - 1) \in Seq(Tok)
      BY <1>6, <2>1, CutFacts
    <3> QED
      BY <2>2, <3>1, <3>2, <3>3
  <2> HIDE DEF fr
  <2>4. w[k] \in Tok /\ <<w[k]>> \in Seq(Tok)
    <3>1. w[k] \in Tok
      BY <1>6, <2>1, ElementOfSeq
    <3> QED
      BY <3>1
  <2>5. text = Join(decode(fr), decode(<<w[k]>>)) /\ decode(fr) \in Seq(Chars)
    BY <2>3, <2>4, DecodeFacts
  <2>6. SubSeq(text, 1, Len(decode(fr))) = decode(fr)
    <3>1. <<>> \in Seq(Chars) /\ Join(<<>>, decode(fr)) = decode(fr)
      BY <1>8, <2>5, EmptySeq
    <3>2. text = Join(Join(<<>>, decode(fr)), decode(<<w[k]>>))
      BY <2>5, <3>1
    <3> HIDE DEF text
    <3>3. SubSeq(text, 1, Len(Join(<<>>, decode(fr)))) = Join(<<>>, decode(fr))
      BY <2>3, <2>4, <3>1, <3>2, StopCut
    <3> QED
      BY <3>1, <3>3
  <2>7. cut \in 0 .. Len(text)
    BY <1>7, <1>11, StopFacts
  <2>8. kept \in Seq(Chars)
    BY <1>7, <2>7, CutFacts
  <2>9. /\ Conv(s) /\ Mirror(s) /\ s.odd = c.odd /\ s.messages = c.messages
        /\ ~c.odd => Mirror(s) /\ ThisTurn(s) /\ decode(s.stream) = Join(R, decode(fr))
    BY <1>1, <2>3, FedAsked
  <2>10. Done(Said(s, kept, TRUE), strange, FALSE)
    BY <1>11 DEF fr
  <2>11. ~strange => kept = decode(fr)
    BY <2>6
  <2>12. strange \in BOOLEAN
    OBVIOUS
  <2> HIDE DEF s, text, cut, R, kept, strange
  <2>13. ~s.odd /\ ~strange =>
            /\ Mirror(s) /\ ThisTurn(s)
            /\ Join(decode(s.stream), IF TRUE THEN <<Eot>> ELSE <<>>) = Join(Join(render(s.messages, TRUE), kept), <<Eot>>)
    BY <2>9, <2>11 DEF R
  <2>14. LET u == [Said(s, kept, TRUE) EXCEPT !.odd = @ \/ strange] IN Conv(u) /\ Resting(u) /\ Mirror(u)
    BY <2>8, <2>9, <2>12, <2>13, <1>2, AnswerFacts
  <2> QED
    BY <2>10, <2>14, DoneKeeps
<1> QED
  BY <1>5, <1>9, <1>10, <1>11

-----------------------------------------------------------------------------
(* Turns that end in an error, and turns with a draft. *)

(* A turn known to leave the render is only a conversation. *)
LEMMA OddFacts ==
  ASSUME NEW s, Conv(s), NEW strange \in BOOLEAN
  PROVE  LET u == [s EXCEPT !.odd = @ \/ strange]
         IN  /\ Conv(u) /\ u.odd = (s.odd \/ strange)
             /\ u.messages = s.messages /\ u.stream = s.stream /\ u.pos = s.pos
             /\ u.turn_pos = s.turn_pos /\ u.need = s.need /\ u.rows = s.rows /\ u.written = s.written
<1> DEFINE u == [s EXCEPT !.odd = @ \/ strange]
           o == s.odd \/ strange
<1>1. o \in BOOLEAN
  OBVIOUS
<1> HIDE DEF o
<1>2. u = [messages |-> s.messages, stream |-> s.stream, pos |-> s.pos, turn_pos |-> s.turn_pos,
           need |-> s.need, rows |-> s.rows, written |-> s.written, odd |-> o]
  BY DEF Conv, IsRec, o
<1> HIDE DEF u
<1>3. /\ u.odd = o
      /\ u.messages = s.messages /\ u.stream = s.stream /\ u.pos = s.pos
      /\ u.turn_pos = s.turn_pos /\ u.need = s.need /\ u.rows = s.rows /\ u.written = s.written
  BY <1>2
<1>4. IsRec(u)
  BY <1>2, <1>3 DEF IsRec
<1>5. Conv(u)
  BY <1>1, <1>3, <1>4 DEF Conv
<1> QED
  BY <1>3, <1>5 DEF u, o

(* A forward in a turn, the stream and the position moved on. *)
Moved(s, toks, more, p, u) ==
    LET f == Forward(s, toks, s.pos)
    IN  /\ IsRec(u) /\ u.messages = s.messages /\ u.stream = s.stream \o more /\ u.pos = p
        /\ u.turn_pos = s.turn_pos /\ u.need = s.need /\ u.odd = s.odd
        /\ u.rows = f.rows /\ u.written = f.written

LEMMA MovedIs ==
  ASSUME NEW s, Conv(s), NEW toks \in Seq(Tok), NEW more, NEW p
  PROVE  LET f == Forward(s, toks, s.pos)
         IN  /\ IsRec(f) /\ f.pos = s.pos /\ f.stream = s.stream
             /\ Moved(s, toks, more, p, [f EXCEPT !.stream = s.stream \o more, !.pos = p])
<1> DEFINE f == Forward(s, toks, s.pos)
           j == s.stream \o more
           u == [f EXCEPT !.stream = j, !.pos = p]
<1>1. /\ IsRec(f) /\ f.messages = s.messages /\ f.stream = s.stream /\ f.pos = s.pos
      /\ f.turn_pos = s.turn_pos /\ f.need = s.need /\ f.odd = s.odd
  <2>1. s.pos \in Nat /\ s.pos <= s.written
    BY DEF Conv
  <2> QED
    BY <2>1, ForwardFacts
<1> HIDE DEF f, j
<1>2. u = [messages |-> f.messages, stream |-> j, pos |-> p, turn_pos |-> f.turn_pos,
           need |-> f.need, rows |-> f.rows, written |-> f.written, odd |-> f.odd]
  <2> DEFINE fm == f.messages
             fs == f.stream
             fp == f.pos
             ft == f.turn_pos
             fn == f.need
             fr == f.rows
             fw == f.written
             fo == f.odd
  <2>1. f = [messages |-> fm, stream |-> fs, pos |-> fp, turn_pos |-> ft,
             need |-> fn, rows |-> fr, written |-> fw, odd |-> fo]
    BY <1>1 DEF IsRec
  <2> HIDE DEF fm, fs, fp, ft, fn, fr, fw, fo
  <2>2. u = [messages |-> fm, stream |-> j, pos |-> p, turn_pos |-> ft,
             need |-> fn, rows |-> fr, written |-> fw, odd |-> fo]
    <3>1. u = [f EXCEPT !.stream = j, !.pos = p]
      OBVIOUS
    <3> HIDE DEF u
    <3> QED
      BY <2>1, <3>1
  <2> QED
    BY <2>2 DEF fm, ft, fn, fr, fw, fo
<1> HIDE DEF u
<1>3. /\ u.messages = f.messages /\ u.stream = j /\ u.pos = p /\ u.turn_pos = f.turn_pos
      /\ u.need = f.need /\ u.rows = f.rows /\ u.written = f.written /\ u.odd = f.odd
  BY <1>2
<1>4. IsRec(u)
  BY <1>2, <1>3 DEF IsRec
<1>5. Moved(s, toks, more, p, u)
  BY <1>1, <1>3, <1>4 DEF Moved, f, j
<1> QED
  BY <1>1, <1>5 DEF f, j, u

LEMMA RoundFacts ==
  ASSUME NEW s, Conv(s), NEW toks \in Seq(Tok), NEW more \in Seq(Tok), NEW p \in Nat,
         s.pos <= p, p <= s.pos + Len(toks), NEW u, Moved(s, toks, more, p, u)
  PROVE  /\ Conv(u) /\ u.messages = s.messages /\ u.odd = s.odd /\ u.turn_pos = s.turn_pos
         /\ u.stream = s.stream \o more /\ u.pos = p /\ u.written >= s.pos + Len(toks)
         /\ Len(u.stream) = Len(s.stream) + Len(more)
         /\ decode(u.stream) = Join(decode(s.stream), decode(more))
         /\ s.turn_pos <= Len(s.stream) /\ ThisTurn(s) => ThisTurn(u)
         /\ /\ Len(s.stream) = s.pos + 1 /\ RowsAre(s, s.pos)
            /\ Len(toks) > 0 /\ s.stream[s.pos + 1] = toks[1]
            /\ p - s.pos - 1 <= Len(more)
            /\ \A i \in 1 .. p - s.pos - 1 : more[i] = toks[i + 1]
            => RowsAre(u, p)
<1> DEFINE f == Forward(s, toks, s.pos)
           j == s.stream \o more
<1>1. /\ s.messages \in Seq(Message) /\ s.stream \in Seq(Tok)
      /\ s.pos \in Nat /\ s.turn_pos \in Nat /\ s.written \in Nat
      /\ s.need \in BOOLEAN /\ s.odd \in BOOLEAN
      /\ s.turn_pos <= s.pos /\ s.pos <= s.written
  BY DEF Conv
<1>2. /\ f.written \in Nat /\ f.written >= s.written /\ f.written >= s.pos + Len(toks)
      /\ f.rows \in [0 .. f.written - 1 -> Tok]
      /\ \A i \in 1 .. Len(toks) : f.rows[s.pos + i - 1] = toks[i]
      /\ \A q \in 0 .. s.written - 1 : q < s.pos => f.rows[q] = s.rows[q]
  <2> DEFINE at == s.pos
  <2>1. at \in Nat /\ at <= s.written
    BY <1>1
  <2> HIDE DEF at
  <2>2. LET g == Forward(s, toks, at)
        IN  /\ g.written \in Nat /\ g.written >= s.written /\ g.written >= at + Len(toks)
            /\ g.rows \in [0 .. g.written - 1 -> Tok]
            /\ \A i \in 1 .. Len(toks) : g.rows[at + i - 1] = toks[i]
            /\ \A q \in 0 .. s.written - 1 : q < at => g.rows[q] = s.rows[q]
    BY <2>1, ForwardFacts
  <2> QED
    BY <2>2, Zenon DEF at
<1>3. j \in Seq(Tok) /\ Len(j) = Len(s.stream) + Len(more) /\ Len(s.stream) \in Nat /\ Len(more) \in Nat /\ Len(toks) \in Nat
  BY <1>1, ConcatProperties, LenProperties
<1>4. /\ \A i \in 1 .. Len(s.stream) : j[i] = s.stream[i]
      /\ \A i \in 1 .. Len(more) : j[Len(s.stream) + i] = more[i]
  <2>1. \A i \in 1 .. Len(s.stream) + Len(more) :
           j[i] = IF i <= Len(s.stream) THEN s.stream[i] ELSE more[i - Len(s.stream)]
    BY <1>1, ConcatProperties
  <2> HIDE DEF j
  <2>2. Len(s.stream) \in Nat /\ Len(more) \in Nat
    BY <1>3
  <2>3. ASSUME NEW i \in 1 .. Len(s.stream) PROVE j[i] = s.stream[i]
    <3>1. i \in 1 .. Len(s.stream) + Len(more) /\ i <= Len(s.stream)
      BY <2>2, <2>3
    <3> QED
      BY <2>1, <3>1
  <2>4. ASSUME NEW i \in 1 .. Len(more) PROVE j[Len(s.stream) + i] = more[i]
    <3>1. /\ Len(s.stream) + i \in 1 .. Len(s.stream) + Len(more) /\ ~(Len(s.stream) + i <= Len(s.stream))
          /\ Len(s.stream) + i - Len(s.stream) = i
      BY <2>2, <2>4
    <3> QED
      BY <2>1, <3>1
  <2> QED
    BY <2>3, <2>4
<1>5. decode(j) = Join(decode(s.stream), decode(more))
  BY <1>1, DecodeFacts
<1>6. \A n \in 0 .. Len(s.stream) : SubSeq(j, 1, n) = SubSeq(s.stream, 1, n)
  BY <1>1, JoinCut
<1>7. /\ u.messages = s.messages /\ u.stream = j /\ u.pos = p /\ u.turn_pos = s.turn_pos
      /\ u.need = s.need /\ u.rows = f.rows /\ u.written = f.written /\ u.odd = s.odd
      /\ IsRec(u)
  BY Zenon DEF Moved
<1> HIDE DEF j, f
<1>8. Conv(u)
  <2>1. u.turn_pos <= u.pos /\ u.pos <= u.written
    BY <1>1, <1>2, <1>3, <1>7
  <2>2. u.rows \in [0 .. u.written - 1 -> Tok]
    BY <1>2, <1>7
  <2> QED
    BY <1>1, <1>2, <1>3, <1>7, <2>1, <2>2 DEF Conv
<1>9. s.turn_pos <= Len(s.stream) /\ ThisTurn(s) => ThisTurn(u)
  <2> SUFFICES ASSUME s.turn_pos <= Len(s.stream), ThisTurn(s) PROVE ThisTurn(u)
    OBVIOUS
  <2>1. s.turn_pos \in 0 .. Len(s.stream)
    BY <1>1, <1>3
  <2>2. SubSeq(u.stream, 1, s.turn_pos) = SubSeq(s.stream, 1, s.turn_pos)
    BY <1>6, <1>7, <2>1
  <2>3. u.turn_pos = s.turn_pos /\ u.messages = s.messages
    BY <1>2, <1>7
  <2> QED
    BY <2>2, <2>3 DEF ThisTurn
<1>10. ASSUME Len(s.stream) = s.pos + 1, RowsAre(s, s.pos),
              Len(toks) > 0, s.stream[s.pos + 1] = toks[1], p - s.pos - 1 <= Len(more),
              \A i \in 1 .. p - s.pos - 1 : more[i] = toks[i + 1]
       PROVE  RowsAre(u, p)
  <2> SUFFICES ASSUME NEW i \in 1 .. p PROVE f.rows[i - 1] = j[i]
    BY <1>7 DEF RowsAre
  <2>1. /\ Len(s.stream) \in Nat /\ Len(more) \in Nat /\ Len(toks) \in Nat /\ s.pos \in Nat
        /\ Len(s.stream) = s.pos + 1 /\ Len(toks) > 0 /\ p - s.pos - 1 <= Len(more)
    BY <1>1, <1>3, <1>10
  <2>2. CASE i <= s.pos
    <3>1. i \in 1 .. s.pos /\ i - 1 \in 0 .. s.written - 1 /\ i - 1 < s.pos /\ i \in 1 .. Len(s.stream)
      <4> DEFINE sp == s.pos
                 sw == s.written
                 sl == Len(s.stream)
      <4>1. sp \in Nat /\ sw \in Nat /\ sp <= sw /\ sl = sp + 1 /\ i \in Int /\ 1 <= i /\ i <= sp
        BY <1>1, <2>1, <2>2
      <4> HIDE DEF sp, sw, sl
      <4>2. i \in 1 .. sp /\ i - 1 \in 0 .. sw - 1 /\ i - 1 < sp /\ i \in 1 .. sl
        BY <4>1
      <4> QED
        BY <4>2 DEF sp, sw, sl
    <3>2. s.rows[i - 1] = s.stream[i]
      BY <1>10, <3>1 DEF RowsAre
    <3>3. f.rows[i - 1] = s.rows[i - 1]
      BY <1>2, <3>1
    <3>4. j[i] = s.stream[i]
      BY <1>4, <3>1
    <3> QED
      BY <3>2, <3>3, <3>4
  <2>3. CASE i = s.pos + 1
    <3>1. 1 \in 1 .. Len(toks) /\ s.pos + 1 - 1 = i - 1 /\ i \in 1 .. Len(s.stream)
      BY <2>1, <2>3
    <3>2. f.rows[s.pos + 1 - 1] = toks[1]
      BY <1>2, <3>1
    <3>3. j[i] = s.stream[i]
      BY <1>4, <3>1
    <3> QED
      BY <1>10, <2>3, <3>1, <3>2, <3>3
  <2>4. CASE i > s.pos + 1
    <3> DEFINE m == i - s.pos - 1
    <3>1. /\ m \in 1 .. p - s.pos - 1 /\ m \in 1 .. Len(more) /\ m + 1 \in 1 .. Len(toks)
          /\ s.pos + (m + 1) - 1 = i - 1 /\ Len(s.stream) + m = i
      <4>1. i \in Int /\ m \in Int /\ i <= p /\ p <= s.pos + Len(toks) /\ m + 1 = i - s.pos /\ m >= 1
        BY <2>1, <2>4
      <4> HIDE DEF m
      <4>2. m <= p - s.pos - 1 /\ m <= Len(more) /\ m + 1 <= Len(toks)
        BY <2>1, <4>1
      <4>3. s.pos + (m + 1) - 1 = i - 1 /\ (s.pos + 1) + m = i
        <5> DEFINE q == s.pos
        <5>1. q \in Int /\ i \in Int /\ m \in Int /\ m + 1 = i - q
          BY <2>1, <4>1
        <5> HIDE DEF q
        <5>2. q + (m + 1) - 1 = i - 1 /\ (q + 1) + m = i
          BY <5>1
        <5> QED
          BY <5>2 DEF q
      <4>4. Len(s.stream) + m = i
        <5>1. Len(s.stream) = s.pos + 1
          BY <2>1
        <5> QED
          BY <4>3, <5>1, Zenon
      <4> QED
        BY <2>1, <4>1, <4>2, <4>3, <4>4
    <3> HIDE DEF m
    <3>2. f.rows[s.pos + (m + 1) - 1] = toks[m + 1]
      BY <1>2, <3>1
    <3>3. j[Len(s.stream) + m] = more[m]
      BY <1>4, <3>1
    <3>4. more[m] = toks[m + 1]
      BY <1>10, <3>1
    <3>5. f.rows[i - 1] = toks[m + 1] /\ j[i] = more[m]
      BY <3>1, <3>2, <3>3
    <3> QED
      BY <3>4, <3>5
  <2> QED
    BY <1>1, <2>2, <2>3, <2>4
<1> QED
  BY <1>2, <1>3, <1>5, <1>7, <1>8, <1>9, <1>10 DEF f, j

(* The last token of a turn is written, and nothing more is said. *)
LEMMA PastFacts ==
  ASSUME NEW s, Conv(s), NEW t \in Tok
  PROVE  LET q == [Forward(s, <<t>>, s.pos) EXCEPT !.pos = @ + 1]
         IN  /\ Conv(q) /\ q.odd = s.odd /\ q.messages = s.messages
             /\ q.stream = s.stream /\ q.pos = s.pos + 1
             /\ s.turn_pos <= Len(s.stream) /\ ThisTurn(s) => ThisTurn(q)
             /\ Len(s.stream) = s.pos + 1 /\ RowsAre(s, s.pos) /\ s.stream[s.pos + 1] = t => Mirror(q)
<1> DEFINE E == <<>>
           one == <<t>>
           p == s.pos + 1
           f == Forward(s, one, s.pos)
           v == [f EXCEPT !.stream = s.stream \o E, !.pos = p]
<1>1. /\ s.pos \in Nat /\ p \in Nat /\ s.pos <= p /\ p <= s.pos + Len(one) /\ one \in Seq(Tok) /\ E \in Seq(Tok)
      /\ Len(one) > 0 /\ one[1] = t /\ p - s.pos - 1 = 0 /\ Len(E) = 0
  <2>1. s.pos \in Nat
    BY DEF Conv
  <2>2. one \in Seq(Tok) /\ Len(one) = 1 /\ one[1] = t
    OBVIOUS
  <2>3. E \in Seq(Tok) /\ Len(E) = 0
    BY EmptySeq
  <2> HIDE DEF one, E
  <2> QED
    BY <2>1, <2>2, <2>3
<1>2. s.stream \o E = s.stream
  <2>1. s.stream \in Seq(Tok)
    BY DEF Conv
  <2> QED
    BY <2>1, ConcatEmptySeq
<1>3. p = s.pos + 1
  OBVIOUS
<1> HIDE DEF p, one, E
<1>4. IsRec(f) /\ f.pos = s.pos /\ f.stream = s.stream /\ Moved(s, one, E, p, v)
  BY <1>1, MovedIs
<1> HIDE DEF f
<1>5. v = [f EXCEPT !.pos = @ + 1]
  <2>1. IsRec(f) /\ f.pos + 1 = p
    BY <1>4 DEF p
  <2>2. v = [f EXCEPT !.stream = f.stream, !.pos = p]
    BY <1>2, <1>4
  <2> HIDE DEF v
  <2> QED
    BY <2>1, <2>2 DEF IsRec
<1> HIDE DEF v
<1>6. /\ Conv(v) /\ v.messages = s.messages /\ v.odd = s.odd /\ v.stream = s.stream /\ v.pos = p
      /\ s.turn_pos <= Len(s.stream) /\ ThisTurn(s) => ThisTurn(v)
  <2>1. /\ Conv(v) /\ v.messages = s.messages /\ v.odd = s.odd /\ v.stream = s.stream \o E /\ v.pos = p
        /\ s.turn_pos <= Len(s.stream) /\ ThisTurn(s) => ThisTurn(v)
    <3>1. one \in Seq(Tok) /\ E \in Seq(Tok) /\ p \in Nat /\ s.pos <= p /\ p <= s.pos + Len(one)
      BY <1>1
    <3>2. Moved(s, one, E, p, v)
      BY <1>4
    <3> QED
      BY <3>1, <3>2, RoundFacts
  <2> QED
    BY <1>2, <2>1
<1>7. ASSUME Len(s.stream) = s.pos + 1, RowsAre(s, s.pos), s.stream[s.pos + 1] = t PROVE Mirror(v)
  <2>1. p - s.pos - 1 <= Len(E) /\ s.stream[s.pos + 1] = one[1]
    BY <1>1, <1>7
  <2>2. \A i \in 1 .. p - s.pos - 1 : E[i] = one[i + 1]
    <3>1. p - s.pos - 1 = 0
      BY <1>1
    <3> QED
      BY <3>1
  <2>3. RowsAre(v, p)
    BY <1>1, <1>4, <1>7, <2>1, <2>2, RoundFacts
  <2> QED
    BY <1>3, <1>6, <1>7, <2>3 DEF Mirror
<1> QED
  BY <1>3, <1>5, <1>6, <1>7 DEF f, one

(* A turn in which the grammar allows no token ends in a conversation. *)
LEMMA GrammarStuckKeeps == ConvInv /\ GrammarStuck => ConvInv'
<1> SUFFICES ASSUME ConvInv, GrammarStuck PROVE ConvInv'
  OBVIOUS
<1> DEFINE K == IF drafting THEN 0 ELSE Min({n_predict - 1, n_ctx - c.pos - 1})
<1>1. Conv(c) /\ c.pos \in Nat /\ (~slipped => Mirror(c))
  BY DEF ConvInv, Conv, GrammarStuck, RowsInv
<1>2. Question(c.messages)
  BY DEF ConvInv, GrammarStuck, Asked
<1>3. K \in Int
  <2>1. n_predict - 1 \in Int /\ n_ctx - c.pos - 1 \in Int
    BY <1>1, ConversationAssumption
  <2> QED
    BY <2>1, TwoFacts
<1>4. PICK k \in 0 .. K : \E w \in [1..k -> Sampled] : Done(Fed(c, w), TRUE, FALSE)
  BY Zenon DEF GrammarStuck
<1>5. PICK w \in [1..k -> Sampled] : Done(Fed(c, w), TRUE, FALSE)
  BY <1>4
<1> HIDE DEF K
<1>6. k \in Nat
  BY <1>3
<1>7. w \in Seq(Tok)
  BY <1>6, WordFacts, SampledTok
<1>8. Conv(Fed(c, w)) /\ Fed(c, w).messages = c.messages /\ (Mirror(c) => Mirror(Fed(c, w)))
  BY <1>1, <1>7, FedFacts
<1> DEFINE u == [Fed(c, w) EXCEPT !.odd = @ \/ TRUE]
<1>9. Conv(u) /\ u.odd /\ u.messages = c.messages /\ (~slipped => Mirror(u))
  <2> DEFINE v == Fed(c, w)
  <2>1. Conv(v) /\ v.messages = c.messages /\ (~slipped => Mirror(v))
    BY <1>1, <1>8
  <2> HIDE DEF v
  <2>2. LET z == [v EXCEPT !.odd = @ \/ TRUE]
        IN  /\ Conv(z) /\ z.odd /\ z.messages = v.messages
            /\ z.stream = v.stream /\ z.pos = v.pos /\ z.rows = v.rows
    BY <2>1, OddFacts
  <2>3. LET z == [v EXCEPT !.odd = @ \/ TRUE] IN Mirror(v) => Mirror(z)
    BY <2>2 DEF Mirror, RowsAre
  <2> QED
    BY <2>1, <2>2, <2>3 DEF v
<1>10. Resting(u)
  <2>1. "user" # "assistant" /\ Answered(u.messages)
    BY <1>9, <1>2 DEF Answered, Question
  <2> QED
    BY <1>9, <2>1 DEF Resting
<1> QED
  BY <1>5, <1>9, <1>10, DoneKeeps

(* The first token of a drafting turn. *)
LEMMA SeedKeeps == ConvInv /\ Seed => ConvInv'
<1> SUFFICES ASSUME ConvInv, Seed PROVE ConvInv'
  OBVIOUS
<1>1. /\ Conv(c) /\ Asked(c) /\ c.pos \in Nat /\ c.messages \in Seq(Message) /\ c.odd \in BOOLEAN
      /\ c.stream \in Seq(Tok) /\ c.turn_pos \in Nat /\ c.turn_pos <= c.pos
      /\ drafting /\ (~slipped => Mirror(c)) /\ slipped \in BOOLEAN
  BY DEF ConvInv, Seed, Conv, RowsInv
<1>2. Question(c.messages)
  BY <1>1 DEF Asked
<1> DEFINE R == render(c.messages, TRUE)
           eot == <<Eot>>
           E == <<>>
<1>3. R \in Seq(Chars) /\ eot \in Seq(Chars) /\ E \in Seq(Chars) /\ eot \in Seq(Tok) /\ decode(eot) = eot /\ E \in Seq(Tok)
  <2>1. R \in Seq(Chars)
    BY <1>1, RenderFacts
  <2>2. Eot \in Chars /\ Eot \in Tok /\ Eot # Merged
    BY DEF Eot, Chars, Tok, Merged
  <2>3. eot \in Seq(Chars) /\ eot \in Seq(Tok)
    BY <2>2
  <2>4. decode(eot) = eot
    BY <2>2, DecodeFacts
  <2>5. E \in Seq(Chars) /\ E \in Seq(Tok)
    BY EmptySeq
  <2> QED
    BY <2>1, <2>3, <2>4, <2>5
<1>4. /\ \A a, b \in Seq(Chars) : Join(a, b) \in Seq(Chars)
      /\ \A a \in Seq(Chars) : Join(E, a) = a /\ Join(a, E) = a
      /\ \A a, b, d \in Seq(Chars) : Join(Join(a, b), d) = Join(a, Join(b, d))
  BY JoinFacts
<1>5. PICK t \in Sampled \cup {Eot} :
        LET text == decode(<<t>>)
            cut == match_stop_suffix(text)
            past == [Forward(c, <<t>>, c.pos) EXCEPT !.pos = @ + 1]
        IN  IF t = Eot
            THEN IF c.pos + 1 >= n_ctx THEN Crash ELSE Done(Said(Fed(c, <<Eot>>), <<>>, FALSE), FALSE, FALSE)
            ELSE IF Ends(text)
            THEN IF c.pos >= n_ctx THEN Crash
                 ELSE Done(Said(IF n_predict = 1 THEN past ELSE c, SubSeq(text, 1, cut), TRUE), cut # 0 \/ n_predict = 1, n_predict = 1)
            ELSE /\ c' = [c EXCEPT !.stream = Append(@, t)] /\ phase' = "rounds"
                 /\ gen' = [seed |-> t, n |-> 1, full |-> text]
                 /\ UNCHANGED <<disk, drafting, slipped>>
  BY Zenon DEF Seed
<1>6. t \in Tok /\ <<t>> \in Seq(Tok) /\ Len(<<t>>) = 1
  <2>1. t \in Tok
    BY SampledTok
  <2> QED
    BY <2>1
<1>7. decode(<<t>>) \in Seq(Chars)
  BY <1>6, DecodeFacts
<1>8. ASSUME NEW s, Conv(s)
      PROVE  LET q == [Forward(s, <<t>>, s.pos) EXCEPT !.pos = @ + 1]
             IN  Conv(q) /\ q.odd = s.odd /\ q.messages = s.messages
  BY <1>6, <1>8, PastFacts
<1>9. CASE Crash
  BY <1>9, CrashKeeps
<1>10. CASE t = Eot /\ ~Crash
  <2> DEFINE s == Fed(c, eot)
  <2>1. /\ Conv(s) /\ (~slipped => Mirror(s)) /\ s.odd = c.odd /\ s.messages = c.messages /\ s.pos = c.pos + Len(eot)
        /\ ~c.odd => Mirror(s) /\ ThisTurn(s) /\ decode(s.stream) = Join(R, eot)
    BY <1>1, <1>3, FedAsked
  <2>2. Done(Said(s, E, FALSE), FALSE, FALSE)
    BY <1>5, <1>10
  <2> HIDE DEF s, R, eot, E
  <2>3. Join(Join(R, eot), E) = Join(Join(R, E), eot)
    BY <1>3, <1>4
  <2>4. ~s.odd /\ ~FALSE =>
            /\ Mirror(s) /\ ThisTurn(s)
            /\ Join(decode(s.stream), IF FALSE THEN <<Eot>> ELSE <<>>) = Join(Join(render(s.messages, TRUE), E), <<Eot>>)
    BY <2>1, <2>3 DEF R, eot, E
  <2>5. LET u == [Said(s, E, FALSE) EXCEPT !.odd = @ \/ FALSE] IN Conv(u) /\ Resting(u) /\ (~slipped => Mirror(u))
    BY <1>3, <2>1, <2>4, <1>2, AnswerFacts
  <2> QED
    BY <2>2, <2>5, DoneKeeps
<1>11. CASE t # Eot /\ Ends(decode(<<t>>)) /\ ~Crash
  <2> DEFINE text == decode(<<t>>)
             cut == match_stop_suffix(text)
             past == IF n_predict = 1 THEN [Forward(c, <<t>>, c.pos) EXCEPT !.pos = @ + 1] ELSE c
             strange == cut # 0 \/ n_predict = 1
             kept == SubSeq(text, 1, cut)
  <2>1. Done(Said(past, kept, TRUE), strange, n_predict = 1)
    BY <1>5, <1>11
  <2>2. cut \in 0 .. Len(text)
    BY <1>7, <1>11, StopFacts
  <2>3. kept \in Seq(Chars)
    BY <1>7, <2>2, CutFacts
  <2>4. cut = 0 => kept = E
    BY <1>7 
  <2> HIDE DEF kept, cut, text
  <2>5. Conv(past) /\ past.odd = c.odd /\ past.messages = c.messages /\ (~slipped /\ ~(n_predict = 1) => Mirror(past))
    BY <1>1, <1>8
  <2>6. strange \in BOOLEAN /\ TRUE \in BOOLEAN
    OBVIOUS
  <2>7. ~strange => past = c /\ kept = E
    BY <2>4
  <2> HIDE DEF past, strange, E, R
  <2>8. Join(R, E) = R
    BY <1>3, <1>4
  <2>9. ~past.odd /\ ~strange =>
            /\ Mirror(past) /\ ThisTurn(past)
            /\ Join(decode(past.stream), IF TRUE THEN <<Eot>> ELSE <<>>) = Join(Join(render(past.messages, TRUE), kept), <<Eot>>)
    <3> SUFFICES ASSUME ~past.odd, ~strange
                 PROVE  /\ Mirror(c) /\ ThisTurn(c)
                        /\ Join(decode(c.stream), <<Eot>>) = Join(Join(R, kept), <<Eot>>)
      BY <2>7 DEF R
    <3>1. Mirror(c) /\ ThisTurn(c) /\ decode(c.stream) = R
      BY <1>1, <2>5 DEF Asked, R
    <3>2. Join(R, kept) = R
      BY <2>7, <2>8
    <3> QED
      BY <3>1, <3>2
  <2>10. LET u == [Said(past, kept, TRUE) EXCEPT !.odd = @ \/ strange] IN Conv(u) /\ Resting(u) /\ (~slipped /\ ~(n_predict = 1) => Mirror(u))
    BY <2>3, <2>5, <2>6, <2>9, <1>2, AnswerFacts
  <2>11. (n_predict = 1) \in BOOLEAN
    OBVIOUS
  <2> DEFINE slip == n_predict = 1
  <2> HIDE DEF slip
  <2>12. Done(Said(past, kept, TRUE), strange, slip) /\ slip \in BOOLEAN /\ drafting
    BY <1>1, <2>1, <2>11 DEF slip
  <2>13. LET u == [Said(past, kept, TRUE) EXCEPT !.odd = @ \/ strange] IN Conv(u) /\ Resting(u) /\ (~slipped /\ ~slip => Mirror(u))
    BY <2>10 DEF slip
  <2> QED
    BY <2>12, <2>13, DoneKeeps
<1>12. CASE t # Eot /\ ~Ends(decode(<<t>>)) /\ ~Crash
  <2> DEFINE text == decode(<<t>>)
             more == Append(c.stream, t)
             u == [c EXCEPT !.stream = more]
  <2>1. c' = u /\ phase' = "rounds" /\ gen' = [seed |-> t, n |-> 1, full |-> text] /\ disk' = disk
        /\ slipped' = slipped /\ drafting' = drafting
    BY <1>5, <1>12
  <2>2. /\ more \in Seq(Tok) /\ Len(more) = Len(c.stream) + 1 /\ more = c.stream \o <<t>>
        /\ \A n \in 0 .. Len(c.stream) : SubSeq(more, 1, n) = SubSeq(c.stream, 1, n)
        /\ \A i \in 1 .. Len(c.stream) : more[i] = c.stream[i]
        /\ more[Len(c.stream) + 1] = t
    <3>1. Append(c.stream, t)[Len(c.stream) + 1] = t
      BY <1>1, <1>6, AppendProperties
    <3> QED
      BY <1>1, <1>6, <3>1, AppendCut
  <2>3. decode(more) = Join(decode(c.stream), text)
    BY <1>1, <1>6, <2>2, DecodeFacts
  <2> HIDE DEF more, text
  <2>4. /\ u = [messages |-> c.messages, stream |-> more, pos |-> c.pos, turn_pos |-> c.turn_pos,
                need |-> c.need, rows |-> c.rows, written |-> c.written, odd |-> c.odd]
    <3>1. IsRec(c)
      BY <1>1 DEF Conv
    <3> QED
      BY ONLY <3>1 DEF IsRec, u
  <2> HIDE DEF u
  <2>5. /\ u.messages = c.messages /\ u.stream = more /\ u.pos = c.pos /\ u.turn_pos = c.turn_pos
        /\ u.need = c.need /\ u.rows = c.rows /\ u.written = c.written /\ u.odd = c.odd
    BY <2>4
  <2>6. IsRec(u)
    BY <2>4, <2>5 DEF IsRec
  <2>7. Conv(u)
    BY <1>1, <2>2, <2>5, <2>6 DEF Conv
  <2> DEFINE g == [seed |-> t, n |-> 1, full |-> text]
  <2>8. g.seed = t /\ g.n = 1 /\ g.full = text
    OBVIOUS
  <2> HIDE DEF g
  <2>9. Mirror(c) => SeedAhead(u, g)
    <3> SUFFICES ASSUME Mirror(c) PROVE Len(more) = c.pos + 1 /\ more[c.pos + 1] = t /\ RowsAre(u, c.pos)
      BY <2>5, <2>8 DEF SeedAhead
    <3>1. c.pos = Len(c.stream) /\ RowsAre(c, c.pos)
      BY DEF Mirror
    <3>2. RowsAre(u, c.pos)
      BY <2>2, <2>5, <3>1 DEF RowsAre
    <3> QED
      BY <2>2, <3>1, <3>2
  <2>10. Speaking(u, g)
    <3> SUFFICES ASSUME ~c.odd
                 PROVE  /\ Len(more) = c.pos + 1 /\ more[c.pos + 1] = t /\ RowsAre(u, c.pos)
                        /\ ThisTurn(u) /\ decode(more) = Join(R, text)
      BY <2>5, <2>8, <1>2 DEF Speaking
    <3>1. c.pos = Len(c.stream) /\ RowsAre(c, c.pos) /\ ThisTurn(c) /\ decode(c.stream) = R
      BY <1>1 DEF Asked, Mirror
    <3>2. Len(more) = c.pos + 1 /\ more[c.pos + 1] = t
      BY <2>2, <3>1
    <3>3. decode(more) = Join(R, text)
      BY <2>3, <3>1
    <3>4. RowsAre(u, c.pos)
      BY <2>2, <2>5, <3>1 DEF RowsAre
    <3>5. c.turn_pos \in 0 .. Len(c.stream)
      BY <1>1, <3>1
    <3>6. SubSeq(u.stream, 1, c.turn_pos) = SubSeq(c.stream, 1, c.turn_pos)
      BY <2>2, <2>5, <3>5
    <3>7. ThisTurn(u)
      BY <2>5, <3>1, <3>6 DEF ThisTurn
    <3> QED
      BY <3>2, <3>3, <3>4, <3>7
  <2>11. Conv(c') /\ Speaking(c', gen') /\ (~slipped => SeedAhead(c', gen'))
    BY <1>1, <2>1, <2>7, <2>9, <2>10 DEF g
  <2>12. GenOK'
    BY <1>6, <1>7, <2>1, <2>8 DEF GenOK, g, text
  <2>13. DiskOK'
    BY <2>1 DEF ConvInv, DiskOK
  <2>14. RowsInv'
    BY <1>1, <2>1, <2>11 DEF RowsInv
  <2> QED
    BY <2>1, <2>11, <2>12, <2>13, <2>14 DEF ConvInv
<1> QED
  BY <1>9, <1>10, <1>11, <1>12

(* A position moved before or after a forward. *)
At(s, p) == [s EXCEPT !.pos = p]

LEMMA ForwardMoved ==
  ASSUME NEW s, Conv(s), NEW toks, NEW at, NEW p, NEW q
  PROVE  At(Forward(s, toks, at), q) = At(Forward(At(s, p), toks, at), q)
<1> DEFINE v == [s EXCEPT !.pos = p]
           r == Overwritten(s.rows, toks, at)
           w == Max({s.written, at + Len(toks)})
<1>1. IsRec(s)
  BY DEF Conv
<1>2. v = [messages |-> s.messages, stream |-> s.stream, pos |-> p, turn_pos |-> s.turn_pos,
           need |-> s.need, rows |-> s.rows, written |-> s.written, odd |-> s.odd]
  BY <1>1 DEF IsRec
<1> HIDE DEF v
<1>3. /\ v.messages = s.messages /\ v.stream = s.stream /\ v.turn_pos = s.turn_pos
      /\ v.need = s.need /\ v.rows = s.rows /\ v.written = s.written /\ v.odd = s.odd
  BY <1>2
<1>4. Forward(s, toks, at) = [s EXCEPT !.rows = r, !.written = w]
  BY DEF Forward
<1>5. Forward(v, toks, at) = [v EXCEPT !.rows = r, !.written = w]
  BY <1>3 DEF Forward
<1> HIDE DEF r, w
<1> DEFINE x == Forward(s, toks, at)
           y == Forward(v, toks, at)
<1>6. x = [messages |-> s.messages, stream |-> s.stream, pos |-> s.pos, turn_pos |-> s.turn_pos,
           need |-> s.need, rows |-> r, written |-> w, odd |-> s.odd]
  BY <1>1, <1>4 DEF IsRec
<1>7. y = [messages |-> s.messages, stream |-> s.stream, pos |-> p, turn_pos |-> s.turn_pos,
           need |-> s.need, rows |-> r, written |-> w, odd |-> s.odd]
  BY <1>2, <1>5
<1> HIDE DEF x, y
<1> DEFINE z == [messages |-> s.messages, stream |-> s.stream, pos |-> q, turn_pos |-> s.turn_pos,
                 need |-> s.need, rows |-> r, written |-> w, odd |-> s.odd]
<1>8. [x EXCEPT !.pos = q] = z
  BY <1>6
<1>9. [y EXCEPT !.pos = q] = z
  BY <1>7
<1> QED
  BY <1>8, <1>9, Zenon DEF x, y, v, At

(* What a round writes and says: n of its tokens, up to position p. *)
Verified(s, g, out, a, rest) == Forward(s, <<g.seed>> \o (SubSeq(out, 1, a) \o rest), s.pos)
SaidTo(s, g, out, a, rest, n, p) ==
    [Verified(s, g, out, a, rest) EXCEPT !.stream = s.stream \o SubSeq(out, 1, n), !.pos = p]

MaySay(s, g, out, a, rest, n, p) ==
    /\ Conv(s) /\ Speaking(s, g) /\ g.seed \in Tok /\ g.full \in Seq(Chars)
    /\ a \in Nat /\ out \in Seq(Tok) /\ Len(out) = a + 1 /\ rest \in Seq(Tok)
    /\ n \in 0 .. a + 1 /\ p \in Nat /\ s.pos <= p /\ p <= s.pos + n + 1 /\ p <= s.pos + a + 1

SaysSo(s, g, out, n, p, f, v) ==
    /\ IsRec(f) /\ f.stream = s.stream /\ f.pos = s.pos
    /\ Conv(v) /\ v.messages = s.messages /\ v.odd = s.odd /\ v.pos = p
    /\ v.stream = s.stream \o SubSeq(out, 1, n)
    /\ SeedAhead(s, g) => Len(v.stream) = s.pos + 1 + n /\ RowsAre(v, p)
    /\ ~s.odd => /\ Len(v.stream) = s.pos + 1 + n /\ ThisTurn(v) /\ RowsAre(v, p)
                 /\ decode(v.stream) = Join(render(s.messages, TRUE), Join(g.full, decode(SubSeq(out, 1, n))))

LEMMA SaidFacts ==
  ASSUME NEW s, NEW g, NEW out, NEW a, NEW rest, NEW n, NEW p, MaySay(s, g, out, a, rest, n, p)
  PROVE  SaysSo(s, g, out, n, p, Verified(s, g, out, a, rest), SaidTo(s, g, out, a, rest, n, p))
<1> DEFINE one == <<g.seed>>
           pre == SubSeq(out, 1, a)
           pr == pre \o rest
           toks == one \o pr
           m == SubSeq(out, 1, n)
           f == Forward(s, toks, s.pos)
           v == [f EXCEPT !.stream = s.stream \o m, !.pos = p]
<1> DEFINE r == Len(rest)
           d == a + r
<1>1. /\ Conv(s) /\ Speaking(s, g) /\ g.seed \in Tok /\ g.full \in Seq(Chars)
      /\ a \in Nat /\ out \in Seq(Tok) /\ Len(out) = a + 1 /\ rest \in Seq(Tok)
      /\ n \in 0 .. a + 1 /\ p \in Nat /\ s.pos <= p /\ p <= s.pos + n + 1 /\ p <= s.pos + a + 1
      /\ r \in Nat /\ d \in Nat /\ a <= d
  <2>1. rest \in Seq(Tok) /\ a \in Nat
    BY DEF MaySay
  <2>2. r \in Nat
    BY <2>1, LenProperties
  <2> HIDE DEF r
  <2>3. d \in Nat /\ a <= d
    BY <2>1, <2>2
  <2> QED
    BY <2>2, <2>3 DEF MaySay
<1>2. /\ s.pos \in Nat /\ s.turn_pos \in Nat /\ s.turn_pos <= s.pos /\ s.stream \in Seq(Tok) /\ s.messages \in Seq(Message)
      /\ a \in Nat /\ n \in Nat /\ a <= d /\ n <= a + 1
  BY <1>1 DEF Conv
<1> HIDE DEF d
<1>3. /\ pre \in Seq(Tok) /\ Len(pre) = a /\ \A i \in 1 .. a : pre[i] = out[i]
  <2>1. a \in 0 .. Len(out)
    BY <1>1, <1>2
  <2> QED
    BY <1>1, <2>1, CutFacts
<1>4. /\ m \in Seq(Tok) /\ Len(m) = n /\ \A i \in 1 .. n : m[i] = out[i]
  <2>1. n \in 0 .. Len(out)
    BY <1>1, <1>2
  <2> QED
    BY <1>1, <2>1, CutFacts
<1>5. one \in Seq(Tok) /\ Len(one) = 1 /\ one[1] = g.seed
  BY <1>1
<1> HIDE DEF pre, m, one
<1>6. /\ pr \in Seq(Tok) /\ Len(pr) = d /\ \A i \in 1 .. a : pr[i] = out[i]
  <2>1. pr \in Seq(Tok) /\ Len(pr) = Len(pre) + Len(rest)
    BY <1>1, <1>3, ConcatProperties
  <2>2. Len(pr) = d
    BY <1>3, <2>1 DEF d
  <2>3. ASSUME NEW i \in 1 .. a PROVE pr[i] = out[i]
    <3>1. i \in 1 .. Len(pre) + Len(rest) /\ i <= Len(pre)
      <4>1. Len(pre) = a /\ Len(rest) \in Nat /\ a \in Nat
        BY <1>1, <1>3
      <4> QED
        BY <4>1
    <3>2. pr[i] = pre[i]
      BY <1>1, <1>3, <3>1, ConcatProperties
    <3> QED
      BY <1>3, <3>2
  <2> QED
    BY <2>1, <2>2, <2>3
<1> HIDE DEF pr
<1>7. /\ toks \in Seq(Tok) /\ Len(toks) = d + 1 /\ toks[1] = g.seed /\ \A i \in 1 .. a : toks[i + 1] = out[i]
  <2>1. toks \in Seq(Tok) /\ Len(toks) = Len(one) + Len(pr)
    BY <1>5, <1>6, ConcatProperties
  <2>2. Len(toks) = d + 1
    BY <1>5, <1>6, <2>1
  <2>3. toks[1] = one[1]
    <3>1. 1 \in 1 .. Len(one) + Len(pr) /\ 1 <= Len(one)
      BY <1>5, <1>6
    <3> QED
      BY <1>5, <1>6, <3>1, ConcatProperties
  <2>4. ASSUME NEW i \in 1 .. a PROVE toks[i + 1] = out[i]
    <3>1. i + 1 \in 1 .. Len(one) + Len(pr) /\ ~(i + 1 <= Len(one)) /\ i + 1 - Len(one) = i
      BY <1>2, <1>5, <1>6
    <3>2. toks[i + 1] = pr[i + 1 - Len(one)]
      <4>1. one \in Seq(Tok) /\ pr \in Seq(Tok)
        BY <1>5, <1>6
      <4> QED
        BY <3>1, <4>1, ConcatProperties
    <3> QED
      BY <1>6, <3>1, <3>2
  <2> QED
    BY <1>5, <2>1, <2>2, <2>3, <2>4
<1> HIDE DEF toks
<1>8. IsRec(f) /\ f.pos = s.pos /\ f.stream = s.stream /\ Moved(s, toks, m, p, v)
  BY <1>1, <1>7, MovedIs
<1> HIDE DEF f, v
<1>9. p <= s.pos + Len(toks) /\ p \in Nat /\ s.pos <= p /\ Conv(s)
  BY <1>1, <1>2, <1>7
<1>10. /\ Conv(v) /\ v.messages = s.messages /\ v.odd = s.odd /\ v.pos = p /\ v.stream = s.stream \o m
       /\ Len(v.stream) = Len(s.stream) + Len(m)
       /\ decode(v.stream) = Join(decode(s.stream), decode(m))
       /\ s.turn_pos <= Len(s.stream) /\ ThisTurn(s) => ThisTurn(v)
  <2>1. toks \in Seq(Tok) /\ m \in Seq(Tok)
    BY <1>4, <1>7
  <2>2. Moved(s, toks, m, p, v)
    BY <1>8
  <2> QED
    BY <1>9, <2>1, <2>2, RoundFacts
<1>11. ASSUME SeedAhead(s, g) PROVE Len(v.stream) = s.pos + 1 + n /\ RowsAre(v, p)
  <2>1. Len(s.stream) = s.pos + 1 /\ s.stream[s.pos + 1] = g.seed /\ RowsAre(s, s.pos)
    BY <1>11 DEF SeedAhead
  <2>2. Len(v.stream) = s.pos + 1 + n
    <3>1. Len(v.stream) = Len(s.stream) + Len(m)
      BY <1>10
    <3>2. Len(s.stream) = s.pos + 1 /\ Len(m) = n
      BY <1>4, <2>1
    <3> QED
      BY <3>1, <3>2, Zenon
  <2>3. RowsAre(v, p)
    <3>1. p - s.pos - 1 <= Len(m) /\ Len(toks) > 0 /\ s.stream[s.pos + 1] = toks[1]
      <4>1. p - s.pos - 1 <= n /\ Len(m) = n
        BY <1>1, <1>2, <1>4
      <4>2. Len(toks) > 0 /\ toks[1] = g.seed
        <5>1. d \in Nat /\ Len(toks) = d + 1
          BY <1>1, <1>7
        <5>2. Len(toks) > 0
          BY <5>1
        <5> QED
          BY <1>7, <5>2
      <4>3. s.stream[s.pos + 1] = g.seed
        BY <2>1
      <4> QED
        BY <4>1, <4>2, <4>3, Zenon
    <3>2. ASSUME NEW i \in 1 .. p - s.pos - 1 PROVE m[i] = toks[i + 1]
      <4>1. i \in 1 .. n /\ i \in 1 .. a
        BY <1>1, <1>2
      <4> QED
        BY <1>4, <1>7, <4>1
    <3>3. Len(s.stream) = s.pos + 1 /\ RowsAre(s, s.pos)
      BY <2>1
    <3> QED
      BY <1>4, <1>7, <1>8, <1>9, <3>1, <3>2, <3>3, RoundFacts
  <2> QED
    BY <2>2, <2>3
<1>12. ASSUME ~s.odd
       PROVE  /\ Len(v.stream) = s.pos + 1 + n /\ ThisTurn(v) /\ RowsAre(v, p)
              /\ decode(v.stream) = Join(render(s.messages, TRUE), Join(g.full, decode(m)))
  <2>1. /\ Len(s.stream) = s.pos + 1 /\ s.stream[s.pos + 1] = g.seed /\ RowsAre(s, s.pos)
        /\ ThisTurn(s) /\ decode(s.stream) = Join(render(s.messages, TRUE), g.full)
    BY <1>1, <1>12 DEF Speaking
  <2>2. Len(v.stream) = s.pos + 1 + n /\ RowsAre(v, p)
    BY <1>11, <2>1 DEF SeedAhead
  <2>3. ThisTurn(v)
    <3>1. s.turn_pos <= Len(s.stream)
      <4>1. Len(s.stream) = s.pos + 1
        BY <2>1
      <4>2. s.turn_pos <= s.pos + 1
        BY <1>2
      <4> QED
        BY <4>1, <4>2, Zenon
    <3> QED
      BY <1>10, <2>1, <3>1
  <2>4. decode(v.stream) = Join(render(s.messages, TRUE), Join(g.full, decode(m)))
    <3>1. /\ render(s.messages, TRUE) \in Seq(Chars) /\ decode(m) \in Seq(Chars)
      BY <1>2, <1>4, RenderFacts, DecodeFacts
    <3>2. Join(Join(render(s.messages, TRUE), g.full), decode(m)) = Join(render(s.messages, TRUE), Join(g.full, decode(m)))
      <4>1. \A x, y, z \in Seq(Chars) : Join(Join(x, y), z) = Join(x, Join(y, z))
        BY JoinFacts
      <4> QED
        BY <1>1, <3>1, <4>1
    <3> QED
      BY <1>10, <2>1, <3>2
  <2> QED
    BY <2>2, <2>3, <2>4
<1>13. f = Verified(s, g, out, a, rest) /\ v = SaidTo(s, g, out, a, rest, n, p)
  BY Zenon DEF f, v, toks, pr, pre, one, m, Verified, SaidTo
<1>14. SaysSo(s, g, out, n, p, f, v)
  BY <1>8, <1>10, <1>11, <1>12 DEF m, SaysSo
<1> QED
  BY <1>13, <1>14, Zenon

(* An element of the second of two sequences. *)
LEMMA ConcatAt ==
  ASSUME NEW S, NEW x \in Seq(S), NEW y \in Seq(S), NEW k \in 1 .. Len(y)
  PROVE  (x \o y)[Len(x) + k] = y[k]
<1>1. Len(x) \in Nat /\ Len(y) \in Nat
  BY LenProperties
<1> DEFINE n == Len(x)
           m == Len(y)
           q == n + k
<1>2. n \in Nat /\ m \in Nat /\ k \in 1 .. m
  BY <1>1
<1> HIDE DEF n, m
<1>3. q \in 1 .. n + m /\ ~(q <= n) /\ q - n = k
  BY <1>2
<1> HIDE DEF q
<1>4. (x \o y)[q] = y[q - n]
  BY <1>3, ConcatProperties DEF n, m
<1> QED
  BY <1>3, <1>4 DEF q, n

(* A round, and the end of a drafting turn. *)
LEMMA RoundKeeps == ConvInv /\ Round => ConvInv'
<1> SUFFICES ASSUME ConvInv, Round PROVE ConvInv'
  OBVIOUS
<1> DEFINE R == render(c.messages, TRUE)
           F == gen.full
           eot == <<Eot>>
           E == <<>>
<1>1. /\ Conv(c) /\ Speaking(c, gen) /\ c.pos \in Nat /\ c.messages \in Seq(Message) /\ c.odd \in BOOLEAN
      /\ c.stream \in Seq(Tok) /\ c.turn_pos \in Nat /\ c.turn_pos <= c.pos
      /\ gen.n \in Nat /\ F \in Seq(Chars) /\ gen.seed \in Tok /\ DiskOK
      /\ drafting /\ slipped \in BOOLEAN /\ (~slipped => SeedAhead(c, gen))
  BY DEF ConvInv, Round, Conv, GenOK, RowsInv
<1>2. Question(c.messages)
  BY <1>1 DEF Speaking
<1>3. R \in Seq(Chars) /\ eot \in Seq(Chars) /\ E \in Seq(Chars) /\ Eot \in Tok
  <2>1. R \in Seq(Chars)
    BY <1>1, RenderFacts
  <2>2. Eot \in Chars /\ Eot \in Tok
    BY DEF Eot, Chars, Tok
  <2>3. eot \in Seq(Chars)
    BY <2>2
  <2>4. E \in Seq(Chars)
    BY EmptySeq
  <2> QED
    BY <2>1, <2>2, <2>3, <2>4
<1>4. /\ \A x, y \in Seq(Chars) : Join(x, y) \in Seq(Chars)
      /\ \A x \in Seq(Chars) : Join(E, x) = x /\ Join(x, E) = x
      /\ \A x, y, z \in Seq(Chars) : Join(Join(x, y), z) = Join(x, Join(y, z))
  BY JoinFacts
<1>5. CASE c.pos >= n_ctx
  <2>1. Crash
    BY <1>5, Zenon DEF Round
  <2> QED
    BY <2>1, CrashKeeps
<1>6. CASE gen.n >= n_predict /\ ~(c.pos >= n_ctx)
  <2> DEFINE t == gen.seed
             past == [Forward(c, <<t>>, c.pos) EXCEPT !.pos = @ + 1]
  <2>1. Done(Said(past, F, TRUE), FALSE, FALSE)
    BY <1>6, Zenon DEF Round
  <2>2. /\ Conv(past) /\ past.odd = c.odd /\ past.messages = c.messages /\ past.stream = c.stream
        /\ c.turn_pos <= Len(c.stream) /\ ThisTurn(c) => ThisTurn(past)
        /\ Len(c.stream) = c.pos + 1 /\ RowsAre(c, c.pos) /\ c.stream[c.pos + 1] = t => Mirror(past)
        /\ ~slipped => Mirror(past)
    <3>1. Conv(c) /\ t \in Tok
      BY <1>1
    <3>2. ~slipped => Len(c.stream) = c.pos + 1 /\ RowsAre(c, c.pos) /\ c.stream[c.pos + 1] = t
      BY <1>1 DEF SeedAhead
    <3> HIDE DEF t
    <3> QED
      BY <3>1, <3>2, PastFacts
  <2> HIDE DEF past
  <2> HIDE DEF t, F, R
  <2>3. ~past.odd /\ ~FALSE =>
            /\ Mirror(past) /\ ThisTurn(past)
            /\ Join(decode(past.stream), IF TRUE THEN <<Eot>> ELSE <<>>) = Join(Join(render(past.messages, TRUE), F), <<Eot>>)
    <3> SUFFICES ASSUME ~c.odd
                 PROVE  /\ Mirror(past) /\ ThisTurn(past) /\ decode(c.stream) = Join(R, F)
      BY <2>2 DEF R
    <3>1. /\ Len(c.stream) = c.pos + 1 /\ c.stream[c.pos + 1] = t /\ RowsAre(c, c.pos)
          /\ ThisTurn(c) /\ decode(c.stream) = Join(R, F)
      BY <1>1 DEF Speaking, R, F, t
    <3>2. c.turn_pos <= Len(c.stream)
      <4>1. Len(c.stream) = c.pos + 1
        BY <3>1
      <4>2. c.turn_pos <= c.pos + 1
        BY <1>1
      <4> QED
        BY <4>1, <4>2, Zenon
    <3> QED
      BY <2>2, <3>1, <3>2
  <2>4. LET u == [Said(past, F, TRUE) EXCEPT !.odd = @ \/ FALSE] IN Conv(u) /\ Resting(u) /\ (~slipped => Mirror(u))
    BY <1>1, <2>2, <2>3, <1>2, AnswerFacts
  <2> QED
    BY <2>1, <2>4, DoneKeeps
<1>7. CASE ~(gen.n >= n_predict \/ c.pos >= n_ctx)
  <2> DEFINE d == Min({Depth, Max({0, n_ctx - (c.pos + 1)})})
  <2>1. d \in Nat
    <3>1. Depth \in Nat /\ n_ctx - (c.pos + 1) \in Int
      BY <1>1, ConversationAssumption
    <3>2. Max({0, n_ctx - (c.pos + 1)}) \in Nat
      BY <3>1, TwoFacts
    <3> QED
      BY <3>1, <3>2, TwoFacts
  <2>2. PICK a \in 0 .. d : \E out \in [1..(a + 1) -> Sampled \cup {Eot}], rest \in [1..(d - a) -> Sampled] :
            LET proposals == SubSeq(out, 1, a) \o rest
                s == Forward(c, <<gen.seed>> \o proposals, c.pos)
                text(i) == gen.full \o decode(SubSeq(out, 1, i))
                ends == {i \in DOMAIN out : gen.n + i - 1 >= n_predict \/ out[i] = Eot \/ Ends(text(i))}
                i == Min(ends)
                said(n) == [s EXCEPT !.stream = @ \o SubSeq(out, 1, n)]
            IN  IF ends = {}
                THEN /\ c' = [said(a + 1) EXCEPT !.pos = @ + a + 1]
                     /\ gen' = [seed |-> Last(out), n |-> gen.n + a + 1, full |-> text(a + 1)]
                     /\ UNCHANGED <<phase, disk, drafting, slipped>>
                ELSE IF gen.n + i - 1 >= n_predict
                THEN Done(Said([said(i - 1) EXCEPT !.pos = @ + i - 1], text(i - 1), TRUE), TRUE, TRUE)
                ELSE IF out[i] = Eot
                THEN IF i = Len(out) /\ c.pos + i >= n_ctx THEN Crash
                     ELSE LET w == IF i = Len(out) THEN Forward(said(i), <<Eot>>, c.pos + i) ELSE said(i)
                          IN  Done(Said([w EXCEPT !.pos = @ + i + 1], text(i - 1), FALSE), FALSE, FALSE)
                ELSE Done(Said([said(i - 1) EXCEPT !.pos = @ + i], SubSeq(text(i), 1, match_stop_suffix(text(i))), TRUE),
                          match_stop_suffix(text(i)) # Len(text(i - 1)), FALSE)
    BY <1>7, Zenon DEF Round
  <2>3. PICK out \in [1..(a + 1) -> Sampled \cup {Eot}], rest \in [1..(d - a) -> Sampled] :
            LET proposals == SubSeq(out, 1, a) \o rest
                s == Forward(c, <<gen.seed>> \o proposals, c.pos)
                text(i) == gen.full \o decode(SubSeq(out, 1, i))
                ends == {i \in DOMAIN out : gen.n + i - 1 >= n_predict \/ out[i] = Eot \/ Ends(text(i))}
                i == Min(ends)
                said(n) == [s EXCEPT !.stream = @ \o SubSeq(out, 1, n)]
            IN  IF ends = {}
                THEN /\ c' = [said(a + 1) EXCEPT !.pos = @ + a + 1]
                     /\ gen' = [seed |-> Last(out), n |-> gen.n + a + 1, full |-> text(a + 1)]
                     /\ UNCHANGED <<phase, disk, drafting, slipped>>
                ELSE IF gen.n + i - 1 >= n_predict
                THEN Done(Said([said(i - 1) EXCEPT !.pos = @ + i - 1], text(i - 1), TRUE), TRUE, TRUE)
                ELSE IF out[i] = Eot
                THEN IF i = Len(out) /\ c.pos + i >= n_ctx THEN Crash
                     ELSE LET w == IF i = Len(out) THEN Forward(said(i), <<Eot>>, c.pos + i) ELSE said(i)
                          IN  Done(Said([w EXCEPT !.pos = @ + i + 1], text(i - 1), FALSE), FALSE, FALSE)
                ELSE Done(Said([said(i - 1) EXCEPT !.pos = @ + i], SubSeq(text(i), 1, match_stop_suffix(text(i))), TRUE),
                          match_stop_suffix(text(i)) # Len(text(i - 1)), FALSE)
    BY <2>2, Zenon
  <2> DEFINE s == Forward(c, <<gen.seed>> \o (SubSeq(out, 1, a) \o rest), c.pos)
             T(i) == gen.full \o decode(SubSeq(out, 1, i))
             ends == {i \in DOMAIN out : gen.n + i - 1 >= n_predict \/ out[i] = Eot \/ Ends(T(i))}
             said(n) == [s EXCEPT !.stream = @ \o SubSeq(out, 1, n)]
             i == Min(ends)
  <2>4. IF ends = {}
        THEN /\ c' = [said(a + 1) EXCEPT !.pos = @ + a + 1]
             /\ gen' = [seed |-> Last(out), n |-> gen.n + a + 1, full |-> T(a + 1)]
             /\ UNCHANGED <<phase, disk, drafting, slipped>>
        ELSE IF gen.n + i - 1 >= n_predict
        THEN Done(Said([said(i - 1) EXCEPT !.pos = @ + i - 1], T(i - 1), TRUE), TRUE, TRUE)
        ELSE IF out[i] = Eot
        THEN IF i = Len(out) /\ c.pos + i >= n_ctx THEN Crash
             ELSE LET w == IF i = Len(out) THEN Forward(said(i), <<Eot>>, c.pos + i) ELSE said(i)
                  IN  Done(Said([w EXCEPT !.pos = @ + i + 1], T(i - 1), FALSE), FALSE, FALSE)
        ELSE Done(Said([said(i - 1) EXCEPT !.pos = @ + i], SubSeq(T(i), 1, match_stop_suffix(T(i))), TRUE),
                  match_stop_suffix(T(i)) # Len(T(i - 1)), FALSE)
    BY <2>3, Zenon
  <2> HIDE DEF d
  <2>5. /\ out \in Seq(Tok) /\ Len(out) = a + 1 /\ rest \in Seq(Tok) /\ Len(rest) = d - a /\ a \in Nat /\ a <= d
        /\ DOMAIN out = 1 .. a + 1
    <3>1. a \in Nat /\ a + 1 \in Nat /\ d - a \in Nat
      BY <2>1
    <3> QED
      BY <2>1, <3>1, WordFacts, SampledTok
  <2>6. ASSUME NEW n \in 0 .. a + 1
        PROVE  /\ SubSeq(out, 1, n) \in Seq(Tok) /\ decode(SubSeq(out, 1, n)) \in Seq(Chars)
               /\ T(n) = Join(F, decode(SubSeq(out, 1, n))) /\ T(n) \in Seq(Chars)
    <3>1. n \in 0 .. Len(out)
      BY <2>5
    <3>2. SubSeq(out, 1, n) \in Seq(Tok)
      BY <2>5, <3>1, CutFacts
    <3>3. decode(SubSeq(out, 1, n)) \in Seq(Chars)
      BY <3>2, DecodeFacts
    <3>4. T(n) = Join(F, decode(SubSeq(out, 1, n)))
      BY DEF Join
    <3>5. F \in Seq(Chars)
      BY <1>1
    <3>6. Join(F, decode(SubSeq(out, 1, n))) \in Seq(Chars)
      BY <3>3, <3>5, JoinFacts, Zenon
    <3> HIDE DEF T
    <3> QED
      BY <3>2, <3>3, <3>4, <3>6, Zenon
  <2>7. ASSUME NEW n \in 0 .. a + 1, NEW p \in Nat, c.pos <= p, p <= c.pos + n + 1, p <= c.pos + a + 1
        PROVE  LET v == [said(n) EXCEPT !.pos = p]
               IN  /\ IsRec(s) /\ s.stream = c.stream /\ s.pos = c.pos /\ said(n).pos = c.pos
                   /\ Conv(v) /\ v.messages = c.messages /\ v.odd = c.odd /\ v.pos = p
                   /\ v.stream = c.stream \o SubSeq(out, 1, n)
                   /\ ~slipped => Len(v.stream) = c.pos + 1 + n /\ RowsAre(v, p)
                   /\ ~c.odd => /\ Len(v.stream) = c.pos + 1 + n /\ ThisTurn(v) /\ RowsAre(v, p)
                                /\ decode(v.stream) = Join(R, T(n))
    <3> DEFINE v == [s EXCEPT !.stream = c.stream \o SubSeq(out, 1, n), !.pos = p]
    <3>1. s = Verified(c, gen, out, a, rest) /\ v = SaidTo(c, gen, out, a, rest, n, p)
      BY Zenon DEF Verified, SaidTo
    <3> HIDE DEF s, T, v
    <3>2. /\ IsRec(s) /\ s.stream = c.stream /\ s.pos = c.pos
          /\ Conv(v) /\ v.messages = c.messages /\ v.odd = c.odd /\ v.pos = p
          /\ v.stream = c.stream \o SubSeq(out, 1, n)
          /\ ~slipped => Len(v.stream) = c.pos + 1 + n /\ RowsAre(v, p)
          /\ ~c.odd => /\ Len(v.stream) = c.pos + 1 + n /\ ThisTurn(v) /\ RowsAre(v, p)
                       /\ decode(v.stream) = Join(render(c.messages, TRUE), Join(gen.full, decode(SubSeq(out, 1, n))))
      <4>1. MaySay(c, gen, out, a, rest, n, p)
        BY <1>1, <2>5, <2>7 DEF MaySay
      <4>2. SaysSo(c, gen, out, n, p, s, v)
        BY <3>1, <4>1, SaidFacts
      <4> QED
        BY <1>1, <4>2 DEF SaysSo
    <3>3. T(n) = Join(F, decode(SubSeq(out, 1, n)))
      BY <2>6
    <3> DEFINE w == [s EXCEPT !.stream = s.stream \o SubSeq(out, 1, n)]
    <3>4. said(n) = w /\ v = [w EXCEPT !.pos = p]
      BY <3>2 DEF v
    <3>5. w.pos = c.pos
      <4>1. IsRec(s) /\ s.pos = c.pos
        BY <3>2
      <4> DEFINE j == s.stream \o SubSeq(out, 1, n)
      <4> HIDE DEF j
      <4>2. [s EXCEPT !.stream = j].pos = c.pos
        BY <4>1 DEF IsRec
      <4> QED
        BY <4>2 DEF j
    <3> HIDE DEF v, w
    <3> QED
      BY <3>2, <3>3, <3>4, <3>5
  <2> HIDE DEF s, T, said, R, F
  <2>8. CASE ends = {}
    <3> DEFINE v == [said(a + 1) EXCEPT !.pos = c.pos + a + 1]
               g == [seed |-> Last(out), n |-> gen.n + a + 1, full |-> T(a + 1)]
    <3>1. /\ c.pos + a + 1 \in Nat /\ c.pos <= c.pos + a + 1 /\ c.pos + a + 1 <= c.pos + (a + 1) + 1
          /\ c.pos + a + 1 <= c.pos + a + 1 /\ a + 1 \in 0 .. a + 1 /\ a + 1 \in 1 .. Len(out)
      BY <1>1, <2>5
    <3>2. /\ said(a + 1).pos = c.pos
          /\ Conv(v) /\ v.messages = c.messages /\ v.odd = c.odd /\ v.pos = c.pos + a + 1
          /\ v.stream = c.stream \o SubSeq(out, 1, a + 1)
          /\ ~slipped => Len(v.stream) = c.pos + 1 + (a + 1) /\ RowsAre(v, c.pos + a + 1)
          /\ ~c.odd => /\ Len(v.stream) = c.pos + 1 + (a + 1) /\ ThisTurn(v) /\ RowsAre(v, c.pos + a + 1)
                       /\ decode(v.stream) = Join(R, T(a + 1))
      BY <2>7, <3>1
    <3>3. c' = v /\ gen' = g /\ phase' = phase /\ disk' = disk /\ drafting' = drafting /\ slipped' = slipped
      BY <2>4, <2>8, <3>2
    <3>4. g.seed = out[a + 1] /\ g.full = T(a + 1) /\ g.n = gen.n + a + 1
      BY <2>5 DEF Last
    <3> HIDE DEF v, g
    <3>5. out[a + 1] \in Tok
      BY <2>5, <3>1, ElementOfSeq
    <3>6. c.pos + 1 + (a + 1) = v.pos + 1
      <4>1. c.pos \in Nat /\ a \in Nat /\ v.pos = c.pos + a + 1
        BY <1>1, <2>5, <3>2
      <4> QED
        BY <4>1
    <3>7. ASSUME Len(c.stream) = c.pos + 1 PROVE v.stream[v.pos + 1] = out[a + 1]
      <4> DEFINE m == SubSeq(out, 1, a + 1)
      <4>1. m \in Seq(Tok) /\ Len(m) = a + 1 /\ m[a + 1] = out[a + 1]
        BY <2>5, <3>1, CutFacts
      <4>2. v.stream = c.stream \o m
        BY <3>2
      <4> HIDE DEF m
      <4>3. v.pos + 1 = Len(c.stream) + (a + 1)
        <5>1. v.pos + 1 = (c.pos + 1) + (a + 1)
          BY <3>6, Zenon
        <5> QED
          BY <3>7, <5>1, Zenon
      <4>4. (c.stream \o m)[Len(c.stream) + (a + 1)] = m[a + 1]
        <5> DEFINE k == a + 1
        <5>1. k \in 1 .. Len(m) /\ m \in Seq(Tok) /\ c.stream \in Seq(Tok)
          BY <1>1, <2>5, <4>1
        <5> HIDE DEF k
        <5>2. (c.stream \o m)[Len(c.stream) + k] = m[k]
          BY <5>1, ConcatAt
        <5> QED
          BY <5>2 DEF k
      <4> QED
        BY <4>1, <4>2, <4>3, <4>4, Zenon
    <3>8. ASSUME ~slipped PROVE SeedAhead(v, g)
      <4>1. Len(v.stream) = c.pos + 1 + (a + 1) /\ RowsAre(v, c.pos + a + 1)
        BY <3>2, <3>8
      <4>2. v.stream[v.pos + 1] = out[a + 1]
        BY <1>1, <3>7, <3>8 DEF SeedAhead
      <4> QED
        BY <3>2, <3>4, <3>6, <4>1, <4>2 DEF SeedAhead
    <3>9. Speaking(v, g)
      <4> SUFFICES ASSUME ~c.odd
                   PROVE  /\ Len(v.stream) = v.pos + 1 /\ v.stream[v.pos + 1] = g.seed /\ RowsAre(v, v.pos)
                          /\ ThisTurn(v) /\ decode(v.stream) = Join(render(v.messages, TRUE), g.full)
        BY <3>2, <1>2 DEF Speaking
      <4>1. /\ Len(v.stream) = c.pos + 1 + (a + 1) /\ ThisTurn(v) /\ RowsAre(v, c.pos + a + 1)
            /\ decode(v.stream) = Join(R, T(a + 1))
        BY <3>2
      <4>2. v.stream[v.pos + 1] = out[a + 1]
        BY <1>1, <3>7 DEF Speaking
      <4> QED
        BY <3>2, <3>4, <3>6, <4>1, <4>2 DEF R
    <3>10. GenOK'
      <4>1. T(a + 1) \in Seq(Chars) /\ gen.n + a + 1 \in Nat
        <5>1. gen.n \in Nat /\ a \in Nat
          BY <1>1, <2>5
        <5>2. T(a + 1) \in Seq(Chars)
          BY <2>6, <3>1
        <5> QED
          BY <5>1, <5>2
      <4> QED
        BY <3>3, <3>4, <3>5, <4>1 DEF GenOK
    <3>11. DiskOK'
      BY <1>1, <3>3 DEF DiskOK
    <3>12. phase = "rounds"
      BY DEF Round
    <3>13. Conv(c') /\ Speaking(c', gen')
      BY <3>2, <3>3, <3>9
    <3>14. RowsInv'
      BY <1>1, <3>3, <3>8, <3>12 DEF RowsInv
    <3> QED
      BY <3>3, <3>10, <3>11, <3>12, <3>13, <3>14 DEF ConvInv
  <2>9. CASE ends # {}
    <3>1. ends \in SUBSET Nat
      BY <2>5
    <3>2. i \in ends
      BY <2>9, <3>1, MinFacts
    <3>3. /\ i \in 1 .. a + 1 /\ i - 1 \in 0 .. a + 1 /\ i \in 0 .. a + 1 /\ i \in Nat
          /\ gen.n + i - 1 >= n_predict \/ out[i] = Eot \/ Ends(T(i))
      <4>1. i \in DOMAIN out /\ (gen.n + i - 1 >= n_predict \/ out[i] = Eot \/ Ends(T(i)))
        BY <3>2
      <4> HIDE DEF i, ends
      <4>2. i \in 1 .. a + 1
        BY <2>5, <4>1
      <4> QED
        BY <2>5, <4>1, <4>2
    <3> HIDE DEF ends, i
    <3>4. CASE gen.n + i - 1 >= n_predict
      <4> DEFINE v == [said(i - 1) EXCEPT !.pos = c.pos + i - 1]
      <4>1. c.pos + i - 1 \in Nat /\ c.pos <= c.pos + i - 1 /\ c.pos + i - 1 <= c.pos + (i - 1) + 1 /\ c.pos + i - 1 <= c.pos + a + 1
        <5>1. c.pos \in Nat
          BY <1>1
        <5>2. a \in Nat
          BY <2>5
        <5>3. i \in 1 .. a + 1
          BY <3>3
        <5> QED
          BY ONLY <5>1, <5>2, <5>3
      <4>2. said(i - 1).pos = c.pos /\ Conv(v) /\ v.odd = c.odd /\ v.messages = c.messages
        BY <2>7, <3>3, <4>1
      <4>3. Done(Said(v, T(i - 1), TRUE), TRUE, TRUE)
        BY <2>4, <2>9, <3>4, <4>2
      <4> HIDE DEF v
      <4>4. T(i - 1) \in Seq(Chars)
        BY <2>6, <3>3
      <4>5. LET u == [Said(v, T(i - 1), TRUE) EXCEPT !.odd = @ \/ TRUE] IN Conv(u) /\ Resting(u)
        BY <4>2, <4>4, <1>2, AnswerFacts
      <4> QED
        BY <1>1, <4>3, <4>5, DoneKeeps
    <3>5. CASE Crash
      BY <3>5, CrashKeeps
    <3>6. CASE ~(gen.n + i - 1 >= n_predict) /\ out[i] = Eot /\ ~Crash
      <4> DEFINE w == IF i = Len(out) THEN Forward(said(i), <<Eot>>, c.pos + i) ELSE said(i)
                 x == [w EXCEPT !.pos = @ + i + 1]
                 D == decode(SubSeq(out, 1, i - 1))
      <4>1. Done(Said(x, T(i - 1), FALSE), FALSE, FALSE)
        BY <2>4, <2>9, <3>6
      <4>2. /\ Conv(x) /\ x.messages = c.messages /\ x.odd = c.odd
            /\ ~slipped => Mirror(x)
            /\ ~c.odd => Mirror(x) /\ ThisTurn(x) /\ decode(x.stream) = Join(R, T(i))
        <5>1. CASE i = Len(out)
          <6> DEFINE v == [said(i) EXCEPT !.pos = c.pos + i]
                     q == [Forward(v, <<Eot>>, v.pos) EXCEPT !.pos = @ + 1]
          <6>1. c.pos + i \in Nat /\ c.pos <= c.pos + i /\ c.pos + i <= c.pos + i + 1 /\ c.pos + i <= c.pos + a + 1
            <7>1. c.pos \in Nat /\ i \in Nat /\ a \in Nat /\ i <= a + 1
              BY <1>1, <2>5, <3>3
            <7> QED
              BY <7>1
          <6>2. /\ said(i).pos = c.pos
                /\ Conv(v) /\ v.messages = c.messages /\ v.odd = c.odd /\ v.pos = c.pos + i
                /\ v.stream = c.stream \o SubSeq(out, 1, i)
                /\ ~slipped => Len(v.stream) = c.pos + 1 + i /\ RowsAre(v, c.pos + i)
                /\ ~c.odd => /\ Len(v.stream) = c.pos + 1 + i /\ ThisTurn(v) /\ RowsAre(v, c.pos + i)
                             /\ decode(v.stream) = Join(R, T(i))
            BY <2>7, <3>3, <6>1
          <6>3. x = q
            <7>1. Conv(said(i))
              <8>1. c.pos <= c.pos /\ c.pos <= c.pos + i + 1 /\ c.pos <= c.pos + a + 1
                BY <1>1, <2>5, <3>3
              <8>2. Conv([said(i) EXCEPT !.pos = c.pos]) /\ IsRec(s)
                BY <1>1, <2>7, <3>3, <8>1
              <8>3. said(i) = [said(i) EXCEPT !.pos = c.pos]
                <9> DEFINE j == s.stream \o SubSeq(out, 1, i)
                           y == said(i)
                <9>1. y = [s EXCEPT !.stream = j]
                  BY DEF said
                <9> HIDE DEF j, y
                <9>2. y = [messages |-> s.messages, stream |-> j, pos |-> s.pos, turn_pos |-> s.turn_pos,
                           need |-> s.need, rows |-> s.rows, written |-> s.written, odd |-> s.odd]
                  BY <8>2, <9>1 DEF IsRec
                <9>3. y.pos = c.pos
                  BY <6>2 DEF y
                <9>4. s.pos = c.pos
                  BY <9>2, <9>3
                <9>5. [y EXCEPT !.pos = c.pos] = [messages |-> s.messages, stream |-> j, pos |-> c.pos, turn_pos |-> s.turn_pos,
                           need |-> s.need, rows |-> s.rows, written |-> s.written, odd |-> s.odd]
                  BY <9>2
                <9> QED
                  BY <9>2, <9>4, <9>5, Zenon DEF y
              <8> QED
                BY <8>2, <8>3, Zenon
            <7> DEFINE f == Forward(said(i), <<Eot>>, c.pos + i)
            <7>2. f.pos = c.pos
              <8>1. <<Eot>> \in Seq(Tok)
                BY <1>3
              <8>2. c.pos + i <= said(i).written
                <9>1. v.written = said(i).written
                  BY <7>1 DEF Conv, IsRec
                <9>2. v.pos <= v.written
                  BY <6>2 DEF Conv
                <9> QED
                  BY <6>2, <9>1, <9>2
              <8> HIDE DEF said
              <8>3. f.pos = said(i).pos
                BY <6>1, <7>1, <8>1, <8>2, ForwardFacts
              <8> QED
                BY <6>2, <8>3
            <7>3. x = [f EXCEPT !.pos = c.pos + i + 1]
              <8>1. x = [f EXCEPT !.pos = f.pos + i + 1]
                BY <5>1
              <8> HIDE DEF f, x
              <8> QED
                BY <7>2, <8>1
            <7>4. q = [Forward(v, <<Eot>>, c.pos + i) EXCEPT !.pos = c.pos + i + 1]
              <8> DEFINE h == Forward(v, <<Eot>>, v.pos)
              <8>1. h.pos = v.pos
                <9>1. v.pos \in Nat /\ v.pos <= v.written /\ <<Eot>> \in Seq(Tok) /\ Conv(v)
                  BY <1>3, <6>2 DEF Conv
                <9> HIDE DEF v
                <9> QED
                  BY <9>1, ForwardFacts
              <8>2. q = [h EXCEPT !.pos = h.pos + 1]
                OBVIOUS
              <8>3. v.pos = c.pos + i
                BY <6>2
              <8> HIDE DEF q, v
              <8> QED
                BY <8>1, <8>2, <8>3, Zenon
            <7>5. [f EXCEPT !.pos = c.pos + i + 1] = [Forward(v, <<Eot>>, c.pos + i) EXCEPT !.pos = c.pos + i + 1]
              <8> DEFINE y == said(i)
                         eo == <<Eot>>
                         at == c.pos + i
                         to == c.pos + i + 1
              <8>1. Conv(y)
                BY <7>1
              <8>2. v = At(y, at)
                BY DEF At
              <8> HIDE DEF y, eo, at, to, v
              <8>3. At(Forward(y, eo, at), to) = At(Forward(At(y, at), eo, at), to)
                BY <8>1, ForwardMoved
              <8> QED
                BY <8>2, <8>3 DEF y, eo, at, to, At
            <7> QED
              BY <7>3, <7>4, <7>5, Zenon
          <6> HIDE DEF v
          <6>4. /\ Conv(q) /\ q.odd = v.odd /\ q.messages = v.messages /\ q.stream = v.stream
                /\ v.turn_pos <= Len(v.stream) /\ ThisTurn(v) => ThisTurn(q)
                /\ Len(v.stream) = v.pos + 1 /\ RowsAre(v, v.pos) /\ v.stream[v.pos + 1] = Eot => Mirror(q)
            BY <1>3, <6>2, PastFacts
          <6> HIDE DEF q, x
          <6>5. v.turn_pos <= v.pos /\ v.turn_pos \in Nat /\ v.pos = c.pos + i
            BY <6>2 DEF Conv
          <6>6. ASSUME Len(c.stream) = c.pos + 1, Len(v.stream) = c.pos + 1 + i, RowsAre(v, c.pos + i)
                PROVE  Mirror(q) /\ v.turn_pos <= Len(v.stream)
            <7>1. Len(v.stream) = v.pos + 1 /\ v.turn_pos <= Len(v.stream)
              BY <1>1, <3>3, <6>5, <6>6
            <7>2. v.stream[v.pos + 1] = Eot
              <8> DEFINE m == SubSeq(out, 1, i)
              <8>1. m \in Seq(Tok) /\ Len(m) = i /\ m[i] = out[i]
                <9>1. i \in 0 .. Len(out) /\ i \in 1 .. i
                  BY <2>5, <3>3
                <9> QED
                  BY <2>5, <9>1, CutFacts
              <8>2. v.stream = c.stream \o m
                BY <6>2
              <8> HIDE DEF m
              <8>3. Len(c.stream) = c.pos + 1
                BY <6>6
              <8>4. v.pos + 1 = Len(c.stream) + i
                <9>1. v.pos + 1 = (c.pos + 1) + i
                  BY <1>1, <3>3, <6>5
                <9> QED
                  BY <8>3, <9>1, Zenon
              <8>5. (c.stream \o m)[Len(c.stream) + i] = m[i]
                <9>1. i \in 1 .. Len(m) /\ m \in Seq(Tok) /\ c.stream \in Seq(Tok)
                  BY <1>1, <3>3, <8>1
                <9> QED
                  BY <9>1, ConcatAt
              <8> QED
                BY <3>6, <8>1, <8>2, <8>4, <8>5, Zenon
            <7> QED
              BY <6>4, <6>5, <6>6, <7>1, <7>2
          <6>7. ASSUME ~slipped PROVE Mirror(q)
            BY <1>1, <6>2, <6>6, <6>7 DEF SeedAhead
          <6>8. ASSUME ~c.odd PROVE Mirror(q) /\ ThisTurn(q) /\ decode(q.stream) = Join(R, T(i))
            <7>1. Len(v.stream) = c.pos + 1 + i /\ ThisTurn(v) /\ RowsAre(v, c.pos + i) /\ decode(v.stream) = Join(R, T(i))
              BY <6>2, <6>8
            <7>2. Len(c.stream) = c.pos + 1
              BY <1>1, <6>8 DEF Speaking
            <7> QED
              BY <6>4, <6>6, <7>1, <7>2
          <6> QED
            BY <6>2, <6>3, <6>4, <6>7, <6>8
        <5>2. CASE i # Len(out)
          <6> DEFINE v == [said(i) EXCEPT !.pos = c.pos + i + 1]
          <6>1. c.pos + i + 1 \in Nat /\ c.pos <= c.pos + i + 1 /\ c.pos + i + 1 <= c.pos + i + 1 /\ c.pos + i + 1 <= c.pos + a + 1
            <7> DEFINE q == c.pos
            <7>1. q \in Nat /\ i \in Nat /\ a \in Nat /\ i <= a
              BY <1>1, <2>5, <3>3, <5>2
            <7> HIDE DEF q
            <7>2. q + i + 1 \in Nat /\ q <= q + i + 1 /\ q + i + 1 <= q + i + 1 /\ q + i + 1 <= q + a + 1
              BY <7>1
            <7> QED
              BY <7>2 DEF q
          <6>2. /\ said(i).pos = c.pos
                /\ Conv(v) /\ v.messages = c.messages /\ v.odd = c.odd /\ v.pos = c.pos + i + 1
                /\ ~slipped => Len(v.stream) = c.pos + 1 + i /\ RowsAre(v, c.pos + i + 1)
                /\ ~c.odd => /\ Len(v.stream) = c.pos + 1 + i /\ ThisTurn(v) /\ RowsAre(v, c.pos + i + 1)
                             /\ decode(v.stream) = Join(R, T(i))
            BY <2>7, <3>3, <6>1
          <6>3. x = v
            BY <5>2, <6>2
          <6> HIDE DEF x, v
          <6>4. c.pos + 1 + i = c.pos + i + 1
            BY <1>1, <3>3
          <6> QED
            BY <6>2, <6>3, <6>4 DEF Mirror
        <5> QED
          BY <5>1, <5>2
      <4>3. D \in Seq(Chars) /\ T(i - 1) = Join(F, D) /\ T(i - 1) \in Seq(Chars)
        BY <2>6, <3>3
      <4>4. T(i) = Join(F, Join(D, eot))
        <5>1. SubSeq(out, 1, i) = SubSeq(out, 1, i - 1) \o <<out[i]>>
          <6>1. 1 \in 1 .. Len(out) /\ i \in 1 .. Len(out)
            BY <2>5, <3>3
          <6> QED
            BY <2>5, <6>1, SubSeqRecursiveSecond
        <5>2. decode(SubSeq(out, 1, i)) = Join(D, decode(<<Eot>>))
          <6>1. SubSeq(out, 1, i - 1) \in Seq(Tok) /\ <<Eot>> \in Seq(Tok)
            BY <1>3, <2>6, <3>3
          <6> QED
            BY <3>6, <5>1, <6>1, DecodeFacts
        <5>3. decode(<<Eot>>) = <<Eot>>
          BY <1>3, DecodeFacts DEF Eot, Merged
        <5>4. T(i) = Join(F, decode(SubSeq(out, 1, i)))
          BY <2>6, <3>3
        <5> QED
          BY <5>2, <5>3, <5>4
      <4> HIDE DEF x, D, eot, E
      <4>5. Join(Join(R, T(i)), E) = Join(Join(R, T(i - 1)), eot)
        <5>1. Join(D, eot) \in Seq(Chars) /\ Join(F, D) \in Seq(Chars) /\ Join(F, Join(D, eot)) = Join(Join(F, D), eot)
          BY <1>1, <1>3, <1>4, <4>3
        <5>2. Join(R, Join(Join(F, D), eot)) = Join(Join(R, Join(F, D)), eot)
          BY <1>3, <1>4, <5>1
        <5>3. Join(R, Join(Join(F, D), eot)) \in Seq(Chars)
          BY <1>3, <1>4, <5>1
        <5> QED
          BY <1>4, <4>3, <4>4, <5>1, <5>2, <5>3
      <4>6. ~x.odd /\ ~FALSE =>
            /\ Mirror(x) /\ ThisTurn(x)
            /\ Join(decode(x.stream), IF FALSE THEN <<Eot>> ELSE <<>>) = Join(Join(render(x.messages, TRUE), T(i - 1)), <<Eot>>)
        BY <4>2, <4>5 DEF R, E, eot
      <4>7. LET u == [Said(x, T(i - 1), FALSE) EXCEPT !.odd = @ \/ FALSE] IN Conv(u) /\ Resting(u) /\ (~slipped => Mirror(u))
        BY <4>2, <4>3, <4>6, <1>2, AnswerFacts
      <4> QED
        BY <4>1, <4>7, DoneKeeps
    <3>7. CASE ~(gen.n + i - 1 >= n_predict) /\ out[i] # Eot
      <4> DEFINE v == [said(i - 1) EXCEPT !.pos = c.pos + i]
                 cut == match_stop_suffix(T(i))
                 strange == cut # Len(T(i - 1))
                 kept == SubSeq(T(i), 1, cut)
      <4>1. c.pos + i \in Nat /\ c.pos <= c.pos + i /\ c.pos + i <= c.pos + (i - 1) + 1 /\ c.pos + i <= c.pos + a + 1
        BY <1>1, <2>5, <3>3
      <4>2. /\ said(i - 1).pos = c.pos
            /\ Conv(v) /\ v.messages = c.messages /\ v.odd = c.odd /\ v.pos = c.pos + i
            /\ ~slipped => Len(v.stream) = c.pos + 1 + (i - 1) /\ RowsAre(v, c.pos + i)
            /\ ~c.odd => /\ Len(v.stream) = c.pos + 1 + (i - 1) /\ ThisTurn(v) /\ RowsAre(v, c.pos + i)
                         /\ decode(v.stream) = Join(R, T(i - 1))
        BY <2>7, <3>3, <4>1
      <4>3. Done(Said(v, kept, TRUE), strange, FALSE)
        BY <2>4, <2>9, <3>7, <4>2
      <4>4. T(i) \in Seq(Chars) /\ T(i - 1) \in Seq(Chars) /\ Ends(T(i))
        BY <2>6, <3>3, <3>7
      <4>5. cut \in 0 .. Len(T(i))
        BY <4>4, StopFacts
      <4>6. kept \in Seq(Chars)
        BY <4>4, <4>5, CutFacts
      <4>7. SubSeq(T(i), 1, Len(T(i - 1))) = T(i - 1)
        <5> DEFINE o == SubSeq(out, 1, i - 1)
                   D == decode(o)
        <5>1. SubSeq(out, 1, i) = o \o <<out[i]>> /\ out[i] \in Tok
          <6>1. 1 \in 1 .. Len(out) /\ i \in 1 .. Len(out)
            BY <2>5, <3>3
          <6> QED
            BY <2>5, <6>1, SubSeqRecursiveSecond, ElementOfSeq
        <5>2. o \in Seq(Tok) /\ D \in Seq(Chars) /\ T(i - 1) = Join(F, D)
          BY <2>6, <3>3
        <5>3. <<out[i]>> \in Seq(Tok)
          BY <5>1
        <5>4. T(i) = Join(F, Join(D, decode(<<out[i]>>)))
          <6>1. T(i) = Join(F, decode(SubSeq(out, 1, i)))
            BY <2>6, <3>3
          <6>2. decode(o \o <<out[i]>>) = Join(D, decode(<<out[i]>>))
            BY <5>2, <5>3, DecodeFacts
          <6> QED
            BY <5>1, <6>1, <6>2, Zenon
        <5>5. T(i) = Join(Join(F, decode(o)), decode(<<out[i]>>))
          <6>1. decode(<<out[i]>>) \in Seq(Chars)
            BY <5>3, DecodeFacts
          <6> QED
            BY <1>1, <1>4, <5>2, <5>4, <6>1
        <5> HIDE DEF o
        <5>6. SubSeq(T(i), 1, Len(Join(F, decode(o)))) = Join(F, decode(o))
          BY <1>1, <5>1, <5>2, <5>5, StopCut
        <5> QED
          BY <5>2, <5>6
      <4>8. ~strange => kept = T(i - 1)
        BY <4>7
      <4>9. strange \in BOOLEAN
        OBVIOUS
      <4>10. c.pos + 1 + (i - 1) = c.pos + i
        BY <1>1, <3>3
      <4> HIDE DEF v, cut, strange, kept
      <4>11. ~v.odd /\ ~strange =>
            /\ Mirror(v) /\ ThisTurn(v)
            /\ Join(decode(v.stream), IF TRUE THEN <<Eot>> ELSE <<>>) = Join(Join(render(v.messages, TRUE), kept), <<Eot>>)
        BY <4>2, <4>8, <4>10 DEF R, Mirror
      <4>12. ~slipped => Mirror(v)
        BY <4>2, <4>10 DEF Mirror
      <4>13. LET u == [Said(v, kept, TRUE) EXCEPT !.odd = @ \/ strange] IN Conv(u) /\ Resting(u) /\ (~slipped => Mirror(u))
        BY <4>2, <4>6, <4>9, <4>11, <4>12, <1>2, AnswerFacts
      <4> QED
        BY <4>3, <4>13, DoneKeeps
    <3> QED
      BY <3>4, <3>5, <3>6, <3>7
  <2> QED
    BY <2>8, <2>9
<1> QED
  BY <1>5, <1>6, <1>7

-----------------------------------------------------------------------------
(* A user turn. *)

(* The fields of two conversations that the invariant reads are the same. *)
Alike(s, u) ==
    /\ u.messages = s.messages /\ u.stream = s.stream /\ u.pos = s.pos
    /\ u.turn_pos = s.turn_pos /\ u.rows = s.rows

LEMMA AlikeFacts ==
  ASSUME NEW s, NEW u, Alike(s, u), ~u.odd => ~s.odd
  PROVE  /\ Asked(s) => Asked(u)
         /\ Resting(s) /\ (~u.odd => u.need = s.need) => Resting(u)
<1>1. /\ u.messages = s.messages /\ u.stream = s.stream /\ u.pos = s.pos
      /\ u.turn_pos = s.turn_pos /\ u.rows = s.rows
  BY DEF Alike
<1>2. (Mirror(s) => Mirror(u)) /\ (ThisTurn(s) => ThisTurn(u)) /\ (LastTurn(s) => LastTurn(u))
  BY <1>1 DEF Mirror, RowsAre, ThisTurn, LastTurn
<1>3. u.need = s.need => (Spells(s) => Spells(u))
  BY <1>1 DEF Spells, Pending
<1> QED
  BY <1>1, <1>2, <1>3 DEF Asked, Resting

(* The turn's first position, set anew. *)
Tp(s, t) == [s EXCEPT !.turn_pos = t]

LEMMA TpFacts ==
  ASSUME NEW s, Conv(s), NEW t \in Nat, t <= s.pos
  PROVE  LET u == Tp(s, t)
         IN  /\ Conv(u) /\ u.messages = s.messages /\ u.stream = s.stream /\ u.pos = s.pos /\ u.turn_pos = t
             /\ u.need = s.need /\ u.rows = s.rows /\ u.written = s.written /\ u.odd = s.odd
<1> DEFINE u == Tp(s, t)
<1>1. u = [messages |-> s.messages, stream |-> s.stream, pos |-> s.pos, turn_pos |-> t,
           need |-> s.need, rows |-> s.rows, written |-> s.written, odd |-> s.odd]
  <2>1. IsRec(s)
    BY DEF Conv
  <2> QED
    BY <2>1 DEF IsRec, Tp
<1> HIDE DEF u
<1>2. /\ u.messages = s.messages /\ u.stream = s.stream /\ u.pos = s.pos /\ u.turn_pos = t
      /\ u.need = s.need /\ u.rows = s.rows /\ u.written = s.written /\ u.odd = s.odd
  BY <1>1
<1>3. IsRec(u)
  BY <1>1, <1>2 DEF IsRec
<1>4. Conv(u)
  BY <1>2, <1>3 DEF Conv
<1> QED
  BY <1>2, <1>4 DEF u

(* Other messages. *)
LEMMA WithMessages ==
  ASSUME NEW s, Conv(s), NEW ms \in Seq(Message)
  PROVE  LET u == [s EXCEPT !.messages = ms]
         IN  /\ Conv(u) /\ u.messages = ms /\ u.stream = s.stream /\ u.pos = s.pos /\ u.turn_pos = s.turn_pos
             /\ u.need = s.need /\ u.rows = s.rows /\ u.written = s.written /\ u.odd = s.odd
<1> DEFINE u == [s EXCEPT !.messages = ms]
<1>1. u = [messages |-> ms, stream |-> s.stream, pos |-> s.pos, turn_pos |-> s.turn_pos,
           need |-> s.need, rows |-> s.rows, written |-> s.written, odd |-> s.odd]
  <2>1. IsRec(s)
    BY DEF Conv
  <2> QED
    BY <2>1 DEF IsRec
<1> HIDE DEF u
<1>2. /\ u.messages = ms /\ u.stream = s.stream /\ u.pos = s.pos /\ u.turn_pos = s.turn_pos
      /\ u.need = s.need /\ u.rows = s.rows /\ u.written = s.written /\ u.odd = s.odd
  BY <1>1
<1>3. IsRec(u)
  BY <1>1, <1>2 DEF IsRec
<1>4. Conv(u)
  BY <1>2, <1>3 DEF Conv
<1> QED
  BY <1>2, <1>4 DEF u

(* Another pending marker. *)
Marked(s, need, odd) == [s EXCEPT !.need = need, !.odd = odd]

LEMMA MarkedFacts ==
  ASSUME NEW s, Conv(s), NEW need \in BOOLEAN, NEW odd \in BOOLEAN
  PROVE  LET u == Marked(s, need, odd)
         IN  Conv(u) /\ Alike(s, u) /\ u.need = need /\ u.odd = odd
<1>1. IsRec(s)
  BY DEF Conv
<1> DEFINE u == [s EXCEPT !.need = need, !.odd = odd]
<1>2. u = [messages |-> s.messages, stream |-> s.stream, pos |-> s.pos, turn_pos |-> s.turn_pos,
           need |-> need, rows |-> s.rows, written |-> s.written, odd |-> odd]
  <2>1. u = [s EXCEPT !.need = need, !.odd = odd]
    OBVIOUS
  <2> HIDE DEF u
  <2> QED
    BY <1>1, <2>1 DEF IsRec
<1> HIDE DEF u
<1>3. /\ u.messages = s.messages /\ u.stream = s.stream /\ u.pos = s.pos /\ u.turn_pos = s.turn_pos
      /\ u.need = need /\ u.rows = s.rows /\ u.written = s.written /\ u.odd = odd
  BY <1>2
<1>4. IsRec(u)
  BY <1>2, <1>3 DEF IsRec
<1>5. Conv(u)
  BY <1>3, <1>4 DEF Conv
<1> QED
  BY <1>3, <1>5 DEF u, Alike, Marked

LEMMA WithFacts ==
  ASSUME NEW s, Conv(s), NEW need \in BOOLEAN
  PROVE  LET u == [s EXCEPT !.need = need]
         IN  Conv(u) /\ Alike(s, u) /\ u.need = need /\ u.odd = s.odd
<1>1. IsRec(s)
  BY DEF Conv
<1> DEFINE u == [s EXCEPT !.need = need]
<1>2. u = [messages |-> s.messages, stream |-> s.stream, pos |-> s.pos, turn_pos |-> s.turn_pos,
           need |-> need, rows |-> s.rows, written |-> s.written, odd |-> s.odd]
  BY <1>1 DEF IsRec
<1> HIDE DEF u
<1>3. /\ u.messages = s.messages /\ u.stream = s.stream /\ u.pos = s.pos /\ u.turn_pos = s.turn_pos
      /\ u.need = need /\ u.rows = s.rows /\ u.written = s.written /\ u.odd = s.odd
  BY <1>2
<1>4. IsRec(u)
  BY <1>2, <1>3 DEF IsRec
<1>5. Conv(u)
  BY <1>3, <1>4 DEF Conv
<1> QED
  BY <1>3, <1>5 DEF u, Alike

(* A turn that did not end in EOG is closed. *)
LEMMA ClosedFacts ==
  ASSUME NEW s, Conv(s), Resting(s)
  PROVE  LET u == Closed(s)
         IN  /\ Conv(u) /\ Resting(u) /\ u.messages = s.messages /\ u.odd = s.odd
             /\ u.need = (s.need /\ ~(s.pos < n_ctx)) /\ (u.need => u.pos = s.pos)
             /\ Mirror(s) => Mirror(u)
<1>1. CASE s.need /\ s.pos < n_ctx
  <2> DEFINE e == <<Eot>>
             f == Fed(s, e)
             u == [f EXCEPT !.need = FALSE]
  <2>1. e \in Seq(Tok) /\ decode(e) = e
    <3>1. Eot \in Tok /\ Eot # Merged
      BY DEF Eot, Tok, Chars, Merged
    <3> QED
      BY <3>1, DecodeFacts
  <2> HIDE DEF e
  <2>2. /\ Conv(f) /\ f.messages = s.messages /\ f.stream = s.stream \o e
        /\ f.turn_pos = s.turn_pos /\ f.odd = s.odd
        /\ Len(f.stream) = Len(s.stream) + Len(e)
        /\ decode(f.stream) = Join(decode(s.stream), decode(e))
        /\ Mirror(s) => Mirror(f)
        /\ \A n \in 0 .. Len(s.stream) : SubSeq(f.stream, 1, n) = SubSeq(s.stream, 1, n)
    BY <2>1, FedFacts
  <2> HIDE DEF f
  <2>3. Conv(u) /\ Alike(f, u) /\ u.need = FALSE /\ u.odd = f.odd
    <3>1. FALSE \in BOOLEAN
      OBVIOUS
    <3> QED
      BY <2>2, <3>1, WithFacts
  <2>4. Closed(s) = u
    BY <1>1 DEF Closed, f, e
  <2> HIDE DEF u
  <2>5. /\ u.messages = f.messages /\ u.stream = f.stream /\ u.pos = f.pos
        /\ u.turn_pos = f.turn_pos /\ u.rows = f.rows
    BY <2>3 DEF Alike
  <2>6. ASSUME ~u.odd PROVE Mirror(u) /\ LastTurn(u) /\ Spells(u)
    <3>1. Mirror(s) /\ LastTurn(s) /\ (s.stream # <<>> => Spells(s)) /\ (s.stream = <<>> => ~s.need)
      BY <2>2, <2>3, <2>6 DEF Resting
    <3>2. Mirror(u)
      BY <2>2, <2>5, <3>1 DEF Mirror, RowsAre
    <3>3. Join(decode(s.stream), e) = Rendered(s.messages)
      BY <1>1, <3>1 DEF Spells, Pending, e
    <3>4. decode(f.stream) = Rendered(s.messages)
      BY <2>1, <2>2, <3>3
    <3>5. Join(decode(f.stream), <<>>) = decode(f.stream)
      <4>1. decode(f.stream) \in Seq(Chars)
        BY <2>2, DecodeFacts DEF Conv
      <4>2. \A a \in Seq(Chars) : Join(a, <<>>) = a
        BY JoinFacts
      <4> QED
        BY <4>1, <4>2
    <3>6. Spells(u)
      BY <2>2, <2>3, <2>5, <3>4, <3>5 DEF Spells, Pending
    <3>7. s.turn_pos \in 0 .. Len(s.stream)
      BY <3>1 DEF Mirror, Conv
    <3>8. SubSeq(u.stream, 1, s.turn_pos) = SubSeq(s.stream, 1, s.turn_pos)
      BY <2>2, <2>5, <3>7
    <3>9. LastTurn(u)
      BY <2>2, <2>5, <3>1, <3>8 DEF LastTurn
    <3> QED
      BY <3>2, <3>6, <3>9
  <2>7. Resting(u)
    BY <2>2, <2>3, <2>5, <2>6 DEF Resting
  <2>8. Mirror(s) => Mirror(u)
    BY <2>2, <2>5 DEF Mirror, RowsAre
  <2> QED
    BY <1>1, <2>2, <2>3, <2>4, <2>5, <2>7, <2>8
<1>2. CASE ~(s.need /\ s.pos < n_ctx)
  <2>1. Closed(s) = s
    BY <1>2 DEF Closed
  <2>2. s.need \in BOOLEAN
    BY DEF Conv
  <2> QED
    BY <1>2, <2>1, <2>2
<1> QED
  BY <1>1, <1>2

(* A turn begins. *)
LEMMA GeneratingKeeps ==
  ASSUME ConvInv, NEW s, Generating(s), Conv(s), Asked(s), (slipped /\ s.turn_pos > 0) \/ Mirror(s)
  PROVE  ConvInv'
<1>1. CASE Crash
  BY <1>1, CrashKeeps
<1>2. CASE ~Crash
  <2>1. c' = s /\ phase' = "generate" /\ gen' = gen /\ disk' = disk
        /\ drafting' = drafting /\ slipped' = (slipped /\ s.turn_pos > 0)
    BY <1>2 DEF Generating
  <2>2. Conv(c') /\ Asked(c')
    BY <2>1
  <2>3. DiskOK' /\ GenOK'
    BY <2>1 DEF ConvInv, DiskOK, GenOK
  <2>4. RowsInv'
    <3>1. slipped \in BOOLEAN /\ (slipped => drafting)
      BY DEF ConvInv, RowsInv
    <3>2. slipped' \in BOOLEAN /\ (slipped' => drafting') /\ (~slipped' => Mirror(c'))
      BY <2>1, <3>1
    <3> QED
      BY <2>1, <3>2 DEF RowsInv
  <2> QED
    BY <2>1, <2>2, <2>3, <2>4 DEF ConvInv
<1> QED
  BY <1>1, <1>2

(* The whole conversation, rendered and prefilled. *)
LEMMA RehydrateAsked ==
  ASSUME NEW s, Conv(s), Question(s.messages)
  PROVE  LET r == rehydrate_full(s, encode(render(s.messages, TRUE)))
         IN  Conv(r) /\ Asked(r) /\ r.odd = FALSE /\ r.messages = s.messages /\ Mirror(r)
<1> DEFINE toks == encode(render(s.messages, TRUE))
           r == rehydrate_full(s, toks)
<1>1. render(s.messages, TRUE) \in Seq(Chars)
  BY RenderFacts DEF Conv
<1>2. toks \in Seq(Tok) /\ decode(toks) = render(s.messages, TRUE)
  BY <1>1, EncodeFacts
<1> HIDE DEF toks
<1>3. Conv(r) /\ r.messages = s.messages /\ r.stream = toks /\ r.turn_pos = 0 /\ r.odd = FALSE /\ Mirror(r)
  BY <1>2, RehydrateFacts
<1> HIDE DEF r
<1>4. Asked(r)
  BY <1>2, <1>3 DEF Asked, ThisTurn
<1> QED
  BY <1>3, <1>4 DEF r, toks

(* A boundary is a position or -1. *)
LEMMA BoundaryType ==
  ASSUME NEW s, Conv(s), NEW upto \in 0 .. Len(s.messages)
  PROVE  stream_boundary(s, upto) \in Int
<1> DEFINE ms == SubSeq(s.messages, 1, upto)
<1>1. ms \in Seq(Message)
  BY CutFacts DEF Conv
<1>2. encode(render(ms, FALSE)) \in Seq(Tok)
  <2>1. Rendered(ms) \in Seq(Chars)
    BY <1>1, RenderFacts
  <2> QED
    BY <2>1, EncodeFacts DEF Rendered
<1>3. Len(encode(render(ms, FALSE))) \in Nat
  BY <1>2, LenProperties
<1> QED
  BY <1>3 DEF stream_boundary

(* A boundary the stream agrees with. *)
LEMMA BoundaryFacts ==
  ASSUME NEW s, Conv(s), NEW upto \in 0 .. Len(s.messages), stream_boundary(s, upto) >= 0
  PROVE  /\ stream_boundary(s, upto) \in 0 .. Len(s.stream)
         /\ decode(SubSeq(s.stream, 1, stream_boundary(s, upto))) = Rendered(SubSeq(s.messages, 1, upto))
<1> DEFINE ms == SubSeq(s.messages, 1, upto)
           toks == encode(render(ms, FALSE))
<1>1. s.messages \in Seq(Message) /\ s.stream \in Seq(Tok) /\ Len(s.stream) \in Nat
  BY LenProperties DEF Conv
<1>2. ms \in Seq(Message) /\ Len(ms) = upto
  BY <1>1, CutFacts
<1>3. Rendered(ms) \in Seq(Chars)
  BY <1>2, RenderFacts
<1>4. toks \in Seq(Tok) /\ decode(toks) = Rendered(ms) /\ Len(toks) \in Nat
  <2>1. toks \in Seq(Tok) /\ decode(toks) = Rendered(ms)
    BY <1>3, EncodeFacts DEF Rendered
  <2> QED
    BY <2>1, LenProperties
<1>5. stream_boundary(s, upto) = IF upto = 0 THEN 0 ELSE IF IsPrefix(toks, s.stream) THEN Len(toks) ELSE -1
  BY DEF stream_boundary
<1> HIDE DEF toks
<1>6. CASE upto = 0
  <2>1. SubSeq(s.stream, 1, 0) = <<>> /\ ms = <<>>
    <3>1. Len(ms) = 0
      BY <1>2, <1>6
    <3>2. 0 \in 0 .. Len(s.stream)
      BY <1>1
    <3>3. SubSeq(s.stream, 1, 0) \in Seq(Tok) /\ Len(SubSeq(s.stream, 1, 0)) = 0
      BY <1>1, <3>2, CutFacts
    <3> HIDE DEF ms
    <3> QED
      BY <1>2, <3>1, <3>3, EmptySeq
  <2> HIDE DEF ms
  <2>2. decode(<<>>) = Rendered(<<>>)
    BY DecodeFacts, RenderFacts
  <2> QED
    <3>1. stream_boundary(s, upto) = 0
      BY <1>5, <1>6
    <3>2. SubSeq(s.messages, 1, upto) = <<>>
      BY <2>1 DEF ms
    <3>3. 0 \in 0 .. Len(s.stream)
      BY <1>1
    <3> QED
      BY <2>1, <2>2, <3>1, <3>2, <3>3
<1>7. CASE upto # 0
  <2>1. IsPrefix(toks, s.stream) /\ stream_boundary(s, upto) = Len(toks)
    BY <1>5, <1>7
  <2>2. Len(toks) <= Len(s.stream) /\ SubSeq(toks, 1, Len(toks)) = SubSeq(s.stream, 1, Len(toks))
    BY <2>1 DEF IsPrefix
  <2>3. SubSeq(toks, 1, Len(toks)) = toks
    BY <1>4, SubSeqFull
  <2>4. Len(toks) \in 0 .. Len(s.stream)
    BY <1>1, <1>4, <2>2
  <2> QED
    BY <1>4, <2>1, <2>2, <2>3, <2>4
<1> QED
  BY <1>6, <1>7

(* The older messages dropped with their rows. *)
Shifted(s, ms, from, len) ==
    [kv_rm([s EXCEPT !.messages = ms], from, len) EXCEPT
       !.stream = SubSeq(@, 1, from) \o SubSeq(@, from + len + 1, Len(@)), !.pos = s.pos - len]

(* The rows of a region are removed and the later ones move down. *)
Removed(s, ms, from, len, cut, u) ==
    /\ Conv(u) /\ u.messages = ms /\ u.need = s.need /\ u.odd = s.odd /\ u.pos = s.pos - len
    /\ u.stream = SubSeq(s.stream, 1, from) \o SubSeq(s.stream, from + len + 1, Len(s.stream))
    /\ Mirror(s) => Mirror(u)
    /\ cut = Tp(u, s.turn_pos)

LEMMA RemoveFacts ==
  ASSUME NEW s, Conv(s), NEW ms \in Seq(Message), NEW from \in Nat, NEW len \in Nat, from + len <= s.pos, from + len <= Len(s.stream)
  PROVE  Removed(s, ms, from, len, Shifted(s, ms, from, len), Tp(Shifted(s, ms, from, len), 0))
<1> DEFINE k == [s EXCEPT !.messages = ms]
           w == s.written - len
           r == [q \in 0..(s.written - len - 1) |-> s.rows[IF q < from THEN q ELSE q + len]]
           x == kv_rm(k, from, len)
           j == SubSeq(s.stream, 1, from) \o SubSeq(s.stream, from + len + 1, Len(s.stream))
           p == s.pos - len
           cut == [x EXCEPT !.stream = SubSeq(@, 1, from) \o SubSeq(@, from + len + 1, Len(@)), !.pos = s.pos - len]
           u == [cut EXCEPT !.turn_pos = 0]
<1>1. /\ IsRec(s) /\ s.messages \in Seq(Message) /\ s.stream \in Seq(Tok)
      /\ s.pos \in Nat /\ s.turn_pos \in Nat /\ s.written \in Nat
      /\ s.need \in BOOLEAN /\ s.odd \in BOOLEAN
      /\ s.rows \in [0 .. s.written - 1 -> Tok]
      /\ s.turn_pos <= s.pos /\ s.pos <= s.written
  BY DEF Conv
<1>2. k = [messages |-> ms, stream |-> s.stream, pos |-> s.pos, turn_pos |-> s.turn_pos,
           need |-> s.need, rows |-> s.rows, written |-> s.written, odd |-> s.odd]
  <2>1. IsRec(s)
    BY <1>1
  <2>2. k = [s EXCEPT !.messages = ms]
    OBVIOUS
  <2> HIDE DEF k
  <2> QED
    BY <2>1, <2>2 DEF IsRec
<1> HIDE DEF k
<1>3. k.rows = s.rows /\ k.written = s.written
  BY <1>2
<1>4. x = [k EXCEPT !.rows = r, !.written = w]
  BY <1>3 DEF kv_rm
<1>5. w \in Nat /\ p \in Nat /\ p <= w /\ Len(s.stream) \in Nat
  BY <1>1, LenProperties
<1>6. r \in [0 .. w - 1 -> Tok]
  <2>1. ASSUME NEW q \in 0 .. w - 1 PROVE s.rows[IF q < from THEN q ELSE q + len] \in Tok
    <3>1. q \in 0 .. s.written - 1 /\ q + len \in 0 .. s.written - 1
      BY <1>1, <1>5
    <3> QED
      BY <1>1, <3>1
  <2>2. s.written - len - 1 = w - 1
    OBVIOUS
  <2> QED
    BY <2>1, <2>2
<1>7. /\ from \in 0 .. Len(s.stream) /\ from + len \in 0 .. Len(s.stream)
  BY <1>5
<1> DEFINE A == SubSeq(s.stream, 1, from)
           B == SubSeq(s.stream, from + len + 1, Len(s.stream))
<1>8. /\ A \in Seq(Tok) /\ Len(A) = from /\ \A i \in 1 .. from : A[i] = s.stream[i]
  BY <1>1, <1>7, CutFacts
<1>9. /\ B \in Seq(Tok) /\ Len(B) = Len(s.stream) - (from + len)
      /\ \A i \in 1 .. Len(s.stream) - (from + len) : B[i] = s.stream[(from + len) + i]
  <2> DEFINE st == s.stream
             to == from + len
  <2>1. st \in Seq(Tok) /\ to \in 0 .. Len(st)
    BY <1>1, <1>7
  <2> HIDE DEF st, to
  <2>2. /\ SubSeq(st, to + 1, Len(st)) \in Seq(Tok) /\ Len(SubSeq(st, to + 1, Len(st))) = Len(st) - to
        /\ \A i \in 1 .. Len(st) - to : SubSeq(st, to + 1, Len(st))[i] = st[to + i]
    BY <2>1, CutFacts
  <2> QED
    BY <2>2, Zenon DEF st, to
<1> HIDE DEF r, w, p, x, A, B
<1>10. j = A \o B
  BY DEF A, B
<1>11. j \in Seq(Tok) /\ Len(j) = Len(s.stream) - len
  <2>1. A \o B \in Seq(Tok) /\ Len(A \o B) = Len(A) + Len(B)
    BY <1>8, <1>9, ConcatProperties
  <2>2. Len(A) + Len(B) = Len(s.stream) - len
    BY <1>5, <1>8, <1>9
  <2> QED
    BY <1>10, <2>1, <2>2
<1> HIDE DEF j
<1>12. x = [messages |-> ms, stream |-> s.stream, pos |-> s.pos, turn_pos |-> s.turn_pos,
            need |-> s.need, rows |-> r, written |-> w, odd |-> s.odd]
  BY <1>2, <1>4
<1>13. cut = [messages |-> ms, stream |-> j, pos |-> p, turn_pos |-> s.turn_pos,
              need |-> s.need, rows |-> r, written |-> w, odd |-> s.odd]
  <2>1. x.stream = s.stream
    BY <1>12
  <2>2. cut = [x EXCEPT !.stream = j, !.pos = p]
    BY <2>1 DEF j, p
  <2> HIDE DEF cut
  <2> QED
    BY <1>12, <2>2
<1> HIDE DEF cut
<1>14. u = [messages |-> ms, stream |-> j, pos |-> p, turn_pos |-> 0,
            need |-> s.need, rows |-> r, written |-> w, odd |-> s.odd]
  BY <1>13
<1> HIDE DEF u
<1>15. /\ u.messages = ms /\ u.stream = j /\ u.pos = p /\ u.turn_pos = 0
       /\ u.need = s.need /\ u.rows = r /\ u.written = w /\ u.odd = s.odd
  BY <1>14
<1>16. IsRec(u)
  BY <1>14, <1>15 DEF IsRec
<1>17. Conv(u)
  <2>1. u.turn_pos <= u.pos /\ u.pos <= u.written
    BY <1>5, <1>15
  <2> QED
    BY <1>1, <1>5, <1>6, <1>11, <1>15, <1>16, <2>1 DEF Conv
<1>18. cut = [u EXCEPT !.turn_pos = s.turn_pos]
  BY <1>13, <1>14
<1>19. ASSUME Mirror(s) PROVE Mirror(u)
  <2>1. s.pos = Len(s.stream) /\ RowsAre(s, s.pos)
    BY <1>19 DEF Mirror
  <2>2. p = Len(j)
    BY <1>11, <2>1 DEF p
  <2>3. ASSUME NEW i \in 1 .. p PROVE r[i - 1] = j[i]
    <3>1. p = s.pos - len /\ w = s.written - len /\ i - 1 \in 0 .. w - 1
      BY <1>5 DEF p, w
    <3>2. r[i - 1] = s.rows[IF i - 1 < from THEN i - 1 ELSE i - 1 + len]
      BY <3>1 DEF r, w
    <3>3. CASE i <= from
      <4>1. i - 1 < from /\ i \in 1 .. s.pos /\ i \in 1 .. from
        BY <1>1, <3>1, <3>3
      <4>2. j[i] = A[i]
        <5>1. i \in 1 .. Len(A) + Len(B) /\ i <= Len(A)
          BY <1>5, <1>8, <1>9, <1>7, <3>3
        <5>2. A \in Seq(Tok) /\ B \in Seq(Tok)
          BY <1>8, <1>9
        <5>3. (A \o B)[i] = A[i]
          BY <5>1, <5>2, ConcatProperties
        <5> QED
          BY <1>10, <5>3
      <4>3. s.rows[i - 1] = s.stream[i]
        BY <2>1, <4>1 DEF RowsAre
      <4> QED
        BY <1>8, <3>2, <4>1, <4>2, <4>3
    <3>4. CASE ~(i <= from)
      <4> DEFINE b == i - from
                 o == i + len
      <4>1. /\ ~(i - 1 < from) /\ o \in 1 .. s.pos /\ o - 1 = i - 1 + len
            /\ b \in Nat \ {0} /\ b <= s.pos - (from + len) /\ (from + len) + b = o /\ from + b = i
        <5> DEFINE sp == s.pos
        <5>1. sp \in Nat /\ i \in Int /\ 1 <= i /\ i <= sp - len /\ i > from /\ from \in Nat /\ len \in Nat
          BY <1>1, <3>1, <3>4
        <5> HIDE DEF sp
        <5>2. /\ ~(i - 1 < from) /\ o \in 1 .. sp /\ o - 1 = i - 1 + len
              /\ b \in Nat \ {0} /\ b <= sp - (from + len) /\ (from + len) + b = o /\ from + b = i
          BY <5>1
        <5> QED
          BY <5>2 DEF sp
      <4>2. b \in 1 .. Len(B) /\ b \in 1 .. Len(s.stream) - (from + len)
        <5>1. Len(B) = s.pos - (from + len) /\ Len(s.stream) - (from + len) = s.pos - (from + len)
          BY <1>9, <2>1
        <5> HIDE DEF b
        <5> QED
          BY <1>1, <4>1, <5>1
      <4> HIDE DEF b, o
      <4>3. (A \o B)[Len(A) + b] = B[b]
        BY <1>8, <1>9, <4>2, ConcatAt
      <4>4. j[i] = B[b]
        BY <1>8, <1>10, <4>1, <4>3
      <4>5. B[b] = s.stream[o]
        BY <1>9, <4>1, <4>2
      <4>6. s.rows[o - 1] = s.stream[o]
        BY <2>1, <4>1 DEF RowsAre
      <4> QED
        BY <3>2, <4>1, <4>4, <4>5, <4>6
    <3> QED
      BY <3>3, <3>4
  <2> QED
    BY <1>15, <2>2, <2>3 DEF Mirror, RowsAre
<1> QED
  BY <1>15, <1>17, <1>18, <1>19 DEF u, cut, x, k, j, p, Shifted, Tp, Removed

(* The turn's first position, set before or after tokens are fed. *)
LEMMA FedTurn ==
  ASSUME NEW s, IsRec(s), NEW toks, NEW t
  PROVE  /\ Fed(Tp(s, t), toks) = Tp(Fed(s, toks), t)
         /\ Tp(s, t).pos = s.pos
         /\ \A b : Tp(Tp(s, t), b) = Tp(s, b)
<1> DEFINE u == Tp(s, t)
           r == Overwritten(s.rows, toks, s.pos)
           w == Max({s.written, s.pos + Len(toks)})
           j == s.stream \o toks
           p == s.pos + Len(toks)
<1>1. u = [messages |-> s.messages, stream |-> s.stream, pos |-> s.pos, turn_pos |-> t,
           need |-> s.need, rows |-> s.rows, written |-> s.written, odd |-> s.odd]
  BY DEF Tp, IsRec
<1> HIDE DEF u
<1>2. u.rows = s.rows /\ u.written = s.written /\ u.pos = s.pos /\ u.stream = s.stream
  BY <1>1
<1> DEFINE x == Forward(s, toks, s.pos)
           y == Forward(u, toks, u.pos)
<1>3. x = [s EXCEPT !.rows = r, !.written = w]
  BY DEF Forward
<1>4. y = [u EXCEPT !.rows = r, !.written = w]
  BY <1>2 DEF Forward
<1> HIDE DEF r, w, x, y
<1>5. x = [messages |-> s.messages, stream |-> s.stream, pos |-> s.pos, turn_pos |-> s.turn_pos,
           need |-> s.need, rows |-> r, written |-> w, odd |-> s.odd]
  BY <1>3 DEF IsRec
<1>6. y = [messages |-> s.messages, stream |-> s.stream, pos |-> s.pos, turn_pos |-> t,
           need |-> s.need, rows |-> r, written |-> w, odd |-> s.odd]
  BY <1>1, <1>4
<1> DEFINE f == Fed(s, toks)
           g == Fed(u, toks)
<1>7. f = [x EXCEPT !.stream = j, !.pos = p]
  <2>1. f = [x EXCEPT !.stream = x.stream \o toks, !.pos = x.pos + Len(toks)]
    BY DEF Fed, x
  <2>2. x.stream = s.stream /\ x.pos = s.pos
    BY <1>5
  <2> HIDE DEF f
  <2> QED
    BY <2>1, <2>2
<1>8. g = [y EXCEPT !.stream = j, !.pos = p]
  <2>1. g = [y EXCEPT !.stream = y.stream \o toks, !.pos = y.pos + Len(toks)]
    BY DEF Fed, y
  <2>2. y.stream = s.stream /\ y.pos = s.pos
    BY <1>6
  <2> HIDE DEF g
  <2> QED
    BY <2>1, <2>2
<1> HIDE DEF f, g, j, p
<1>9. f = [messages |-> s.messages, stream |-> j, pos |-> p, turn_pos |-> s.turn_pos,
           need |-> s.need, rows |-> r, written |-> w, odd |-> s.odd]
  BY <1>5, <1>7
<1> DEFINE z == [messages |-> s.messages, stream |-> j, pos |-> p, turn_pos |-> t,
                 need |-> s.need, rows |-> r, written |-> w, odd |-> s.odd]
<1>10. g = z
  BY <1>6, <1>8
<1>11. Tp(f, t) = z
  BY <1>9 DEF Tp
<1>12. ASSUME NEW b PROVE Tp(u, b) = Tp(s, b)
  <2> DEFINE v == [messages |-> s.messages, stream |-> s.stream, pos |-> s.pos, turn_pos |-> b,
                   need |-> s.need, rows |-> s.rows, written |-> s.written, odd |-> s.odd]
  <2>1. Tp(u, b) = v
    BY <1>1 DEF Tp
  <2>2. Tp(s, b) = v
    BY DEF Tp, IsRec
  <2> QED
    BY <2>1, <2>2, Zenon
<1>13. Fed(u, toks) = Tp(Fed(s, toks), t)
  BY <1>10, <1>11, Zenon DEF f, g
<1> QED
  BY <1>2, <1>12, <1>13 DEF u

(* What a drop leaves ends in the same question. *)
LEMMA DropLast ==
  ASSUME NEW ms \in Seq(Message), NEW m \in Message, NEW p, GoodPlan(Append(ms, m), p)
  PROVE  LET D == SubSeq(ms, 1, p.first - 1) \o SubSeq(ms, p.first - 1 + p.count + 1, Len(ms))
         IN  /\ D \in Seq(Message) /\ Drop(Append(ms, m), p.first, p.count) = Append(D, m)
             /\ p.first - 1 \in 0 .. Len(ms) /\ p.first - 1 + p.count \in 0 .. Len(ms)
<1> DEFINE a == p.first - 1
           b == p.first - 1 + p.count
           A == Append(ms, m)
           one == <<m>>
<1>1. /\ A \in Seq(Message) /\ Len(A) = Len(ms) + 1 /\ A = ms \o one /\ one \in Seq(Message) /\ Len(ms) \in Nat
      /\ \A n \in 0 .. Len(ms) : SubSeq(A, 1, n) = SubSeq(ms, 1, n)
  BY AppendCut, LenProperties
<1>2. p.first \in Nat \ {0} /\ p.count \in Nat \ {0} /\ b < Len(A)
  BY DEF GoodPlan
<1>3. a \in 0 .. Len(ms) /\ b \in 0 .. Len(ms) /\ b \in 0 .. Len(A) /\ p.first + p.count = b + 1
  BY <1>1, <1>2
<1> DEFINE X == SubSeq(ms, 1, a)
           P == SubSeq(ms, 1, b)
           Y == SubSeq(ms, b + 1, Len(ms))
           Z == SubSeq(A, b + 1, Len(A))
<1>4. X \in Seq(Message) /\ P \in Seq(Message) /\ Y \in Seq(Message) /\ ms = P \o Y
  BY <1>3, CutFacts
<1>5. Z \in Seq(Message) /\ A = SubSeq(A, 1, b) \o Z
  BY <1>1, <1>3, CutFacts
<1>6. SubSeq(A, 1, b) = P /\ SubSeq(A, 1, a) = X
  BY <1>1, <1>3
<1>7. Drop(A, p.first, p.count) = SubSeq(A, 1, a) \o Z
  <2>1. Drop(A, p.first, p.count) = SubSeq(A, 1, p.first - 1) \o SubSeq(A, p.first + p.count, Len(A))
    BY Zenon DEF Drop
  <2> QED
    BY <1>3, <2>1, Zenon
<1> HIDE DEF A, one, X, P, Y, Z, a, b
<1>8. \A x, y, z \in Seq(Message) : (x \o y) \o z = x \o (y \o z)
  BY JoinFacts, Zenon DEF Join
<1>9. \A x, y, z \in Seq(Message) : x \o y = x \o z => y = z
  BY ConcatSimplifications
<1>10. Y \o one \in Seq(Message) /\ X \o Y \in Seq(Message)
  BY <1>1, <1>4, ConcatProperties
<1>11. Z = Y \o one
  <2>1. P \o Z = P \o (Y \o one)
    <3>1. (P \o Y) \o one = P \o (Y \o one)
      <4>1. P \in Seq(Message) /\ Y \in Seq(Message) /\ one \in Seq(Message)
        BY <1>1, <1>4
      <4> QED
        BY <1>8, <4>1
    <3>2. A = (P \o Y) \o one
      <4>1. A = ms \o one /\ ms = P \o Y
        BY <1>1, <1>4
      <4> QED
        BY <4>1, Zenon
    <3>3. A = P \o Z
      BY <1>5, <1>6, Zenon
    <3> QED
      BY <3>1, <3>2, <3>3, Zenon
  <2> QED
    BY <1>4, <1>5, <1>9, <1>10, <2>1
<1>12. Drop(A, p.first, p.count) = (X \o Y) \o one
  <2>1. X \o (Y \o one) = (X \o Y) \o one
    <3>1. X \in Seq(Message) /\ Y \in Seq(Message) /\ one \in Seq(Message)
      BY <1>1, <1>4
    <3> QED
      BY <1>8, <3>1
  <2> QED
    BY <1>6, <1>7, <1>11, <2>1, Zenon
<1>13. Append(X \o Y, m) = (X \o Y) \o one
  BY <1>10, AppendCut DEF one
<1>14. Drop(A, p.first, p.count) = Append(X \o Y, m)
  BY <1>12, <1>13, Zenon
<1> QED
  BY <1>3, <1>10, <1>14 DEF A, X, Y, a, b

(* A region between two boundaries is the text of the messages between. *)
LEMMA DropSpells ==
  ASSUME NEW st \in Seq(Tok), NEW from \in 0 .. Len(st), NEW to \in 0 .. Len(st),
         NEW ms \in Seq(Message), NEW a \in 0 .. Len(ms), NEW b \in 0 .. Len(ms), NEW P \in Seq(Chars),
         decode(SubSeq(st, 1, from)) = Rendered(SubSeq(ms, 1, a)),
         decode(SubSeq(st, 1, to)) = Rendered(SubSeq(ms, 1, b)),
         Join(decode(st), P) = Rendered(ms)
  PROVE  Join(decode(SubSeq(st, 1, from) \o SubSeq(st, to + 1, Len(st))), P)
            = Rendered(SubSeq(ms, 1, a) \o SubSeq(ms, b + 1, Len(ms)))
<1> DEFINE F == SubSeq(st, 1, from)
           T == SubSeq(st, 1, to)
           Y == SubSeq(st, to + 1, Len(st))
           X == SubSeq(ms, 1, a)
           B == SubSeq(ms, 1, b)
           Z == SubSeq(ms, b + 1, Len(ms))
<1>1. F \in Seq(Tok) /\ T \in Seq(Tok) /\ Y \in Seq(Tok) /\ st = T \o Y
  BY CutFacts
<1>2. X \in Seq(Message) /\ B \in Seq(Message) /\ Z \in Seq(Message) /\ ms = B \o Z
  BY CutFacts
<1>3. decode(F) = Rendered(X) /\ decode(T) = Rendered(B) /\ Join(decode(st), P) = Rendered(ms)
  OBVIOUS
<1> HIDE DEF F, T, Y, X, B, Z
<1> DEFINE dF == decode(F)
           dT == decode(T)
           dY == decode(Y)
           rZ == Rendered(Z)
<1>4. dF \in Seq(Chars) /\ dT \in Seq(Chars) /\ dY \in Seq(Chars) /\ rZ \in Seq(Chars)
  BY <1>1, <1>2, DecodeFacts, RenderFacts
<1>5. decode(st) = Join(dT, dY) /\ decode(F \o Y) = Join(dF, dY)
  BY <1>1, DecodeFacts
<1>6. Rendered(ms) = Join(Rendered(B), rZ) /\ Rendered(X \o Z) = Join(Rendered(X), rZ)
  BY <1>2, RenderFacts
<1> HIDE DEF dF, dT, dY, rZ
<1>7. /\ \A x, y \in Seq(Chars) : Join(x, y) \in Seq(Chars)
      /\ \A x, y, z \in Seq(Chars) : Join(Join(x, y), z) = Join(x, Join(y, z))
  BY JoinFacts
<1>8. \A x, y, z \in Seq(Chars) : Join(x, y) = Join(x, z) => y = z
  BY ConcatSimplifications DEF Join
<1>9. Join(dT, Join(dY, P)) = Join(dT, rZ)
  <2>1. Join(Join(dT, dY), P) = Join(dT, Join(dY, P))
    BY <1>4, <1>7
  <2>2. dT = Rendered(B)
    BY <1>3 DEF dT
  <2> QED
    BY <1>3, <1>5, <1>6, <2>1, <2>2, Zenon
<1>10. Join(dY, P) = rZ
  BY <1>4, <1>7, <1>8, <1>9
<1>11. Join(Join(dF, dY), P) = Join(dF, rZ)
  BY <1>4, <1>7, <1>10
<1>12. dF = Rendered(X)
  BY <1>3 DEF dF
<1>13. Join(decode(F \o Y), P) = Rendered(X \o Z)
  BY <1>5, <1>6, <1>11, <1>12, Zenon
<1> QED
  BY <1>13 DEF F, Y, X, Z

(* A question is fed behind what was said before. *)
LEMMA AskFacts ==
  ASSUME NEW v, Conv(v), NEW D \in Seq(Message), NEW input \in Seq(Chars),
         v.messages = Append(D, <<"user", input>>),
         ~v.odd => Mirror(v) /\ decode(v.stream) = Rendered(D)
  PROVE  LET f == Tp(Fed(v, encode(format_single(input))), v.pos)
         IN  /\ Conv(f) /\ Asked(f) /\ f.odd = v.odd
             /\ Mirror(v) => Mirror(f)
<1> DEFINE delta == encode(format_single(input))
           g == Fed(v, delta)
           t == v.pos
           f == Tp(g, t)
           m == <<"user", input>>
<1>1. /\ m \in Message /\ m[1] = "user" /\ format_single(input) \in Seq(Chars)
      /\ render(Append(D, m), TRUE) = Join(Rendered(D), format_single(input))
  BY AskRendered
<1>2. delta \in Seq(Tok) /\ decode(delta) = format_single(input)
  BY <1>1, EncodeFacts
<1>3. Len(delta) \in Nat /\ t \in Nat /\ v.stream \in Seq(Tok) /\ Len(v.stream) \in Nat
  BY <1>2, LenProperties DEF Conv
<1> HIDE DEF delta
<1>4. /\ Conv(g) /\ g.messages = v.messages /\ g.pos = t + Len(delta) /\ g.odd = v.odd
      /\ decode(g.stream) = Join(decode(v.stream), decode(delta))
      /\ Mirror(v) => Mirror(g)
      /\ \A n \in 0 .. Len(v.stream) : SubSeq(g.stream, 1, n) = SubSeq(v.stream, 1, n)
  BY <1>2, FedFacts
<1> HIDE DEF g
<1>5. t <= g.pos /\ g.messages \in Seq(Message)
  BY <1>3, <1>4 DEF Conv
<1> HIDE DEF t
<1>6. /\ Conv(f) /\ f.messages = g.messages /\ f.stream = g.stream /\ f.pos = g.pos /\ f.turn_pos = t
      /\ f.rows = g.rows /\ f.odd = g.odd
  <2>1. Conv(g) /\ t \in Nat /\ t <= g.pos
    BY <1>3, <1>4, <1>5 DEF t
  <2> QED
    BY <2>1, TpFacts
<1> HIDE DEF f
<1>7. v.messages = Append(D, m)
  OBVIOUS
<1> HIDE DEF m
<1>8. f.messages = Append(D, m)
  BY <1>4, <1>6, <1>7, Zenon
<1>9. /\ Append(D, m) # <<>> /\ Last(Append(D, m)) = m /\ Len(Append(D, m)) = Len(D) + 1
      /\ SubSeq(Append(D, m), 1, Len(D)) = D /\ Len(D) \in Nat
  <2>1. m \in Message
    BY <1>1
  <2> QED
    <3>1. /\ Append(D, m) # <<>> /\ Last(Append(D, m)) = m /\ Len(Append(D, m)) = Len(D) + 1
          /\ SubSeq(Append(D, m), 1, Len(D)) = D
      BY <2>1, AppendCut, ZenonT(60)
    <3>2. Len(D) \in Nat
      BY LenProperties
    <3> QED
      BY <3>1, <3>2
<1>10. Question(f.messages)
  BY <1>1, <1>8, <1>9 DEF Question
<1>11. ASSUME ~f.odd PROVE Mirror(f) /\ ThisTurn(f) /\ decode(f.stream) = render(f.messages, TRUE)
  <2>1. Mirror(v) /\ decode(v.stream) = Rendered(D)
    BY <1>4, <1>6, <1>11
  <2>2. Mirror(f)
    BY <1>4, <1>6, <2>1 DEF Mirror, RowsAre
  <2>3. t = Len(v.stream)
    BY <2>1 DEF Mirror, t
  <2>4. SubSeq(f.stream, 1, t) = v.stream
    <3>1. SubSeq(g.stream, 1, Len(v.stream)) = SubSeq(v.stream, 1, Len(v.stream))
      <4>1. Len(v.stream) \in 0 .. Len(v.stream)
        BY <1>3
      <4> QED
        BY <1>4, <4>1
    <3>2. SubSeq(v.stream, 1, Len(v.stream)) = v.stream
      BY <1>3, SubSeqFull
    <3> QED
      BY <1>6, <2>3, <3>1, <3>2, Zenon
  <2>5. SubSeq(f.messages, 1, Len(f.messages) - 1) = D
    <3>1. Len(f.messages) - 1 = Len(D)
      BY <1>8, <1>9
    <3> QED
      BY <1>8, <1>9, <3>1, Zenon
  <2>6. ThisTurn(f)
    BY <1>6, <2>1, <2>4, <2>5, Zenon DEF ThisTurn
  <2>7. decode(f.stream) = Join(Rendered(D), format_single(input))
    BY <1>2, <1>4, <1>6, <2>1, Zenon
  <2>8. decode(f.stream) = render(f.messages, TRUE)
    BY <1>1, <1>8, <2>7, Zenon
  <2> QED
    BY <2>2, <2>6, <2>8
<1>12. Asked(f)
  BY <1>10, <1>11 DEF Asked
<1>13. Mirror(v) => Mirror(f)
  BY <1>4, <1>6 DEF Mirror, RowsAre
<1> QED
  BY <1>4, <1>6, <1>12, <1>13 DEF f, g, t, delta

(* Setting the turn's first position twice. *)
Anew(s, b) == [s EXCEPT !.turn_pos = b, !.need = FALSE]
Unneeded(s) == [s EXCEPT !.need = FALSE]

LEMMA TpTwice ==
  ASSUME NEW s, IsRec(s), NEW t, NEW b
  PROVE  Anew(Tp(s, t), b) = Unneeded(Tp(s, b))
<1> DEFINE u == Tp(s, t)
           w == Tp(s, b)
           x == [u EXCEPT !.turn_pos = b, !.need = FALSE]
           y == [w EXCEPT !.need = FALSE]
           z == [messages |-> s.messages, stream |-> s.stream, pos |-> s.pos, turn_pos |-> b,
                 need |-> FALSE, rows |-> s.rows, written |-> s.written, odd |-> s.odd]
<1>1. u = [messages |-> s.messages, stream |-> s.stream, pos |-> s.pos, turn_pos |-> t,
           need |-> s.need, rows |-> s.rows, written |-> s.written, odd |-> s.odd]
  BY DEF Tp, IsRec
<1>2. w = [messages |-> s.messages, stream |-> s.stream, pos |-> s.pos, turn_pos |-> b,
           need |-> s.need, rows |-> s.rows, written |-> s.written, odd |-> s.odd]
  BY DEF Tp, IsRec
<1> HIDE DEF u, w
<1>3. x = z
  <2>1. x = [u EXCEPT !.turn_pos = b, !.need = FALSE]
    OBVIOUS
  <2> HIDE DEF x
  <2> QED
    BY <1>1, <2>1
<1>4. y = z
  <2>1. y = [w EXCEPT !.need = FALSE]
    OBVIOUS
  <2> HIDE DEF y
  <2> QED
    BY <1>2, <2>1
<1>5. x = y
  BY <1>3, <1>4, Zenon
<1> QED
  BY <1>5 DEF u, w, Anew, Unneeded

(* The retained messages, rendered and prefilled again. *)
LEMMA RehydrateKept ==
  ASSUME NEW s, Conv(s), NEW ms \in Seq(Message), Question(ms)
  PROVE  LET kept == [s EXCEPT !.messages = ms]
             o == [rehydrate_full(kept, encode(render(kept.messages, TRUE))) EXCEPT !.need = FALSE]
         IN  Conv(o) /\ Asked(o) /\ Mirror(o)
<1> DEFINE kept == [s EXCEPT !.messages = ms]
           r == rehydrate_full(kept, encode(render(kept.messages, TRUE)))
           o == [r EXCEPT !.need = FALSE]
<1>1. Conv(kept) /\ kept.messages = ms
  BY WithMessages
<1> HIDE DEF kept
<1>2. Conv(r) /\ Asked(r) /\ Mirror(r)
  <2>1. Conv(kept) /\ Question(kept.messages)
    BY <1>1
  <2> QED
    BY <2>1, RehydrateAsked
<1> HIDE DEF r
<1>3. Conv(o) /\ Alike(r, o) /\ o.odd = r.odd
  <2>1. r.messages \in Seq(Message) /\ FALSE \in BOOLEAN
    BY <1>2 DEF Conv
  <2> QED
    BY <1>2, <2>1, WithFacts
<1> HIDE DEF o
<1>4. Asked(o)
  BY <1>2, <1>3, AlikeFacts
<1>5. Mirror(o)
  BY <1>2, <1>3 DEF Alike, Mirror, RowsAre
<1> QED
  BY <1>3, <1>4, <1>5 DEF o, r, kept

(* What is left of the text when its older messages are dropped. *)
Dropped(s, m, p, from, to) ==
    \E D, u :
      /\ D \in Seq(Message) /\ Drop(s.messages, p.first, p.count) = Append(D, m)
      /\ Conv(u) /\ u.messages = Append(D, m) /\ u.need = s.need /\ u.odd = s.odd
      /\ Mirror(s) => Mirror(u)
      /\ ~s.odd => Mirror(u) /\ Join(decode(u.stream), Pending(s)) = Rendered(D)
      /\ Shifted(s, Append(D, m), from, to - from) = Tp(u, s.turn_pos)

LEMMA ShiftFacts ==
  ASSUME NEW s, Conv(s), NEW ms \in Seq(Message), NEW m \in Message, s.messages = Append(ms, m),
         NEW p, GoodPlan(s.messages, p), NEW from, NEW to,
         from = stream_boundary(s, p.first - 1), to = stream_boundary(s, p.first - 1 + p.count),
         from >= 0, to > from, to <= s.pos,
         ~s.odd => Mirror(s) /\ (s.stream # <<>> => Join(decode(s.stream), Pending(s)) = Rendered(ms))
  PROVE  Dropped(s, m, p, from, to)
<1> DEFINE a == p.first - 1
           b == p.first - 1 + p.count
           D == SubSeq(ms, 1, a) \o SubSeq(ms, b + 1, Len(ms))
           A == Append(ms, m)
           len == to - from
<1>1. /\ D \in Seq(Message) /\ Drop(A, p.first, p.count) = Append(D, m)
      /\ a \in 0 .. Len(ms) /\ b \in 0 .. Len(ms)
  BY DropLast
<1>2. /\ A \in Seq(Message) /\ Len(A) = Len(ms) + 1 /\ Len(ms) \in Nat /\ s.messages = A
      /\ SubSeq(A, 1, a) = SubSeq(ms, 1, a) /\ SubSeq(A, 1, b) = SubSeq(ms, 1, b)
  <2>1. /\ A \in Seq(Message) /\ Len(A) = Len(ms) + 1
        /\ \A n \in 0 .. Len(ms) : SubSeq(A, 1, n) = SubSeq(ms, 1, n)
    BY AppendCut
  <2>2. Len(ms) \in Nat
    BY LenProperties
  <2>3. s.messages = A
    OBVIOUS
  <2> HIDE DEF A, a, b
  <2> QED
    BY <1>1, <2>1, <2>2, <2>3
<1>3. from = stream_boundary(s, a) /\ to = stream_boundary(s, b)
  OBVIOUS
<1> HIDE DEF A, D
<1>4. a \in 0 .. Len(s.messages) /\ b \in 0 .. Len(s.messages)
  BY <1>1, <1>2
<1> HIDE DEF a, b
<1>5. from \in Int /\ to \in Int
  BY <1>3, <1>4, BoundaryType
<1>6. /\ from \in 0 .. Len(s.stream)
      /\ decode(SubSeq(s.stream, 1, from)) = Rendered(SubSeq(s.messages, 1, a))
  BY <1>3, <1>4, BoundaryFacts
<1>7. /\ to \in 0 .. Len(s.stream)
      /\ decode(SubSeq(s.stream, 1, to)) = Rendered(SubSeq(s.messages, 1, b))
  <2>1. to >= 0
    BY <1>5
  <2> QED
    BY <1>3, <1>4, <2>1, BoundaryFacts
<1>8. s.stream \in Seq(Tok) /\ Len(s.stream) \in Nat /\ s.need \in BOOLEAN
  BY LenProperties DEF Conv
<1>9. from \in Nat /\ len \in Nat /\ from + len = to /\ from + len <= s.pos /\ from + len <= Len(s.stream)
  BY <1>5, <1>6, <1>7, <1>8
<1>10. s.stream # <<>>
  <2>1. Len(s.stream) # 0
    BY <1>5, <1>6, <1>7, <1>8
  <2> QED
    BY <2>1, EmptySeq
<1>11. Append(D, m) \in Seq(Message)
  BY <1>1, AppendCut
<1> HIDE DEF len
<1> DEFINE cut == Shifted(s, Append(D, m), from, len)
           u == Tp(cut, 0)
<1>12. /\ Conv(u) /\ u.messages = Append(D, m) /\ u.need = s.need /\ u.odd = s.odd
       /\ u.stream = SubSeq(s.stream, 1, from) \o SubSeq(s.stream, from + len + 1, Len(s.stream))
       /\ Mirror(s) => Mirror(u)
       /\ cut = Tp(u, s.turn_pos)
  <2>1. /\ from \in Nat /\ len \in Nat /\ from + len <= s.pos /\ from + len <= Len(s.stream)
        /\ Append(D, m) \in Seq(Message)
    BY <1>9, <1>11
  <2> QED
    <3>1. Removed(s, Append(D, m), from, len, cut, u)
      BY <2>1, RemoveFacts
    <3> HIDE DEF cut, u
    <3> QED
      BY <3>1 DEF Removed
<1> HIDE DEF cut, u
<1>13. ASSUME ~s.odd PROVE Mirror(u) /\ Join(decode(u.stream), Pending(s)) = Rendered(D)
  <2>1. Mirror(s) /\ Join(decode(s.stream), Pending(s)) = Rendered(ms)
    BY <1>10, <1>13
  <2>2. Pending(s) \in Seq(Chars)
    <3>1. <<Eot>> \in Seq(Chars) /\ <<>> \in Seq(Chars)
      BY DEF Eot, Chars
    <3> QED
      BY <3>1 DEF Pending
  <2>3. /\ decode(SubSeq(s.stream, 1, from)) = Rendered(SubSeq(ms, 1, a))
        /\ decode(SubSeq(s.stream, 1, to)) = Rendered(SubSeq(ms, 1, b))
    BY <1>2, <1>6, <1>7, Zenon
  <2>4. Join(decode(SubSeq(s.stream, 1, from) \o SubSeq(s.stream, to + 1, Len(s.stream))), Pending(s)) = Rendered(D)
    <3>1. /\ s.stream \in Seq(Tok) /\ from \in 0 .. Len(s.stream) /\ to \in 0 .. Len(s.stream)
          /\ a \in 0 .. Len(ms) /\ b \in 0 .. Len(ms)
      BY <1>1, <1>6, <1>7, <1>8
    <3> QED
      BY <2>1, <2>2, <2>3, <3>1, DropSpells DEF D
  <2>5. u.stream = SubSeq(s.stream, 1, from) \o SubSeq(s.stream, to + 1, Len(s.stream))
    BY <1>9, <1>12, Zenon
  <2> QED
    BY <1>12, <2>1, <2>4, <2>5, Zenon
<1>14. Drop(s.messages, p.first, p.count) = Append(D, m)
  BY <1>1, <1>2, Zenon
<1>15. Shifted(s, Append(D, m), from, to - from) = Tp(u, s.turn_pos)
  BY <1>12, Zenon DEF cut, len
<1> QED
  BY <1>1, <1>12, <1>13, <1>14, <1>15, Zenon DEF Dropped

(* A question that overflows the context: the oldest turns are dropped, with *)
(* their rows or by a prefill of what is left.                               *)
LEMMA OverflowFacts ==
  ASSUME NEW s, Conv(s), NEW ms \in Seq(Message), NEW input \in Seq(Chars),
         s.messages = Append(ms, <<"user", input>>), NEW p, GoodPlan(s.messages, p), NEW shift,
         ~s.odd => Mirror(s) /\ (s.stream # <<>> => Join(decode(s.stream), Pending(s)) = Rendered(ms))
  PROVE  LET o == Overflow(s, encode(format_single(input)), p, shift)
         IN  Conv(o) /\ Asked(o) /\ (drafting \/ Mirror(s) => Mirror(o))
<1> DEFINE delta == encode(format_single(input))
           m == <<"user", input>>
           region == overflow_region(s, p)
           dropped == Drop(s.messages, p.first, p.count)
           kept == [s EXCEPT !.messages = dropped]
           fits == /\ region # <<>> /\ region[1] + region[2] <= s.pos
                   /\ s.pos - region[2] + (IF s.need THEN 1 ELSE 0) + Len(delta) <= n_ctx
           cut == Shifted(s, dropped, region[1], region[2])
           closed == IF s.need THEN Fed(cut, <<Eot>>) ELSE cut
           far == [Fed(closed, delta) EXCEPT !.turn_pos = closed.pos, !.need = FALSE]
           again == [rehydrate_full(kept, encode(render(kept.messages, TRUE))) EXCEPT !.need = FALSE]
           o == Overflow(s, delta, p, shift)
<1>1. o = IF shift /\ ~drafting /\ fits THEN far ELSE again
  BY Zenon DEF Overflow, Shifted
<1>2. m \in Message /\ m[1] = "user" /\ m[2] = input
  BY AskRendered
<1>3. s.messages = Append(ms, m)
  OBVIOUS
<1>4. s.need \in BOOLEAN /\ s.messages \in Seq(Message) /\ s.turn_pos \in Nat
  BY DEF Conv
<1> HIDE DEF m, delta
<1>5. ASSUME ~(shift /\ ~drafting /\ fits) PROVE Conv(o) /\ Asked(o) /\ Mirror(o)
  <2>1. o = again
    BY <1>1, <1>5, Zenon
  <2>2. dropped \in Seq(Message) /\ Question(dropped)
    <3>1. GoodPlan(Append(ms, m), p)
      BY <1>3, Zenon
    <3>2. PICK D : D \in Seq(Message) /\ Drop(Append(ms, m), p.first, p.count) = Append(D, m)
      BY <1>2, <3>1, DropLast
    <3>3. dropped = Append(D, m)
      BY <1>3, <3>2, Zenon
    <3> HIDE DEF dropped
    <3>4. Append(D, m) \in Seq(Message) /\ Append(D, m) # <<>> /\ Last(Append(D, m)) = m
      <4>1. D \in Seq(Message) /\ m \in Message
        BY <1>2, <3>2
      <4> QED
        BY <4>1, AppendCut, ZenonT(60)
    <3> QED
      BY <1>2, <3>3, <3>4 DEF Question
  <2> HIDE DEF dropped
  <2>3. Conv(again) /\ Asked(again) /\ Mirror(again)
    BY <2>2, RehydrateKept
  <2> HIDE DEF o, again
  <2> QED
    BY <2>1, <2>3
<1>6. ASSUME shift /\ ~drafting /\ fits PROVE Conv(o) /\ Asked(o) /\ ~drafting /\ (Mirror(s) => Mirror(o))
  <2>1. o = far
    BY <1>1, <1>6, Zenon
  <2> DEFINE from == stream_boundary(s, p.first - 1)
             to == stream_boundary(s, p.first - 1 + p.count)
             t == s.turn_pos
  <2>2. region # <<>> /\ region[1] + region[2] <= s.pos
    BY <1>6
  <2>3. region = IF from >= 0 /\ to > from THEN <<from, to - from>> ELSE <<>>
    BY Zenon DEF overflow_region
  <2>4. from \in Int /\ to \in Int
    <3> DEFINE a == p.first - 1
               b == p.first - 1 + p.count
    <3>1. Len(s.messages) \in Nat
      BY <1>4, LenProperties
    <3>2. a \in 0 .. Len(s.messages) /\ b \in 0 .. Len(s.messages)
      BY <3>1 DEF GoodPlan
    <3> HIDE DEF a, b
    <3>3. stream_boundary(s, a) \in Int /\ stream_boundary(s, b) \in Int
      BY <3>2, BoundaryType
    <3> QED
      BY <3>3 DEF a, b
  <2> HIDE DEF region, from, to
  <2>5. /\ from >= 0 /\ to > from /\ region[1] = from /\ region[2] = to - from /\ to <= s.pos
    <3>1. from >= 0 /\ to > from /\ region = <<from, to - from>>
      BY <2>2, <2>3
    <3> QED
      BY <2>2, <2>4, <3>1
  <2>6. PICK D, u : /\ D \in Seq(Message) /\ Drop(s.messages, p.first, p.count) = Append(D, m)
                    /\ Conv(u) /\ u.messages = Append(D, m) /\ u.need = s.need /\ u.odd = s.odd
                    /\ Mirror(s) => Mirror(u)
                    /\ ~s.odd => Mirror(u) /\ Join(decode(u.stream), Pending(s)) = Rendered(D)
                    /\ Shifted(s, Append(D, m), from, to - from) = Tp(u, s.turn_pos)
    <3>1. from = stream_boundary(s, p.first - 1) /\ to = stream_boundary(s, p.first - 1 + p.count)
      BY DEF from, to
    <3>2. m \in Message /\ s.messages = Append(ms, m) /\ from >= 0 /\ to > from /\ to <= s.pos
      BY <1>2, <1>3, <2>5
    <3>3. Dropped(s, m, p, from, to)
      BY <3>1, <3>2, ShiftFacts
    <3> QED
      BY <3>3, Zenon DEF Dropped
  <2>7. cut = Tp(u, t)
    BY <2>5, <2>6, Zenon
  <2> HIDE DEF cut, t
  <2> DEFINE e == <<Eot>>
             v == IF s.need THEN Fed(u, e) ELSE u
  <2>8. e \in Seq(Tok) /\ decode(e) = e
    <3>1. Eot \in Tok /\ Eot # Merged
      BY DEF Eot, Tok, Chars, Merged
    <3> QED
      BY <3>1, DecodeFacts
  <2> HIDE DEF e
  <2>9. /\ Conv(v) /\ v.messages = u.messages /\ v.odd = u.odd
        /\ Mirror(u) => Mirror(v)
        /\ decode(v.stream) = IF s.need THEN Join(decode(u.stream), e) ELSE decode(u.stream)
    <3>1. CASE s.need
      <4>1. /\ Conv(Fed(u, e)) /\ Fed(u, e).messages = u.messages /\ Fed(u, e).odd = u.odd
            /\ decode(Fed(u, e).stream) = Join(decode(u.stream), decode(e))
            /\ Mirror(u) => Mirror(Fed(u, e))
        BY <2>6, <2>8, FedFacts
      <4> QED
        BY <2>8, <3>1, <4>1
    <3>2. CASE ~s.need
      BY <2>6, <3>2
    <3> QED
      BY <3>1, <3>2
  <2>10. closed = Tp(v, t) /\ Tp(v, t).pos = v.pos /\ Fed(Tp(v, t), delta) = Tp(Fed(v, delta), t)
    <3>1. IsRec(u) /\ IsRec(v)
      BY <2>6, <2>9 DEF Conv
    <3>2. Fed(Tp(u, t), e) = Tp(Fed(u, e), t)
      BY <3>1, FedTurn
    <3>3. closed = IF s.need THEN Fed(Tp(u, t), e) ELSE Tp(u, t)
      BY <2>7, Zenon DEF e
    <3>4. closed = Tp(v, t)
      BY <3>2, <3>3
    <3> HIDE DEF v
    <3> QED
      BY <3>1, <3>4, FedTurn
  <2> HIDE DEF v, closed
  <2>11. ~v.odd => Mirror(v) /\ decode(v.stream) = Rendered(D)
    <3>1. ASSUME ~s.odd PROVE decode(v.stream) = Rendered(D)
      <4>1. Join(decode(u.stream), Pending(s)) = Rendered(D)
        BY <2>6, <3>1
      <4>2. Join(decode(u.stream), <<>>) = decode(u.stream)
        <5>1. decode(u.stream) \in Seq(Chars)
          BY <2>6, DecodeFacts DEF Conv
        <5> QED
          BY <5>1, JoinFacts
      <4> QED
        BY <1>4, <2>9, <4>1, <4>2 DEF Pending, e
    <3> QED
      BY <2>6, <2>9, <3>1
  <2> DEFINE g == Fed(v, delta)
             f == Tp(g, v.pos)
  <2>12. Conv(f) /\ Asked(f) /\ IsRec(g) /\ (Mirror(v) => Mirror(f))
    <3>1. Conv(v) /\ D \in Seq(Message) /\ v.messages = Append(D, m)
      BY <2>6, <2>9
    <3>2. Conv(f) /\ Asked(f) /\ (Mirror(v) => Mirror(f))
      BY <2>11, <3>1, AskFacts DEF m, delta
    <3>3. delta \in Seq(Tok)
      BY AskRendered, EncodeFacts DEF delta
    <3>4. Conv(g)
      BY <3>1, <3>3, FedFacts
    <3> QED
      BY <3>2, <3>4 DEF Conv
  <2>13. far = [Tp(g, t) EXCEPT !.turn_pos = v.pos, !.need = FALSE]
    BY <2>10, Zenon
  <2> HIDE DEF g, far
  <2>14. far = [f EXCEPT !.need = FALSE]
    <3>1. IsRec(g)
      BY <2>12
    <3>2. Anew(Tp(g, t), v.pos) = Unneeded(Tp(g, v.pos))
      BY <3>1, TpTwice
    <3> QED
      BY <2>13, <3>2, Zenon DEF Anew, Unneeded
  <2> HIDE DEF f
  <2>15. Conv(far) /\ Alike(f, far) /\ far.odd = f.odd
    <3>1. FALSE \in BOOLEAN
      OBVIOUS
    <3>2. LET x == [f EXCEPT !.need = FALSE] IN Conv(x) /\ Alike(f, x) /\ x.odd = f.odd
      BY <2>12, <3>1, WithFacts
    <3> QED
      BY <2>14, <3>2, Zenon
  <2>16. Asked(far)
    BY <2>12, <2>15, AlikeFacts
  <2>17. Mirror(f) => Mirror(far)
    BY <2>15 DEF Alike, Mirror, RowsAre
  <2> HIDE DEF o
  <2> QED
    BY <1>6, <2>1, <2>6, <2>9, <2>12, <2>15, <2>16, <2>17
<1> HIDE DEF o
<1>7. Conv(o) /\ Asked(o) /\ (drafting \/ Mirror(s) => Mirror(o))
  BY <1>5, <1>6
<1> QED
  BY <1>7 DEF o, delta

(* What is typed is text. *)
LEMMA TypedIsText == Inputs \subseteq Seq(Chars) /\ System \in Seq(Chars)
<1>1. Ch \subseteq Chars
  BY DEF Ch, Chars
<1>2. Seq(Ch) \subseteq Seq(Chars)
  BY <1>1, SeqDef
<1> QED
  BY <1>2, TextAssumption

(* The four ways a user turn begins, and its refusal. *)
LEMMA UserTurnKeeps == ASSUME ConvInv, NEW input \in Inputs, UserTurn(input) PROVE ConvInv'
<1> DEFINE s == Closed(c)
           delta == encode(format_single(input))
           m == <<"user", input>>
           full == [s EXCEPT !.messages = Append(@, m)]
           toks == encode(render(full.messages, TRUE))
           p == plan_overflow_drop(full.messages)
           over == s.pos + (IF s.need THEN 1 ELSE 0) + Len(delta) > n_ctx
           again == rehydrate_full(full, toks)
           refused == [s EXCEPT !.need = ~(c.need /\ c.pos < n_ctx), !.odd = @ \/ ~c.need]
           plain == Fed([full EXCEPT !.turn_pos = s.pos], delta)
<1>1. phase = "idle" /\ Conv(c) /\ Resting(c) /\ input \in Seq(Chars)
      /\ (~slipped => Mirror(c)) /\ (slipped => drafting) /\ slipped \in BOOLEAN
  BY TypedIsText DEF ConvInv, UserTurn, RowsInv
<1>2. PICK matched \in BOOLEAN, shift \in BOOLEAN :
           IF ~matched THEN Generating(again)
           ELSE IF over
           THEN IF p.count = 0
                THEN /\ c' = refused /\ UNCHANGED <<phase, gen, disk, drafting, slipped>>
                ELSE Generating(Overflow(full, delta, p, shift))
           ELSE IF s.pos = 0 THEN Generating(again)
           ELSE Generating(plain)
  BY Zenon DEF UserTurn
<1>3. /\ Conv(s) /\ Resting(s) /\ s.messages = c.messages /\ s.odd = c.odd
      /\ s.need = (c.need /\ ~(c.pos < n_ctx)) /\ (s.need => s.pos = c.pos)
      /\ ~slipped => Mirror(s)
  BY <1>1, ClosedFacts
<1> HIDE DEF s
<1>4. s.messages \in Seq(Message) /\ s.pos \in Nat /\ s.need \in BOOLEAN /\ s.odd \in BOOLEAN /\ s.stream \in Seq(Tok)
  BY <1>3 DEF Conv
<1>5. m \in Message /\ m[1] = "user" /\ format_single(input) \in Seq(Chars)
  BY <1>1, <1>4, AskRendered
<1>6. /\ Append(s.messages, m) \in Seq(Message) /\ Append(s.messages, m) # <<>>
      /\ Last(Append(s.messages, m)) = m
  <2>1. s.messages \in Seq(Message) /\ m \in Message
    BY <1>4, <1>5
  <2> HIDE DEF m
  <2> QED
    BY <2>1, AppendCut, ZenonT(60)
<1> DEFINE N == Append(s.messages, m)
<1>7. full = [s EXCEPT !.messages = N]
  OBVIOUS
<1> HIDE DEF full, N
<1>8. /\ Conv(full) /\ full.messages = N /\ full.stream = s.stream /\ full.pos = s.pos
      /\ full.need = s.need /\ full.rows = s.rows /\ full.odd = s.odd
      /\ ~slipped => Mirror(full)
  <2>1. N \in Seq(Message)
    BY <1>6 DEF N
  <2>2. LET u == [s EXCEPT !.messages = N]
        IN  /\ Conv(u) /\ u.messages = N /\ u.stream = s.stream /\ u.pos = s.pos
            /\ u.need = s.need /\ u.rows = s.rows /\ u.odd = s.odd
    BY <1>3, <2>1, WithMessages
  <2>3. full.stream = s.stream /\ full.pos = s.pos /\ full.rows = s.rows
    BY <1>7, <2>2, Zenon
  <2>4. ~slipped => Mirror(full)
    BY <1>3, <2>3 DEF Mirror, RowsAre
  <2> QED
    BY <1>7, <2>2, <2>4, Zenon
<1>9. Question(full.messages)
  BY <1>5, <1>6, <1>8 DEF Question, N
<1>10. ~full.odd => /\ Mirror(full)
                    /\ full.stream # <<>> => Join(decode(full.stream), Pending(full)) = Rendered(s.messages)
  <2>1. ASSUME ~s.odd PROVE Mirror(s) /\ (s.stream # <<>> => Join(decode(s.stream), Pending(s)) = Rendered(s.messages))
    BY <1>3, <2>1 DEF Resting, Spells
  <2>2. Pending(full) = Pending(s)
    BY <1>8 DEF Pending
  <2>3. Mirror(s) => Mirror(full)
    BY <1>8 DEF Mirror, RowsAre
  <2> QED
    BY <1>8, <2>1, <2>2, <2>3
<1>11. full.messages = Append(s.messages, <<"user", input>>)
  BY <1>8 DEF N
<1>12. Conv(again) /\ Asked(again) /\ Mirror(again)
  BY <1>8, <1>9, RehydrateAsked
<1> HIDE DEF again
<1>13. CASE ~matched
  <2>1. Generating(again)
    BY <1>2, <1>13
  <2> QED
    BY <1>12, <2>1, GeneratingKeeps
<1>14. CASE matched /\ over /\ p.count = 0
  <2>1. /\ c' = refused /\ phase' = phase /\ gen' = gen /\ disk' = disk
        /\ drafting' = drafting /\ slipped' = slipped
    BY <1>2, <1>14
  <2> DEFINE need == ~(c.need /\ c.pos < n_ctx)
             odd == s.odd \/ ~c.need
  <2>2. need \in BOOLEAN /\ odd \in BOOLEAN
    BY <1>4
  <2>3. refused = [s EXCEPT !.need = need, !.odd = odd]
    OBVIOUS
  <2>4. ~odd => ~s.odd /\ need = s.need
    <3>1. c.need \in BOOLEAN
      BY <1>1 DEF Conv
    <3> QED
      BY <1>3, <3>1
  <2> HIDE DEF need, odd, refused
  <2>5. Conv(refused) /\ Alike(s, refused) /\ refused.need = need /\ refused.odd = odd
    <3>1. LET u == Marked(s, need, odd)
          IN  Conv(u) /\ Alike(s, u) /\ u.need = need /\ u.odd = odd
      <4>1. Conv(s)
        BY <1>3
      <4> QED
        BY <2>2, <4>1, MarkedFacts
    <3> QED
      BY <2>3, <3>1, Zenon DEF Marked
  <2>6. Resting(refused)
    BY <1>3, <2>4, <2>5, AlikeFacts
  <2>7. Conv(c') /\ Resting(c')
    BY <2>1, <2>5, <2>6
  <2>8. DiskOK' /\ GenOK'
    BY <2>1 DEF ConvInv, DiskOK, GenOK
  <2>9. Mirror(s) => Mirror(refused)
    BY <2>5 DEF Alike, Mirror, RowsAre
  <2>10. RowsInv'
    BY <1>1, <1>3, <2>1, <2>9 DEF RowsInv
  <2> QED
    BY <1>1, <2>1, <2>7, <2>8, <2>10 DEF ConvInv
<1>15. CASE matched /\ over /\ p.count # 0
  <2>1. Generating(Overflow(full, delta, p, shift))
    BY <1>2, <1>15
  <2>2. GoodPlan(full.messages, p)
    <3>1. full.messages \in Seq(Message)
      BY <1>8 DEF Conv
    <3> QED
      BY <1>15, <3>1, PlanFacts
  <2> HIDE DEF p, delta
  <2> DEFINE o == Overflow(full, delta, p, shift)
  <2>3. Conv(o) /\ Asked(o) /\ (drafting \/ Mirror(full) => Mirror(o))
    <3>1. Conv(full) /\ s.messages \in Seq(Message) /\ input \in Seq(Chars)
      BY <1>1, <1>4, <1>8
    <3> QED
      BY <1>10, <1>11, <2>2, <3>1, OverflowFacts DEF delta
  <2> HIDE DEF o
  <2>4. Generating(o)
    BY <2>1 DEF o
  <2> QED
    BY <1>1, <1>8, <2>3, <2>4, GeneratingKeeps
<1>16. CASE matched /\ ~over /\ s.pos = 0
  <2>1. Generating(again)
    BY <1>2, <1>16
  <2> QED
    BY <1>12, <2>1, GeneratingKeeps
<1>17. CASE matched /\ ~over /\ s.pos # 0
  <2>1. Generating(plain)
    BY <1>2, <1>17
  <2>2. delta \in Seq(Tok) /\ Len(delta) \in Nat
    BY <1>5, EncodeFacts, LenProperties
  <2> HIDE DEF delta
  <2>3. s.need = FALSE
    <3>1. ASSUME s.need PROVE FALSE
      <4>1. s.pos = c.pos /\ ~(c.pos < n_ctx)
        BY <1>3, <3>1
      <4> QED
        BY <1>4, <1>17, <2>2, <3>1, <4>1, ConversationAssumption
    <3> QED
      BY <1>4, <3>1
  <2> DEFINE q == s.pos
             g == Fed(full, delta)
             f == Tp(g, full.pos)
  <2>4. plain = f
    <3>1. IsRec(full)
      BY <1>8 DEF Conv
    <3>2. Fed(Tp(full, q), delta) = Tp(g, q)
      BY <3>1, FedTurn
    <3>3. plain = Fed(Tp(full, q), delta)
      BY Zenon DEF Tp
    <3> QED
      BY <1>8, <3>2, <3>3, Zenon
  <2>5. ~full.odd => Mirror(full) /\ decode(full.stream) = Rendered(s.messages)
    <3>1. ASSUME ~full.odd PROVE decode(full.stream) = Rendered(s.messages)
      <4>1. full.stream # <<>>
        <5>1. Len(full.stream) = s.pos
          BY <1>8, <1>10, <3>1 DEF Mirror
        <5> QED
          BY <1>17, <5>1
      <4>2. Join(decode(full.stream), <<>>) = Rendered(s.messages)
        BY <1>8, <1>10, <2>3, <3>1, <4>1 DEF Pending
      <4>3. decode(full.stream) \in Seq(Chars)
        BY <1>8, DecodeFacts DEF Conv
      <4> QED
        BY <4>2, <4>3, JoinFacts
    <3> QED
      BY <1>10, <3>1
  <2>6. Conv(f) /\ Asked(f) /\ (Mirror(full) => Mirror(f))
    <3>1. Conv(full) /\ s.messages \in Seq(Message) /\ input \in Seq(Chars)
      BY <1>1, <1>4, <1>8
    <3> QED
      BY <1>11, <2>5, <3>1, AskFacts DEF delta
  <2>7. f.turn_pos = s.pos
    <3>1. Conv(g) /\ g.pos = full.pos + Len(delta)
      BY <1>8, <2>2, FedFacts
    <3> HIDE DEF g
    <3>2. full.pos \in Nat /\ full.pos <= g.pos
      BY <1>4, <1>8, <2>2, <3>1
    <3>3. Tp(g, full.pos).turn_pos = full.pos
      BY <3>1, <3>2, TpFacts
    <3> QED
      BY <1>8, <3>3
  <2> HIDE DEF f, plain
  <2>8. Generating(f)
    BY <2>1, <2>4, Zenon
  <2>9. (slipped /\ f.turn_pos > 0) \/ Mirror(f)
    BY <1>1, <1>4, <1>8, <1>17, <2>6, <2>7
  <2> QED
    BY <2>6, <2>8, <2>9, GeneratingKeeps
<1> QED
  BY <1>13, <1>14, <1>15, <1>16, <1>17

-----------------------------------------------------------------------------
(* /regen, /clear and the session files. *)

(* The conversation rolled back to where its last turn began. *)
Rolled(s, ms, st, t) == [s EXCEPT !.messages = ms, !.stream = st, !.pos = t, !.need = FALSE]

LEMMA RolledFacts ==
  ASSUME NEW s, Conv(s), NEW ms \in Seq(Message), NEW st \in Seq(Tok)
  PROVE  LET u == Rolled(s, ms, st, s.turn_pos)
         IN  /\ Conv(u) /\ u.messages = ms /\ u.stream = st /\ u.pos = s.turn_pos /\ u.turn_pos = s.turn_pos
             /\ u.need = FALSE /\ u.rows = s.rows /\ u.written = s.written /\ u.odd = s.odd
<1> DEFINE t == s.turn_pos
           u == Rolled(s, ms, st, t)
<1>1. IsRec(s)
  BY DEF Conv
<1>2. u = [messages |-> ms, stream |-> st, pos |-> t, turn_pos |-> s.turn_pos,
           need |-> FALSE, rows |-> s.rows, written |-> s.written, odd |-> s.odd]
  <2>1. u = [s EXCEPT !.messages = ms, !.stream = st, !.pos = t, !.need = FALSE]
    BY DEF Rolled
  <2> HIDE DEF u, t
  <2> QED
    BY <1>1, <2>1 DEF IsRec
<1> HIDE DEF u
<1>3. /\ u.messages = ms /\ u.stream = st /\ u.pos = t /\ u.turn_pos = t
      /\ u.need = FALSE /\ u.rows = s.rows /\ u.written = s.written /\ u.odd = s.odd
  BY <1>2
<1>4. IsRec(u)
  BY <1>2, <1>3 DEF IsRec
<1>5. u.turn_pos <= u.pos /\ u.pos <= u.written
  BY <1>3 DEF Conv
<1>6. Conv(u)
  BY <1>3, <1>4, <1>5 DEF Conv
<1> QED
  BY <1>3, <1>6 DEF u

(* An answer taken back leaves its question. *)
LEMMA FrontFacts ==
  ASSUME NEW ms \in Seq(Message), ms # <<>>, Last(ms)[1] = "assistant", Answered(ms)
  PROVE  \E D, input : /\ D \in Seq(Message) /\ input \in Seq(Chars)
                       /\ D = SubSeq(ms, 1, Len(ms) - 2)
                       /\ Front(ms) = Append(D, <<"user", input>>)
                       /\ Front(ms) \in Seq(Message) /\ Question(Front(ms))
                       /\ Last(Front(ms))[2] = input
<1> DEFINE n == Len(ms)
           F == SubSeq(ms, 1, n - 1)
           D == SubSeq(ms, 1, n - 2)
           x == ms[n - 1]
           input == x[2]
<1>1. n \in Nat /\ n >= 2 /\ x[1] = "user"
  BY LenProperties DEF Answered
<1>2. n - 1 \in 0 .. Len(ms) /\ n - 2 \in 0 .. Len(ms) /\ n - 1 \in 1 .. Len(ms)
  BY <1>1
<1>3. /\ F \in Seq(Message) /\ Len(F) = n - 1 /\ \A i \in 1 .. n - 1 : F[i] = ms[i]
  BY <1>2, CutFacts
<1>4. /\ D \in Seq(Message) /\ Len(D) = n - 2 /\ \A i \in 1 .. n - 2 : D[i] = ms[i]
  BY <1>2, CutFacts, ZenonT(60)
<1>5. x \in Message
  BY <1>2, ElementOfSeq
<1>6. x = <<"user", input>> /\ input \in Seq(Chars)
  BY <1>1, <1>5 DEF Message
<1>7. Front(ms) = F
  BY DEF Front
<1> HIDE DEF n, x, F, D, input
<1>8. Append(D, x) \in Seq(Message) /\ Len(Append(D, x)) = Len(D) + 1 /\ Last(Append(D, x)) = x
      /\ \A i \in 1 .. Len(D) : Append(D, x)[i] = D[i]
  <2>1. D \in Seq(Message) /\ x \in Message
    BY <1>4, <1>5
  <2> QED
    BY <2>1, AppendCut
<1>9. F = Append(D, x)
  <2>1. Len(Append(D, x)) = n - 1 /\ Append(D, x) \in Seq(Message)
    BY <1>1, <1>4, <1>8
  <2>2. Append(D, x)[n - 1] = x
    BY <1>8, <2>1 DEF Last
  <2>3. F[n - 1] = x
    BY <1>1, <1>3 DEF x
  <2>4. \A i \in 1 .. n - 1 : F[i] = Append(D, x)[i]
    BY <1>1, <1>3, <1>4, <1>8, <2>2, <2>3
  <2> QED
    BY <1>3, <2>1, <2>4, SeqEqual
<1>10. F # <<>> /\ Last(F) = x
  <2>1. Len(F) # 0
    BY <1>1, <1>3
  <2> QED
    BY <1>8, <1>9, <2>1
<1>11. Question(F)
  BY <1>1, <1>10 DEF Question
<1>12. /\ D \in Seq(Message) /\ input \in Seq(Chars)
       /\ D = SubSeq(ms, 1, Len(ms) - 2) /\ Front(ms) = Append(D, <<"user", input>>)
       /\ Front(ms) \in Seq(Message) /\ Question(Front(ms)) /\ Last(Front(ms))[2] = input
  <2>1. D = SubSeq(ms, 1, Len(ms) - 2) /\ input = x[2]
    BY DEF D, n, input
  <2> QED
    BY <1>3, <1>4, <1>6, <1>7, <1>9, <1>10, <1>11, <2>1, Zenon
<1> QED
  BY <1>12, Zenon

(* A turn's first position set to what it is. *)
LEMMA TpSame ==
  ASSUME NEW s, IsRec(s) PROVE Tp(s, s.turn_pos) = s
<1> DEFINE u == Tp(s, s.turn_pos)
           w == [messages |-> s.messages, stream |-> s.stream, pos |-> s.pos, turn_pos |-> s.turn_pos,
                 need |-> s.need, rows |-> s.rows, written |-> s.written, odd |-> s.odd]
<1>1. u = w
  BY DEF Tp, IsRec
<1>2. s = w
  BY DEF IsRec
<1> QED
  BY <1>1, <1>2, Zenon

(* /regen replays the last question where it was first asked. *)
LEMMA RegenKeeps == ConvInv /\ Regen => ConvInv'
<1> SUFFICES ASSUME ConvInv, Regen PROVE ConvInv'
  OBVIOUS
<1> DEFINE ms == Front(c.messages)
           t == c.turn_pos
           st == SubSeq(c.stream, 1, Min({t, Len(c.stream)}))
           back == Rolled(c, ms, st, t)
           toks == IF t = 0 THEN encode(render(back.messages, TRUE))
                   ELSE encode(format_single(Last(back.messages)[2]))
           stuck == [back EXCEPT !.odd = TRUE]
<1>1. /\ phase = "idle" /\ c.messages # <<>> /\ Last(c.messages)[1] = "assistant"
      /\ Conv(c) /\ Resting(c) /\ Answered(c.messages)
      /\ (~slipped => Mirror(c)) /\ (slipped => drafting) /\ slipped \in BOOLEAN
  BY DEF ConvInv, Regen, Resting, RowsInv
<1>2. IF back.pos + Len(toks) > n_ctx
      THEN c' = stuck /\ UNCHANGED <<phase, gen, disk, drafting, slipped>>
      ELSE Generating(Fed(back, toks))
  BY Zenon DEF Regen, Rolled
<1>3. /\ c.messages \in Seq(Message) /\ c.stream \in Seq(Tok) /\ Len(c.stream) \in Nat /\ t \in Nat
      /\ c.odd \in BOOLEAN
  BY <1>1, LenProperties DEF Conv
<1>4. PICK D, input : /\ D \in Seq(Message) /\ input \in Seq(Chars)
                      /\ D = SubSeq(c.messages, 1, Len(c.messages) - 2)
                      /\ ms = Append(D, <<"user", input>>)
                      /\ ms \in Seq(Message) /\ Question(ms)
                      /\ Last(ms)[2] = input
  BY <1>1, <1>3, FrontFacts
<1> HIDE DEF ms
<1> DEFINE n == Min({t, Len(c.stream)})
<1>5. n = (IF t <= Len(c.stream) THEN t ELSE Len(c.stream)) /\ n \in 0 .. Len(c.stream)
  <2>1. Min({t, Len(c.stream)}) = IF t <= Len(c.stream) THEN t ELSE Len(c.stream)
    BY <1>3, TwoFacts
  <2> QED
    BY <1>3, <2>1
<1>6. st \in Seq(Tok) /\ Len(st) = n /\ \A i \in 1 .. n : st[i] = c.stream[i]
  BY <1>3, <1>5, CutFacts, ZenonT(60)
<1>7. st = SubSeq(c.stream, 1, n)
  OBVIOUS
<1> HIDE DEF st, n
<1>8. /\ Conv(back) /\ back.messages = ms /\ back.stream = st /\ back.pos = t /\ back.turn_pos = t
      /\ back.rows = c.rows /\ back.odd = c.odd
  <2>1. Conv(c) /\ ms \in Seq(Message) /\ st \in Seq(Tok)
    BY <1>1, <1>4, <1>6
  <2> QED
    BY <2>1, RolledFacts, ZenonT(60)
<1> HIDE DEF back
<1>9. ASSUME Mirror(c) \/ t = 0 PROVE Mirror(back) /\ n = t
  <2>1. n = t
    <3>1. t <= Len(c.stream)
      BY <1>1, <1>3, <1>9 DEF Mirror, Conv
    <3> QED
      BY <1>5, <3>1
  <2>2. back.pos = Len(back.stream)
    BY <1>6, <1>8, <2>1
  <2>3. ASSUME NEW i \in 1 .. back.pos PROVE back.rows[i - 1] = back.stream[i]
    <3>1. i \in 1 .. n /\ i \in 1 .. c.pos /\ t # 0
      BY <1>1, <1>3, <1>8, <2>1 DEF Conv
    <3>2. c.rows[i - 1] = c.stream[i]
      BY <1>9, <3>1 DEF Mirror, RowsAre
    <3> QED
      BY <1>6, <1>8, <3>1, <3>2
  <2> QED
    BY <2>1, <2>2, <2>3 DEF Mirror, RowsAre
<1>10. ASSUME ~c.odd PROVE Mirror(back) /\ n = t /\ (t > 0 => decode(st) = Rendered(D))
  <2>1. Mirror(c) /\ LastTurn(c)
    BY <1>1, <1>10 DEF Resting
  <2>2. Mirror(back) /\ n = t
    BY <1>9, <2>1
  <2>3. ASSUME t > 0 PROVE decode(st) = Rendered(D)
    BY <1>1, <1>4, <1>7, <2>1, <2>2, <2>3, Zenon DEF LastTurn
  <2> QED
    BY <2>2, <2>3
<1>11. CASE back.pos + Len(toks) > n_ctx
  <2>1. /\ c' = stuck /\ phase' = phase /\ gen' = gen /\ disk' = disk
        /\ drafting' = drafting /\ slipped' = slipped
    BY <1>2, <1>11
  <2> HIDE DEF toks
  <2>2. Conv(stuck) /\ stuck.odd = TRUE /\ stuck.messages = ms /\ (Mirror(back) => Mirror(stuck))
    <3>1. TRUE \in BOOLEAN /\ back.odd \in BOOLEAN
      BY <1>3, <1>8
    <3>2. LET u == [back EXCEPT !.odd = @ \/ TRUE]
          IN  Conv(u) /\ u.odd = (back.odd \/ TRUE) /\ u.messages = back.messages
              /\ u.stream = back.stream /\ u.pos = back.pos /\ u.rows = back.rows
      BY <1>8, <3>1, OddFacts
    <3>3. [back EXCEPT !.odd = @ \/ TRUE] = stuck
      BY <3>1
    <3> HIDE DEF stuck
    <3>4. stuck.stream = back.stream /\ stuck.pos = back.pos /\ stuck.rows = back.rows
      BY <3>2, <3>3
    <3>5. Mirror(back) => Mirror(stuck)
      BY <3>4 DEF Mirror, RowsAre
    <3> QED
      BY <1>8, <3>2, <3>3, <3>5
  <2> HIDE DEF stuck
  <2>3. Answered(ms)
    BY <1>4 DEF Answered, Question
  <2>4. Resting(stuck)
    BY <2>2, <2>3 DEF Resting
  <2>5. Conv(c') /\ Resting(c')
    BY <2>1, <2>2, <2>4
  <2>6. DiskOK' /\ GenOK'
    BY <2>1 DEF ConvInv, DiskOK, GenOK
  <2>7. RowsInv'
    BY <1>1, <1>9, <2>1, <2>2 DEF RowsInv
  <2> QED
    BY <1>1, <2>1, <2>5, <2>6, <2>7 DEF ConvInv
<1>12. CASE ~(back.pos + Len(toks) > n_ctx)
  <2> DEFINE f == Fed(back, toks)
  <2>1. Generating(f)
    BY <1>2, <1>12
  <2>2. CASE t = 0
    <3>1. toks = encode(render(ms, TRUE))
      BY <1>8, <2>2
    <3> HIDE DEF toks
    <3>2. toks \in Seq(Tok) /\ decode(toks) = render(ms, TRUE) /\ render(ms, TRUE) \in Seq(Chars)
      <4>1. render(ms, TRUE) \in Seq(Chars)
        BY <1>4, RenderFacts
      <4> QED
        BY <3>1, <4>1, EncodeFacts
    <3>3. /\ Conv(f) /\ f.messages = ms /\ f.turn_pos = t /\ f.odd = c.odd
          /\ decode(f.stream) = Join(decode(st), decode(toks))
          /\ Mirror(back) => Mirror(f)
      BY <1>8, <3>2, FedFacts
    <3> HIDE DEF f
    <3>4. ASSUME ~f.odd PROVE Mirror(f) /\ ThisTurn(f) /\ decode(f.stream) = render(f.messages, TRUE)
      <4>1. Mirror(back) /\ n = 0
        BY <1>10, <2>2, <3>3, <3>4
      <4>2. st = <<>>
        BY <1>6, <4>1, EmptySeq
      <4>3. Join(<<>>, render(ms, TRUE)) = render(ms, TRUE)
        BY <3>2, JoinFacts
      <4>4. decode(f.stream) = render(ms, TRUE)
        BY <3>2, <3>3, <4>2, <4>3, DecodeFacts
      <4>5. ThisTurn(f)
        BY <2>2, <3>3 DEF ThisTurn
      <4> QED
        BY <3>3, <4>1, <4>4, <4>5
    <3>5. Asked(f)
      BY <1>4, <3>3, <3>4 DEF Asked
    <3>6. Mirror(f)
      BY <1>9, <2>2, <3>3
    <3> QED
      BY <2>1, <3>3, <3>5, <3>6, GeneratingKeeps
  <2>3. CASE t # 0
    <3>1. toks = encode(format_single(input))
      BY <1>4, <1>8, <2>3
    <3> HIDE DEF toks
    <3>2. ~back.odd => Mirror(back) /\ decode(back.stream) = Rendered(D)
      BY <1>3, <1>8, <1>10, <2>3
    <3> DEFINE g == Fed(back, encode(format_single(input)))
    <3>3. Conv(Tp(g, back.pos)) /\ Asked(Tp(g, back.pos)) /\ (Mirror(back) => Mirror(Tp(g, back.pos)))
      <4>1. Conv(back) /\ D \in Seq(Message) /\ input \in Seq(Chars) /\ back.messages = Append(D, <<"user", input>>)
        BY <1>4, <1>8
      <4> QED
        BY <3>2, <4>1, AskFacts
    <3>4. Conv(g) /\ g.turn_pos = t
      <4>1. format_single(input) \in Seq(Chars)
        BY <1>4, AskRendered
      <4>2. encode(format_single(input)) \in Seq(Tok)
        BY <4>1, EncodeFacts
      <4> QED
        BY <1>8, <4>2, FedFacts
    <3>5. f = g
      BY <3>1, Zenon
    <3> HIDE DEF g, f
    <3>6. Tp(g, g.turn_pos) = g
      <4>1. IsRec(g)
        BY <3>4 DEF Conv
      <4> QED
        BY <4>1, TpSame
    <3>7. Conv(f) /\ Asked(f) /\ f.turn_pos = t /\ (Mirror(back) => Mirror(f))
      BY <1>8, <3>3, <3>4, <3>5, <3>6, Zenon
    <3>8. (slipped /\ f.turn_pos > 0) \/ Mirror(f)
      BY <1>1, <1>3, <1>9, <2>3, <3>7
    <3> QED
      BY <2>1, <3>7, <3>8, GeneratingKeeps
  <2> QED
    BY <2>2, <2>3
<1> QED
  BY <1>11, <1>12

(* /clear keeps the first system message only. *)
LEMMA KeptFacts ==
  ASSUME NEW ms \in Seq(Message)
  PROVE  FirstSystem(ms) \in Seq(Message) /\ Answered(FirstSystem(ms))
<1> DEFINE at == {i \in DOMAIN ms : ms[i][1] = "system"}
           m == ms[Min(at)]
<1>1. CASE at = {}
  <2>1. FirstSystem(ms) = <<>> /\ <<>> \in Seq(Message)
    BY <1>1, EmptySeq DEF FirstSystem
  <2> QED
    BY <2>1 DEF Answered
<1>2. CASE at # {}
  <2>1. at \in SUBSET Nat
    OBVIOUS
  <2>2. Min(at) \in at
    BY <1>2, <2>1, MinFacts
  <2>3. m \in Message /\ m[1] = "system"
    BY <2>2
  <2>4. FirstSystem(ms) = <<m>>
    BY <1>2 DEF FirstSystem
  <2> HIDE DEF m
  <2>5. <<m>> \in Seq(Message) /\ Last(<<m>>) = m
    BY <2>3 DEF Last
  <2> QED
    BY <2>3, <2>4, <2>5 DEF Answered
<1> QED
  BY <1>1, <1>2

(* An empty engine and the messages a conversation starts with. *)
LEMMA FreshFacts ==
  /\ Conv(Fresh) /\ Resting(Fresh) /\ Mirror(Fresh)
  /\ \A ms \in Seq(Message) :
       LET u == [Fresh EXCEPT !.messages = ms]
       IN  Conv(u) /\ u.messages = ms /\ u.need = FALSE /\ Mirror(u) /\ (Answered(ms) => Resting(u))
<1> DEFINE first == IF System = <<>> THEN <<>> ELSE <<<<"system", System>>>>
           Start0(ms) == [messages |-> ms, stream |-> <<>>, pos |-> 0, turn_pos |-> 0, need |-> FALSE,
                          rows |-> <<>>, written |-> 0, odd |-> FALSE]
<1>1. <<>> \in [0 .. 0 - 1 -> Tok] /\ <<>> \in Seq(Tok) /\ Len(<<>>) = 0
  <2>1. <<>> \in Seq(Tok) /\ Len(<<>>) = 0
    BY EmptySeq
  <2>2. 0 .. 0 - 1 = {}
    OBVIOUS
  <2>3. <<>> = [q \in {} |-> 0]
    OBVIOUS
  <2>4. <<>> \in [{} -> Tok]
    BY <2>3
  <2> QED
    BY <2>1, <2>2, <2>4
<1>2. ASSUME NEW ms \in Seq(Message)
      PROVE  /\ Conv(Start0(ms)) /\ Start0(ms).messages = ms /\ Start0(ms).need = FALSE /\ Mirror(Start0(ms))
             /\ Answered(ms) => Resting(Start0(ms))
  <2> DEFINE u == Start0(ms)
  <2>1. u = [messages |-> ms, stream |-> <<>>, pos |-> 0, turn_pos |-> 0, need |-> FALSE,
             rows |-> <<>>, written |-> 0, odd |-> FALSE]
    OBVIOUS
  <2> HIDE DEF u
  <2>2. /\ u.messages = ms /\ u.stream = <<>> /\ u.pos = 0 /\ u.turn_pos = 0
        /\ u.need = FALSE /\ u.rows = <<>> /\ u.written = 0 /\ u.odd = FALSE
    BY <2>1
  <2>3. IsRec(u)
    BY <2>1, <2>2 DEF IsRec
  <2>4. Conv(u)
    <3>1. u.rows \in [0 .. u.written - 1 -> Tok]
      BY <1>1, <2>2, Zenon
    <3>2. u.stream \in Seq(Tok)
      BY <1>1, <2>2, Zenon
    <3>3. u.messages \in Seq(Message) /\ u.need \in BOOLEAN /\ u.odd \in BOOLEAN
      BY <2>2, Zenon
    <3>4. u.pos \in Nat /\ u.turn_pos \in Nat /\ u.written \in Nat /\ u.turn_pos <= u.pos /\ u.pos <= u.written
      <4>1. u.pos = 0 /\ u.turn_pos = 0 /\ u.written = 0
        BY <2>2
      <4> QED
        BY <4>1
    <3> QED
      BY <2>3, <3>1, <3>2, <3>3, <3>4 DEF Conv
  <2>5. Mirror(u) /\ LastTurn(u)
    BY <1>1, <2>2 DEF Mirror, RowsAre, LastTurn
  <2>6. Answered(ms) => Resting(u)
    BY <2>2, <2>5 DEF Resting
  <2> QED
    BY <2>2, <2>4, <2>5, <2>6 DEF u
<1>3. first \in Seq(Message) /\ Answered(first)
  <2>1. CASE System = <<>>
    BY <2>1 DEF Answered
  <2>2. CASE System # <<>>
    <3> DEFINE m == <<"system", System>>
    <3>1. m \in Message /\ m[1] = "system"
      BY TypedIsText DEF Message
    <3>2. first = <<m>>
      BY <2>2
    <3> HIDE DEF m
    <3>3. <<m>> \in Seq(Message) /\ Last(<<m>>) = m
      BY <3>1 DEF Last
    <3> QED
      BY <3>1, <3>2, <3>3 DEF Answered
  <2> QED
    BY <2>1, <2>2
<1>4. Fresh = Start0(first)
  BY DEF Fresh
<1> HIDE DEF first
<1>5. Conv(Fresh) /\ Resting(Fresh) /\ Mirror(Fresh)
  <2> HIDE DEF Start0
  <2> QED
    BY <1>2, <1>3, <1>4, Zenon
<1>6. ASSUME NEW ms \in Seq(Message)
      PROVE  LET u == [Fresh EXCEPT !.messages = ms]
             IN  Conv(u) /\ u.messages = ms /\ u.need = FALSE /\ Mirror(u) /\ (Answered(ms) => Resting(u))
  <2>1. [Fresh EXCEPT !.messages = ms] = Start0(ms)
    <3> DEFINE E == <<>>
    <3>1. Fresh = [messages |-> first, stream |-> E, pos |-> 0, turn_pos |-> 0, need |-> FALSE,
                   rows |-> E, written |-> 0, odd |-> FALSE]
      BY <1>4
    <3> HIDE DEF E
    <3>2. [Fresh EXCEPT !.messages = ms] = [messages |-> ms, stream |-> E, pos |-> 0, turn_pos |-> 0,
                                            need |-> FALSE, rows |-> E, written |-> 0, odd |-> FALSE]
      <4> DEFINE z == [Fresh EXCEPT !.messages = ms]
      <4>1. z = [Fresh EXCEPT !.messages = ms]
        OBVIOUS
      <4> HIDE DEF z
      <4>2. z = [messages |-> ms, stream |-> E, pos |-> 0, turn_pos |-> 0,
                 need |-> FALSE, rows |-> E, written |-> 0, odd |-> FALSE]
        BY <3>1, <4>1
      <4> QED
        BY <4>2 DEF z
    <3> QED
      BY <3>2 DEF E
  <2> HIDE DEF Start0
  <2> QED
    BY <1>2, <2>1, Zenon
<1> QED
  BY <1>5, <1>6

LEMMA ClearKeeps == ConvInv /\ clear => ConvInv'
<1> SUFFICES ASSUME ConvInv, clear PROVE ConvInv'
  OBVIOUS
<1> DEFINE k == FirstSystem(c.messages)
           u == [Fresh EXCEPT !.messages = k]
<1>1. phase = "idle" /\ c' = u /\ phase' = phase /\ gen' = gen /\ disk' = disk /\ slipped' = FALSE
  BY DEF clear
<1>2. k \in Seq(Message) /\ Answered(k)
  <2>1. c.messages \in Seq(Message)
    BY DEF ConvInv, Conv
  <2> QED
    BY <2>1, KeptFacts
<1> HIDE DEF k
<1>3. Conv(u) /\ Resting(u) /\ Mirror(u)
  BY <1>2, FreshFacts
<1> HIDE DEF u
<1>4. Conv(c') /\ Resting(c')
  BY <1>1, <1>3
<1>5. DiskOK' /\ GenOK'
  BY <1>1 DEF ConvInv, DiskOK, GenOK
<1>6. RowsInv'
  BY <1>1, <1>3 DEF RowsInv
<1> QED
  BY <1>1, <1>4, <1>5, <1>6 DEF ConvInv

(* A saved companion gives the conversation back. *)
LEMMA SavedFacts == ASSUME Conv(c), Resting(c), Mirror(c) PROVE Companion(Saved)
<1> DEFINE E == <<>>
           h == [c EXCEPT !.rows = E, !.written = 0]
           r == c.rows
           w == c.written
           b == [h EXCEPT !.rows = r, !.written = w]
<1>1. IsRec(c)
  BY DEF Conv
<1>2. h = [messages |-> c.messages, stream |-> c.stream, pos |-> c.pos, turn_pos |-> c.turn_pos,
           need |-> c.need, rows |-> E, written |-> 0, odd |-> c.odd]
  <2>1. h = [c EXCEPT !.rows = E, !.written = 0]
    OBVIOUS
  <2> HIDE DEF h, E
  <2> QED
    BY <1>1, <2>1 DEF IsRec
<1>3. Saved = [host |-> h, rows |-> r, written |-> w]
  BY DEF Saved
<1> HIDE DEF h, E, r, w
<1>4. IsRec(h)
  BY <1>2 DEF IsRec
<1>5. b = [messages |-> c.messages, stream |-> c.stream, pos |-> c.pos, turn_pos |-> c.turn_pos,
           need |-> c.need, rows |-> r, written |-> w, odd |-> c.odd]
  <2>1. b = [h EXCEPT !.rows = r, !.written = w]
    OBVIOUS
  <2> HIDE DEF b
  <2> QED
    BY <1>2, <2>1
<1>6. b = c
  BY <1>1, <1>5, Zenon DEF IsRec, r, w
<1>7. Saved.host = h /\ Saved.rows = r /\ Saved.written = w
  BY <1>3
<1>8. Back(Saved) = b
  BY <1>7, Zenon DEF Back
<1> HIDE DEF b
<1>9. Conv(Back(Saved)) /\ Resting(Back(Saved)) /\ Mirror(Back(Saved)) /\ IsRec(Saved.host)
  BY <1>4, <1>6, <1>7, <1>8, Zenon
<1> QED
  BY <1>9 DEF Companion

(* Whatever the crash leaves, the files hold a conversation or nothing. *)
LEMMA SaveKeeps == ConvInv /\ save_session => ConvInv'
<1> SUFFICES ASSUME ConvInv, save_session PROVE ConvInv'
  OBVIOUS
<1>1. /\ phase = "idle" /\ phase' = "exited" /\ c' = c /\ gen' = gen
      /\ drafting' = drafting /\ slipped' = slipped
      /\ Conv(c) /\ Resting(c) /\ DiskOK /\ GenOK /\ (~drafting => Mirror(c))
      /\ slipped \in BOOLEAN /\ (slipped => drafting)
  BY DEF save_session, ConvInv, RowsInv
<1>2. PICK h \in {disk.history, NoHistory, c.messages}, k \in IF drafting THEN {disk.kv} ELSE {disk.kv, None, Saved} :
         disk' = [history |-> h, kv |-> k]
  BY DEF save_session
<1>3. h = NoHistory \/ (h \in Seq(Message) /\ Answered(h))
  BY <1>1 DEF DiskOK, Conv, Resting
<1>4. Companion(k)
  <2>1. (~drafting => Companion(Saved)) /\ Companion(disk.kv) /\ Companion(None)
    BY <1>1, SavedFacts DEF DiskOK, Companion
  <2> QED
    BY <2>1
<1>5. disk' = [history |-> h, kv |-> k]
  BY <1>2
<1>6. disk'.history = h /\ disk'.kv = k
  BY <1>5
<1>7. DiskOK'
  BY <1>3, <1>4, <1>5, <1>6, Zenon DEF DiskOK
<1>8. Conv(c')
  BY <1>1
<1>9. GenOK'
  BY <1>1 DEF GenOK
<1>10. RowsInv'
  BY <1>1 DEF RowsInv
<1> QED
  BY <1>1, <1>7, <1>8, <1>9, <1>10 DEF ConvInv

(* The history file, rendered again. *)
LEMMA LoadFacts ==
  ASSUME NEW ms \in Seq(Message), Answered(ms)
  PROVE  LET o == load_history(ms) IN Conv(o) /\ Resting(o) /\ Mirror(o) /\ o.messages = ms
<1> DEFINE z == [Fresh EXCEPT !.messages = ms]
           toks == encode(render(ms, FALSE))
           o == rehydrate_full(z, toks)
<1>1. Conv(z) /\ z.messages = ms /\ z.need = FALSE
  BY FreshFacts
<1>2. toks \in Seq(Tok) /\ decode(toks) = Rendered(ms)
  <2>1. Rendered(ms) \in Seq(Chars)
    BY RenderFacts
  <2> QED
    BY <2>1, EncodeFacts DEF Rendered
<1>3. load_history(ms) = o
  BY DEF load_history
<1> HIDE DEF z, toks
<1>4. /\ Conv(o) /\ o.messages = ms /\ o.stream = toks /\ o.turn_pos = 0
      /\ o.need = FALSE /\ o.odd = FALSE /\ Mirror(o)
  BY <1>1, <1>2, RehydrateFacts
<1> HIDE DEF o
<1>5. LastTurn(o)
  BY <1>4 DEF LastTurn
<1>6. Spells(o)
  <2>1. decode(toks) \in Seq(Chars)
    BY <1>2, DecodeFacts
  <2>2. Join(decode(toks), <<>>) = decode(toks)
    BY <2>1, JoinFacts
  <2>3. Pending(o) = <<>>
    BY <1>4 DEF Pending
  <2> QED
    BY <1>2, <1>4, <2>2, <2>3, Zenon DEF Spells
<1>7. Resting(o)
  BY <1>4, <1>5, <1>6 DEF Resting
<1> QED
  BY <1>3, <1>4, <1>7, Zenon

(* A restart takes up a conversation, and that of the history file. *)
LEMMA StartFacts ==
  ASSUME ConvInv, Start
  PROVE  ConvInv' /\ (phase' = "idle" /\ disk.history # NoHistory => c'.messages = disk.history)
<1> DEFINE s == IF ~drafting' /\ Resumable(disk.kv, disk.history) THEN Back(disk.kv)
                ELSE IF disk.history # NoHistory THEN load_history(disk.history) ELSE Fresh
<1>1. gen' = gen /\ disk' = disk /\ DiskOK /\ GenOK /\ Conv(c) /\ slipped' = FALSE
  BY DEF Start, ConvInv
<1>2. IF s.pos > n_ctx THEN phase' = "crashed" /\ c' = c ELSE phase' = "idle" /\ c' = s
  BY Zenon DEF Start, Back
<1>3. Conv(s) /\ Resting(s) /\ Mirror(s) /\ (disk.history # NoHistory => s.messages = disk.history)
  <2>1. CASE ~drafting' /\ Resumable(disk.kv, disk.history)
    <3> DEFINE kv == disk.kv
    <3>1. kv # None /\ (disk.history # NoHistory => disk.history = kv.host.messages)
      BY <2>1 DEF Resumable
    <3>2. IsRec(kv.host) /\ Conv(Back(kv)) /\ Resting(Back(kv)) /\ Mirror(Back(kv))
      BY <1>1, <3>1 DEF DiskOK, Companion
    <3>3. s = Back(kv)
      BY <2>1
    <3> HIDE DEF kv, s
    <3>4. Back(kv).messages = kv.host.messages
      BY <3>2 DEF Back, IsRec
    <3> QED
      BY <3>1, <3>2, <3>3, <3>4, Zenon
  <2>2. CASE ~(~drafting' /\ Resumable(disk.kv, disk.history)) /\ disk.history # NoHistory
    <3>1. s = load_history(disk.history)
      BY <2>2
    <3>2. disk.history \in Seq(Message) /\ Answered(disk.history)
      BY <1>1, <2>2 DEF DiskOK
    <3>3. LET o == load_history(disk.history) IN Conv(o) /\ Resting(o) /\ Mirror(o) /\ o.messages = disk.history
      BY <3>2, LoadFacts
    <3> HIDE DEF s
    <3> QED
      BY <3>1, <3>3, Zenon
  <2>3. CASE ~(~drafting' /\ Resumable(disk.kv, disk.history)) /\ ~(disk.history # NoHistory)
    <3>1. s = Fresh
      BY <2>3
    <3> HIDE DEF s
    <3> QED
      BY <2>3, <3>1, FreshFacts
  <2> QED
    BY <2>1, <2>2, <2>3
<1> HIDE DEF s
<1>4. CASE s.pos > n_ctx
  <2>1. phase' = "crashed" /\ c' = c
    BY <1>2, <1>4
  <2>2. Conv(c') /\ DiskOK' /\ GenOK'
    BY <1>1, <2>1 DEF DiskOK, GenOK
  <2>3. RowsInv'
    BY <1>1, <2>1 DEF RowsInv
  <2> QED
    BY <1>1, <2>1, <2>2, <2>3 DEF ConvInv
<1>5. CASE ~(s.pos > n_ctx)
  <2>1. phase' = "idle" /\ c' = s
    BY <1>2, <1>5
  <2>2. Conv(c') /\ Resting(c') /\ DiskOK' /\ GenOK'
    BY <1>1, <1>3, <2>1 DEF DiskOK, GenOK
  <2>3. RowsInv'
    BY <1>1, <1>3, <2>1 DEF RowsInv
  <2> QED
    BY <1>1, <1>3, <2>1, <2>2, <2>3 DEF ConvInv
<1> QED
  BY <1>4, <1>5

-----------------------------------------------------------------------------
(* The theorems. *)

LEMMA InitHolds == Init => ConvInv
<1> SUFFICES ASSUME Init PROVE ConvInv
  OBVIOUS
<1>1. c = Fresh /\ phase = "idle" /\ gen = NoTurn /\ disk = [history |-> NoHistory, kv |-> None]
      /\ slipped = FALSE
  BY DEF Init
<1>2. disk.history = NoHistory /\ disk.kv = None
  BY <1>1
<1>3. DiskOK
  BY <1>1, <1>2 DEF DiskOK, Companion
<1>4. GenOK
  <2>1. gen.n = 0 /\ gen.full = <<>>
    BY <1>1 DEF NoTurn
  <2>2. <<>> \in Seq(Chars) /\ 0 \in Nat
    BY EmptySeq
  <2> QED
    BY <1>1, <2>1, <2>2 DEF GenOK
<1>5. Conv(c) /\ Resting(c) /\ Mirror(c)
  BY <1>1, FreshFacts
<1>6. RowsInv
  BY <1>1, <1>5 DEF RowsInv
<1> QED
  BY <1>1, <1>3, <1>4, <1>5, <1>6 DEF ConvInv

LEMMA NextKeeps == ConvInv /\ [Next]_vars => ConvInv'
<1> SUFFICES ASSUME ConvInv, [Next]_vars PROVE ConvInv'
  OBVIOUS
<1>1. CASE \E input \in Inputs : UserTurn(input)
  BY <1>1, UserTurnKeeps
<1>2. CASE Regen
  BY <1>2, RegenKeeps
<1>3. CASE clear
  BY <1>3, ClearKeeps
<1>4. CASE Plain
  BY <1>4, PlainKeeps
<1>5. CASE GrammarStuck
  BY <1>5, GrammarStuckKeeps
<1>6. CASE Seed
  BY <1>6, SeedKeeps
<1>7. CASE Round
  BY <1>7, RoundKeeps
<1>8. CASE save_session
  BY <1>8, SaveKeeps
<1>9. CASE Start
  BY <1>9, StartFacts
<1>10. CASE UNCHANGED vars
  BY <1>10 DEF vars, ConvInv, GenOK, DiskOK, RowsInv
<1> QED
  BY <1>1, <1>2, <1>3, <1>4, <1>5, <1>6, <1>7, <1>8, <1>9, <1>10 DEF Next

(* The invariant of the conversation: every command, every way a turn is    *)
(* generated and ends, every overflow and every crash keeps it.             *)
THEOREM ConversationInvariant == Spec => []ConvInv
<1> QED
  BY InitHolds, NextKeeps, PTL DEF Spec

LEMMA TypeFollows == ConvInv => TypeOK
<1> SUFFICES ASSUME ConvInv PROVE TypeOK
  OBVIOUS
<1>1. Conv(c) /\ phase \in {"idle", "generate", "rounds", "exited", "crashed"} /\ slipped \in BOOLEAN
  BY DEF ConvInv, RowsInv
<1>2. c.stream \in Seq(Tok) /\ c.need \in BOOLEAN /\ c.odd \in BOOLEAN /\ c.rows \in [0 .. c.written - 1 -> Tok]
  BY <1>1 DEF Conv
<1>3. Tok = Sampled \cup {10, 11, 12, 13}
  BY DEF Tok, Chars, Sampled, Ch, Merged
<1>4. \A i \in DOMAIN c.stream : c.stream[i] \in Tok
  BY <1>2
<1> QED
  BY <1>1, <1>2, <1>3, <1>4 DEF TypeOK

(* Type correctness: the stream holds tokens and the rows are those written *)
(* so far, through every forward, removal and restore of the code.          *)
THEOREM ConversationTypes == Spec => []TypeOK
<1> QED
  BY ConversationInvariant, TypeFollows, PTL

LEMMA MirrorFollows == ConvInv => MirrorMatchesRows
<1> SUFFICES ASSUME ConvInv, phase = "idle", ~slipped
             PROVE  /\ c.pos = Len(c.stream)
                    /\ \A i \in DOMAIN c.stream : i - 1 \in DOMAIN c.rows /\ c.rows[i - 1] = c.stream[i]
  BY DEF MirrorMatchesRows
<1>1. Mirror(c) /\ Conv(c)
  BY DEF ConvInv, RowsInv
<1>2. /\ c.pos = Len(c.stream) /\ \A i \in 1 .. c.pos : c.rows[i - 1] = c.stream[i]
      /\ c.stream \in Seq(Tok) /\ c.pos \in Nat /\ c.written \in Nat /\ c.pos <= c.written
      /\ c.rows \in [0 .. c.written - 1 -> Tok]
  BY <1>1 DEF Mirror, RowsAre, Conv
<1>3. DOMAIN c.stream = 1 .. c.pos /\ DOMAIN c.rows = 0 .. c.written - 1
  BY <1>2
<1>4. \A i \in 1 .. c.pos : i - 1 \in 0 .. c.written - 1
  BY <1>2
<1> QED
  BY <1>2, <1>3, <1>4

(* The mirror is the KV: between turns each token of stream_tokens sits in  *)
(* its own row, for every context size, sampling, stop string, refusal,     *)
(* failed turn and restart, after the rollback of /regen and after a kv_rm  *)
(* that moved the rows.  A reply with a draft that is cut at n_predict      *)
(* breaks it (slipped), until the conversation is rendered as a whole.      *)
THEOREM MirrorKept == Spec => []MirrorMatchesRows
<1> QED
  BY ConversationInvariant, MirrorFollows, PTL

LEMMA StreamFollows == ConvInv => StreamSpellsConversation
<1> SUFFICES ASSUME ConvInv, phase = "idle", ~c.odd, c.stream # <<>>
             PROVE  decode(c.stream) \o (IF c.need THEN <<Eot>> ELSE <<>>) = render(c.messages, FALSE)
  BY DEF StreamSpellsConversation
<1>1. Spells(c)
  BY DEF ConvInv, Resting
<1> QED
  BY <1>1, Zenon DEF Spells, Join, Pending, Rendered

(* The KV consistency of conversation.rs: the stream, with the end-of-turn  *)
(* marker that is still to be fed, decodes to the render of the messages,   *)
(* whatever spelling was sampled and whichever turns were dropped.          *)
THEOREM StreamKept == Spec => []StreamSpellsConversation
<1> QED
  BY ConversationInvariant, StreamFollows, PTL

LEMMA RestartKeepsHistory ==
  ASSUME ConvInv, [Next]_vars
  PROVE  [(phase \in {"exited", "crashed"} /\ phase' = "idle" /\ disk.history # NoHistory) => c'.messages = disk.history]_vars
<1> SUFFICES ASSUME Next, phase \in {"exited", "crashed"}, phase' = "idle", disk.history # NoHistory
             PROVE  c'.messages = disk.history
  BY DEF vars
<1>1. Start
  BY DEF Next, UserTurn, Regen, clear, Plain, GrammarStuck, Seed, Round, save_session
<1> QED
  BY <1>1, StartFacts

(* A restart continues the conversation of the history file, whether from a *)
(* companion that agrees with it or by rendering it again, whatever a crash *)
(* of save_session left of either file.                                     *)
THEOREM HistoryKept == Spec => ResumeKeepsHistory
<1>1. ConvInv /\ [Next]_vars =>
        [(phase \in {"exited", "crashed"} /\ phase' = "idle" /\ disk.history # NoHistory) => c'.messages = disk.history]_vars
  BY RestartKeepsHistory
<1> QED
  BY <1>1, ConversationInvariant, PTL DEF Spec, ResumeKeepsHistory
=============================================================================
