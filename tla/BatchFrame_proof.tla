-------------------------- MODULE BatchFrame_proof --------------------------
(***************************************************************************)
(* Proofs about batch frames: what is decoded of a frame, wherever it was  *)
(* cut, is its first whole packets.                                        *)
(***************************************************************************)
EXTENDS BatchFrame, SequenceTheorems, WellFoundedInduction, TLAPS

-----------------------------------------------------------------------------
(***************************************************************************)
(* What holds at the start of a run of steps and is kept by each of them   *)
(* holds at the end: G is the set of the steps after which it holds.       *)
(***************************************************************************)
LEMMA StepsInduction ==
    ASSUME NEW N \in Nat, NEW G, 0 \in G, \A k \in 1 .. N : k - 1 \in G => k \in G
    PROVE  \A k \in 0 .. N : k \in G
<1> DEFINE T == {k \in 0 .. N : k \notin G}
<1>1. SUFFICES ASSUME T # {} PROVE FALSE
  OBVIOUS
<1>2. PICK k \in T : \A y \in T : ~ (<<y, k>> \in OpToRel(<, Nat))
  <2>1. T \subseteq Nat
    OBVIOUS
  <2> HIDE DEF T
  <2> QED BY <1>1, <2>1, WFMin, NatLessThanWellFounded
<1>3. k \in 1 .. N /\ k - 1 \in 0 .. N
  OBVIOUS
<1>4. k - 1 \notin T
  <2>1. <<k - 1, k>> \in OpToRel(<, Nat)
    BY <1>3 DEF OpToRel
  <2> QED BY <1>2, <2>1
<1> QED BY <1>3, <1>4

(* Concatenations.                                                         *)
FlatRun(run, q) ==
    /\ run[0] = <<>>
    /\ \A k \in 1 .. Len(q) : run[k] = run[k - 1] \o q[k]

LEMMA FlatRunType ==
    ASSUME NEW S, NEW q \in Seq(Seq(S)), NEW run, FlatRun(run, q)
    PROVE  \A k \in 0 .. Len(q) : run[k] \in Seq(S)
<1> DEFINE G == {k \in 0 .. Len(q) : run[k] \in Seq(S)}
<1>3. Len(q) \in Nat
  OBVIOUS
<1>1. 0 \in G
  <2>1. run[0] = <<>>
    BY DEF FlatRun
  <2>2. run[0] \in Seq(S)
    BY <2>1
  <2>3. 0 \in 0 .. Len(q)
    BY <1>3
  <2> QED BY <2>2, <2>3
<1>2. ASSUME NEW k \in 1 .. Len(q), k - 1 \in G
      PROVE  k \in G
  <2>1. q[k] \in Seq(S) /\ run[k - 1] \in Seq(S)
    BY <1>2
  <2>2. run[k] = run[k - 1] \o q[k]
    BY DEF FlatRun
  <2>3. run[k] \in Seq(S)
    BY <2>1, <2>2
  <2> QED BY <1>3, <2>3
<1>4. \A k \in 0 .. Len(q) : k \in G
  <2> HIDE DEF G
  <2> QED BY <1>1, <1>2, <1>3, StepsInduction
<1> QED BY <1>4

(* FlattenSeq computes such a run.                                         *)
LEMMA FlattenRun ==
    ASSUME NEW S, NEW q \in Seq(Seq(S))
    PROVE  \E run : FlatRun(run, q) /\ FlattenSeq(q) = run[Len(q)]
<1> DEFINE N == Len(q)
           IsRun(f, n) == f = [k \in 1 .. n |-> IF k = 1 THEN q[k] ELSE f[k - 1] \o q[k]]
           G == {n \in 0 .. N : \E f : IsRun(f, n)}
<1>0. N \in Nat
  OBVIOUS
<1>1. 0 \in G
  <2> DEFINE f == [k \in 1 .. 0 |-> <<>>]
  <2>1. f = [k \in 1 .. 0 |-> IF k = 1 THEN q[k] ELSE f[k - 1] \o q[k]]
    OBVIOUS
  <2>2. IsRun(f, 0)
    BY <2>1
  <2> HIDE DEF f, IsRun
  <2> QED BY <2>2
<1>2. ASSUME NEW n \in 1 .. N, n - 1 \in G
      PROVE  n \in G
  <2>1. PICK f : IsRun(f, n - 1)
    BY <1>2
  <2> DEFINE g == [k \in 1 .. n |-> IF k = n THEN (IF n = 1 THEN q[n] ELSE f[n - 1] \o q[n])
                                    ELSE f[k]]
  <2>2. ASSUME NEW k \in 1 .. n
        PROVE  g[k] = IF k = 1 THEN q[k] ELSE g[k - 1] \o q[k]
    <3>1. CASE k = n
      BY <3>1
    <3>2. CASE k \in 1 .. (n - 1)
      <4>1. f[k] = IF k = 1 THEN q[k] ELSE f[k - 1] \o q[k]
        BY <2>1, <3>2
      <4>2. g[k] = f[k] /\ (k # 1 => g[k - 1] = f[k - 1])
        BY <3>2
      <4> QED BY <4>1, <4>2
    <3> QED BY <3>1, <3>2
  <2>3. g = [k \in 1 .. n |-> g[k]]
    OBVIOUS
  <2> HIDE DEF g
  <2>4. g = [k \in 1 .. n |-> IF k = 1 THEN q[k] ELSE g[k - 1] \o q[k]]
    BY <2>2, <2>3
  <2>5. IsRun(g, n)
    BY <2>4
  <2> HIDE DEF IsRun
  <2> QED BY <2>5
<1>3. N \in G
  <2>1. \A k \in 0 .. N : k \in G
    <3> HIDE DEF G
    <3> QED BY <1>0, <1>1, <1>2, StepsInduction
  <2> HIDE DEF G
  <2> QED BY <1>0, <2>1
<1> DEFINE flat == CHOOSE f : IsRun(f, N)
<1>4. IsRun(flat, N)
  BY <1>3
<1>5. FlattenSeq(q) = IF N = 0 THEN q ELSE flat[N]
  BY DEF FlattenSeq
<1> HIDE DEF flat
<1>6. \A k \in 1 .. N : flat[k] = IF k = 1 THEN q[k] ELSE flat[k - 1] \o q[k]
  BY <1>4
<1> HIDE DEF IsRun, G
<1> DEFINE run == [k \in 0 .. N |-> IF k = 0 THEN <<>> ELSE flat[k]]
<1>7. ASSUME NEW k \in 1 .. N
      PROVE  run[k] = run[k - 1] \o q[k]
  <2>1. q[k] \in Seq(S)
    OBVIOUS
  <2>2. CASE k = 1
    <3>1. run[k] = q[k] /\ run[k - 1] = <<>>
      BY <1>6, <2>2
    <3> HIDE DEF run
    <3>2. <<>> \o q[k] = q[k]
      BY <2>1
    <3> QED BY <3>1, <3>2
  <2>3. CASE k # 1
    <3>1. run[k] = flat[k] /\ run[k - 1] = flat[k - 1]
      BY <2>3
    <3> QED BY <1>6, <2>3, <3>1
  <2> QED BY <2>2, <2>3
<1>8. run[0] = <<>> /\ run[N] = FlattenSeq(q)
  <2>1. N = 0 => q = <<>>
    OBVIOUS
  <2> QED BY <1>0, <1>5, <2>1
<1> HIDE DEF run
<1>9. FlatRun(run, q)
  BY <1>7, <1>8 DEF FlatRun
<1> QED BY <1>8, <1>9

(* There is one run only.                                                  *)
LEMMA FlattenIs ==
    ASSUME NEW S, NEW q \in Seq(Seq(S)), NEW run, FlatRun(run, q)
    PROVE  FlattenSeq(q) = run[Len(q)] /\ FlattenSeq(q) \in Seq(S)
<1>1. PICK r : FlatRun(r, q) /\ FlattenSeq(q) = r[Len(q)]
  BY FlattenRun
<1> DEFINE G == {k \in 0 .. Len(q) : r[k] = run[k]}
<1>2. Len(q) \in Nat
  OBVIOUS
<1>3. 0 \in G
  <2>1. r[0] = run[0]
    BY <1>1 DEF FlatRun
  <2> QED BY <1>2, <2>1
<1>4. ASSUME NEW k \in 1 .. Len(q), k - 1 \in G
      PROVE  k \in G
  <2>1. r[k] = r[k - 1] \o q[k] /\ run[k] = run[k - 1] \o q[k]
    BY <1>1 DEF FlatRun
  <2>2. r[k - 1] = run[k - 1]
    BY <1>4
  <2>3. r[k] = run[k] /\ k \in 0 .. Len(q)
    BY <1>2, <2>1, <2>2
  <2> QED BY <2>3
<1>5. \A k \in 0 .. Len(q) : k \in G
  <2> HIDE DEF G
  <2> QED BY <1>2, <1>3, <1>4, StepsInduction
<1>6. r[Len(q)] = run[Len(q)]
  BY <1>2, <1>5
<1> QED BY <1>1, <1>2, <1>6, FlatRunType

LEMMA FlattenEmpty == FlattenSeq(<<>>) = <<>>
BY DEF FlattenSeq

LEMMA FlattenOne ==
    ASSUME NEW S, NEW x \in Seq(S)
    PROVE  FlattenSeq(<<x>>) = x
<1> DEFINE q == <<x>>
           run == [k \in 0 .. 1 |-> IF k = 0 THEN <<>> ELSE x]
<1>1. q \in Seq(Seq(S)) /\ Len(q) = 1 /\ q[1] = x
  OBVIOUS
<1>2. run[0] = <<>> /\ run[1] = x
  OBVIOUS
<1> HIDE DEF q, run
<1>3. run[1] = run[0] \o q[1]
  BY <1>1, <1>2
<1>4. FlatRun(run, q)
  BY <1>1, <1>2, <1>3 DEF FlatRun
<1>5. FlattenSeq(q) = x
  BY <1>1, <1>2, <1>4, FlattenIs
<1> QED BY <1>5 DEF q

LEMMA FlattenConcat ==
    ASSUME NEW S, NEW p \in Seq(Seq(S)), NEW q \in Seq(Seq(S))
    PROVE  FlattenSeq(p \o q) = FlattenSeq(p) \o FlattenSeq(q)
<1>1. PICK a : FlatRun(a, p) /\ FlattenSeq(p) = a[Len(p)]
  BY FlattenRun
<1>2. PICK b : FlatRun(b, q) /\ FlattenSeq(q) = b[Len(q)]
  BY FlattenRun
<1>3. PICK m \in Nat : m = Len(p)
  OBVIOUS
<1>4. PICK n \in Nat : n = Len(q)
  OBVIOUS
<1>5. PICK u \in Seq(S) : u = FlattenSeq(p) /\ u = a[m]
  BY <1>1, <1>3, FlattenIs
<1> DEFINE run == [k \in 0 .. (m + n) |-> IF k <= m THEN a[k] ELSE u \o b[k - m]]
<1>6. PICK pq \in Seq(Seq(S)) : pq = p \o q
  <2>1. p \o q \in Seq(Seq(S))
    BY ConcatProperties
  <2> QED BY <2>1
<1>7. /\ Len(pq) = m + n
      /\ \A k \in 1 .. m : pq[k] = p[k]
      /\ \A k \in 1 .. n : pq[m + k] = q[k]
  BY <1>3, <1>4, <1>6
<1>8. \A k \in 0 .. n : b[k] \in Seq(S)
  BY <1>2, <1>4, FlatRunType
<1>9. ASSUME NEW k \in 1 .. (m + n)
      PROVE  run[k] = run[k - 1] \o pq[k]
  <2>1. CASE k <= m
    <3>1. run[k] = a[k] /\ run[k - 1] = a[k - 1]
      BY <2>1
    <3>3. k \in 1 .. m
      BY <2>1
    <3>2. a[k] = a[k - 1] \o p[k]
      BY <1>1, <1>3, <3>3 DEF FlatRun
    <3> QED BY <1>7, <3>1, <3>2, <3>3
  <2>2. CASE k > m
    <3>1. PICK j \in 1 .. n : k = m + j
      <4>1. k - m \in 1 .. n /\ k = m + (k - m)
        BY <2>2
      <4> QED BY <4>1
    <3>2. run[k] = u \o b[j]
      BY <3>1
    <3>3. run[k - 1] = u \o b[j - 1]
      <4>1. CASE j = 1
        <5>1. run[k - 1] = u
          BY <1>5, <3>1, <4>1
        <5>2. b[j - 1] = <<>>
          BY <1>2, <4>1 DEF FlatRun
        <5>3. u \o <<>> = u
          OBVIOUS
        <5> QED BY <5>1, <5>2, <5>3
      <4>2. CASE j # 1
        <5>1. k - 1 \in 0 .. (m + n) /\ ~ (k - 1 <= m) /\ (k - 1) - m = j - 1
          BY <3>1, <4>2
        <5> QED BY <5>1
      <4> QED BY <4>1, <4>2
    <3>4. b[j] = b[j - 1] \o q[j] /\ pq[k] = q[j]
      BY <1>2, <1>4, <1>7, <3>1 DEF FlatRun
    <3>5. PICK v \in Seq(S) : v = b[j - 1]
      BY <1>8
    <3>6. PICK w \in Seq(S) : w = q[j]
      BY <1>4
    <3> HIDE DEF run
    <3>7. run[k] = u \o (v \o w)
      BY <3>2, <3>4, <3>5, <3>6
    <3>8. run[k - 1] \o pq[k] = (u \o v) \o w
      BY <3>3, <3>4, <3>5, <3>6
    <3>9. (u \o v) \o w = u \o (v \o w)
      BY ConcatAssociative
    <3> QED BY <3>7, <3>8, <3>9
  <2> HIDE DEF run
  <2>3. k <= m \/ k > m
    OBVIOUS
  <2> QED BY <2>1, <2>2, <2>3, Zenon
<1>10. run[0] = <<>>
  BY <1>1 DEF FlatRun
<1>11. run[m + n] = u \o FlattenSeq(q)
  <2>1. CASE n = 0
    <3>1. run[m + n] = u /\ FlattenSeq(q) = <<>>
      BY <1>2, <1>4, <1>5, <2>1 DEF FlatRun
    <3> HIDE DEF run
    <3>2. u \o <<>> = u
      OBVIOUS
    <3> QED BY <3>1, <3>2
  <2>2. CASE n # 0
    BY <1>2, <1>4, <2>2
  <2> QED BY <2>1, <2>2
<1> HIDE DEF run
<1>12. FlatRun(run, pq)
  BY <1>7, <1>9, <1>10 DEF FlatRun
<1>13. FlattenSeq(pq) = run[m + n]
  BY <1>7, <1>12, FlattenIs
<1> QED BY <1>5, <1>6, <1>11, <1>13

LEMMA TupleIsSeq ==
    ASSUME NEW S, NEW n \in Nat, NEW g \in [1 .. n -> S]
    PROVE  g \in Seq(S) /\ Len(g) = n
OBVIOUS

Joins(a, b, c) ==
    /\ Len(c) = Len(a) + Len(b)
    /\ \A i \in 1 .. Len(a) : c[i] = a[i]
    /\ \A i \in 1 .. Len(b) : c[Len(a) + i] = b[i]

LEMMA ConcatIs ==
    ASSUME NEW S, NEW a \in Seq(S), NEW b \in Seq(S), NEW c \in Seq(S), Joins(a, b, c)
    PROVE  c = a \o b
<1> USE DEF Joins
<1>1. ASSUME NEW i \in 1 .. Len(c)
      PROVE  c[i] = (a \o b)[i]
  <2>1. CASE i <= Len(a)
    BY <2>1
  <2>2. CASE i > Len(a)
    <3>1. i - Len(a) \in 1 .. Len(b) /\ Len(a) + (i - Len(a)) = i
      BY <2>2
    <3>2. c[Len(a) + (i - Len(a))] = b[i - Len(a)]
      BY <3>1
    <3> QED BY <2>2, <3>1, <3>2
  <2> QED BY <2>1, <2>2
<1>2. a \o b \in Seq(S) /\ Len(a \o b) = Len(c)
  OBVIOUS
<1> QED BY <1>1, <1>2, SeqEqual

-----------------------------------------------------------------------------
(* Payloads: the first token of each is its header.                        *)
Payloads(T) == {s \in Seq(T) : s # <<>> /\ s[1].k = "uvarint"}

\* e[i] is the frame of the first i payloads.
Laid(e, parts) ==
    /\ e[0] = <<>>
    /\ \A i \in 1 .. Len(parts) : e[i] = e[i - 1] \o Sized(parts[i])

Token(T) == T \union {UnsignedVarInt(n) : n \in Nat}

SizedParts(parts) == [i \in 1 .. Len(parts) |-> Sized(parts[i])]

LEMMA SizedIs ==
    ASSUME NEW T, NEW s \in Payloads(T)
    PROVE  /\ Sized(s) \in Seq(Token(T))
           /\ Len(Sized(s)) = Len(s) + 1
           /\ Sized(s)[1] = UnsignedVarInt(Len(s))
           /\ \A j \in 1 .. Len(s) : Sized(s)[j + 1] = s[j]
           /\ Len(s) \in Nat \ {0}
<1>1. s \in Seq(T) /\ Len(s) \in Nat \ {0}
  BY DEF Payloads
<1>2. UnsignedVarInt(Len(s)) \in Token(T)
  BY <1>1 DEF Token
<1>3. s \in Seq(Token(T))
  BY <1>1 DEF Token
<1> DEFINE x == UnsignedVarInt(Len(s))
<1> HIDE DEF x
<1>4. x \in Token(T)
  BY <1>2 DEF x
<1>5. <<x>> \in Seq(Token(T)) /\ Len(<<x>>) = 1 /\ <<x>>[1] = x
  BY <1>4
<1>6. Sized(s) = <<x>> \o s
  BY DEF Sized, x
<1> HIDE DEF Token
<1>7. <<x>> \o s \in Seq(Token(T)) /\ Len(<<x>> \o s) = Len(s) + 1
  BY <1>1, <1>3, <1>5
<1>8. (<<x>> \o s)[1] = x /\ \A j \in 1 .. Len(s) : (<<x>> \o s)[j + 1] = s[j]
  BY <1>1, <1>3, <1>5
<1> QED BY <1>1, <1>6, <1>7, <1>8 DEF x

LEMMA LaidOut ==
    ASSUME NEW T, NEW parts \in Seq(Payloads(T))
    PROVE  \E e : /\ Laid(e, parts)
                  /\ \A i \in 0 .. Len(parts) : e[i] \in Seq(Token(T))
                  /\ BatchOf(parts) = e[Len(parts)]
<1> DEFINE q == SizedParts(parts)
<1>1. Len(parts) \in Nat /\ \A i \in 1 .. Len(parts) : parts[i] \in Payloads(T)
  OBVIOUS
<1>2. \A i \in 1 .. Len(parts) : Sized(parts[i]) \in Seq(Token(T))
  BY <1>1, SizedIs
<1>3. q \in Seq(Seq(Token(T))) /\ Len(q) = Len(parts)
  <2> DEFINE S == Seq(Token(T))
  <2> HIDE DEF S
  <2>1. \A i \in 1 .. Len(parts) : Sized(parts[i]) \in S
    BY <1>2 DEF S
  <2>2. q \in [1 .. Len(parts) -> S]
    BY <2>1 DEF SizedParts
  <2>3. q \in Seq(S) /\ Len(q) = Len(parts)
    BY <1>1, <2>2, TupleIsSeq
  <2> QED BY <2>3 DEF S
<1>4. PICK e : FlatRun(e, q) /\ FlattenSeq(q) = e[Len(q)]
  BY <1>3, FlattenRun
<1>5. \A i \in 0 .. Len(q) : e[i] \in Seq(Token(T))
  BY <1>3, <1>4, FlatRunType
<1>6. Laid(e, parts)
  BY <1>1, <1>3, <1>4 DEF FlatRun, Laid, SizedParts
<1>7. BatchOf(parts) = FlattenSeq(q)
  <2>1. DOMAIN parts = 1 .. Len(parts)
    OBVIOUS
  <2> QED BY <2>1 DEF BatchOf, SizedParts
<1> QED BY <1>3, <1>4, <1>5, <1>6, <1>7

(* Where each payload lies in the frame.                                   *)
Lies(e, parts, i) ==
    /\ Len(e[i]) = Len(e[i - 1]) + 1 + Len(parts[i])
    /\ e[i][Len(e[i - 1]) + 1] = UnsignedVarInt(Len(parts[i]))
    /\ \A j \in 1 .. Len(parts[i]) : e[i][Len(e[i - 1]) + 1 + j] = parts[i][j]

IsStart(a, b) == Len(a) <= Len(b) /\ \A j \in 1 .. Len(a) : b[j] = a[j]

LEMMA ConcatReads ==
    ASSUME NEW S, NEW a \in Seq(S), NEW b \in Seq(S)
    PROVE  /\ Len(a \o b) = Len(a) + Len(b)
           /\ \A j \in 1 .. Len(a) : (a \o b)[j] = a[j]
           /\ \A j \in 1 .. Len(b) : (a \o b)[Len(a) + j] = b[j]
OBVIOUS

LEMMA PayloadLies ==
    ASSUME NEW T, NEW parts \in Seq(Payloads(T)), NEW e, Laid(e, parts),
           \A i \in 0 .. Len(parts) : e[i] \in Seq(Token(T)),
           NEW i \in 1 .. Len(parts)
    PROVE  Lies(e, parts, i) /\ IsStart(e[i - 1], e[i])
<1>1. PICK s \in Payloads(T) : s = parts[i]
  OBVIOUS
<1>2. PICK a \in Seq(Token(T)) : a = e[i - 1]
  <2>1. i - 1 \in 0 .. Len(parts)
    OBVIOUS
  <2> QED BY <2>1
<1>3. PICK b \in Seq(Token(T)) : b = Sized(s)
  BY SizedIs
<1>4. /\ Len(b) = Len(s) + 1 /\ b[1] = UnsignedVarInt(Len(s))
      /\ \A j \in 1 .. Len(s) : b[j + 1] = s[j]
      /\ Len(s) \in Nat \ {0}
  BY <1>3, SizedIs
<1>5. e[i] = a \o b
  BY <1>1, <1>2, <1>3 DEF Laid
<1>6. /\ Len(a \o b) = Len(a) + Len(b)
      /\ \A j \in 1 .. Len(a) : (a \o b)[j] = a[j]
      /\ \A j \in 1 .. Len(b) : (a \o b)[Len(a) + j] = b[j]
  BY ConcatReads
<1>7. Len(a) \in Nat
  OBVIOUS
<1>8. (a \o b)[Len(a) + 1] = UnsignedVarInt(Len(s))
  BY <1>4, <1>6
<1>9. ASSUME NEW j \in 1 .. Len(s)
      PROVE  (a \o b)[Len(a) + 1 + j] = s[j]
  <2>1. j + 1 \in 1 .. Len(b) /\ Len(a) + (j + 1) = Len(a) + 1 + j
    BY <1>4, <1>7
  <2> QED BY <1>4, <1>6, <2>1
<1>10. Len(a \o b) = Len(a) + 1 + Len(s)
  BY <1>4, <1>6, <1>7
<1>11. Lies(e, parts, i)
  BY <1>1, <1>2, <1>5, <1>8, <1>9, <1>10 DEF Lies
<1>12. IsStart(a, a \o b)
  BY <1>4, <1>6, <1>7 DEF IsStart
<1> QED BY <1>2, <1>5, <1>11, <1>12

LEMMA BeginsOn ==
    ASSUME NEW S, NEW a \in Seq(S), NEW b \in Seq(S), NEW c \in Seq(S),
           IsStart(a, b), IsStart(b, c)
    PROVE  IsStart(a, c)
BY DEF IsStart

LEMMA BeginsFrame ==
    ASSUME NEW T, NEW parts \in Seq(Payloads(T)), NEW e, Laid(e, parts),
           \A i \in 0 .. Len(parts) : e[i] \in Seq(Token(T)),
           NEW i \in 0 .. Len(parts), NEW m \in i .. Len(parts)
    PROVE  IsStart(e[i], e[m])
<1> DEFINE N == Len(parts) - i
           G == {k \in 0 .. N : IsStart(e[i], e[i + k])}
<1>1. N \in Nat
  OBVIOUS
<1>2. 0 \in G
  <2>1. e[i] \in Seq(Token(T)) /\ i + 0 = i
    OBVIOUS
  <2>2. IsStart(e[i], e[i])
    BY <2>1 DEF IsStart
  <2> QED BY <1>1, <2>1, <2>2
<1>3. ASSUME NEW k \in 1 .. N, k - 1 \in G
      PROVE  k \in G
  <2>1. i + k \in 1 .. Len(parts) /\ (i + k) - 1 = i + (k - 1)
    OBVIOUS
  <2>2. IsStart(e[i + (k - 1)], e[i + k])
    BY <2>1, PayloadLies
  <2>3. IsStart(e[i], e[i + (k - 1)])
    BY <1>3
  <2>4. i + (k - 1) \in 0 .. Len(parts) /\ i + k \in 0 .. Len(parts)
    OBVIOUS
  <2>5. IsStart(e[i], e[i + k])
    BY <2>2, <2>3, <2>4, BeginsOn
  <2> QED BY <2>5
<1>4. \A k \in 0 .. N : k \in G
  <2> HIDE DEF G, N
  <2> QED BY <1>1, <1>2, <1>3, StepsInduction
<1>5. m - i \in 0 .. N /\ i + (m - i) = m
  OBVIOUS
<1> QED BY <1>4, <1>5

-----------------------------------------------------------------------------
(* The loop of decodeBatch as its recursive function.                      *)
Decoding(frame, d, pos) ==
    IF pos > Len(frame) THEN [subs |-> <<>>, ok |-> TRUE]
    ELSE IF Broken(frame, pos) THEN GivesUp
    ELSE LET packetLen == frame[pos].v
             after == d[pos + 1 + packetLen]
         IN  [subs |-> <<SubPacket(frame, pos + 1, packetLen)>> \o after.subs,
              ok |-> after.ok]

(* An unsigned varint is a number.                                         *)
Numbered(T) == \A x \in T : x.k = "uvarint" => x.v \in Nat

LEMMA UnbrokenFits ==
    ASSUME NEW T, Numbered(T), NEW frame \in Seq(T), NEW pos \in 1 .. Len(frame), ~ Broken(frame, pos)
    PROVE  frame[pos].v \in 1 .. (Len(frame) - pos)
<1>1. frame[pos] \in T /\ Len(frame) \in Nat
  OBVIOUS
<1>2. frame[pos].v \in Nat
  BY <1>1 DEF Broken, Numbered
<1>3. frame[pos].v # 0 /\ ~ (frame[pos].v > Len(frame) - pos)
  BY DEF Broken
<1> QED BY <1>1, <1>2, <1>3

LEMMA SameDecoding ==
    ASSUME NEW T, Numbered(T), NEW frame \in Seq(T), NEW pos \in 1 .. (Len(frame) + 1),
           NEW f, NEW g, \A j \in (pos + 1) .. (Len(frame) + 1) : f[j] = g[j]
    PROVE  Decoding(frame, f, pos) = Decoding(frame, g, pos)
<1>1. CASE pos > Len(frame)
  BY <1>1 DEF Decoding
<1>2. CASE ~ (pos > Len(frame)) /\ Broken(frame, pos)
  BY <1>2 DEF Decoding
<1>3. CASE ~ (pos > Len(frame)) /\ ~ Broken(frame, pos)
  <2>1. pos \in 1 .. Len(frame) /\ Len(frame) \in Nat
    BY <1>3
  <2>2. frame[pos].v \in 1 .. (Len(frame) - pos)
    BY <1>3, <2>1, UnbrokenFits
  <2>3. pos + 1 + frame[pos].v \in (pos + 1) .. (Len(frame) + 1)
    BY <2>1, <2>2
  <2>4. f[pos + 1 + frame[pos].v] = g[pos + 1 + frame[pos].v]
    BY <2>3
  <2> QED BY <1>3, <2>4 DEF Decoding
<1> QED BY <1>1, <1>2, <1>3

DecodeRun(d, frame) ==
    /\ \A pos \in 1 .. (Len(frame) + 1) : d[pos] = Decoding(frame, d, pos)
    /\ DecodeBatch(frame) = d[1]

LEMMA DecodeBatchRun ==
    ASSUME NEW T, Numbered(T), NEW frame \in Seq(T)
    PROVE  \E d : DecodeRun(d, frame)
<1> DEFINE L == Len(frame)
           IsRun(f, n) == f = [pos \in (L + 1 - n) .. (L + 1) |-> Decoding(frame, f, pos)]
           G == {n \in 0 .. L : \E f : IsRun(f, n)}
<1>0. L \in Nat
  OBVIOUS
<1>1. 0 \in G
  <2> DEFINE f == [pos \in (L + 1 - 0) .. (L + 1) |-> [subs |-> <<>>, ok |-> TRUE]]
  <2>1. \A pos \in (L + 1 - 0) .. (L + 1) : Decoding(frame, f, pos) = [subs |-> <<>>, ok |-> TRUE]
    BY <1>0 DEF Decoding
  <2>2. f = [pos \in (L + 1 - 0) .. (L + 1) |-> Decoding(frame, f, pos)]
    <3> DEFINE g == f
    <3>1. \A pos \in (L + 1 - 0) .. (L + 1) : Decoding(frame, g, pos) = [subs |-> <<>>, ok |-> TRUE]
      BY <2>1
    <3>2. g = [pos \in (L + 1 - 0) .. (L + 1) |-> [subs |-> <<>>, ok |-> TRUE]]
      OBVIOUS
    <3> HIDE DEF g, L
    <3>3. g = [pos \in (L + 1 - 0) .. (L + 1) |-> Decoding(frame, g, pos)]
      BY <3>1, <3>2
    <3> QED BY <3>3 DEF g
  <2>3. IsRun(f, 0)
    BY <2>2
  <2> HIDE DEF f, IsRun
  <2> QED BY <1>0, <2>3
<1>2. ASSUME NEW n \in 1 .. L, n - 1 \in G
      PROVE  n \in G
  <2>1. PICK f : IsRun(f, n - 1)
    BY <1>2
  <2> DEFINE at == L + 1 - n
             g == [pos \in at .. (L + 1) |-> IF pos = at THEN Decoding(frame, f, pos) ELSE f[pos]]
  <2>2. at \in 1 .. L /\ L + 1 - (n - 1) = at + 1
    BY <1>0
  <2>3. \A pos \in (at + 1) .. (L + 1) : f[pos] = Decoding(frame, f, pos)
    BY <2>1, <2>2
  <2>4. g = [pos \in at .. (L + 1) |-> g[pos]] /\ \A j \in (at + 1) .. (L + 1) : g[j] = f[j]
    BY <2>2
  <2>5. g[at] = Decoding(frame, f, at)
    BY <2>2
  <2> HIDE DEF g
  <2>6. ASSUME NEW pos \in at .. (L + 1)
        PROVE  g[pos] = Decoding(frame, g, pos)
    <3>1. pos \in 1 .. (L + 1)
      BY <2>2
    <3>2. ASSUME NEW j \in (pos + 1) .. (L + 1)
          PROVE  f[j] = g[j]
      <4>1. j \in (at + 1) .. (L + 1)
        BY <1>0, <2>2, <3>1
      <4> QED BY <2>4, <4>1
    <3>3. Decoding(frame, f, pos) = Decoding(frame, g, pos)
      BY <3>1, <3>2, SameDecoding
    <3>4. g[pos] = Decoding(frame, f, pos)
      <4>1. CASE pos = at
        BY <2>5, <4>1
      <4>2. CASE pos # at
        <5>1. pos \in (at + 1) .. (L + 1)
          BY <2>2, <4>2
        <5> QED BY <2>3, <2>4, <5>1
      <4> QED BY <4>1, <4>2
    <3> QED BY <3>3, <3>4
  <2>7. g = [pos \in at .. (L + 1) |-> Decoding(frame, g, pos)]
    <3> HIDE DEF at, L
    <3> QED BY <2>4, <2>6
  <2>8. IsRun(g, n)
    BY <2>7
  <2> HIDE DEF IsRun
  <2> QED BY <2>8
<1>3. L \in G
  <2>1. \A n \in 0 .. L : n \in G
    <3> HIDE DEF G, L
    <3> QED BY <1>0, <1>1, <1>2, StepsInduction
  <2> HIDE DEF G, L
  <2> QED BY <1>0, <2>1
<1> DEFINE Whole(f) == f = [pos \in 1 .. (L + 1) |-> Decoding(frame, f, pos)]
           d == CHOOSE f : Whole(f)
<1>4. \E f : Whole(f)
  <2>1. PICK f : IsRun(f, L)
    BY <1>3
  <2>2. L + 1 - L = 1
    BY <1>0
  <2>3. f = [pos \in 1 .. (L + 1) |-> Decoding(frame, f, pos)]
    BY <2>1, <2>2
  <2> QED BY <2>3
<1>5. Whole(d)
  <2> HIDE DEF Whole
  <2> QED BY <1>4
<1>6. DecodeBatch(frame) = d[1]
  BY DEF DecodeBatch, Decoding
<1> HIDE DEF d
<1>7. \A pos \in 1 .. (L + 1) : d[pos] = Decoding(frame, d, pos)
  BY <1>5
<1> QED BY <1>6, <1>7 DEF DecodeRun

-----------------------------------------------------------------------------
(* A frame that ends somewhere: what is left of it has the first n payloads*)
(* whole.                                                                  *)
LastWhole(e, N, k, n) == n \in 0 .. N /\ Len(e[n]) <= k /\ (n < N => k < Len(e[n + 1]))

LEMMA SomeFit ==
    ASSUME NEW S, NEW N \in Nat, NEW e, \A i \in 0 .. N : e[i] \in Seq(S), e[0] = <<>>,
           NEW k \in 0 .. Len(e[N])
    PROVE  \E n : LastWhole(e, N, k, n)
<1> SUFFICES ASSUME \A n : ~ LastWhole(e, N, k, n)
             PROVE  FALSE
  OBVIOUS
<1> DEFINE G == {i \in 0 .. N : Len(e[i]) <= k}
<1>1. 0 \in G
  OBVIOUS
<1>2. ASSUME NEW i \in 1 .. N, i - 1 \in G
      PROVE  i \in G
  <2>1. i - 1 \in 0 .. N /\ i \in 0 .. N /\ (i - 1) + 1 = i
    OBVIOUS
  <2>2. ~ (k < Len(e[i]))
    <3>1. ~ LastWhole(e, N, k, i - 1)
      OBVIOUS
    <3> QED BY <1>2, <2>1, <3>1 DEF LastWhole
  <2>3. Len(e[i]) \in Nat
    BY <2>1
  <2>4. k \in Int
    OBVIOUS
  <2> QED BY <2>1, <2>2, <2>3, <2>4
<1>3. \A i \in 0 .. N : i \in G
  <2> HIDE DEF G
  <2> QED BY <1>1, <1>2, StepsInduction
<1>4. LastWhole(e, N, k, N)
  BY <1>3 DEF LastWhole
<1> QED BY <1>4

Cut(e, parts, frame, n) ==
    /\ Laid(e, parts)
    /\ LastWhole(e, Len(parts), Len(frame), n)
    /\ Len(frame) <= Len(e[Len(parts)])
    /\ \A j \in 1 .. Len(frame) : frame[j] = e[Len(parts)][j]

(* A payload that is whole in what is left of the frame, seen from where   *)
(* its length stands.                                                      *)
WholeAt(e, parts, frame, i) ==
    /\ Len(e[i - 1]) + 1 \in 1 .. Len(frame)
    /\ Len(e[i]) = Len(e[i - 1]) + 1 + Len(parts[i])
    /\ Len(e[i]) <= Len(frame)
    /\ frame[Len(e[i - 1]) + 1] = UnsignedVarInt(Len(parts[i]))
    /\ \A j \in 1 .. Len(parts[i]) : frame[Len(e[i - 1]) + 1 + j] = parts[i][j]

LEMMA FirstAreWhole ==
    ASSUME NEW T, NEW parts \in Seq(Payloads(T)), NEW frame \in Seq(Token(T)), NEW e, NEW n,
           \A i \in 0 .. Len(parts) : e[i] \in Seq(Token(T)), Cut(e, parts, frame, n),
           NEW i \in 1 .. n
    PROVE  WholeAt(e, parts, frame, i)
<1>1. PICK N \in Nat : N = Len(parts)
  OBVIOUS
<1>2. n \in 0 .. N /\ Len(e[n]) <= Len(frame)
  BY <1>1 DEF Cut, LastWhole
<1>3. i \in 1 .. N /\ i \in 0 .. N /\ i - 1 \in 0 .. N /\ n \in i .. N /\ N \in i .. N
  BY <1>1, <1>2
<1>4. PICK s \in Payloads(T) : s = parts[i]
  BY <1>1, <1>3
<1>5. Len(s) \in Nat \ {0}
  BY SizedIs
<1>6. Lies(e, parts, i)
  BY <1>1, <1>3, PayloadLies DEF Cut
<1>7. IsStart(e[i], e[n]) /\ IsStart(e[i], e[N])
  BY <1>1, <1>3, BeginsFrame DEF Cut
<1>8. PICK a \in Nat : a = Len(e[i - 1])
  BY <1>1, <1>3
<1>9. PICK b \in Nat : b = Len(e[i])
  BY <1>1, <1>3
<1>10. PICK k \in Nat : k = Len(frame)
  OBVIOUS
<1>11. b = a + 1 + Len(s) /\ e[i][a + 1] = UnsignedVarInt(Len(s))
       /\ \A j \in 1 .. Len(s) : e[i][a + 1 + j] = s[j]
  BY <1>4, <1>6, <1>8, <1>9 DEF Lies
<1>12. b <= k
  <2>1. PICK m \in Nat : m = Len(e[n])
    BY <1>1, <1>2
  <2> QED BY <1>2, <1>7, <1>9, <1>10, <2>1 DEF IsStart
<1>13. \A j \in 1 .. b : frame[j] = e[i][j]
  <2>1. \A j \in 1 .. b : e[N][j] = e[i][j]
    BY <1>7, <1>9 DEF IsStart
  <2>2. \A j \in 1 .. k : frame[j] = e[N][j]
    BY <1>1, <1>10 DEF Cut
  <2> QED BY <1>12, <2>1, <2>2
<1>14. frame[a + 1] = UnsignedVarInt(Len(s)) /\ a + 1 \in 1 .. k
  BY <1>5, <1>11, <1>12, <1>13
<1>15. ASSUME NEW j \in 1 .. Len(s)
       PROVE  frame[a + 1 + j] = s[j]
  <2>1. a + 1 + j \in 1 .. b
    BY <1>5, <1>11
  <2> QED BY <1>11, <1>13, <2>1
<1> QED BY <1>4, <1>8, <1>9, <1>10, <1>11, <1>12, <1>14, <1>15 DEF WholeAt

(* Each of them is read as what it is, and the loop goes on after it.      *)
ReadAt(e, parts, frame, d, i) ==
    Decoding(frame, d, Len(e[i - 1]) + 1) =
        [subs |-> <<Described(parts[i])>> \o d[Len(e[i]) + 1].subs, ok |-> d[Len(e[i]) + 1].ok]

LEMMA WholeIsRead ==
    ASSUME NEW T, NEW parts \in Seq(Payloads(T)), NEW frame \in Seq(Token(T)), NEW e, NEW d,
           NEW i \in 1 .. Len(parts), WholeAt(e, parts, frame, i),
           e[i - 1] \in Seq(Token(T))
    PROVE  ReadAt(e, parts, frame, d, i)
<1>1. PICK s \in Payloads(T) : s = parts[i]
  OBVIOUS
<1>2. s \in Seq(T) /\ Len(s) \in Nat \ {0} /\ s[1].k = "uvarint"
  BY SizedIs DEF Payloads
<1>3. PICK pos \in Nat : pos = Len(e[i - 1]) + 1
  OBVIOUS
<1>4. PICK k \in Nat : k = Len(frame)
  OBVIOUS
<1>5. /\ pos \in 1 .. k /\ Len(e[i]) = pos + Len(s) /\ pos + Len(s) <= k
      /\ frame[pos] = UnsignedVarInt(Len(s))
      /\ \A j \in 1 .. Len(s) : frame[pos + j] = s[j]
  BY <1>1, <1>3, <1>4 DEF WholeAt
<1>6. frame[pos].k = "uvarint" /\ frame[pos].v = Len(s)
  BY <1>5 DEF UnsignedVarInt
<1>7. frame[pos + 1] = s[1]
  BY <1>2, <1>5
<1>8. ~ Broken(frame, pos)
  BY <1>2, <1>4, <1>5, <1>6, <1>7 DEF Broken
<1>9. SubPacket(frame, pos + 1, Len(s)) = Described(s)
  <2>1. SubSeq(frame, pos + 2, pos + Len(s)) = Tail(s)
    <3> DEFINE u == SubSeq(frame, pos + 2, pos + Len(s))
               w == Tail(s)
    <3>1. /\ u \in Seq(Token(T)) /\ Len(u) = Len(s) - 1
          /\ \A j \in 1 .. (Len(s) - 1) : u[j] = frame[pos + 1 + j]
      <4>1. pos + 2 \in Int /\ pos + Len(s) \in Int
        BY <1>2
      <4>2. ASSUME NEW j \in (pos + 2) .. (pos + Len(s))
            PROVE  frame[j] \in Token(T)
        <5>1. j \in 1 .. k
          BY <1>2, <1>5
        <5> HIDE DEF Token
        <5> QED BY <1>4, <5>1
      <4>3. /\ u \in Seq(Token(T))
            /\ Len(u) = IF pos + 2 <= pos + Len(s) THEN (pos + Len(s)) - (pos + 2) + 1 ELSE 0
            /\ \A j \in 1 .. ((pos + Len(s)) - (pos + 2) + 1) : u[j] = frame[(pos + 2) + j - 1]
        <5> HIDE DEF Token
        <5> QED BY <4>1, <4>2, SubSeqProperties
      <4>4. (pos + Len(s)) - (pos + 2) + 1 = Len(s) - 1
        BY <1>2
      <4>5. Len(u) = Len(s) - 1
        <5>0. \A m \in Nat \ {0} : pos + 2 <= pos + m \/ m - 1 = 0
          OBVIOUS
        <5>1. pos + 2 <= pos + Len(s) \/ Len(s) - 1 = 0
          BY <1>2, <5>0, Zenon
        <5>2. Len(u) = IF pos + 2 <= pos + Len(s) THEN Len(s) - 1 ELSE 0
          BY <4>3, <4>4, Zenon
        <5> HIDE DEF u
        <5> QED BY <1>2, <5>1, <5>2
      <4>6. ASSUME NEW j \in 1 .. (Len(s) - 1)
            PROVE  u[j] = frame[pos + 1 + j]
        <5>1. (pos + 2) + j - 1 = pos + 1 + j
          BY <1>2
        <5> HIDE DEF u
        <5> QED BY <4>3, <4>4, <5>1
      <4> QED BY <4>3, <4>5, <4>6
    <3>2. /\ w \in Seq(T) /\ Len(w) = Len(s) - 1
          /\ \A j \in 1 .. (Len(s) - 1) : w[j] = s[j + 1]
      BY <1>2
    <3>3. ASSUME NEW j \in 1 .. (Len(s) - 1)
          PROVE  u[j] = w[j]
      <4>1. j + 1 \in 1 .. Len(s) /\ pos + (j + 1) = pos + 1 + j
        BY <1>2
      <4>2. frame[pos + (j + 1)] = s[j + 1]
        BY <1>5, <4>1
      <4> HIDE DEF u, w
      <4> QED BY <3>1, <3>2, <4>1, <4>2
    <3>4. w \in Seq(Token(T))
      BY <3>2 DEF Token
    <3> HIDE DEF u, w, Token
    <3>5. u = w
      BY <3>1, <3>2, <3>3, <3>4, SeqEqual
    <3> QED BY <3>5 DEF u, w
  <2>2. (pos + 1) + 1 = pos + 2 /\ (pos + 1) + Len(s) - 1 = pos + Len(s)
    BY <1>2
  <2> QED BY <1>7, <2>1, <2>2 DEF SubPacket, Described
<1>10. ~ (pos > Len(frame)) /\ pos + 1 + frame[pos].v = Len(e[i]) + 1
  BY <1>2, <1>4, <1>5, <1>6
<1>11. Decoding(frame, d, pos) =
           [subs |-> <<SubPacket(frame, pos + 1, Len(s))>> \o d[Len(e[i]) + 1].subs,
            ok |-> d[Len(e[i]) + 1].ok]
  BY <1>6, <1>8, <1>10 DEF Decoding
<1> QED BY <1>1, <1>3, <1>9, <1>11 DEF ReadAt

(* Where the whole ones end, the loop ends: with the frame, or because a   *)
(* payload is not all there.                                               *)
LoopEnded(e, frame, n, d) ==
    /\ Len(e[n]) + 1 \in 1 .. (Len(frame) + 1)
    /\ Decoding(frame, d, Len(e[n]) + 1) = [subs |-> <<>>, ok |-> Len(frame) = Len(e[n])]

LEMMA LoopEnds ==
    ASSUME NEW T, NEW parts \in Seq(Payloads(T)), NEW frame \in Seq(Token(T)), NEW e, NEW n, NEW d,
           \A i \in 0 .. Len(parts) : e[i] \in Seq(Token(T)), Cut(e, parts, frame, n)
    PROVE  LoopEnded(e, frame, n, d)
<1>1. PICK N \in Nat : N = Len(parts)
  OBVIOUS
<1>2. PICK k \in Nat : k = Len(frame)
  OBVIOUS
<1>3. n \in 0 .. N /\ Len(e[n]) <= k /\ (n < N => k < Len(e[n + 1])) /\ k <= Len(e[N])
  BY <1>1, <1>2 DEF Cut, LastWhole
<1>4. PICK a \in Nat : a = Len(e[n])
  BY <1>1, <1>3
<1>5. a + 1 \in 1 .. (k + 1)
  BY <1>3, <1>4
<1>6. CASE a = k
  <2>1. a + 1 > Len(frame)
    BY <1>2, <1>6
  <2> QED BY <1>2, <1>4, <1>5, <1>6, <2>1 DEF Decoding, LoopEnded
<1>7. CASE a # k
  <2>1. a < k /\ n < N
    BY <1>3, <1>4, <1>7
  <2>2. n + 1 \in 1 .. N /\ n + 1 \in 0 .. N /\ (n + 1) - 1 = n /\ N \in (n + 1) .. N
    BY <1>3, <2>1
  <2>3. PICK s \in Payloads(T) : s = parts[n + 1]
    BY <1>1, <2>2
  <2>4. Len(s) \in Nat \ {0}
    BY SizedIs
  <2>5. Lies(e, parts, n + 1)
    BY <1>1, <2>2, PayloadLies DEF Cut
  <2>6. Len(e[n + 1]) = a + 1 + Len(s) /\ e[n + 1][a + 1] = UnsignedVarInt(Len(s))
    BY <1>4, <2>2, <2>3, <2>5 DEF Lies
  <2>7. IsStart(e[n + 1], e[N])
    BY <1>1, <2>2, BeginsFrame DEF Cut
  <2>8. a + 1 \in 1 .. Len(e[n + 1])
    BY <2>4, <2>6
  <2>9. e[N][a + 1] = UnsignedVarInt(Len(s))
    BY <2>6, <2>7, <2>8 DEF IsStart
  <2>10. a + 1 \in 1 .. k
    BY <2>1
  <2>11. frame[a + 1] = UnsignedVarInt(Len(s))
    BY <1>1, <1>2, <2>9, <2>10 DEF Cut
  <2>12. frame[a + 1].v = Len(s)
    BY <2>11 DEF UnsignedVarInt
  <2>13. Len(s) > k - (a + 1)
    BY <1>3, <2>1, <2>4, <2>6
  <2>14. Broken(frame, a + 1)
    BY <1>2, <2>12, <2>13 DEF Broken
  <2>15. ~ (a + 1 > Len(frame))
    BY <1>2, <2>1
  <2>16. (Len(frame) = Len(e[n])) = FALSE
    BY <1>2, <1>4, <1>7
  <2>17. Decoding(frame, d, a + 1) = [subs |-> <<>>, ok |-> FALSE]
    BY <2>14, <2>15 DEF Decoding, GivesUp
  <2> QED BY <1>2, <1>4, <1>5, <2>16, <2>17 DEF LoopEnded
<1> QED BY <1>6, <1>7

-----------------------------------------------------------------------------
(* The three lemmas, for provers that have to find T themselves.             *)
Framed(T, e, parts, frame, n) ==
    /\ parts \in Seq(Payloads(T)) /\ frame \in Seq(Token(T))
    /\ \A i \in 0 .. Len(parts) : e[i] \in Seq(Token(T))
    /\ Cut(e, parts, frame, n)

LEMMA FramedWhole ==
    \A T, e, parts, frame, n :
        Framed(T, e, parts, frame, n) => \A i \in 1 .. n : WholeAt(e, parts, frame, i)
<1> SUFFICES ASSUME NEW T, NEW e, NEW parts, NEW frame, NEW n, Framed(T, e, parts, frame, n),
                    NEW i \in 1 .. n
             PROVE  WholeAt(e, parts, frame, i)
  OBVIOUS
<1>1. parts \in Seq(Payloads(T)) /\ frame \in Seq(Token(T))
  BY DEF Framed
<1>2. Cut(e, parts, frame, n) /\ \A j \in 0 .. Len(parts) : e[j] \in Seq(Token(T))
  BY DEF Framed
<1> QED BY <1>1, <1>2, FirstAreWhole

LEMMA FramedRead ==
    \A T, e, parts, frame, n :
        Framed(T, e, parts, frame, n) =>
            \A i \in 1 .. Len(parts) : \A d : WholeAt(e, parts, frame, i) => ReadAt(e, parts, frame, d, i)
<1> SUFFICES ASSUME NEW T, NEW e, NEW parts, NEW frame, NEW n, Framed(T, e, parts, frame, n),
                    NEW i \in 1 .. Len(parts), NEW d, WholeAt(e, parts, frame, i)
             PROVE  ReadAt(e, parts, frame, d, i)
  OBVIOUS
<1>1. parts \in Seq(Payloads(T)) /\ frame \in Seq(Token(T))
  BY DEF Framed
<1>2. e[i - 1] \in Seq(Token(T))
  <2>1. i - 1 \in 0 .. Len(parts)
    BY <1>1
  <2> QED BY <2>1 DEF Framed
<1> QED BY <1>1, <1>2, WholeIsRead

LEMMA FramedEnds ==
    \A T, e, parts, frame, n :
        Framed(T, e, parts, frame, n) => \A d : LoopEnded(e, frame, n, d)
<1> SUFFICES ASSUME NEW T, NEW e, NEW parts, NEW frame, NEW n, Framed(T, e, parts, frame, n),
                    NEW d
             PROVE  LoopEnded(e, frame, n, d)
  OBVIOUS
<1>1. parts \in Seq(Payloads(T)) /\ frame \in Seq(Token(T))
  BY DEF Framed
<1>2. Cut(e, parts, frame, n) /\ \A i \in 0 .. Len(parts) : e[i] \in Seq(Token(T))
  BY DEF Framed
<1> QED BY <1>1, <1>2, LoopEnds

-----------------------------------------------------------------------------
LEMMA Prepended ==
    ASSUME NEW S, NEW t \in Nat \ {0}, NEW g \in [1 .. t -> S]
    PROVE  <<g[1]>> \o [j \in 1 .. (t - 1) |-> g[j + 1]] = g
<1> DEFINE h == [j \in 1 .. (t - 1) |-> g[j + 1]]
           x == g[1]
<1>1. x \in S /\ h \in [1 .. (t - 1) -> S] /\ t - 1 \in Nat
  OBVIOUS
<1>2. h \in Seq(S) /\ Len(h) = t - 1
  <2> HIDE DEF h
  <2> QED BY <1>1, TupleIsSeq
<1>3. g \in Seq(S) /\ Len(g) = t
  BY TupleIsSeq
<1>4. <<x>> \in Seq(S) /\ Len(<<x>>) = 1 /\ <<x>>[1] = x
  BY <1>1
<1>5. \A j \in 1 .. (t - 1) : g[1 + j] = h[j]
  OBVIOUS
<1>6. Joins(<<x>>, h, g)
  <2>1. \A j \in 1 .. 1 : g[j] = <<x>>[j]
    BY <1>4
  <2> HIDE DEF h, x
  <2> QED BY <1>2, <1>3, <1>4, <1>5, <2>1 DEF Joins
<1> HIDE DEF h, x
<1>7. g = <<x>> \o h
  BY <1>2, <1>3, <1>4, <1>6, ConcatIs
<1> QED BY <1>7 DEF h, x

LEMMA DecodesCut ==
    ASSUME NEW T, Numbered(T), NEW parts \in Seq(Payloads(T)), NEW frame \in Seq(Token(T)), NEW e, NEW n,
           \A i \in 0 .. Len(parts) : e[i] \in Seq(Token(T)), Cut(e, parts, frame, n)
    PROVE  DecodeBatch(frame) = [subs |-> Found(parts, n), ok |-> Len(frame) = Len(e[n])]
<1>0. Framed(T, e, parts, frame, n)
  BY DEF Framed
<1>1. Numbered(Token(T))
  BY DEF Numbered, Token, UnsignedVarInt
<1>2. PICK d : DecodeRun(d, frame)
  BY <1>1, DecodeBatchRun
<1>3. PICK N \in Nat : N = Len(parts)
  OBVIOUS
<1>4. n \in 0 .. N
  BY <1>3 DEF Cut, LastWhole
<1> DEFINE done == (Len(frame) = Len(e[n]))
           Rest(t) == [j \in 1 .. t |-> Described(parts[n - t + j])]
           G == {t \in 0 .. n : d[Len(e[n - t]) + 1] = [subs |-> Rest(t), ok |-> done]}
<1> HIDE DEF done
<1>5. 0 \in G
  <2>1. n - 0 = n
    BY <1>4
  <2>2. Len(e[n]) + 1 \in 1 .. (Len(frame) + 1)
        /\ Decoding(frame, d, Len(e[n]) + 1) = [subs |-> <<>>, ok |-> done]
    <3>1. LoopEnded(e, frame, n, d)
      BY <1>0, FramedEnds
    <3> QED BY <3>1 DEF LoopEnded, done
  <2>3. d[Len(e[n]) + 1] = [subs |-> <<>>, ok |-> done]
    BY <1>2, <2>2 DEF DecodeRun
  <2>4. Rest(0) = <<>>
    OBVIOUS
  <2>5. 0 \in 0 .. n
    BY <1>4
  <2> HIDE DEF Rest
  <2> QED BY <2>1, <2>3, <2>4, <2>5
<1>6. ASSUME NEW t \in 1 .. n, t - 1 \in G
      PROVE  t \in G
  <2>1. PICK i \in 1 .. n : i = n - t + 1
    <3>1. n - t + 1 \in 1 .. n
      BY <1>4
    <3> QED BY <3>1
  <2>2. i - 1 = n - t /\ n - (t - 1) = i /\ i \in 1 .. N /\ i - 1 \in 0 .. N /\ t \in Nat \ {0}
    BY <1>4, <2>1
  <2>3. d[Len(e[i]) + 1] = [subs |-> Rest(t - 1), ok |-> done]
    <3> HIDE DEF Rest
    <3> QED BY <1>6, <2>2
  <2>4. WholeAt(e, parts, frame, i)
    BY <1>0, FramedWhole
  <2>6. Decoding(frame, d, Len(e[i - 1]) + 1) =
            [subs |-> <<Described(parts[i])>> \o d[Len(e[i]) + 1].subs, ok |-> d[Len(e[i]) + 1].ok]
    <3>1. ReadAt(e, parts, frame, d, i)
      BY <1>0, <1>3, <2>2, <2>4, FramedRead
    <3> QED BY <3>1 DEF ReadAt
  <2>7. Len(e[i - 1]) + 1 \in 1 .. (Len(frame) + 1)
    BY <2>4 DEF WholeAt
  <2>8. d[Len(e[i - 1]) + 1] = [subs |-> <<Described(parts[i])>> \o Rest(t - 1), ok |-> done]
    <3>1. d[Len(e[i - 1]) + 1] = Decoding(frame, d, Len(e[i - 1]) + 1)
      BY <1>2, <2>7 DEF DecodeRun
    <3> HIDE DEF Rest
    <3> QED BY <2>3, <2>6, <3>1
  <2>9. <<Described(parts[i])>> \o Rest(t - 1) = Rest(t)
    <3> DEFINE S == {Described(parts[j]) : j \in 1 .. N}
    <3>1. ASSUME NEW j \in 1 .. t
          PROVE  Described(parts[n - t + j]) \in S
      <4>1. n - t + j \in 1 .. N
        BY <1>4
      <4> QED BY <4>1
    <3> HIDE DEF S
    <3>2. Rest(t) \in [1 .. t -> S]
      BY <3>1
    <3>3. Rest(t)[1] = Described(parts[i])
      BY <2>1
    <3>4. Rest(t - 1) = [j \in 1 .. (t - 1) |-> Rest(t)[j + 1]]
      <4>1. ASSUME NEW j \in 1 .. (t - 1)
            PROVE  Rest(t)[j + 1] = Described(parts[n - (t - 1) + j])
        <5>1. j + 1 \in 1 .. t /\ n - t + (j + 1) = n - (t - 1) + j
          BY <1>4
        <5> QED BY <5>1
      <4> QED BY <4>1
    <3> HIDE DEF Rest
    <3> QED BY <2>2, <3>2, <3>3, <3>4, Prepended
  <2> HIDE DEF Rest
  <2>10. d[Len(e[n - t]) + 1] = [subs |-> Rest(t), ok |-> done]
    BY <2>2, <2>8, <2>9
  <2>11. t \in 0 .. n
    BY <1>4
  <2> QED BY <2>10, <2>11
<1>7. n \in G
  <2>1. \A t \in 0 .. n : t \in G
    <3>1. n \in Nat
      BY <1>4
    <3> HIDE DEF G
    <3> QED BY <1>5, <1>6, <3>1, StepsInduction
  <2>2. n \in 0 .. n
    BY <1>4
  <2> HIDE DEF G
  <2> QED BY <2>1, <2>2
<1>8. d[Len(e[0]) + 1] = [subs |-> Rest(n), ok |-> done]
  <2>1. n - n = 0
    BY <1>4
  <2> HIDE DEF Rest
  <2> QED BY <1>7, <2>1
<1>9. Rest(n) = Found(parts, n)
  <2>1. \A j \in 1 .. n : n - n + j = j
    BY <1>4
  <2> QED BY <2>1 DEF Found
<1>10. Len(e[0]) + 1 = 1
  <2>1. e[0] = <<>>
    BY DEF Cut, Laid
  <2> QED BY <2>1
<1> HIDE DEF Rest
<1> QED BY <1>2, <1>8, <1>9, <1>10 DEF DecodeRun, done

(* The frame of the first payloads.                                        *)
LEMMA FirstParts ==
    ASSUME NEW T, NEW parts \in Seq(Payloads(T)), NEW e, Laid(e, parts),
           NEW n \in 0 .. Len(parts)
    PROVE  BatchOf(SubSeq(parts, 1, n)) = e[n]
<1> DEFINE P == Payloads(T)
           q == SubSeq(parts, 1, n)
<1> HIDE DEF P
<1>1. parts \in Seq(P) /\ Len(parts) \in Nat
  BY DEF P
<1>2. q \in Seq(P) /\ Len(q) = n /\ \A j \in 1 .. n : q[j] = parts[j]
  <2>1. \A j \in 1 .. n : parts[j] \in P
    BY <1>1
  <2>2. 1 \in Int /\ n \in Int
    BY <1>1
  <2>3. /\ q \in Seq(P) /\ Len(q) = IF 1 <= n THEN n - 1 + 1 ELSE 0
        /\ \A j \in 1 .. (n - 1 + 1) : q[j] = parts[1 + j - 1]
    BY <2>1, <2>2, SubSeqProperties
  <2> HIDE DEF q
  <2>4. Len(q) = n
    BY <1>1, <2>3
  <2>5. ASSUME NEW j \in 1 .. n
        PROVE  q[j] = parts[j]
    <3>1. j \in 1 .. (n - 1 + 1) /\ 1 + j - 1 = j
      BY <1>1
    <3> QED BY <2>3, <3>1
  <2> QED BY <2>3, <2>4, <2>5
<1> HIDE DEF q
<1>3. PICK f : Laid(f, q) /\ BatchOf(q) = f[n]
  BY <1>2, LaidOut DEF P
<1> DEFINE G == {i \in 0 .. n : f[i] = e[i]}
<1>4. 0 \in G
  BY <1>1, <1>3 DEF Laid
<1>5. ASSUME NEW i \in 1 .. n, i - 1 \in G
      PROVE  i \in G
  <2>1. i \in 1 .. Len(parts) /\ i \in 0 .. n
    BY <1>1
  <2>2. f[i] = f[i - 1] \o Sized(q[i]) /\ e[i] = e[i - 1] \o Sized(parts[i])
    BY <1>2, <1>3, <2>1 DEF Laid
  <2>3. f[i - 1] = e[i - 1]
    BY <1>5
  <2> QED BY <1>2, <2>1, <2>2, <2>3
<1>6. \A i \in 0 .. n : i \in G
  <2>1. n \in Nat
    BY <1>1
  <2> HIDE DEF G
  <2> QED BY <1>4, <1>5, <2>1, StepsInduction
<1>7. n \in 0 .. n
  BY <1>1
<1> QED BY <1>3, <1>6, <1>7 DEF q

-----------------------------------------------------------------------------
(* What comes of a batch frame, for any number of packets of any length.   *)

(* The header of a packet is read as it was written, when its id has ten   *)
(* bits and its sub-clients two.                                           *)
THEOREM HeaderSurvives ==
    ASSUME NEW id \in 0 .. 1023, NEW sender \in 0 .. 3, NEW target \in 0 .. 3
    PROVE  HeaderDecode(HeaderEncode(id, sender, target)) =
               [packet_id |-> id, sender |-> sender, target |-> target]
<1> DEFINE val == id + 1024 * sender + 4096 * target
<1>1. HeaderEncode(id, sender, target) = val
  BY DEF HeaderEncode
<1>2. val % 1024 = id
  OBVIOUS
<1>3. val \div 1024 = sender + 4 * target
  OBVIOUS
<1>4. (val \div 1024) % 4 = sender
  BY <1>3
<1>5. (val \div 4096) % 4 = target
  OBVIOUS
<1> QED BY <1>1, <1>2, <1>4, <1>5 DEF HeaderDecode

(* Wherever a frame is cut, the callback of decodeBatch gets the packets   *)
(* that came whole, each with its own header and bytes and in their order, *)
(* and the frame is reported broken unless it was cut between two of them. *)
THEOREM FirstPacketsDecoded ==
    ASSUME NEW T, Numbered(T), NEW parts \in Seq(Payloads(T)),
           NEW k \in 0 .. Len(BatchOf(parts))
    PROVE  FirstPackets(parts, k, DecodeBatch(SubSeq(BatchOf(parts), 1, k)))
<1>1. PICK e : /\ Laid(e, parts)
               /\ \A i \in 0 .. Len(parts) : e[i] \in Seq(Token(T))
               /\ BatchOf(parts) = e[Len(parts)]
  BY LaidOut
<1>2. PICK N \in Nat : N = Len(parts)
  OBVIOUS
<1>3. PICK F \in Seq(Token(T)) : F = BatchOf(parts) /\ F = e[N]
  BY <1>1, <1>2
<1> DEFINE frame == SubSeq(F, 1, k)
<1>4. k \in 0 .. Len(F) /\ Len(F) \in Nat
  BY <1>3
<1>5. frame \in Seq(Token(T)) /\ Len(frame) = k /\ \A j \in 1 .. k : frame[j] = F[j]
  <2> DEFINE S == Token(T)
  <2> HIDE DEF S
  <2>1. \A j \in 1 .. k : F[j] \in S
    BY <1>4 DEF S
  <2>2. /\ frame \in Seq(S) /\ Len(frame) = IF 1 <= k THEN k - 1 + 1 ELSE 0
        /\ \A j \in 1 .. (k - 1 + 1) : frame[j] = F[1 + j - 1]
    <3>1. 1 \in Int /\ k \in Int
      BY <1>4
    <3> QED BY <2>1, <3>1, SubSeqProperties
  <2> HIDE DEF frame
  <2>3. Len(frame) = k
    BY <1>4, <2>2
  <2>4. ASSUME NEW j \in 1 .. k
        PROVE  frame[j] = F[j]
    <3>1. j \in 1 .. (k - 1 + 1) /\ 1 + j - 1 = j
      BY <1>4
    <3> QED BY <2>2, <3>1
  <2> QED BY <2>2, <2>3, <2>4 DEF S
<1> HIDE DEF frame
<1>6. PICK n : LastWhole(e, N, k, n)
  <2>1. e[0] = <<>>
    BY <1>1 DEF Laid
  <2>2. \A i \in 0 .. N : e[i] \in Seq(Token(T))
    BY <1>1, <1>2
  <2>3. k \in 0 .. Len(e[N])
    BY <1>3, <1>4
  <2> QED BY <2>1, <2>2, <2>3, SomeFit
<1>7. Cut(e, parts, frame, n)
  BY <1>1, <1>2, <1>3, <1>4, <1>5, <1>6 DEF Cut
<1>8. DecodeBatch(frame) = [subs |-> Found(parts, n), ok |-> k = Len(e[n])]
  BY <1>1, <1>5, <1>7, DecodesCut
<1>9. n \in 0 .. N /\ Len(e[n]) <= k /\ (n < N => k < Len(e[n + 1]))
  BY <1>6 DEF LastWhole
<1>10. \A i \in 0 .. N : Size(parts, i) = Len(e[i])
  BY <1>1, <1>2, FirstParts DEF Size
<1>11. n < N => n + 1 \in 0 .. N
  BY <1>9
<1> QED BY <1>2, <1>3, <1>8, <1>9, <1>10, <1>11 DEF frame, FirstPackets

(* A frame that is not cut is decoded into its packets.                    *)
THEOREM WholeBatchDecoded ==
    ASSUME NEW T, Numbered(T), NEW parts \in Seq(Payloads(T))
    PROVE  DecodeBatch(BatchOf(parts)) = [subs |-> Found(parts, Len(parts)), ok |-> TRUE]
<1>1. PICK e : /\ Laid(e, parts)
               /\ \A i \in 0 .. Len(parts) : e[i] \in Seq(Token(T))
               /\ BatchOf(parts) = e[Len(parts)]
  BY LaidOut
<1>2. PICK N \in Nat : N = Len(parts)
  OBVIOUS
<1>3. PICK F \in Seq(Token(T)) : F = BatchOf(parts) /\ F = e[N]
  BY <1>1, <1>2
<1>4. LastWhole(e, N, Len(F), N)
  BY <1>3 DEF LastWhole
<1>5. Cut(e, parts, F, N)
  BY <1>1, <1>2, <1>3, <1>4 DEF Cut
<1>6. DecodeBatch(F) = [subs |-> Found(parts, N), ok |-> Len(F) = Len(e[N])]
  BY <1>1, <1>5, DecodesCut
<1> QED BY <1>2, <1>3, <1>6

=============================================================================
