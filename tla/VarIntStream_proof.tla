------------------------- MODULE VarIntStream_proof -------------------------
(* That a stream of varints is read back as it was written, for groups,    *)
(* widths and streams of any size.  What the loops compute is not proved   *)
(* by induction over a number: the writer leaves a mark before each byte,  *)
(* and the reader is always at one of the marks.                           *)
EXTENDS VarIntStream, TLAPS

Mark == [finished : Nat, sum : Nat, factor : Nat \ {0}]

TypeOK ==
    /\ numbers \in Seq(Signed) /\ value \in Nat /\ writing \in BOOLEAN
    /\ buffer \in Seq(Byte) /\ marks \in Seq(Mark) /\ foreign \in BOOLEAN
    /\ size \in Int /\ size >= -1 /\ offset \in Nat
    /\ got \in Unsigned /\ scale \in Nat \ {0}
    /\ results \in Seq(Signed) /\ overflowed \in BOOLEAN

\* The mark behind each byte follows from the byte and the mark before it.
Chained ==
    /\ Len(marks) = Len(buffer) + 1
    /\ marks[1] = NewMark
    /\ \A i \in 1 .. Len(buffer) : marks[i + 1] = Marked(marks[i], buffer[i])

\* A byte belongs to a number, and its group to what the number is encoded as.
GroupsFit ==
    \A i \in 1 .. Len(buffer) :
        /\ marks[i].finished < Len(numbers)
        /\ marks[i].factor < LIMIT
        /\ marks[i].sum + (buffer[i] % GROUP) * marks[i].factor < WIDTH
        /\ buffer[i] < GROUP =>
              marks[i].sum + buffer[i] * marks[i].factor
                 = zigZagEncode(numbers[marks[i].finished + 1])

\* What is written and what is left to write make up the number.
WriterFits ==
    IF writing
      THEN /\ LastMark.finished + 1 = Len(numbers)
           /\ LastMark.sum + value * LastMark.factor
                 = zigZagEncode(numbers[Len(numbers)])
           /\ value > 0 \/ LastMark.factor = 1
      ELSE LastMark = [finished |-> Len(numbers), sum |-> 0, factor |-> 1]

\* The reader is at a mark.
ReaderFits ==
    /\ offset <= Len(buffer)
    /\ Len(results) = marks[offset + 1].finished
    /\ got = marks[offset + 1].sum
    /\ scale = marks[offset + 1].factor
    /\ \A k \in 1 .. Len(results) : k <= Len(numbers) /\ results[k] = numbers[k]
    /\ overflowed => size < Len(buffer)

Handed ==
    /\ size = -1 => offset = 0 /\ got = 0 /\ scale = 1 /\ results = <<>> /\ ~ overflowed
    /\ size = -1 => ~ foreign
    /\ size >= 0 => ~ writing /\ size <= Len(buffer) /\ offset <= size
    /\ scale < LIMIT * GROUP

IInv ==
    /\ TypeOK
    /\ Handed
    /\ ~ foreign => Chained /\ GroupsFit /\ WriterFits /\ ReaderFits

-----------------------------------------------------------------------------
LEMMA Division ==
    ASSUME NEW v \in Nat, NEW g \in Nat, g > 0
    PROVE  /\ v \div g \in Nat
           /\ v % g \in Nat
           /\ v % g < g
           /\ v = (v \div g) * g + (v % g)
<1>1. v \div g \in Int /\ v % g \in Nat /\ v % g < g
  BY Z3
<1>2. v = (v \div g) * g + (v % g)
  BY Z3
<1>3. v \div g >= 0
  <2>1. SUFFICES ASSUME v \div g < 0 PROVE FALSE
    BY <1>1
  <2>2. (v \div g) * g <= -1 * g
    BY <1>1, <2>1, Z3
  <2> QED BY <1>1, <1>2, <2>2
<1> QED BY <1>1, <1>2, <1>3

LEMMA Positive ==
    ASSUME NEW a \in Nat, NEW b \in Nat, a > 0, b > 0
    PROVE  a * b \in Nat /\ a * b > 0 /\ a * b >= a
BY Z3

LEMMA Shifted ==
    \A q \in Nat, r \in Nat, f \in Nat, g \in Nat :
        /\ r * f \in Nat /\ q * (f * g) \in Nat
        /\ (q * g + r) * f = r * f + q * (f * g)
<1> TAKE q \in Nat, r \in Nat, f \in Nat, g \in Nat
<1>1. q * g \in Nat /\ r * f \in Nat /\ f * g \in Nat /\ q * (f * g) \in Nat
  BY Z3
<1>2. (q * g) * f = q * (f * g)
  BY Z3
<1>3. (q * g + r) * f = (q * g) * f + r * f
  BY <1>1, Z3
<1> QED BY <1>1, <1>2, <1>3

(* Zigzag maps the signed numbers to the unsigned ones and back.           *)
LEMMA ZigZagEncodes ==
    ASSUME NEW n \in Signed
    PROVE  zigZagEncode(n) \in Unsigned
<1>1. WIDTH \in Nat /\ WIDTH >= 2
  BY WidthAssumption
<1>2. (2 * n) % WIDTH \in Nat /\ (2 * n) % WIDTH < WIDTH
  BY <1>1, Z3 DEF Signed
<1> QED BY <1>1, <1>2 DEF zigZagEncode, Unsigned

LEMMA ZigZagDecodes ==
    ASSUME NEW u \in Unsigned
    PROVE  zigZagDecode(u) \in Signed
<1>1. WIDTH \in Nat /\ WIDTH >= 2 /\ WIDTH % 2 = 0
  BY WidthAssumption
<1>2. u \in Nat /\ u < WIDTH
  BY <1>1 DEF Unsigned
<1> QED BY <1>1, <1>2, Z3 DEF zigZagDecode, Signed

THEOREM ZigZagRoundTrip ==
    ASSUME NEW n \in Signed
    PROVE  zigZagDecode(zigZagEncode(n)) = n
<1>1. WIDTH \in Nat /\ WIDTH >= 2 /\ WIDTH % 2 = 0
  BY WidthAssumption
<1>2. n \in Int /\ -(WIDTH \div 2) <= n /\ n <= WIDTH \div 2 - 1
  BY <1>1 DEF Signed
<1>3. CASE n >= 0
  <2>1. (2 * n) % WIDTH = 2 * n
    BY <1>1, <1>2, <1>3, Z3
  <2>2. zigZagEncode(n) = 2 * n
    BY <1>2, <1>3, <2>1 DEF zigZagEncode
  <2> QED BY <1>2, <1>3, <2>2, Z3 DEF zigZagDecode
<1>4. CASE n < 0
  <2>1. (2 * n) % WIDTH = 2 * n + WIDTH
    BY <1>1, <1>2, <1>4, Z3
  <2>2. zigZagEncode(n) = -1 - 2 * n
    BY <1>1, <1>2, <1>4, <2>1 DEF zigZagEncode
  <2> QED BY <1>2, <1>4, <2>2, Z3 DEF zigZagDecode
<1> QED BY <1>2, <1>3, <1>4

(* What the byte written of a value says.                                  *)
LEMMA Groups ==
    ASSUME NEW v \in Nat
    PROVE  /\ GroupOf(v) \in Byte
           /\ GroupOf(v) % GROUP = v % GROUP
           /\ v \div GROUP \in Nat /\ v % GROUP \in Nat
           /\ v = (v \div GROUP) * GROUP + (v % GROUP)
           /\ v \div GROUP = 0 => GroupOf(v) = v % GROUP /\ GroupOf(v) < GROUP
           /\ v \div GROUP > 0 => GroupOf(v) = (v % GROUP) + GROUP
<1>1. GROUP \in Nat /\ GROUP >= 2
  BY GroupAssumption
<1>2. /\ v \div GROUP \in Nat /\ v % GROUP \in Nat /\ v % GROUP < GROUP
      /\ v = (v \div GROUP) * GROUP + (v % GROUP)
  BY <1>1, Division
<1>3. ASSUME NEW r \in Nat, r < GROUP
      PROVE  r % GROUP = r /\ (r + GROUP) % GROUP = r
  BY <1>1, <1>3, Z3
<1>4. GroupOf(v) = v % GROUP \/ GroupOf(v) = (v % GROUP) + GROUP
  BY <1>2 DEF GroupOf
<1>5. GroupOf(v) % GROUP = v % GROUP
  <2> DEFINE r == v % GROUP
  <2>1. r \in Nat /\ r < GROUP
    BY <1>2
  <2>2. GroupOf(v) = r \/ GroupOf(v) = r + GROUP
    BY <1>4
  <2> HIDE DEF r
  <2>3. GroupOf(v) % GROUP = r
    BY <1>3, <2>1, <2>2
  <2> QED BY <2>3 DEF r
<1> QED BY <1>1, <1>2, <1>4, <1>5 DEF GroupOf, Byte

LEMMA ByteGroup ==
    ASSUME NEW b \in Byte
    PROVE  /\ b \in Nat /\ b % GROUP \in Nat
           /\ b < GROUP => b % GROUP = b
           /\ b >= GROUP => b % GROUP = b - GROUP
<1>1. GROUP \in Nat /\ GROUP >= 2
  BY GroupAssumption
<1>2. b \in Nat /\ b < 2 * GROUP
  BY <1>1 DEF Byte
<1> QED BY <1>1, <1>2, Z3

LEMMA Marks ==
    ASSUME NEW m \in Mark, NEW b \in Byte
    PROVE  Marked(m, b) \in Mark
<1>1. GROUP \in Nat /\ GROUP > 0 /\ b \in Nat
  BY GroupAssumption, ByteGroup
<1>2. m.finished \in Nat /\ m.sum \in Nat /\ m.factor \in Nat /\ m.factor > 0
  BY DEF Mark
<1>3. CASE b < GROUP
  BY <1>1, <1>2, <1>3 DEF Marked, Mark
<1>4. CASE b >= GROUP
  <2>1. m.factor * GROUP \in Nat /\ m.factor * GROUP > 0
    BY <1>1, <1>2, Positive
  <2>2. (b - GROUP) * m.factor \in Nat
    BY <1>1, <1>2, <1>4, Z3
  <2>3. Marked(m, b) = [finished |-> m.finished,
                        sum |-> m.sum + (b - GROUP) * m.factor,
                        factor |-> m.factor * GROUP]
    BY <1>4 DEF Marked
  <2> QED BY <1>2, <2>1, <2>2, <2>3 DEF Mark
<1> QED BY <1>1, <1>3, <1>4

-----------------------------------------------------------------------------
LEMMA InitInvariant == Init => IInv
<1> SUFFICES ASSUME Init PROVE IInv
  OBVIOUS
<1>1. 0 \in Unsigned /\ 1 < LIMIT * GROUP
  <2>1. GROUP \in Nat /\ GROUP >= 2 /\ LIMIT \in Nat /\ LIMIT >= 2 /\ WIDTH \in Nat /\ WIDTH >= 2
    BY GroupAssumption, WidthAssumption, LimitAssumption
  <2>2. LIMIT * GROUP >= LIMIT
    BY <2>1, Positive
  <2>3. LIMIT * GROUP \in Nat
    BY <2>1, Positive
  <2> QED BY <2>1, <2>2, <2>3 DEF Unsigned
<1>2. NewMark \in Mark
  BY DEF NewMark, Mark
<1>3. TypeOK
  <2>1. marks \in Seq(Mark)
    BY <1>2 DEF Init
  <2>2. numbers \in Seq(Signed) /\ buffer \in Seq(Byte) /\ results \in Seq(Signed)
    BY DEF Init
  <2>3. size \in Int /\ size >= -1 /\ offset \in Nat /\ scale \in Nat \ {0}
    BY DEF Init
  <2> QED BY <1>1, <2>1, <2>2, <2>3 DEF Init, TypeOK
<1>4. Handed
  BY <1>1 DEF Init, Handed
<1>5. Chained /\ GroupsFit
  BY DEF Init, Chained, GroupsFit
<1>6. WriterFits /\ ReaderFits
  BY DEF Init, WriterFits, ReaderFits, LastMark, NewMark
<1> QED BY <1>3, <1>4, <1>5, <1>6 DEF IInv

LEMMA StepWriteVarInt ==
    ASSUME IInv, NEW n \in Number, WriteVarInt(n)
    PROVE  IInv'
<1> USE DEF WriteVarInt
<1>1. n \in Signed /\ zigZagEncode(n) \in Nat
  <2>1. n \in Signed
    BY NumberAssumption
  <2>2. zigZagEncode(n) \in Unsigned
    BY <2>1, ZigZagEncodes
  <2> QED BY <2>1, <2>2, WidthAssumption DEF Unsigned
<1>2. ~ foreign /\ offset = 0 /\ results = <<>> /\ ~ overflowed
  BY DEF IInv, Handed
<1>3. /\ Len(numbers') = Len(numbers) + 1 /\ Len(numbers) \in Nat
      /\ numbers'[Len(numbers')] = n
      /\ \A k \in 1 .. Len(numbers) : numbers'[k] = numbers[k]
  BY <1>1 DEF IInv, TypeOK
<1>4. TypeOK'
  BY <1>1 DEF IInv, TypeOK, reader
<1>5. Handed' /\ Chained'
  BY <1>2 DEF IInv, Handed, Chained, reader
<1>6. GroupsFit'
  <2> SUFFICES ASSUME NEW i \in 1 .. Len(buffer)
               PROVE  /\ marks[i].finished < Len(numbers')
                      /\ marks[i].factor < LIMIT
                      /\ marks[i].sum + (buffer[i] % GROUP) * marks[i].factor < WIDTH
                      /\ buffer[i] < GROUP =>
                           marks[i].sum + buffer[i] * marks[i].factor
                              = zigZagEncode(numbers'[marks[i].finished + 1])
    BY DEF GroupsFit
  <2>1. GroupsFit /\ Chained /\ TypeOK
    BY <1>2 DEF IInv
  <2>2. marks[i] \in Mark
    BY <2>1 DEF TypeOK, Chained
  <2>3. marks[i].finished \in Nat
    BY <2>2 DEF Mark
  <2>4. marks[i].finished < Len(numbers)
    BY <2>1 DEF GroupsFit
  <2>5. numbers'[marks[i].finished + 1] = numbers[marks[i].finished + 1]
    BY <1>3, <2>3, <2>4
  <2>6. marks[i].finished < Len(numbers')
    BY <1>3, <2>3, <2>4
  <2> QED BY <2>1, <2>5, <2>6 DEF GroupsFit
<1>7. WriterFits'
  <2>1. LastMark' = LastMark
    BY DEF LastMark
  <2>2. LastMark = [finished |-> Len(numbers), sum |-> 0, factor |-> 1]
    BY <1>2 DEF IInv, WriterFits
  <2> QED BY <1>1, <1>3, <2>1, <2>2 DEF WriterFits
<1>8. ReaderFits'
  BY <1>2, <1>3 DEF IInv, ReaderFits, TypeOK, reader
<1> QED BY <1>2, <1>4, <1>5, <1>6, <1>7, <1>8 DEF IInv


LEMMA StepWriteByte ==
    ASSUME IInv, WriteByte
    PROVE  IInv'
<1> USE DEF WriteByte
<1> DEFINE m == LastMark
           b == GroupOf(value)
           q == value \div GROUP
           r == value % GROUP
           f == m.factor
           zz == zigZagEncode(numbers[Len(numbers)])
           L == Len(buffer)
<1>1. /\ ~ foreign /\ size = -1 /\ offset = 0 /\ results = <<>> /\ ~ overflowed
      /\ TypeOK /\ Handed /\ Chained /\ GroupsFit /\ WriterFits /\ ReaderFits
  BY DEF IInv, Handed, TypeOK
<1>2. /\ GROUP \in Nat /\ GROUP >= 2 /\ WIDTH \in Nat /\ WIDTH >= 2
      /\ LIMIT \in Nat /\ LIMIT >= WIDTH
  BY GroupAssumption, WidthAssumption, LimitAssumption
<1>3. L \in Nat /\ Len(marks) = L + 1 /\ m = marks[L + 1] /\ m \in Mark /\ value \in Nat
  BY <1>1 DEF TypeOK, Chained, LastMark
<1>4. /\ m.finished \in Nat /\ m.sum \in Nat /\ f \in Nat /\ f > 0
      /\ m = [finished |-> m.finished, sum |-> m.sum, factor |-> f]
  BY <1>3 DEF Mark
<1>5. /\ b \in Byte /\ b \in Nat /\ b % GROUP = r
      /\ q \in Nat /\ r \in Nat /\ value = q * GROUP + r
      /\ q = 0 => b = r /\ b < GROUP
      /\ q > 0 => b = r + GROUP
  BY <1>2, <1>3, Groups, ByteGroup
<1>6. Marked(m, b) \in Mark
  BY <1>3, <1>5, Marks
<1>7. /\ buffer' = Append(buffer, b) /\ Len(buffer') = L + 1 /\ buffer'[L + 1] = b
      /\ \A i \in 1 .. L : buffer'[i] = buffer[i]
  BY <1>1, <1>5 DEF TypeOK
<1>8. /\ marks' = Append(marks, Marked(m, b))
      /\ Len(marks') = L + 2 /\ marks'[L + 2] = Marked(m, b)
      /\ \A i \in 1 .. (L + 1) : marks'[i] = marks[i]
  BY <1>1, <1>3, <1>6 DEF TypeOK
<1>9. /\ m.finished + 1 = Len(numbers) /\ m.sum + value * f = zz
      /\ value > 0 \/ f = 1
  BY <1>1 DEF WriterFits
<1>10. zz \in Nat /\ zz < WIDTH
  <2>1. Len(numbers) \in 1 .. Len(numbers) /\ numbers[Len(numbers)] \in Signed
    BY <1>1, <1>4, <1>9 DEF TypeOK
  <2> QED BY <1>2, <2>1, ZigZagEncodes DEF Unsigned
<1> HIDE DEF m, b, q, r, f, zz, L
<1>11. /\ value * f \in Nat /\ r * f \in Nat /\ q * (f * GROUP) \in Nat
       /\ value * f = r * f + q * (f * GROUP)
  <2>1. /\ r * f \in Nat /\ q * (f * GROUP) \in Nat
        /\ (q * GROUP + r) * f = r * f + q * (f * GROUP)
    <3>1. q \in Nat /\ r \in Nat /\ f \in Nat /\ GROUP \in Nat
      BY <1>2, <1>4, <1>5
    <3> QED BY <3>1, Shifted
  <2>2. value * f = r * f + q * (f * GROUP)
    BY <1>5, <2>1
  <2>3. value * f \in Nat
    BY <1>3, <1>4, Z3
  <2> QED BY <2>1, <2>2, <2>3
<1>12. m.sum + r * f < WIDTH
  <2> DEFINE rf == r * f
             rest == q * (f * GROUP)
  <2>1. rf \in Nat /\ rest \in Nat /\ m.sum + (rf + rest) = zz
    BY <1>9, <1>11
  <2> HIDE DEF rf, rest
  <2>2. m.sum + rf < WIDTH
    BY <1>2, <1>4, <1>10, <2>1
  <2> QED BY <2>2 DEF rf
<1>13. f < LIMIT
  <2>1. CASE value > 0
    <3>1. f * value \in Nat /\ f * value >= f
      BY <1>3, <1>4, <2>1, Positive
    <3>2. f * value = value * f
      BY <1>3, <1>4, Z3
    <3> DEFINE product == f * value
    <3>3. product \in Nat /\ product >= f /\ m.sum + product = zz
      BY <1>9, <3>1, <3>2
    <3> HIDE DEF product
    <3> QED BY <1>2, <1>4, <1>10, <3>3
  <2>2. CASE f = 1
    BY <1>2, <2>2
  <2> QED BY <1>9, <2>1, <2>2
<1>14. TypeOK'
  <2>1. buffer' \in Seq(Byte) /\ marks' \in Seq(Mark)
    BY <1>1, <1>5, <1>6, <1>7, <1>8 DEF TypeOK
  <2>2. value' \in Nat /\ writing' \in BOOLEAN
    BY <1>5 DEF q
  <2> QED BY <1>1, <2>1, <2>2 DEF TypeOK, reader
<1>15. Handed'
  BY <1>1 DEF Handed, reader
<1>16. Chained'
  <2>1. Len(marks') = Len(buffer') + 1 /\ marks'[1] = NewMark
    BY <1>1, <1>3, <1>7, <1>8 DEF Chained
  <2>2. ASSUME NEW i \in 1 .. L
        PROVE  marks'[i + 1] = Marked(marks'[i], buffer'[i])
    <3>1. marks[i + 1] = Marked(marks[i], buffer[i])
      BY <1>1 DEF Chained, L
    <3>2. marks'[i] = marks[i] /\ marks'[i + 1] = marks[i + 1] /\ buffer'[i] = buffer[i]
      BY <1>3, <1>7, <1>8
    <3> QED BY <3>1, <3>2
  <2>3. marks'[(L + 1) + 1] = Marked(marks'[L + 1], buffer'[L + 1])
    BY <1>3, <1>7, <1>8
  <2> QED BY <1>3, <1>7, <2>1, <2>2, <2>3 DEF Chained
<1>17. GroupsFit'
  <2>1. ASSUME NEW i \in 1 .. L
        PROVE  /\ marks'[i].finished < Len(numbers)
               /\ marks'[i].factor < LIMIT
               /\ marks'[i].sum + (buffer'[i] % GROUP) * marks'[i].factor < WIDTH
               /\ buffer'[i] < GROUP =>
                    marks'[i].sum + buffer'[i] * marks'[i].factor
                       = zigZagEncode(numbers[marks'[i].finished + 1])
    <3>1. marks'[i] = marks[i] /\ buffer'[i] = buffer[i]
      BY <1>3, <1>7, <1>8
    <3> QED BY <1>1, <3>1 DEF GroupsFit, L
  <2>2. marks'[L + 1] = m /\ buffer'[L + 1] = b
    BY <1>3, <1>7, <1>8
  <2>3. m.finished < Len(numbers)
    BY <1>4, <1>9
  <2>4. b < GROUP => m.sum + b * f = zigZagEncode(numbers[m.finished + 1])
    <3>1. SUFFICES ASSUME b < GROUP
                   PROVE  m.sum + b * f = zigZagEncode(numbers[m.finished + 1])
      OBVIOUS
    <3>2. q = 0
      BY <1>2, <1>5, <3>1
    <3>3. b = value
      BY <1>2, <1>3, <1>5, <3>2
    <3> QED BY <1>9, <3>3 DEF zz
  <2>5. m.sum + (b % GROUP) * f < WIDTH
    BY <1>5, <1>12
  <2>6. ASSUME NEW i \in 1 .. (L + 1)
        PROVE  /\ marks'[i].finished < Len(numbers)
               /\ marks'[i].factor < LIMIT
               /\ marks'[i].sum + (buffer'[i] % GROUP) * marks'[i].factor < WIDTH
               /\ buffer'[i] < GROUP =>
                    marks'[i].sum + buffer'[i] * marks'[i].factor
                       = zigZagEncode(numbers[marks'[i].finished + 1])
    <3>1. CASE i \in 1 .. L
      BY <2>1, <3>1
    <3>2. CASE i = L + 1
      <4>1. marks'[i] = m /\ buffer'[i] = b /\ m.factor = f
        BY <2>2, <3>2 DEF f
      <4>2. marks'[i].finished < Len(numbers) /\ marks'[i].factor < LIMIT
        BY <1>13, <2>3, <4>1
      <4>3. marks'[i].sum + (buffer'[i] % GROUP) * marks'[i].factor < WIDTH
        BY <2>5, <4>1, Zenon
      <4>4. buffer'[i] < GROUP =>
              marks'[i].sum + buffer'[i] * marks'[i].factor
                 = zigZagEncode(numbers[marks'[i].finished + 1])
        BY <2>4, <4>1, Zenon
      <4> QED BY <4>2, <4>3, <4>4, Zenon
    <3>3. i \in 1 .. L \/ i = L + 1
      BY <1>3
    <3> QED BY <3>1, <3>2, <3>3, Zenon
  <2> QED BY <1>7, <2>6 DEF GroupsFit
<1>18. WriterFits'
  <2>1. LastMark' = Marked(m, b)
    BY <1>8 DEF LastMark
  <2>2. CASE q > 0
    <3>1. b >= GROUP /\ b - GROUP = r
      BY <1>2, <1>5, <2>2
    <3>2. LastMark' = [finished |-> m.finished, sum |-> m.sum + r * f, factor |-> f * GROUP]
      BY <2>1, <3>1 DEF Marked, f
    <3>3. (m.sum + r * f) + q * (f * GROUP) = zz
      BY <1>4, <1>9, <1>11
    <3>4. writing' /\ value' = q
      BY <2>2 DEF q
    <3> QED BY <1>9, <2>2, <3>2, <3>3, <3>4 DEF WriterFits, zz
  <2>3. CASE q = 0
    <3>1. LastMark' = [finished |-> m.finished + 1, sum |-> 0, factor |-> 1]
      BY <1>2, <1>5, <2>1, <2>3 DEF Marked
    <3>2. ~ writing'
      <4>1. ~ (value \div GROUP > 0)
        BY <2>3 DEF q
      <4> QED BY <4>1, Zenon
    <3> QED BY <1>9, <3>1, <3>2 DEF WriterFits
  <2> QED BY <1>5, <2>2, <2>3
<1>19. ReaderFits'
  <2>1. marks'[1] = marks[1] /\ 0 <= Len(buffer')
    BY <1>3, <1>7, <1>8
  <2> QED BY <1>1, <2>1 DEF ReaderFits, reader
<1> QED BY <1>1, <1>14, <1>15, <1>16, <1>17, <1>18, <1>19 DEF IInv


LEMMA StepArrive ==
    ASSUME IInv, NEW n \in 0 .. Len(buffer), Arrive(n)
    PROVE  IInv'
<1> USE DEF Arrive, writer, reader
<1>1. TypeOK /\ Handed /\ offset = 0 /\ ~ overflowed /\ ~ foreign /\ n \in Nat
  BY DEF IInv, Handed, TypeOK
<1>2. TypeOK'
  BY <1>1 DEF TypeOK
<1>3. Handed'
  BY <1>1 DEF Handed
<1>4. Chained' /\ GroupsFit' /\ WriterFits'
  BY <1>1 DEF IInv, Chained, GroupsFit, WriterFits, LastMark
<1>5. ReaderFits'
  BY <1>1 DEF IInv, ReaderFits
<1> QED BY <1>2, <1>3, <1>4, <1>5 DEF IInv

LEMMA StepArriveForeign ==
    ASSUME IInv, NEW b \in Foreign, ArriveForeign(b)
    PROVE  IInv'
<1> USE DEF ArriveForeign, reader
<1>1. b \in Seq(Byte) /\ Len(b) \in Nat
  BY ForeignAssumption
<1>2. TypeOK /\ Handed /\ offset = 0
  BY DEF IInv, Handed
<1>3. TypeOK'
  BY <1>1, <1>2 DEF TypeOK
<1>4. ~ writing
  <2>1. ~ foreign
    BY DEF IInv, Handed
  <2>2. SUFFICES ASSUME writing PROVE FALSE
    OBVIOUS
  <2>3. LastMark.finished + 1 = Len(numbers)
    BY <2>1, <2>2 DEF IInv, WriterFits
  <2>4. LastMark \in Mark
    BY <1>2, <2>1 DEF IInv, Chained, TypeOK, LastMark
  <2> QED BY <2>3, <2>4 DEF Mark
<1>5. Handed'
  BY <1>1, <1>2, <1>4 DEF Handed
<1> QED BY <1>3, <1>5 DEF IInv

-----------------------------------------------------------------------------
\* While it reads what was written, the reader is at a mark.
LEMMA AtMark ==
    ASSUME IInv, ~ foreign
    PROVE  /\ marks[offset + 1] \in Mark
           /\ marks[offset + 1] = [finished |-> Len(results), sum |-> got, factor |-> scale]
<1>1. TypeOK /\ Chained /\ ReaderFits
  BY DEF IInv
<1>2. offset + 1 \in 1 .. Len(marks)
  BY <1>1 DEF TypeOK, Chained, ReaderFits
<1>3. marks[offset + 1] \in Mark
  BY <1>1, <1>2 DEF TypeOK
<1> QED BY <1>1, <1>3 DEF Mark, ReaderFits

LEMMA StepOverflow ==
    ASSUME IInv, Overflow
    PROVE  IInv'
<1> USE DEF Overflow, Reading, writer
<1>1. TypeOK /\ Handed
  BY DEF IInv
<1>2. TypeOK' /\ Handed'
  BY <1>1 DEF TypeOK, Handed
<1>3. ASSUME ~ foreign
      PROVE  size < Len(buffer)
  <2>1. TypeOK /\ Handed /\ Chained /\ GroupsFit /\ WriterFits /\ ReaderFits
    BY <1>3 DEF IInv
  <2>2. Len(results) < Len(numbers)
    BY <1>3 DEF Wanted
  <2>3. marks[offset + 1] = [finished |-> Len(results), sum |-> got, factor |-> scale]
    BY <1>3, AtMark
  <2>4. ~ writing /\ size \in Nat /\ size <= Len(buffer) /\ offset \in Nat /\ offset <= size
    BY <2>1 DEF TypeOK, Handed
  <2>5. Len(buffer) \in Nat /\ Len(marks) = Len(buffer) + 1 /\ scale \in Nat /\ LIMIT \in Nat
    BY <2>1, LimitAssumption DEF TypeOK, Chained
  <2>6. SUFFICES ASSUME size = Len(buffer) PROVE FALSE
    BY <2>4, <2>5
  <2>7. CASE offset >= size
    <3>1. offset + 1 = Len(marks)
      BY <2>4, <2>5, <2>6, <2>7
    <3>2. LastMark = [finished |-> Len(numbers), sum |-> 0, factor |-> 1]
      BY <2>1, <2>4 DEF WriterFits
    <3>3. Len(results) = Len(numbers)
      BY <2>3, <3>1, <3>2 DEF LastMark
    <3>4. Len(results) \in Nat /\ Len(numbers) \in Nat
      BY <2>1 DEF TypeOK
    <3> QED BY <2>2, <3>3, <3>4
  <2>8. CASE offset < size /\ scale >= LIMIT
    <3>1. offset + 1 \in 1 .. Len(buffer)
      BY <2>4, <2>5, <2>8
    <3>2. marks[offset + 1].factor < LIMIT
      BY <2>1, <3>1 DEF GroupsFit
    <3> QED BY <2>3, <2>5, <2>8, <3>2
  <2> QED BY <2>4, <2>7, <2>8
<1>4. ASSUME ~ foreign
      PROVE  Chained' /\ GroupsFit' /\ WriterFits' /\ ReaderFits'
  <2>1. Chained' /\ GroupsFit' /\ WriterFits'
    BY <1>4 DEF IInv, Chained, GroupsFit, WriterFits, LastMark
  <2>2. ReaderFits'
    BY <1>3, <1>4 DEF IInv, ReaderFits
  <2> QED BY <2>1, <2>2
<1> QED BY <1>2, <1>4 DEF IInv

\* What a byte does to the type-correct part of the state, whoever wrote it.
LEMMA TakeByte ==
    ASSUME IInv, CanReadByte
    PROVE  /\ NextByte \in Byte /\ NextByte \in Nat
           /\ NextByte % GROUP \in Nat
           /\ Added(NextByte) \in Unsigned
           /\ offset \in Nat /\ offset + 1 \in 1 .. Len(buffer) /\ offset + 1 <= size
           /\ scale \in Nat /\ scale * GROUP \in Nat \ {0} /\ scale * GROUP < LIMIT * GROUP
           /\ GROUP \in Nat /\ LIMIT \in Nat /\ 1 < LIMIT * GROUP
<1> USE DEF CanReadByte, Reading
<1>1. TypeOK /\ Handed
  BY DEF IInv
<1>2. /\ GROUP \in Nat /\ GROUP >= 2 /\ LIMIT \in Nat /\ LIMIT >= 2
      /\ WIDTH \in Nat /\ WIDTH >= 2
  BY GroupAssumption, WidthAssumption, LimitAssumption
<1>3. /\ offset \in Nat /\ size \in Nat /\ offset + 1 \in 1 .. Len(buffer) /\ offset + 1 <= size
      /\ buffer[offset + 1] \in Byte
  BY <1>1 DEF TypeOK, Handed
<1>4. NextByte \in Byte /\ NextByte \in Nat /\ NextByte % GROUP \in Nat
  BY <1>3, ByteGroup DEF NextByte
<1>5. got \in Nat /\ scale \in Nat /\ scale > 0
  BY <1>1, <1>2 DEF TypeOK, Unsigned
<1>6. Added(NextByte) \in Unsigned
  <2>1. got + (NextByte % GROUP) * scale \in Nat
    BY <1>4, <1>5, Z3
  <2>2. \A x \in Nat : x % WIDTH \in Nat /\ x % WIDTH < WIDTH
    BY <1>2, Division
  <2> QED BY <1>2, <2>1, <2>2 DEF Added, Unsigned
<1>7. scale * GROUP \in Nat /\ scale * GROUP > 0
  BY <1>2, <1>5, Positive
<1>8. scale * GROUP < LIMIT * GROUP
  <2>1. scale < LIMIT
    OBVIOUS
  <2> QED BY <1>2, <1>5, <2>1, Z3
<1>9. LIMIT * GROUP \in Nat /\ LIMIT * GROUP >= LIMIT
  BY <1>2, Positive
<1> QED BY <1>2, <1>3, <1>4, <1>5, <1>6, <1>7, <1>8, <1>9


\* The group of a byte that was written falls on bits that are still zero.
LEMMA NothingShiftedOut ==
    ASSUME IInv, CanReadByte, ~ foreign
    PROVE  /\ marks[offset + 1] = [finished |-> Len(results), sum |-> got, factor |-> scale]
           /\ marks[(offset + 1) + 1] = Marked(marks[offset + 1], NextByte)
           /\ Added(NextByte) = got + (NextByte % GROUP) * scale
           /\ NextByte < GROUP =>
                got + NextByte * scale = zigZagEncode(numbers[Len(results) + 1])
<1>1. TypeOK /\ Chained /\ GroupsFit /\ offset + 1 \in 1 .. Len(buffer)
  BY TakeByte DEF IInv
<1>2. marks[offset + 1] = [finished |-> Len(results), sum |-> got, factor |-> scale]
  BY AtMark
<1>3. marks[(offset + 1) + 1] = Marked(marks[offset + 1], NextByte)
  BY <1>1 DEF Chained, NextByte
<1> DEFINE sum == got + (NextByte % GROUP) * scale
<1>4. sum < WIDTH
  BY <1>1, <1>2 DEF GroupsFit, NextByte
<1>5. sum \in Nat
  <2>1. got \in Nat /\ scale \in Nat /\ NextByte % GROUP \in Nat
    BY <1>1, WidthAssumption, TakeByte DEF TypeOK, Unsigned
  <2> QED BY <2>1, Z3
<1>6. \A x \in Nat : x < WIDTH => x % WIDTH = x
  BY WidthAssumption, Z3
<1>7. Added(NextByte) = sum
  <2> HIDE DEF sum
  <2>1. sum % WIDTH = sum
    BY <1>4, <1>5, <1>6
  <2> QED BY <2>1 DEF sum, Added
<1>8. ASSUME NextByte < GROUP
      PROVE  got + NextByte * scale = zigZagEncode(numbers[Len(results) + 1])
  BY <1>1, <1>2, <1>8 DEF GroupsFit, NextByte
<1> QED BY <1>2, <1>3, <1>7, <1>8

LEMMA StepReadGroup ==
    ASSUME IInv, ReadGroup
    PROVE  IInv'
<1>1. CanReadByte
  BY DEF ReadGroup
<1> USE DEF ReadGroup, CanReadByte, Reading, writer
<1>2. TypeOK /\ Handed
  BY DEF IInv
<1>3. TypeOK' /\ Handed'
  BY <1>1, <1>2, TakeByte DEF TypeOK, Handed
<1>4. ASSUME ~ foreign
      PROVE  Chained' /\ GroupsFit' /\ WriterFits' /\ ReaderFits'
  <2>1. Chained' /\ GroupsFit' /\ WriterFits'
    BY <1>4 DEF IInv, Chained, GroupsFit, WriterFits, LastMark
  <2>2. /\ marks[offset + 1] = [finished |-> Len(results), sum |-> got, factor |-> scale]
        /\ marks[(offset + 1) + 1] = Marked(marks[offset + 1], NextByte)
        /\ got' = got + (NextByte % GROUP) * scale
    BY <1>1, <1>4, NothingShiftedOut
  <2>3. NextByte % GROUP = NextByte - GROUP
    BY <1>1, TakeByte, ByteGroup
  <2>4. marks[(offset + 1) + 1]
          = [finished |-> Len(results), sum |-> got', factor |-> scale']
    BY <2>2, <2>3 DEF Marked
  <2>5. offset' <= Len(buffer) /\ ReaderFits
    BY <1>1, <1>4, TakeByte DEF IInv
  <2> QED BY <2>1, <2>4, <2>5 DEF ReaderFits
<1> QED BY <1>3, <1>4 DEF IInv

LEMMA StepReadLastGroup ==
    ASSUME IInv, ReadLastGroup
    PROVE  IInv'
<1>1. CanReadByte
  BY DEF ReadLastGroup
<1> USE DEF ReadLastGroup, CanReadByte, Reading, writer
<1> DEFINE read == zigZagDecode(Added(NextByte))
<1>2. TypeOK /\ Handed
  BY DEF IInv
<1>3. read \in Signed
  BY <1>1, TakeByte, ZigZagDecodes
<1>4. /\ results' \in Seq(Signed) /\ Len(results') = Len(results) + 1
      /\ results'[Len(results) + 1] = read /\ Len(results) \in Nat
      /\ \A k \in 1 .. Len(results) : results'[k] = results[k]
  <2> HIDE DEF read
  <2>1. results' = Append(results, read)
    BY DEF read
  <2> QED BY <1>2, <1>3, <2>1 DEF TypeOK
<1> HIDE DEF read
<1>5. 0 \in Unsigned
  BY WidthAssumption DEF Unsigned
<1>6. TypeOK' /\ Handed'
  BY <1>1, <1>2, <1>4, <1>5, TakeByte DEF TypeOK, Handed
<1>7. ASSUME ~ foreign
      PROVE  Chained' /\ GroupsFit' /\ WriterFits' /\ ReaderFits'
  <2>1. Chained' /\ GroupsFit' /\ WriterFits'
    BY <1>7 DEF IInv, Chained, GroupsFit, WriterFits, LastMark
  <2>2. /\ marks[offset + 1] = [finished |-> Len(results), sum |-> got, factor |-> scale]
        /\ marks[(offset + 1) + 1] = Marked(marks[offset + 1], NextByte)
        /\ Added(NextByte) = got + (NextByte % GROUP) * scale
        /\ got + NextByte * scale = zigZagEncode(numbers[Len(results) + 1])
    BY <1>1, <1>7, NothingShiftedOut
  <2>3. NextByte % GROUP = NextByte
    BY <1>1, TakeByte, ByteGroup
  <2>4. Len(results) + 1 \in 1 .. Len(numbers)
    BY <1>4, <1>7, <1>2 DEF Wanted, TypeOK
  <2>5. read = numbers[Len(results) + 1]
    <3>1. numbers[Len(results) + 1] \in Signed
      BY <1>2, <2>4 DEF TypeOK
    <3> QED BY <2>2, <2>3, <3>1, ZigZagRoundTrip DEF read
  <2>6. marks[(offset + 1) + 1] = [finished |-> Len(results) + 1, sum |-> 0, factor |-> 1]
    BY <1>1, <2>2, TakeByte DEF Marked
  <2>7. offset' <= Len(buffer) /\ ReaderFits
    BY <1>1, <1>7, TakeByte DEF IInv
  <2>8. \A k \in 1 .. Len(results') : k <= Len(numbers) /\ results'[k] = numbers[k]
    <3> TAKE k \in 1 .. Len(results')
    <3>1. CASE k \in 1 .. Len(results)
      BY <1>4, <2>7, <3>1 DEF ReaderFits
    <3>2. CASE k = Len(results) + 1
      BY <1>4, <2>4, <2>5, <3>2
    <3> QED BY <1>4, <3>1, <3>2
  <2> QED BY <1>4, <2>1, <2>6, <2>7, <2>8 DEF ReaderFits
<1> QED BY <1>6, <1>7 DEF IInv

LEMMA NextInvariant == IInv /\ [Next]_vars => IInv'
<1> SUFFICES ASSUME IInv, [Next]_vars PROVE IInv'
  OBVIOUS
<1>1. ASSUME NEW n \in Number, WriteVarInt(n) PROVE IInv'
  BY <1>1, StepWriteVarInt
<1>2. CASE WriteByte
  BY <1>2, StepWriteByte
<1>3. ASSUME NEW n \in 0 .. Len(buffer), Arrive(n) PROVE IInv'
  BY <1>3, StepArrive
<1>4. ASSUME NEW b \in Foreign, ArriveForeign(b) PROVE IInv'
  BY <1>4, StepArriveForeign
<1>5. CASE Overflow
  BY <1>5, StepOverflow
<1>6. CASE ReadGroup
  BY <1>6, StepReadGroup
<1>7. CASE ReadLastGroup
  BY <1>7, StepReadLastGroup
<1>8. CASE UNCHANGED vars
  <2>1. UNCHANGED <<numbers, value, writing, buffer, marks, foreign, size,
                    offset, got, scale, results, overflowed>>
    BY <1>8 DEF vars, writer, reader
  <2>2. TypeOK' = TypeOK /\ Handed' = Handed
    BY <2>1 DEF TypeOK, Handed
  <2>3. Chained' = Chained /\ GroupsFit' = GroupsFit
    BY <2>1 DEF Chained, GroupsFit
  <2>4. WriterFits' = WriterFits /\ ReaderFits' = ReaderFits
    BY <2>1 DEF WriterFits, ReaderFits, LastMark
  <2> QED BY <2>1, <2>2, <2>3, <2>4 DEF IInv
<1> QED BY <1>1, <1>2, <1>3, <1>4, <1>5, <1>6, <1>7, <1>8 DEF Next

LEMMA Invariant == Spec => []IInv
BY InitInvariant, NextInvariant, PTL DEF Spec

-----------------------------------------------------------------------------
(* Whatever numbers are written and however much of the buffer comes,      *)
(* readVarInt returns the numbers that were written, in their order.       *)
THEOREM NumbersReadBack == Spec => []ReadBack
<1>1. IInv => ReadBack
  <2> SUFFICES ASSUME IInv, ~ foreign
               PROVE  /\ Len(results) <= Len(numbers)
                      /\ \A k \in 1 .. Len(results) : results[k] = numbers[k]
    BY DEF ReadBack
  <2>1. TypeOK /\ ReaderFits
    BY DEF IInv
  <2>2. Len(results) \in Nat /\ Len(numbers) \in Nat
    BY <2>1 DEF TypeOK
  <2>3. Len(results) <= Len(numbers)
    <3>1. CASE Len(results) = 0
      BY <2>2, <3>1
    <3>2. CASE Len(results) > 0
      BY <2>1, <2>2, <3>2 DEF ReaderFits
    <3> QED BY <2>2, <3>1, <3>2
  <2> QED BY <2>1, <2>3 DEF ReaderFits
<1> QED BY <1>1, Invariant, PTL

(* The stream overflows on what was written only when bytes are missing:   *)
(* no number takes more groups than readUnsignedVarInt accepts.            *)
THEOREM OverflowOnlyWhenCut == Spec => []OverflowMeansCut
<1>1. IInv => OverflowMeansCut
  BY DEF IInv, ReaderFits, OverflowMeansCut
<1> QED BY <1>1, Invariant, PTL

(* Behind the last number nothing is left and nothing else was taken.      *)
THEOREM ReaderStaysAligned == Spec => []StaysAligned
<1>1. IInv => StaysAligned
  <2> SUFFICES ASSUME IInv, ~ foreign, size >= 0, Len(results) = Len(numbers)
               PROVE  offset = Len(buffer)
    BY DEF StaysAligned
  <2>1. TypeOK /\ Chained /\ GroupsFit /\ ReaderFits
    BY DEF IInv
  <2>2. marks[offset + 1].finished = Len(numbers) /\ Len(numbers) \in Nat
    BY <2>1 DEF ReaderFits, TypeOK
  <2>3. offset \in Nat /\ Len(buffer) \in Nat /\ offset <= Len(buffer)
    BY <2>1 DEF TypeOK, ReaderFits
  <2>4. CASE offset < Len(buffer)
    BY <2>1, <2>2, <2>3, <2>4 DEF GroupsFit
  <2> QED BY <2>3, <2>4
<1> QED BY <1>1, Invariant, PTL

(* Whatever bytes come, the reader stays in them and in its types.         *)
THEOREM ReaderInBounds == Spec => []InBounds
<1>1. IInv => InBounds
  BY DEF IInv, TypeOK, Handed, InBounds
<1> QED BY <1>1, Invariant, PTL
=============================================================================
