---------------------------- MODULE VarIntStream ----------------------------
(***************************************************************************)
(* varint.hpp: a stream of signed numbers, zigzag encoded and written in   *)
(* groups of bits, lowest first, every byte but the last of a number with  *)
(* the continuation bit; and what a reader makes of the buffer, of as much *)
(* of it as has come, or of one somebody else has written.                 *)
(*                                                                         *)
(* In the code GROUP is 128; WIDTH is 2^32 with LIMIT 2^35, or 2^64 with   *)
(* LIMIT 2^70: the reader gives up at a shift of 35 bits, or 70.  A shift  *)
(* by n is kept here as the factor 2^n.                                    *)
(***************************************************************************)
EXTENDS Integers, Sequences

CONSTANTS
    GROUP,      \* values of a group of bits
    WIDTH,      \* values of the unsigned type
    LIMIT,      \* the factor at which the reader gives up
    Number,     \* the signed numbers that are written
    Foreign,    \* buffers of somebody else
    MaxNumbers  \* bound on the numbers written, and read

Signed == -(WIDTH \div 2) .. (WIDTH \div 2 - 1)
Unsigned == 0 .. (WIDTH - 1)
Byte == 0 .. (2 * GROUP - 1)

ASSUME GroupAssumption == GROUP \in Nat /\ GROUP >= 2
ASSUME WidthAssumption == WIDTH \in Nat /\ WIDTH >= 2 /\ WIDTH % 2 = 0
ASSUME LimitAssumption == LIMIT \in Nat /\ LIMIT >= WIDTH
ASSUME NumberAssumption == Number \subseteq Signed
ASSUME ForeignAssumption == Foreign \subseteq Seq(Byte)
ASSUME MaxNumbersAssumption == MaxNumbers \in Nat

\* (n >> 31) ^ (n << 1): the sign is what is left of n, and inverts or not.
zigZagEncode(n) ==
    LET doubled == (2 * n) % WIDTH
    IN  IF n < 0 THEN WIDTH - 1 - doubled ELSE doubled

\* (n >> 1) ^ -(n & 1), taken for a signed number.
zigZagDecode(u) == IF u % 2 = 1 THEN -(u \div 2) - 1 ELSE u \div 2

VARIABLES
    numbers,    \* what writeVarInt was called with
    value,      \* what is left to write of the last of them
    writing,    \* is its loop running?
    buffer,     \* the bytes written
    size,       \* how many of them the reader has got, -1 before
    offset,     \* how many of those it has read
    got,        \* what it has read of a number,
    scale,      \* the factor of the next group
    results,    \* the numbers readVarInt has returned
    overflowed, \* the stream has overflowed
    marks,      \* before each byte: numbers finished, sum and factor of the next
    foreign     \* is the buffer somebody else's?

writer == <<numbers, value, writing, buffer, marks, foreign>>
reader == <<offset, got, scale, results, overflowed>>
vars == <<writer, reader, size>>

NewMark == [finished |-> 0, sum |-> 0, factor |-> 1]
LastMark == marks[Len(marks)]

Init ==
    /\ numbers = <<>> /\ value = 0 /\ writing = FALSE
    /\ buffer = <<>> /\ marks = <<NewMark>> /\ foreign = FALSE
    /\ size = -1 /\ offset = 0 /\ got = 0 /\ scale = 1
    /\ results = <<>> /\ overflowed = FALSE

-----------------------------------------------------------------------------
WriteVarInt(n) ==
    /\ ~ writing /\ size = -1
    /\ Len(numbers) < MaxNumbers
    /\ numbers' = Append(numbers, n)
    /\ value' = zigZagEncode(n)
    /\ writing' = TRUE
    /\ UNCHANGED <<buffer, marks, foreign, reader, size>>

\* Mutant: the continuation bit is decided before the shift.
GroupOfUnshifted(v) == (v % GROUP) + (IF v > 0 THEN GROUP ELSE 0)

\* The byte the loop writes of v: its lowest group, and whether more follows.
GroupOf(v) == (v % GROUP) + (IF v \div GROUP > 0 THEN GROUP ELSE 0)

Marked(m, byte) ==
    IF byte >= GROUP
      THEN [finished |-> m.finished,
            sum |-> m.sum + (byte - GROUP) * m.factor,
            factor |-> m.factor * GROUP]
      ELSE [finished |-> m.finished + 1, sum |-> 0, factor |-> 1]

\* Mutant: the loop goes on as long as there was something to write.
WriteByteOnceMore ==
    /\ writing
    /\ buffer' = Append(buffer, GroupOf(value))
    /\ marks' = Append(marks, Marked(LastMark, GroupOf(value)))
    /\ value' = value \div GROUP
    /\ writing' = (value > 0)
    /\ UNCHANGED <<numbers, foreign, reader, size>>

WriteByte ==
    /\ writing
    /\ buffer' = Append(buffer, GroupOf(value))
    /\ marks' = Append(marks, Marked(LastMark, GroupOf(value)))
    /\ value' = value \div GROUP
    /\ writing' = (value \div GROUP > 0)
    /\ UNCHANGED <<numbers, foreign, reader, size>>

\* The reader gets the first n bytes.
Arrive(n) ==
    /\ ~ writing /\ size = -1
    /\ size' = n
    /\ UNCHANGED <<writer, reader>>

ArriveForeign(b) ==
    /\ numbers = <<>> /\ size = -1
    /\ buffer' = b
    /\ size' = Len(b)
    /\ foreign' = TRUE
    /\ UNCHANGED <<numbers, value, writing, marks, reader>>

-----------------------------------------------------------------------------
\* The user reads as many numbers as were written.
Wanted == IF foreign THEN MaxNumbers ELSE Len(numbers)

Reading ==
    /\ size >= 0 /\ ~ overflowed
    /\ Len(results) < Wanted
    /\ UNCHANGED <<writer, size>>

\* Both exceptions end in overflowed_; what has been read of the number is lost.
Overflow ==
    /\ Reading
    /\ offset >= size \/ scale >= LIMIT
    /\ overflowed' = TRUE
    /\ UNCHANGED <<offset, got, scale, results>>

NextByte == buffer[offset + 1]

\* Mutant: no bound on the shift.
CanReadByteEndless == Reading /\ offset < size /\ offset' = offset + 1

CanReadByte == Reading /\ offset < size /\ scale < LIMIT /\ offset' = offset + 1

\* Mutant: the continuation bit is not masked out.
AddedUnmasked(byte) == (got + byte * scale) % WIDTH

\* The bits that are shifted out at the top are lost.
Added(byte) == (got + (byte % GROUP) * scale) % WIDTH

ReadGroup ==
    /\ CanReadByte
    /\ NextByte >= GROUP
    /\ got' = Added(NextByte)
    /\ scale' = scale * GROUP
    /\ UNCHANGED <<results, overflowed>>

ReadLastGroup ==
    /\ CanReadByte
    /\ NextByte < GROUP
    /\ results' = Append(results, zigZagDecode(Added(NextByte)))
    /\ got' = 0
    /\ scale' = 1
    /\ UNCHANGED overflowed

Next ==
    \/ \E n \in Number : WriteVarInt(n)
    \/ WriteByte
    \/ \E n \in 0 .. Len(buffer) : Arrive(n)
    \/ \E b \in Foreign : ArriveForeign(b)
    \/ Overflow
    \/ ReadGroup
    \/ ReadLastGroup

Spec == Init /\ [][Next]_vars

-----------------------------------------------------------------------------
(* What readVarInt returns is what was written, number for number, however *)
(* much of the buffer has come: a number that is cut is never returned as  *)
(* another one.                                                            *)
ReadBack ==
    ~ foreign =>
        /\ Len(results) <= Len(numbers)
        /\ \A k \in 1 .. Len(results) : results[k] = numbers[k]

(* The stream overflows only when bytes are missing: no number needs more  *)
(* groups than the reader accepts.                                         *)
OverflowMeansCut == ~ foreign /\ overflowed => size < Len(buffer)

(* When all the numbers have been read, the reader stands behind the last  *)
(* byte written for them: none is left, none of the next field is taken.   *)
StaysAligned ==
    ~ foreign /\ size >= 0 /\ Len(results) = Len(numbers) => offset = Len(buffer)

(* Whatever the buffer says, the reader stays in it, takes no more groups  *)
(* than the shift allows, and returns numbers of the type.                 *)
InBounds ==
    size >= 0 =>
        /\ offset \in 0 .. size
        /\ scale < LIMIT * GROUP
        /\ got \in Unsigned
        /\ \A k \in 1 .. Len(results) : results[k] \in Signed
=============================================================================
