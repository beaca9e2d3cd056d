--------------------------- MODULE MCVarIntStream ---------------------------
(* A small instance of VarIntStream: three groups of two bits carry five,  *)
(* as five groups of seven carry thirty-two.                               *)
EXTENDS VarIntStream, SequencesExt

AllNumbers == -16 .. 15

\* What the last group of a number, and a fourth one, can get wrong.
ForeignBuffers == BoundedSeq({0, 3, 4, 7}, 5)
=============================================================================
