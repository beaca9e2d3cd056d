------------------------- MODULE MCReliableChannel --------------------------
(* Small instances of ReliableChannel.  The messages have sizes, and are   *)
(* cut as splitMessage cuts them for an MTU of 1400 bytes: whole fits one  *)
(* frame, split and other make two.                                        *)
EXTENDS ReliableChannel, Framing

CONSTANTS whole, split, other

Pieces(size) == SplitCount(size, 1400)

MCMessage == {whole, split}
MCFragments == [m \in MCMessage |-> IF m = whole THEN Pieces(1000) ELSE Pieces(2000)]

MCSplitMessage == {split, other}
MCSplitFragments == [m \in MCSplitMessage |-> Pieces(2000)]
=============================================================================
