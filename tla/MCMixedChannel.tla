--------------------------- MODULE MCMixedChannel ---------------------------
(* A small instance of MixedChannel. *)
EXTENDS MixedChannel

\* One of each way through processReceivedFrame, recorded and not.
Kinds == {"Unreliable", "UnreliableSequenced", "Reliable", "ReliableOrdered",
          "ReliableSequenced"}
=============================================================================
