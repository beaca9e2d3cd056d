--------------------------- MODULE BatchPipeline ---------------------------
(***************************************************************************)
(* BatchPacketProcessor (batch_packet.hpp): a batch of packets becomes a   *)
(* payload, compressed behind a header byte once compression is            *)
(* initialized and then encrypted, and back.  What a payload says is the   *)
(* packets in it; of its form the model keeps what decode looks at.        *)
(***************************************************************************)
EXTENDS Integers, Sequences

CONSTANT Large    \* the packets whose batch reaches the threshold of zlib

\* The members of a processor, as constructed.  A counter counts the payloads
\* of one direction while encryption is enabled.
NewProcessor ==
    [initialized |-> FALSE, algorithm |-> "None",
     enabled |-> FALSE, send_counter |-> 0, recv_counter |-> 0]

setCompression(p, algo) == [p EXCEPT !.algorithm = algo, !.initialized = TRUE]
setCompressionInitialized(p) == [p EXCEPT !.initialized = TRUE]

\* AESEncryption::enable starts both counters again.
enable(p) == [p EXCEPT !.enabled = TRUE, !.send_counter = 0, !.recv_counter = 0]

(***************************************************************************)
(* Compression: zlib stores what is below its threshold as it is, Snappy   *)
(* is a stub that copies.                                                  *)
(***************************************************************************)
compress(algo, packets) ==
    IF algo = "ZLib" /\ \E i \in DOMAIN packets : packets[i] \in Large
    THEN "deflated" ELSE "stored"

compressionHeaderByte(algo) ==
    CASE algo = "ZLib" -> "0x00" [] algo = "Snappy" -> "0x01" [] OTHER -> "0xFF"

\* encodeSingle and encodeBatch: the payload, and what is left of the processor.
encode(p, packets) ==
    [packets |-> packets,
     header  |-> IF p.initialized THEN compressionHeaderByte(p.algorithm) ELSE "none",
     body    |-> IF p.initialized THEN compress(p.algorithm, packets) ELSE "stored",
     cipher  |-> IF p.enabled THEN p.send_counter ELSE -1]

encoded(p) == IF p.enabled THEN [p EXCEPT !.send_counter = @ + 1] ELSE p

(***************************************************************************)
(* decode: "fine" with the packets, "throws", or "garbled" when bytes are  *)
(* taken for what they are not: ciphertext for a batch, a batch without    *)
(* header byte for one with it, or the other way round.                    *)
(***************************************************************************)
decrypt(p, d) ==
    CASE p.enabled /\ d.cipher # p.recv_counter -> "throws"
      [] ~p.enabled /\ d.cipher # -1            -> "garbled"
      [] OTHER                                  -> "fine"

decompress(algo, d) ==
    CASE algo = "ZLib" -> IF d.body = "deflated" THEN "fine" ELSE "throws"
      [] OTHER         -> IF d.body = "stored" THEN "fine" ELSE "garbled"

decompressBatch(p, d) ==
    IF ~p.initialized THEN IF d.header = "none" THEN "fine" ELSE "garbled"
    ELSE CASE d.header = "0xFF" -> "fine"
           [] d.header = "none" -> IF p.algorithm = "ZLib" THEN "throws" ELSE "garbled"
           [] OTHER -> decompress(p.algorithm, d)

decode(p, d) == IF decrypt(p, d) # "fine" THEN decrypt(p, d) ELSE decompressBatch(p, d)

\* Mutant: the receiver's counter stays behind.
DecodedUncounted(p) == p

\* The counter has advanced also when the checksum is then found wrong.
decoded(p) == IF p.enabled THEN [p EXCEPT !.recv_counter = @ + 1] ELSE p
=============================================================================
