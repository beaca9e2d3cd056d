---------------------------- MODULE MCLoginFlow ----------------------------
(* Instances of LoginFlow for TLC. *)
EXTENDS LoginFlow, TLC

ClientSymmetry == Permutations(Client)

\* The packets whose batch is not below the threshold of zlib.
LargePackets == {"Login", "StartGame", "LevelChunk"}
=============================================================================
