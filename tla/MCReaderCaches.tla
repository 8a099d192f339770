---------------------------- MODULE MCReaderCaches ----------------------------
(* Three blocks in three files; the last is heavier than the whole cache.     *)
EXTENDS ReaderCaches, TLC

MCBlocks == {"b1", "b2", "b3"}
MCPathOf == [b \in MCBlocks |-> CASE b = "b1" -> "f1" [] b = "b2" -> "f2"
                                  [] b = "b3" -> "f3"]
MCSymmetry == Permutations(Threads)
MCWeight == [b \in MCBlocks |-> CASE b = "b1" -> 1 [] b = "b2" -> 2
                                  [] b = "b3" -> 4]
==============================================================================
