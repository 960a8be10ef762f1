------------------------------ MODULE MCKvArena ------------------------------
(* The arena on small instances.  Row contents are interchangeable; sequence *)
(* ids are not, because compaction breaks ties by their order.              *)
EXTENDS KvArena

ValSymmetry == Permutations(Vals)

(* Three sequences on a device that copies prefixes, so that one compaction  *)
(* moves two runs; two, fed in one batch, on a device that shares them.      *)
CopyAndShare == {[seqs |-> {1, 2, 3}, groups |-> 1, share |-> FALSE, pin |-> FALSE],
                 [seqs |-> {1, 2}, groups |-> 2, share |-> TRUE, pin |-> TRUE]}
=============================================================================
