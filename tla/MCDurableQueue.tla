--------------------------- MODULE MCDurableQueue ---------------------------
(* Two worker replicas on one queue.db, for model checking with TLC. *)
EXTENDS DurableQueue, TLC

Symmetry == Permutations(Proc) \cup Permutations(Partition)
=============================================================================
