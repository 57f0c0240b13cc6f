------------------------- MODULE MCTransactionPool -------------------------
(* Objects and requests are interchangeable. *)
EXTENDS TransactionPool, TLC
Symmetry == Permutations(Obj) \cup Permutations(Req)
=============================================================================
