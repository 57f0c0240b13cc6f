-------------------------- MODULE MCMemoryStorage --------------------------
(* Callers, identifiers and data are interchangeable. *)
EXTENDS MemoryStorage, TLC
Symmetry == Permutations(Caller) \cup Permutations(ID) \cup Permutations(Data)
=============================================================================
