--------------------------- MODULE MCTransaction ---------------------------
(* Clients, request slots, keys and identifiers are interchangeable. *)
EXTENDS Transaction, TLC

Symmetry ==
  Permutations(Client) \cup Permutations(Req) \cup Permutations(ID)
    \cup Permutations(Key)
=============================================================================
