--------------------------- MODULE MCPlayerDirectory ---------------------------
(* Games and accounts are interchangeable. *)
EXTENDS PlayerDirectory, TLC

Symmetry == Permutations(Games) \cup Permutations(Accounts)
=============================================================================
