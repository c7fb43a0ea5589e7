------------------------------ MODULE MCSessions -----------------------------
(* The clients are alike, and no property tells one from another. *)
EXTENDS Sessions, TLC

Symmetry == Permutations(Clients)

=============================================================================
