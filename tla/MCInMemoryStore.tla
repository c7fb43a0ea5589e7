--------------------------- MODULE MCInMemoryStore --------------------------
(***************************************************************************)
(* Instances of InMemoryStore for TLC.                                     *)
(***************************************************************************)
EXTENDS InMemoryStore, TLC

CONSTANTS t1, t2, ann, bob, pa, pb, f, g, secret, guess

MCFieldsOf == [p \in Payloads |-> IF p = pa THEN {f} ELSE {f, g}]

NoUsers == [e \in Emails |-> 0]

Symmetry == Permutations(Threads)

=============================================================================
