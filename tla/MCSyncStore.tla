----------------------------- MODULE MCSyncStore ----------------------------
(***************************************************************************)
(* Instances of SyncStore for TLC.                                         *)
(***************************************************************************)
EXTENDS SyncStoreInvariants, TLC

CONSTANTS t1, t2, t3, ann, bob, carl, pa, pb, f, g

MCFieldsOf == [p \in Payloads |-> IF p = pa THEN {f} ELSE {f, g}]

(* ann has an account, bob signs up. *)
OneUser == [e \in Emails |-> IF e = ann THEN 1 ELSE 0]

(* The threads of the pool are interchangeable. *)
Symmetry == Permutations(Threads)

=============================================================================
