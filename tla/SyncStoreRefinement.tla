------------------------- MODULE SyncStoreRefinement ------------------------
(***************************************************************************)
(* SyncStore implements AtomicStore.  The abstract tables are the committed*)
(* database; a request is pending until its thread is idle again.          *)
(***************************************************************************)
EXTENDS SyncStore

Atomic == INSTANCE AtomicStore WITH
    users   <- conn.disk.users,
    options <- conn.disk.options,
    issued  <- issued,
    pending <- req,
    answer  <- [t \in Threads |->
                   IF pc[t] = "idle" THEN [outcome |-> status[t], row |-> seen[t]]
                                     ELSE [outcome |-> "pending", row |-> EmptyRow]]

(* Every request of the detailed model takes effect at once or not at all, *)
(* and what it answers is what the indivisible operation would.            *)
ImplementsAtomicStore == Atomic!Spec

=============================================================================
