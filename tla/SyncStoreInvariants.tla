------------------------- MODULE SyncStoreInvariants ------------------------
(***************************************************************************)
(* The inductive invariants that the proofs about SyncStore rest on, kept  *)
(* apart from the proofs so that TLC checks them first.                    *)
(***************************************************************************)
EXTENDS SyncStoreRefinement

(* The statements that the handler of each kind of request can reach. *)
StepsOf(kind) ==
    CASE kind = "google"   -> {"handle", "lookup", "begin", "savepoint", "insert",
                               "rowid", "release", "commit", "jwt"} \cup Unwinding
      [] kind = "register" -> {"begin", "hash", "savepoint", "insert", "rowid",
                               "release", "commit"} \cup Unwinding
      [] kind = "post"     -> {"auth", "begin", "row", "fields", "savepoint", "upsert",
                               "optionid", "delete", "field", "release", "commit"}
                                  \cup Unwinding
      [] kind = "get"      -> {"auth", "read", "readFields"}
      [] OTHER             -> {"idle"}

(* A thread is where its request can have brought it, and past the         *)
(* middleware the request names a user.                                    *)
ControlOK ==
    \A t \in Threads :
        /\ pc[t] \in StepsOf(req[t].kind)
        /\ req[t].kind \in {"post", "get"} /\ pc[t] # "auth" => req[t].uid \in Ids

(* The mutex of a storage belongs to the thread that is in a unit of work  *)
(* on it, or reads the fields of a row: no other thread has it, and no     *)
(* thread keeps it.                                                        *)
Holding(t) == pc[t] \in Unit \cup {"readFields"}

MutexesHeld ==
    \A t \in Threads, s \in Storages :
        mutex[s] = t <=> Holding(t) /\ StorageOf(t) = s

(* Every frame of the open transaction is of a thread whose unit of work   *)
(* has yet to end it.                                                      *)
FramesOwned ==
    \A i \in DOMAIN conn.stack : pc[conn.stack[i].by] \in Unit \ {"txreset"}

(* The open transaction is of one thread: it was begun, every savepoint in *)
(* it has that thread's name, and whatever it goes back to is the committed*)
(* database.                                                               *)
Owner == conn.stack[1].by

OneTransaction ==
    \A i \in DOMAIN conn.stack :
        /\ conn.stack[i].by = Owner
        /\ conn.stack[i].name = IF i = 1 THEN "BEGIN" ELSE SavepointOf(Owner)
        /\ conn.stack[i].image = conn.disk

(* What is read differs from the committed database only in the tables of  *)
(* the storage that the open transaction is on.                            *)
Uncommitted ==
    /\ conn.view.users # conn.disk.users => InTransaction(conn) /\ SignsUp(Owner)
    /\ conn.view.options # conn.disk.options => InTransaction(conn) /\ ~SignsUp(Owner)

(* What a unit of work has made of the committed database when it is about *)
(* to send its next statement.                                             *)
Unwritten == {"hash", "insert", "row", "fields", "savepoint", "upsert"}

UserAdded(t, id) ==
    /\ id \in Ids
    /\ NextRowid(conn.disk.users, id)
    /\ conn.disk.users[req[t].email] = 0
    /\ conn.view.users = [conn.disk.users EXCEPT ![req[t].email] = id]

RowWritten(t, row) == conn.view.options = [conn.disk.options EXCEPT ![KeyOf(t)] = row]

FieldsWritten(t, keys) ==
    [flags  |-> req[t].payload,
     fields |-> [k \in FieldKeys |-> IF k \in keys THEN req[t].payload ELSE NoPayload]]

WorkDone(t) ==
    /\ pc[t] \in Unwritten => conn.view = conn.disk
    /\ pc[t] = "rowid" => UserAdded(t, conn.rowid)
    /\ pc[t] \in {"release", "commit"} /\ SignsUp(t) => UserAdded(t, account[t])
    /\ pc[t] \in {"optionid", "delete"} =>
           RowWritten(t, [conn.disk.options[KeyOf(t)] EXCEPT !.flags = req[t].payload])
    /\ pc[t] = "field" =>
           /\ todo[t] \subseteq FieldsOf[req[t].payload]
           /\ RowWritten(t, FieldsWritten(t, FieldsOf[req[t].payload] \ todo[t]))
    /\ pc[t] \in {"release", "commit"} /\ ~SignsUp(t) => RowWritten(t, RowOf(req[t].payload))

(* An id that a client has, or is about to be given in a token, is that of *)
(* its user.                                                               *)
IdsKnown ==
    /\ IssuedIdsNameTheirUser
    /\ \A x \in issued : x[2] # 0
    /\ \A t \in Threads :
           pc[t] = "jwt" => account[t] # 0 /\ conn.disk.users[req[t].email] = account[t]

(* The row of a GET stays as it was between its two SELECTs. *)
RowStays ==
    \A t \in Threads :
        pc[t] = "readFields" =>
            seen[t].flags = conn.disk.options[KeyOf(t)].flags /\ seen[t].flags # NoPayload

(* The state as long as every rollback has ended the transaction of its own*)
(* thread, and no other.                                                   *)
Intact ==
    /\ OneTransaction /\ Uncommitted
    /\ \A t \in Threads : WorkDone(t)
    /\ IdsKnown
    /\ WholeOptions /\ WholeAnswers /\ RowStays
    /\ TokensAccepted

(* The id in the token of a request was given to a client. *)
TokensGiven ==
    \A t \in Threads :
        req[t].kind \in {"post", "get"} => \E x \in issued : x[2] = req[t].uid

(* The invariant of the proofs.  The safety properties follow from it, and *)
(* every step keeps it.                                                    *)
Inductive ==
    /\ TypeOK
    /\ ControlOK
    /\ MutexesHeld
    /\ ~stuck => FramesOwned
    /\ TokensGiven
    /\ ~damaged => ~stuck /\ Isolated /\ Intact

=============================================================================
