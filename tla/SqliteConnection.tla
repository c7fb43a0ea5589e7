-------------------------- MODULE SqliteConnection --------------------------
(***************************************************************************)
(* The one SQLite connection that main.cpp opens and hands to both         *)
(* storages, seen from the SQL statements the service sends to it.  SQLite *)
(* serializes the calls made on one connection, so a statement is one      *)
(* step; the transaction and savepoint state, however, belongs to the      *)
(* connection and not to the thread that changed it.                       *)
(*                                                                         *)
(* A connection c is a record:                                             *)
(*   c.disk   the committed database                                       *)
(*   c.view   what a statement on this connection reads                    *)
(*   c.stack  the open transaction: <<>> in autocommit mode, otherwise its *)
(*            frames, outermost first; a frame remembers the database to   *)
(*            go back to and the thread that opened it                     *)
(*   c.rowid  sqlite3_last_insert_rowid                                    *)
(***************************************************************************)
EXTENDS Integers, Sequences

Frame(name, thread, db) == [name |-> name, by |-> thread, image |-> db]

Frames(Names, Threads, DB) == [name : Names, by : Threads, image : DB]

(* The connections to databases in DB whose transactions have frames in F. *)
Connections(DB, F, Rowids) ==
    [disk : DB, view : DB, stack : Seq(F), rowid : Rowids]

Opened(db) == [disk |-> db, view |-> db, stack |-> <<>>, rowid |-> 0]

InTransaction(c) == c.stack # <<>>

(* BEGIN TRANSACTION; refused when InTransaction(c), whoever began it. *)
Begun(c, thread) == [c EXCEPT !.stack = <<Frame("BEGIN", thread, c.disk)>>]

(* Defects, each a variant of an operator below that the properties have   *)
(* to notice: a COMMIT that loses the transaction, a ROLLBACK that is never*)
(* sent, a RELEASE that always commits.                                    *)
CommitLost(c) == [c EXCEPT !.view = c.disk, !.stack = <<>>]
RollbackSkipped(c) == c
ReleaseCommits(c, name) == [c EXCEPT !.disk = c.view, !.stack = <<>>]

(* COMMIT and ROLLBACK; refused in autocommit mode. *)
Committed(c) == [c EXCEPT !.disk = c.view, !.stack = <<>>]

RolledBack(c) == [c EXCEPT !.view = c.disk, !.stack = <<>>]

(* SAVEPOINT name; in autocommit mode it is itself the outermost transaction. *)
SavepointOpened(c, name, thread) ==
    [c EXCEPT !.stack = Append(@, Frame(name, thread, c.view))]

(* Savepoints may be nested under one name: the most recent one counts.    *)
Latest(c, name, i) ==
    /\ c.stack[i].name = name
    /\ \A j \in DOMAIN c.stack : j > i => c.stack[j].name # name

HasSavepoint(c, name) == \E i \in DOMAIN c.stack : Latest(c, name, i)

SavepointIndex(c, name) == CHOOSE i \in DOMAIN c.stack : Latest(c, name, i)

(* ROLLBACK TO name undoes what came after the savepoint and keeps it open. *)
RolledBackTo(c, name) ==
    LET i == SavepointIndex(c, name)
    IN  [c EXCEPT !.view = c.stack[i].image, !.stack = SubSeq(c.stack, 1, i)]

(* RELEASE name; releasing an outermost savepoint commits. *)
Released(c, name) ==
    LET i == SavepointIndex(c, name)
    IN  IF i = 1 THEN Committed(c)
                 ELSE [c EXCEPT !.stack = SubSeq(c.stack, 1, i - 1)]

(* A defect: a write that does not wait for the COMMIT. *)
WrittenThrough(c, db) == [c EXCEPT !.view = db, !.disk = db]

(* An INSERT, UPDATE or DELETE that leaves the database db; outside a      *)
(* transaction it commits by itself.                                       *)
Written(c, db) ==
    [c EXCEPT !.view = db, !.disk = IF InTransaction(c) THEN @ ELSE db]

=============================================================================
