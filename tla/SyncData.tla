------------------------------ MODULE SyncData ------------------------------
(***************************************************************************)
(* The data of the service: users, plugin option rows and requests.        *)
(*                                                                         *)
(* Passwords, verification methods and JSON bodies are left out.  What a   *)
(* POST carries is one payload: it stands for the two flags and, for every *)
(* key in FieldsOf, for the value of that field, so that rows mixed from   *)
(* two POSTs can be told apart from whole ones.                            *)
(***************************************************************************)
EXTENDS Integers

CONSTANTS
    Emails,        \* the addresses that may sign in
    Plugins,       \* plugin names
    Payloads,      \* what a POST carries: flags and fields
    NoPayload,     \* stands for a row or a field that is not there
    FieldKeys,     \* the keys of the fields
    FieldsOf,      \* FieldsOf[p]: the keys that payload p carries
    InitialUsers,  \* email -> id in the database the program opens, or 0
    MaxId          \* bound on user ids

Ids == 1 .. MaxId
Keys == Ids \X Plugins
Values == Payloads \cup {NoPayload}

ASSUME DataAssumption ==
    /\ MaxId \in Nat
    /\ NoPayload \notin Payloads
    /\ FieldsOf \in [Payloads -> SUBSET FieldKeys]

ASSUME InitialUsersAssumption ==
    /\ InitialUsers \in [Emails -> 0 .. MaxId]
    /\ \A e, f \in Emails :
           InitialUsers[e] = InitialUsers[f] => e = f \/ InitialUsers[e] = 0

(* A plugin_options row with its plugin_option_fields rows. *)
Rows == [flags : Values, fields : [FieldKeys -> Values]]

EmptyRow == [flags |-> NoPayload, fields |-> [k \in FieldKeys |-> NoPayload]]

RowOf(p) ==
    [flags  |-> p,
     fields |-> [k \in FieldKeys |-> IF k \in FieldsOf[p] THEN p ELSE NoPayload]]

Whole(row) == row = EmptyRow \/ \E p \in Payloads : row = RowOf(p)

(* The users table as email -> id, the options by user id and plugin name. *)
Databases == [users : [Emails -> 0 .. MaxId], options : [Keys -> Rows]]

InitialDatabase == [users |-> InitialUsers, options |-> [k \in Keys |-> EmptyRow]]

(* The table has a row with that id. *)
IsUser(users, id) == id # 0 /\ \E e \in Emails : users[e] = id

(* INTEGER PRIMARY KEY: the next row gets the largest id in use plus one.  *)
NextRowid(users, id) ==
    /\ \A e \in Emails : users[e] < id
    /\ id = 1 \/ \E e \in Emails : users[e] = id - 1

SignUps == [kind : {"google", "register"}, email : Emails]
Writes == [kind : {"post"}, uid : 0 .. MaxId, plugin : Plugins, payload : Payloads]
Reads == [kind : {"get"}, uid : 0 .. MaxId, plugin : Plugins]

Requests == SignUps \cup Writes \cup Reads

NoRequest == [kind |-> "none"]

AllKinds == {"google", "register", "post", "get"}

Successes == {"created", "ok", "notFound"}
Failures == {"unauthorized", "error", "aborted"}
Outcomes == Successes \cup Failures

=============================================================================
