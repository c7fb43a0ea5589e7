----------------------------- MODULE AtomicStore ----------------------------
(***************************************************************************)
(* What the service promises its clients: every request is answered in one *)
(* indivisible step on the users and the plugin options, or fails without  *)
(* any effect.  The one exception is a sign-in that creates the account    *)
(* and then fails or dies before its token is sent: the account stays, and *)
(* the next sign-in finds it.                                              *)
(***************************************************************************)
EXTENDS SyncData

CONSTANTS Threads

VARIABLES
    users,    \* email -> id, or 0
    options,  \* user id and plugin -> row
    issued,   \* the <<email, id>> that clients hold
    pending,  \* thread -> the request it serves
    answer    \* thread -> outcome and row of its last answer

vars == <<users, options, issued, pending, answer>>

Init ==
    /\ users = InitialUsers
    /\ options = [k \in Keys |-> EmptyRow]
    /\ issued = {x \in Emails \X Ids : InitialUsers[x[1]] = x[2]}
    /\ pending = [t \in Threads |-> NoRequest]
    /\ answer = [t \in Threads |-> [outcome |-> "none", row |-> EmptyRow]]

Reply(t, outcome, row) ==
    /\ pending' = [pending EXCEPT ![t] = NoRequest]
    /\ answer' = [answer EXCEPT ![t] = [outcome |-> outcome, row |-> row]]

Submit(t) ==
    /\ pending[t] = NoRequest
    /\ \E r \in Requests :
           /\ r.kind \in {"post", "get"} => \E x \in issued : x[2] = r.uid
           /\ pending' = [pending EXCEPT ![t] = r]
    /\ answer' = [answer EXCEPT ![t] = [outcome |-> "pending", row |-> EmptyRow]]
    /\ UNCHANGED <<users, options, issued>>

AddUser(email) ==
    /\ users[email] = 0
    /\ \E id \in Ids : NextRowid(users, id) /\ users' = [users EXCEPT ![email] = id]

(* A first sign-in creates the account before its token. *)
CreateAccount(t) ==
    /\ pending[t].kind = "google"
    /\ AddUser(pending[t].email)
    /\ UNCHANGED <<options, issued, pending, answer>>

(* The token is one for the account of that very email. *)
SendToken(t) ==
    /\ pending[t].kind = "google"
    /\ users[pending[t].email] # 0
    /\ issued' = issued \cup {<<pending[t].email, users[pending[t].email]>>}
    /\ Reply(t, "created", EmptyRow)
    /\ UNCHANGED <<users, options>>

Register(t) ==
    /\ pending[t].kind = "register"
    /\ AddUser(pending[t].email)
    /\ issued' = issued \cup {<<pending[t].email, users'[pending[t].email]>>}
    /\ Reply(t, "created", EmptyRow)
    /\ UNCHANGED options

Post(t) ==
    /\ pending[t].kind = "post"
    /\ IsUser(users, pending[t].uid)
    /\ options' = [options EXCEPT ![<<pending[t].uid, pending[t].plugin>>] =
                                      RowOf(pending[t].payload)]
    /\ Reply(t, "ok", EmptyRow)
    /\ UNCHANGED <<users, issued>>

Get(t) ==
    /\ pending[t].kind = "get"
    /\ IsUser(users, pending[t].uid)
    /\ LET row == options[<<pending[t].uid, pending[t].plugin>>]
       IN  Reply(t, IF row = EmptyRow THEN "notFound" ELSE "ok", row)
    /\ UNCHANGED <<users, options, issued>>

Fail(t) ==
    /\ pending[t] # NoRequest
    /\ \E outcome \in Failures : Reply(t, outcome, EmptyRow)
    /\ UNCHANGED <<users, options, issued>>

(* The process dies: every request it was serving fails. *)
Crash ==
    /\ pending' = [t \in Threads |-> NoRequest]
    /\ answer' = [t \in Threads |->
                     IF pending[t] = NoRequest THEN answer[t]
                     ELSE [outcome |-> "aborted", row |-> EmptyRow]]
    /\ UNCHANGED <<users, options, issued>>

Next ==
    \/ \E t \in Threads :
           \/ Submit(t) \/ CreateAccount(t) \/ SendToken(t) \/ Register(t)
           \/ Post(t) \/ Get(t) \/ Fail(t)
    \/ Crash

Spec == Init /\ [][Next]_vars

=============================================================================
