------------------------------ MODULE SyncStore -----------------------------
(***************************************************************************)
(* The request threads of the service at work on the shared database.      *)
(*                                                                         *)
(* Poco's HTTP server runs every request on a thread of its pool.  A       *)
(* request goes through its controller, the message bus and one command    *)
(* handler; the handler uses a storage object, and a write is wrapped in a *)
(* SqliteStorageUoW that locks the storage's mutex and opens a transaction.*)
(* The two storages have a mutex each but share the connection, so the     *)
(* mutexes do not serialize the transactions: that is what is at stake.    *)
(*                                                                         *)
(* One action is one SQL statement, together with the code up to the next  *)
(* one.  A mutex taken for a single statement, by BEGIN or given back after*)
(* the last statement is part of that statement's step: a thread neither   *)
(* reads nor writes shared state between the two.  The recursive mutex is  *)
(* represented by its owner; nested acquisitions by the owner are no-ops.  *)
(***************************************************************************)
EXTENDS SqliteConnection, SyncData

CONSTANTS
    Threads,            \* the threads of the HTTP server's pool
    NoThread,           \* stands for the owner of a free mutex
    Kinds,              \* the kinds of request that arrive
    FaultKinds,         \* how a statement may fail, see Throws
    DtorRollsBackAgain, \* TRUE: ~Transaction rolls back after rollback(), too
    MaxRequests, MaxFaults, MaxCrashes  \* bounds on the length of a behaviour

Storages == {"users", "plugins"}

ASSUME ThreadsAssumption == NoThread \notin Threads

ASSUME BuildAssumption ==
    /\ Kinds \subseteq AllKinds
    /\ FaultKinds \subseteq {"statement", "transaction"}
    /\ DtorRollsBackAgain \in BOOLEAN

ASSUME BoundsAssumption ==
    /\ MaxRequests \in Nat
    /\ MaxFaults \in Nat
    /\ MaxCrashes \in Nat

(* last_insert_rowid after an insert into a table of the plugin storage.   *)
(* Those tables number their rows by themselves; 0 stands for all their    *)
(* ids, none of which is the id of the user that a sign-up just added.     *)
PluginRowid == 0

-----------------------------------------------------------------------------
VARIABLES
    conn,     \* the SQLite connection
    mutex,    \* storage -> the thread that holds its mutex
    pc,       \* thread -> the statement it is about to send, or "idle"
    req,      \* thread -> the request it serves
    account,  \* thread -> the user id that a sign-up has found or created
    todo,     \* thread -> the fields that update() has yet to insert
    seen,     \* thread -> the row that findByUserIdAndName returned
    status,   \* thread -> the outcome of its last request
    issued,   \* the <<email, id>> that clients hold, as token or as result
    damaged,  \* a rollback has ended a transaction of another thread, or
              \* has failed to end that of its own
    stuck,    \* ... the latter
    faults, crashes, requests  \* how many so far

shared == <<conn, mutex, issued, damaged, stuck>>
local == <<pc, req, account, todo, seen, status>>
counters == <<faults, crashes, requests>>
vars == <<shared, local, counters>>

(* A unit of work is alive in its body, where the handler runs, and while  *)
(* it is being unwound.                                                    *)
SignUpBody == {"hash", "insert", "rowid"}
WriteBody == {"row", "fields", "upsert", "optionid", "delete", "field"}
Body == SignUpBody \cup WriteBody \cup {"savepoint", "release", "commit"}
Guarded == {"insert", "rowid", "upsert", "optionid", "delete", "field", "release"}
Unwinding == {"rollbackTo", "releaseSp", "rollback", "txreset", "dtor"}
Unit == Body \cup Unwinding

Steps == {"idle", "handle", "lookup", "auth", "read", "readFields", "begin", "jwt"}
             \cup Unit

SavepointNames == {"users_add", "plugin_options_update"}
FrameNames == {"BEGIN"} \cup SavepointNames

TypeOK ==
    /\ conn \in Connections(Databases, Frames(FrameNames, Threads, Databases), 0 .. MaxId)
    /\ mutex \in [Storages -> Threads \cup {NoThread}]
    /\ pc \in [Threads -> Steps]
    /\ req \in [Threads -> Requests \cup {NoRequest}]
    /\ account \in [Threads -> 0 .. MaxId]
    /\ todo \in [Threads -> SUBSET FieldKeys]
    /\ seen \in [Threads -> Rows]
    /\ status \in [Threads -> Outcomes \cup {"none", "pending"}]
    /\ issued \in SUBSET (Emails \X (0 .. MaxId))
    /\ damaged \in BOOLEAN
    /\ stuck \in BOOLEAN
    /\ faults \in 0 .. MaxFaults
    /\ crashes \in 0 .. MaxCrashes
    /\ requests \in 0 .. MaxRequests

Init ==
    /\ conn = Opened(InitialDatabase)
    /\ mutex = [s \in Storages |-> NoThread]
    /\ pc = [t \in Threads |-> "idle"]
    /\ req = [t \in Threads |-> NoRequest]
    /\ account = [t \in Threads |-> 0]
    /\ todo = [t \in Threads |-> {}]
    /\ seen = [t \in Threads |-> EmptyRow]
    /\ status = [t \in Threads |-> "none"]
    /\ issued = {x \in Emails \X Ids : InitialUsers[x[1]] = x[2]}
    /\ damaged = FALSE
    /\ stuck = FALSE
    /\ faults = 0
    /\ crashes = 0
    /\ requests = 0

-----------------------------------------------------------------------------
SignsUp(t) == req[t].kind \in {"google", "register"}

StorageOf(t) == IF SignsUp(t) THEN "users" ELSE "plugins"

SavepointOf(t) == IF SignsUp(t) THEN "users_add" ELSE "plugin_options_update"

KeyOf(t) == <<req[t].uid, req[t].plugin>>

Free(storage) == mutex[storage] = NoThread

(* As a defect, the mutex is not taken. *)
MutexUntouched(t) == mutex

Locked(t) == [mutex EXCEPT ![StorageOf(t)] = t]
Unlocked(t) == [mutex EXCEPT ![StorageOf(t)] = NoThread]

Goto(t, step) == pc' = [pc EXCEPT ![t] = step]

(* The response is sent and the thread returns to the pool. *)
Reply(t, outcome, row) ==
    /\ Goto(t, "idle")
    /\ status' = [status EXCEPT ![t] = outcome]
    /\ seen' = [seen EXCEPT ![t] = row]
    /\ req' = [req EXCEPT ![t] = NoRequest]
    /\ account' = [account EXCEPT ![t] = 0]
    /\ todo' = [todo EXCEPT ![t] = {}]

Answer(t, outcome) == Reply(t, outcome, EmptyRow)

(* A rollback that t causes, of whatever transaction is open.              *)
Foreign(t) == InTransaction(conn) /\ conn.stack[1].by # t

RollbackBy(t) ==
    /\ conn' = RolledBack(conn)
    /\ damaged' = (damaged \/ Foreign(t))

-----------------------------------------------------------------------------
(* A request is accepted.  A plugin request needs a token, so its user id  *)
(* is one that some client has been given.                                 *)
Receive(t) ==
    /\ pc[t] = "idle"
    /\ requests < MaxRequests
    /\ requests' = requests + 1
    /\ \E r \in Requests :
           /\ r.kind \in Kinds
           /\ r.kind \in {"post", "get"} => \E x \in issued : x[2] = r.uid
           /\ req' = [req EXCEPT ![t] = r]
           /\ Goto(t, CASE r.kind = "google"   -> "handle"
                        [] r.kind = "register" -> "begin"
                        [] OTHER               -> "auth")
    /\ status' = [status EXCEPT ![t] = "pending"]
    /\ seen' = [seen EXCEPT ![t] = EmptyRow]
    /\ UNCHANGED <<shared, account, todo, faults, crashes>>

(* The exchange of the authorization code with Google.  Whether it returns *)
(* an error or throws, nothing has happened yet and the answer is a 500.   *)
Handle(t) ==
    /\ pc[t] = "handle"
    /\ \/ /\ Goto(t, "lookup")
          /\ UNCHANGED <<req, account, todo, seen, status>>
       \/ Answer(t, "error")
    /\ UNCHANGED <<shared, counters>>

(* findByEmail. *)
Lookup(t) ==
    /\ pc[t] = "lookup"
    /\ Free("users")
    /\ account' = [account EXCEPT ![t] = conn.view.users[req[t].email]]
    /\ Goto(t, IF conn.view.users[req[t].email] = 0 THEN "begin" ELSE "jwt")
    /\ UNCHANGED <<shared, req, todo, seen, status, counters>>

(* findById, for the id in a valid token. *)
Authenticate(t) ==
    /\ pc[t] = "auth"
    /\ Free("users")
    /\ IF IsUser(conn.view.users, req[t].uid)
       THEN /\ Goto(t, IF req[t].kind = "post" THEN "begin" ELSE "read")
            /\ UNCHANGED <<req, account, todo, seen, status>>
       ELSE Answer(t, "unauthorized")
    /\ UNCHANGED <<shared, counters>>

(* beginWork.  The mutex is the storage's own, the transaction the         *)
(* connection's: SQLite refuses a BEGIN inside any open transaction, at    *)
(* once and whatever busy_timeout is, and the exception reaches Poco.      *)
BeginWork(t) ==
    /\ pc[t] = "begin"
    /\ Free(StorageOf(t))
    /\ IF InTransaction(conn)
       THEN Answer(t, "aborted") /\ UNCHANGED <<conn, mutex>>
       ELSE /\ conn' = Begun(conn, t)
            /\ mutex' = Locked(t)
            /\ Goto(t, CASE req[t].kind = "google"   -> "savepoint"
                         [] req[t].kind = "register" -> "hash"
                         [] OTHER                    -> "row")
            /\ UNCHANGED <<req, account, todo, seen, status>>
    /\ UNCHANGED <<issued, damaged, stuck, counters>>

(* The password is hashed inside the unit of work. *)
Hash(t) ==
    /\ pc[t] = "hash"
    /\ \/ Goto(t, "savepoint") /\ UNCHANGED status
       \/ Goto(t, "rollback") /\ status' = [status EXCEPT ![t] = "error"]
    /\ UNCHANGED <<shared, req, account, todo, seen, counters>>

-----------------------------------------------------------------------------
(* findByUserIdAndName for a GET: two SELECTs under the mutex. *)
ReadRow(t) ==
    /\ pc[t] = "read"
    /\ Free("plugins")
    /\ LET flags == conn.view.options[KeyOf(t)].flags
       IN  IF flags = NoPayload
           THEN Answer(t, "notFound") /\ UNCHANGED mutex
           ELSE /\ seen' = [seen EXCEPT ![t].flags = flags]
                /\ mutex' = Locked(t)
                /\ Goto(t, "readFields")
                /\ UNCHANGED <<req, account, todo, status>>
    /\ UNCHANGED <<conn, issued, damaged, stuck, counters>>

ReadFields(t) ==
    /\ pc[t] = "readFields"
    /\ Reply(t, "ok",
             [seen[t] EXCEPT !.fields = conn.view.options[KeyOf(t)].fields])
    /\ mutex' = Unlocked(t)
    /\ UNCHANGED <<conn, issued, damaged, stuck, counters>>

(* The same for a POST, which overwrites all it reads but the row's id. *)
SelectRow(t) ==
    /\ pc[t] = "row"
    /\ LET flags == conn.view.options[KeyOf(t)].flags
       IN  /\ seen' = [seen EXCEPT ![t].flags = flags]
           /\ Goto(t, IF flags = NoPayload THEN "savepoint" ELSE "fields")
    /\ UNCHANGED <<shared, req, account, todo, status, counters>>

SelectFields(t) ==
    /\ pc[t] = "fields"
    /\ Goto(t, "savepoint")
    /\ UNCHANGED <<shared, req, account, todo, seen, status, counters>>

-----------------------------------------------------------------------------
(* add() and update() run under a savepoint of their own. *)
OpenSavepoint(t) ==
    /\ pc[t] = "savepoint"
    /\ conn' = SavepointOpened(conn, SavepointOf(t), t)
    /\ Goto(t, IF SignsUp(t) THEN "insert" ELSE "upsert")
    /\ UNCHANGED <<mutex, issued, damaged, stuck, req, account, todo, seen, status, counters>>

(* The UNIQUE constraint on email, and as a defect its absence. *)
EmailNotUnique(users, email) == FALSE

EmailTaken(users, email) == users[email] # 0

(* add(): the UNIQUE constraint on email makes a second sign-up an error.  *)
InsertUser(t) ==
    /\ pc[t] = "insert"
    /\ LET email == req[t].email
           users == conn.view.users
       IN  IF EmailTaken(users, email)
           THEN /\ status' = [status EXCEPT ![t] = "error"]
                /\ Goto(t, "rollbackTo")
                /\ UNCHANGED conn
           ELSE /\ \E id \in Ids :
                      /\ NextRowid(users, id)
                      /\ conn' = [Written(conn, [conn.view EXCEPT !.users[email] = id])
                                      EXCEPT !.rowid = id]
                /\ Goto(t, "rowid")
                /\ UNCHANGED status
    /\ UNCHANGED <<mutex, issued, damaged, stuck, req, account, todo, seen, counters>>

(* getLastInsertRowid is a call of its own, on the shared connection. *)
ReadRowid(t) ==
    /\ pc[t] = "rowid"
    /\ account' = [account EXCEPT ![t] = conn.rowid]
    /\ Goto(t, "release")
    /\ UNCHANGED <<shared, req, todo, seen, status, counters>>

(* upsertAndGetId: by id if the row was found, else by user and name, which*)
(* needs a SELECT to learn the id.                                         *)
UpsertOption(t) ==
    /\ pc[t] = "upsert"
    /\ LET old  == conn.view.options[KeyOf(t)].flags
           next == Written(conn, [conn.view EXCEPT
                                      !.options[KeyOf(t)].flags = req[t].payload])
       IN  conn' = [next EXCEPT !.rowid = IF old = NoPayload THEN PluginRowid ELSE @]
    /\ Goto(t, IF seen[t].flags = NoPayload THEN "optionid" ELSE "delete")
    /\ UNCHANGED <<mutex, issued, damaged, stuck, req, account, todo, seen, status, counters>>

OptionId(t) ==
    /\ pc[t] = "optionid"
    /\ Goto(t, IF conn.view.options[KeyOf(t)].flags = NoPayload
               THEN "rollbackTo" ELSE "delete")
    /\ UNCHANGED <<shared, req, account, todo, seen, status, counters>>

(* update(): the old fields go, then the new ones come one by one, in the  *)
(* order of an unordered_map.                                              *)
DeleteFields(t) ==
    /\ pc[t] = "delete"
    /\ conn' = Written(conn, [conn.view EXCEPT
                                  !.options[KeyOf(t)].fields = EmptyRow.fields])
    /\ todo' = [todo EXCEPT ![t] = FieldsOf[req[t].payload]]
    /\ Goto(t, IF FieldsOf[req[t].payload] = {} THEN "release" ELSE "field")
    /\ UNCHANGED <<mutex, issued, damaged, stuck, req, account, seen, status, counters>>

(* The foreign key wants the parent row, the primary key a new field. *)
InsertField(t) ==
    /\ pc[t] = "field"
    /\ \E k \in todo[t] :
           LET row == conn.view.options[KeyOf(t)]
           IN  IF row.flags = NoPayload \/ row.fields[k] # NoPayload
               THEN Goto(t, "rollbackTo") /\ UNCHANGED <<conn, todo>>
               ELSE /\ conn' = [Written(conn, [conn.view EXCEPT
                                                   !.options[KeyOf(t)].fields[k] = req[t].payload])
                                    EXCEPT !.rowid = PluginRowid]
                    /\ todo' = [todo EXCEPT ![t] = @ \ {k}]
                    /\ Goto(t, IF todo[t] = {k} THEN "release" ELSE "field")
    /\ UNCHANGED <<mutex, issued, damaged, stuck, req, account, seen, status, counters>>

ReleaseSavepoint(t) ==
    /\ pc[t] = "release"
    /\ IF HasSavepoint(conn, SavepointOf(t))
       THEN conn' = Released(conn, SavepointOf(t)) /\ Goto(t, "commit")
       ELSE Goto(t, "rollbackTo") /\ UNCHANGED conn
    /\ UNCHANGED <<mutex, issued, damaged, stuck, req, account, todo, seen, status, counters>>

(* SqliteStorageUoW::commit.  A COMMIT without a transaction throws. *)
Commit(t) ==
    /\ pc[t] = "commit"
    /\ IF InTransaction(conn)
       THEN /\ conn' = Committed(conn)
            /\ mutex' = Unlocked(t)
            /\ CASE req[t].kind = "google" ->
                        /\ Goto(t, "jwt")
                        /\ UNCHANGED <<req, account, todo, seen, status, issued>>
                 [] req[t].kind = "register" ->
                        /\ issued' = issued \cup {<<req[t].email, account[t]>>}
                        /\ Answer(t, "created")
                 [] OTHER -> Answer(t, "ok") /\ UNCHANGED issued
       ELSE /\ Goto(t, "dtor")
            /\ UNCHANGED <<conn, mutex, req, account, todo, seen, status, issued>>
    /\ UNCHANGED <<damaged, stuck, counters>>

(* The token for the account, after the unit of work. *)
CreateJwt(t) ==
    /\ pc[t] = "jwt"
    /\ issued' = issued \cup {<<req[t].email, account[t]>>}
    /\ Answer(t, "created")
    /\ UNCHANGED <<conn, mutex, damaged, stuck, counters>>

-----------------------------------------------------------------------------
(* Where a failed add() or update() leads.  Defects: the exception is      *)
(* swallowed and the unit of work committed, the guard is run until it     *)
(* succeeds, the handler starts again.                                     *)
ExceptionSwallowed(t) == "commit"
GuardRepeated(t) == "rollbackTo"
HandlerRepeated(t) == "lookup"

AfterGuard(t) == IF status[t] = "error" THEN "rollback" ELSE "dtor"

(* ~SavepointGuard after an exception or a duplicate email; its own errors *)
(* are swallowed and end it.                                               *)
RollbackToSavepoint(t) ==
    /\ pc[t] = "rollbackTo"
    /\ IF HasSavepoint(conn, SavepointOf(t))
       THEN conn' = RolledBackTo(conn, SavepointOf(t)) /\ Goto(t, "releaseSp")
       ELSE Goto(t, AfterGuard(t)) /\ UNCHANGED conn
    /\ UNCHANGED <<mutex, issued, damaged, stuck, req, account, todo, seen, status, counters>>

ReleaseRolledBack(t) ==
    /\ pc[t] = "releaseSp"
    /\ conn' = IF HasSavepoint(conn, SavepointOf(t))
               THEN Released(conn, SavepointOf(t)) ELSE conn
    /\ Goto(t, AfterGuard(t))
    /\ UNCHANGED <<mutex, issued, damaged, stuck, req, account, todo, seen, status, counters>>

(* SqliteStorageUoW::rollback: an explicit ROLLBACK, which throws without a*)
(* transaction, then _tx.reset() and with it ~Transaction.                 *)
Rollback(t) ==
    /\ pc[t] = "rollback"
    /\ IF InTransaction(conn)
       THEN RollbackBy(t) /\ Goto(t, "txreset")
       ELSE Goto(t, "dtor") /\ UNCHANGED <<conn, damaged>>
    /\ UNCHANGED <<mutex, issued, stuck, req, account, todo, seen, status, counters>>

(* SQLiteCpp's rollback() does not mark the transaction as finished, so its*)
(* destructor rolls back again and swallows the error it usually gets.     *)
ResetTx(t) ==
    /\ pc[t] = "txreset"
    /\ IF DtorRollsBackAgain THEN RollbackBy(t) ELSE UNCHANGED <<conn, damaged>>
    /\ mutex' = Unlocked(t)
    /\ Answer(t, "error")
    /\ UNCHANGED <<issued, stuck, counters>>

(* ~SqliteStorageUoW on the way of an exception. *)
Unwind(t) ==
    /\ pc[t] = "dtor"
    /\ RollbackBy(t)
    /\ mutex' = Unlocked(t)
    /\ Answer(t, "aborted")
    /\ UNCHANGED <<issued, stuck, counters>>

-----------------------------------------------------------------------------
(* A statement throws.  Its own effects are undone; after an I/O error, a  *)
(* full disk or a lack of memory SQLite may roll back the transaction that *)
(* is open on the connection as well.                                      *)
Throws(t) ==
    /\ faults < MaxFaults
    /\ faults' = faults + 1
    /\ \/ "statement" \in FaultKinds /\ UNCHANGED <<conn, damaged>>
       \/ "transaction" \in FaultKinds /\ InTransaction(conn) /\ RollbackBy(t)
    /\ UNCHANGED <<issued, stuck, crashes, requests>>

(* Without a unit of work: RetrieveIdCommand's handler turns any exception *)
(* of findById into a refusal, the others reach Poco.                      *)
FaultOutside(t) ==
    /\ \/ pc[t] \in {"lookup", "auth"} /\ Free("users")
       \/ pc[t] = "read" /\ Free("plugins")
       \/ pc[t] = "begin" /\ Free(StorageOf(t)) /\ ~InTransaction(conn)
       \/ pc[t] = "readFields"
    /\ Throws(t)
    /\ mutex' = IF pc[t] = "readFields" THEN Unlocked(t) ELSE mutex
    /\ Answer(t, IF pc[t] = "auth" THEN "unauthorized" ELSE "aborted")

(* Inside one the exception runs the destructors: the savepoint's, if there*)
(* is one, and the unit of work's.  ~SavepointGuard swallows the errors of *)
(* its own ROLLBACK TO and RELEASE; the one of rollback() is passed on.    *)
FaultInside(t) ==
    /\ \/ pc[t] \in Guarded \ {"rowid"} /\ Goto(t, "rollbackTo")
       \/ pc[t] \in {"rollbackTo", "releaseSp"} /\ Goto(t, AfterGuard(t))
       \/ /\ pc[t] \in {"row", "fields", "savepoint", "commit", "rollback"}
          /\ Goto(t, "dtor")
    /\ Throws(t)
    /\ UNCHANGED <<mutex, req, account, todo, seen, status>>

(* ~Transaction swallows the error of its ROLLBACK: what t has left open on*)
(* the connection then stays open, and nobody is left to end it.           *)
LeftOpen(t) == \E i \in DOMAIN conn.stack : conn.stack[i].by = t

FaultInDestructor(t) ==
    /\ pc[t] = "dtor" \/ (pc[t] = "txreset" /\ DtorRollsBackAgain)
    /\ faults < MaxFaults
    /\ faults' = faults + 1
    /\ \/ /\ "statement" \in FaultKinds
          /\ damaged' = (damaged \/ LeftOpen(t))
          /\ stuck' = (stuck \/ LeftOpen(t))
          /\ UNCHANGED conn
       \/ /\ "transaction" \in FaultKinds /\ InTransaction(conn)
          /\ RollbackBy(t)
          /\ UNCHANGED stuck
    /\ mutex' = Unlocked(t)
    /\ Answer(t, IF pc[t] = "dtor" THEN "aborted" ELSE "error")
    /\ UNCHANGED <<issued, crashes, requests>>

(* The process dies and is started again on the database it left. *)
Crash ==
    /\ crashes < MaxCrashes
    /\ crashes' = crashes + 1
    /\ \E t \in Threads : pc[t] # "idle"
    /\ conn' = Opened(conn.disk)
    /\ stuck' = FALSE
    /\ mutex' = [s \in Storages |-> NoThread]
    /\ pc' = [t \in Threads |-> "idle"]
    /\ req' = [t \in Threads |-> NoRequest]
    /\ account' = [t \in Threads |-> 0]
    /\ todo' = [t \in Threads |-> {}]
    /\ seen' = [t \in Threads |-> IF pc[t] = "idle" THEN seen[t] ELSE EmptyRow]
    /\ status' = [t \in Threads |-> IF pc[t] = "idle" THEN status[t] ELSE "aborted"]
    /\ UNCHANGED <<issued, damaged, faults, requests>>

(* Nothing is left to do: where a bounded behaviour may stop. *)
Quiescent ==
    /\ requests = MaxRequests
    /\ \A t \in Threads : pc[t] = "idle"
    /\ UNCHANGED vars

-----------------------------------------------------------------------------
SignUpStep(t) ==
    Handle(t) \/ Lookup(t) \/ Hash(t) \/ InsertUser(t) \/ ReadRowid(t) \/ CreateJwt(t)

PluginStep(t) ==
    \/ Authenticate(t) \/ ReadRow(t) \/ ReadFields(t)
    \/ SelectRow(t) \/ SelectFields(t) \/ UpsertOption(t) \/ OptionId(t)
    \/ DeleteFields(t) \/ InsertField(t)

UnitStep(t) ==
    \/ BeginWork(t) \/ OpenSavepoint(t) \/ ReleaseSavepoint(t) \/ Commit(t)
    \/ RollbackToSavepoint(t) \/ ReleaseRolledBack(t)
    \/ Rollback(t) \/ ResetTx(t) \/ Unwind(t)

(* What a thread does by itself, once it has a request. *)
Run(t) == SignUpStep(t) \/ PluginStep(t) \/ UnitStep(t)

Next ==
    \/ \E t \in Threads :
           \/ Receive(t) \/ Run(t)
           \/ FaultOutside(t) \/ FaultInside(t) \/ FaultInDestructor(t)
    \/ Crash
    \/ Quiescent

Spec == Init /\ [][Next]_vars

(* Threads are scheduled, and a mutex that is free again and again is      *)
(* obtained; no request has to come, no statement to fail.                 *)
Fairness == \A t \in Threads : WF_vars(Run(t))

FairSpec == Spec /\ Fairness

-----------------------------------------------------------------------------
(* The unit of work of a thread that runs in its body is the transaction   *)
(* that is open on the connection: what SqliteStorageUoW is for.           *)
OwnsTransaction(t) ==
    /\ InTransaction(conn)
    /\ conn.stack[1].name = "BEGIN"
    /\ conn.stack[1].by = t

Isolated == \A t \in Threads : pc[t] \in Body => OwnsTransaction(t)

(* An id that a client has been given for an email, in a token or in the   *)
(* result of a registration, is that user's in the committed database, and *)
(* stays so.                                                               *)
IssuedIdsNameTheirUser == \A x \in issued : conn.disk.users[x[1]] = x[2]

(* A committed plugin_options row has the flags and exactly the fields of  *)
(* one POST.                                                               *)
WholeOptions == \A k \in Keys : Whole(conn.disk.options[k])

(* A transaction or a savepoint is left open by a request that has been    *)
(* answered only if the very last ROLLBACK of its unit of work failed: a   *)
(* failing statement, COMMIT, ROLLBACK TO, RELEASE or explicit ROLLBACK is *)
(* made up for by a later one.                                             *)
NoLeakedTransaction ==
    ~stuck => \A i \in DOMAIN conn.stack : pc[conn.stack[i].by] \in Unit

(* What a GET answers is one POST's row. *)
WholeAnswers == \A t \in Threads : pc[t] = "idle" => Whole(seen[t])

(* A client that holds a token is refused only when a statement failed.    *)
TokensAccepted == faults = 0 => \A t \in Threads : status[t] # "unauthorized"

(* As the program is built, Isolated and its consequences can fail; they   *)
(* fail only after a rollback that hit another thread's transaction, or a  *)
(* last ROLLBACK that failed.                                              *)
ConfinedDamage == ~damaged => Isolated /\ IssuedIdsNameTheirUser /\ WholeOptions

(* No step, not even a rollback of somebody else's transaction, takes a    *)
(* committed user away or gives it another id.                             *)
CommittedUsersStay ==
    [][\A e \in Emails :
           conn.disk.users[e] # 0 => conn'.disk.users[e] = conn.disk.users[e]]_vars

(* Two writes that overlap in time are not refused for it. *)
NoSpuriousAbort ==
    faults = 0 /\ crashes = 0 => \A t \in Threads : status[t] # "aborted"

(* Every request is answered. *)
Answered == \A t \in Threads : (pc[t] # "idle") ~> (pc[t] = "idle")

=============================================================================
