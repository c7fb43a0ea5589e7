------------------------ MODULE SyncStoreDataProofs -------------------------
(***************************************************************************)
(* What the clients of SyncStore rely on, for every value of the constants:*)
(* the ids they were given, whole rows and whole answers, and that every   *)
(* request takes effect at once or not at all.                             *)
(*                                                                         *)
(* Until a rollback hits a foreign transaction, or fails to end the last of*)
(* its own, the state is calm: every unit of work has the connection to    *)
(* itself, and what it changes goes to the committed database whole or not *)
(* at all.                                                                 *)
(***************************************************************************)
EXTENDS SyncStoreProofs

Calm ==
    /\ Typed /\ MutexesHeld /\ FramesOwned /\ UsersKept /\ TokensGiven
    /\ ~damaged /\ Isolated /\ Intact

(* A step of one thread leaves what the others work with. *)
LEMMA OthersKeep ==
    ASSUME Typed, NEW t \in Threads, StepOf(t)
    PROVE  \A u \in Threads \ {t} :
               /\ account'[u] = account[u] /\ todo'[u] = todo[u]
               /\ seen'[u] = seen[u] /\ status'[u] = status[u]
<1>1. LocalType
  BY DEF Typed
<1>2. CASE Receive(t)
  BY <1>1, <1>2 DEF LocalType, Receive
<1>3. CASE SignUpStep(t)
  BY <1>1, <1>3 DEF LocalType, SignUpStep, Handle, Lookup, Hash, InsertUser, ReadRowid,
     CreateJwt, Answer, Reply
<1>4. CASE PluginStep(t)
  <2>1. CASE Authenticate(t) \/ ReadRow(t) \/ ReadFields(t) \/ SelectRow(t)
    BY <1>1, <2>1 DEF LocalType, Authenticate, ReadRow, ReadFields, SelectRow, Answer, Reply
  <2>2. CASE SelectFields(t) \/ UpsertOption(t) \/ OptionId(t)
    BY <2>2 DEF SelectFields, UpsertOption, OptionId
  <2>3. CASE DeleteFields(t) \/ InsertField(t)
    BY <1>1, <2>3 DEF LocalType, DeleteFields, InsertField
  <2> QED
    BY <1>4, <2>1, <2>2, <2>3 DEF PluginStep
<1>5. CASE UnitStep(t)
  BY <1>1, <1>5 DEF LocalType, UnitStep, BeginWork, OpenSavepoint, ReleaseSavepoint, Commit,
     RollbackToSavepoint, ReleaseRolledBack, Rollback, ResetTx, Unwind, Answer, Reply
<1>6. CASE FaultOutside(t) \/ FaultInside(t) \/ FaultInDestructor(t)
  BY <1>1, <1>6 DEF LocalType, FaultOutside, FaultInside, FaultInDestructor, Answer, Reply
<1> QED
  BY <1>2, <1>3, <1>4, <1>5, <1>6 DEF StepOf, Run

(* A request in progress is the same one after the step. *)
LEMMA RequestStays ==
    ASSUME Typed, NEW t \in Threads, StepOf(t), NEW u \in Threads,
           pc[u] # "idle", pc'[u] # "idle"
    PROVE  /\ req'[u] = req[u]
           /\ SignsUp(u)' = SignsUp(u)
           /\ SavepointOf(u)' = SavepointOf(u)
           /\ KeyOf(u)' = KeyOf(u)
<1>0. pc \in [Threads -> Steps]
  BY DEF Typed, LocalType
<1>1. ASSUME u = t
      PROVE  req'[t] = req[t]
  <2>1. CASE Receive(t)
    BY <1>1, <2>1 DEF Receive
  <2>2. CASE SignUpStep(t)
    BY <1>0, <1>1, <2>2 DEF SignUpStep, Handle, Lookup, Hash, InsertUser, ReadRowid,
       CreateJwt, Answer, Reply, Goto
  <2>3. CASE PluginStep(t)
    BY <1>0, <1>1, <2>3 DEF PluginStep, Authenticate, ReadRow, ReadFields, SelectRow,
       SelectFields, UpsertOption, OptionId, DeleteFields, InsertField, Answer, Reply, Goto
  <2>4. CASE UnitStep(t)
    BY <1>0, <1>1, <2>4 DEF UnitStep, BeginWork, OpenSavepoint, ReleaseSavepoint, Commit,
       RollbackToSavepoint, ReleaseRolledBack, Rollback, ResetTx, Unwind,
       Answer, Reply, Goto
  <2>5. CASE FaultOutside(t) \/ FaultInside(t) \/ FaultInDestructor(t)
    BY <1>0, <1>1, <2>5 DEF FaultOutside, FaultInside, FaultInDestructor, Answer, Reply, Goto
  <2> QED
    BY <2>1, <2>2, <2>3, <2>4, <2>5 DEF StepOf, Run
<1>2. req'[u] = req[u]
  BY <1>1, OthersStay
<1> QED
  BY <1>2 DEF SignsUp, SavepointOf, KeyOf

-----------------------------------------------------------------------------
(* In the body of a unit of work the open transaction is the thread's own. *)
LEMMA CalmOwner ==
    ASSUME Calm, NEW t \in Threads, pc[t] \in Body
    PROVE  /\ InTransaction(conn) /\ Owner = t
           /\ 1 \in DOMAIN conn.stack /\ conn.stack[1].name = "BEGIN"
<1>1. OwnsTransaction(t)
  BY DEF Calm, Isolated
<1>2. Len(conn.stack) \in Nat /\ Len(conn.stack) # 0
  BY <1>1, ConnTyped DEF Calm, OwnsTransaction, InTransaction
<1> QED
  BY <1>1, <1>2, ConnTyped DEF Calm, OwnsTransaction, Owner

(* An open transaction is that of a thread in a unit of work, which holds  *)
(* the mutex of its storage.                                               *)
LEMMA CalmTransaction ==
    ASSUME Calm, InTransaction(conn)
    PROVE  /\ 1 \in DOMAIN conn.stack
           /\ Owner \in Threads /\ pc[Owner] \in Unit \ {"txreset"}
           /\ mutex[StorageOf(Owner)] = Owner
           /\ conn.stack[1].name = "BEGIN"
<1>1. Len(conn.stack) \in Nat /\ Len(conn.stack) # 0
  BY ConnTyped DEF Calm, InTransaction
<1>2. 1 \in DOMAIN conn.stack /\ Owner \in Threads
  BY <1>1, ConnTyped DEF Calm, Owner
<1>3. pc[Owner] \in Unit \ {"txreset"}
  BY <1>2 DEF Calm, FramesOwned, Owner
<1>4. mutex[StorageOf(Owner)] = Owner
  BY <1>2, <1>3, StorageTyped DEF Calm, MutexesHeld, Holding
<1>5. conn.stack[1].name = "BEGIN"
  BY <1>2 DEF Calm, Intact, OneTransaction
<1> QED
  BY <1>2, <1>3, <1>4, <1>5

(* A savepoint that a thread finds under its name is its own: the threads  *)
(* that use that name are those of its storage, and it has the mutex.      *)
LEMMA CalmSavepoint ==
    ASSUME Calm, NEW t \in Threads, pc[t] \in Unit, HasSavepoint(conn, SavepointOf(t))
    PROVE  /\ InTransaction(conn) /\ Owner = t
           /\ conn.stack[1].name # SavepointOf(t)
<1> DEFINE i == SavepointIndex(conn, SavepointOf(t))
<1>1. i \in DOMAIN conn.stack /\ conn.stack[i].name = SavepointOf(t)
  BY SavepointFound
<1> HIDE DEF i
<1>2. SavepointOf(t) # "BEGIN"
  BY DEF SavepointOf
<1>3. SavepointOf(Owner) = SavepointOf(t)
  BY <1>1, <1>2 DEF Calm, Intact, OneTransaction
<1>4. InTransaction(conn)
  BY <1>1, ConnTyped DEF Calm, InTransaction
<1>5. StorageOf(Owner) = StorageOf(t)
  BY <1>3 DEF SavepointOf, StorageOf
<1>6. mutex[StorageOf(t)] = t
  BY StorageTyped DEF Calm, MutexesHeld, Holding
<1> QED
  BY <1>2, <1>4, <1>5, <1>6, CalmTransaction

(* Who reads a table under the mutex of its storage, or holding that mutex *)
(* itself outside of a unit of work, reads what is committed.              *)
LEMMA ReadsCommitted ==
    ASSUME Calm
    PROVE  /\ Free("users") => conn.view.users = conn.disk.users
           /\ Free("plugins") => conn.view.options = conn.disk.options
           /\ \A t \in Threads :
                  pc[t] = "readFields" => conn.view.options = conn.disk.options
<1>1. ASSUME conn.view.users # conn.disk.users
      PROVE  ~Free("users")
  <2>1. InTransaction(conn) /\ StorageOf(Owner) = "users"
    BY <1>1 DEF Calm, Intact, Uncommitted, StorageOf
  <2> QED
    BY <2>1, CalmTransaction, ThreadsAssumption DEF Free
<1>2. ASSUME conn.view.options # conn.disk.options
      PROVE  ~Free("plugins") /\ \A t \in Threads : pc[t] # "readFields"
  <2>1. InTransaction(conn) /\ StorageOf(Owner) = "plugins"
    BY <1>2 DEF Calm, Intact, Uncommitted, StorageOf
  <2>2. mutex["plugins"] = Owner /\ Owner \in Threads /\ pc[Owner] \in Unit
    BY <2>1, CalmTransaction
  <2>3. ASSUME NEW t \in Threads, pc[t] = "readFields"
        PROVE  FALSE
    <3>1. pc[t] \in StepsOf(req[t].kind)
      BY DEF Calm, Typed, ControlOK
    <3>2. StorageOf(t) = "plugins"
      BY <2>3, <3>1 DEF StepsOf, StorageOf, SignsUp, Unwinding
    <3>3. mutex["plugins"] = t
      BY <2>3, <3>2 DEF Calm, MutexesHeld, Holding, Storages
    <3> QED
      BY <2>2, <2>3, <3>3 DEF Unit, Body, SignUpBody, WriteBody, Unwinding
  <2> QED
    BY <2>2, <2>3, ThreadsAssumption DEF Free
<1> QED
  BY <1>1, <1>2

(* While a thread is in a body the others do not touch the connection. *)
LEMMA LeftAlone ==
    ASSUME Calm, Isolated', NEW t \in Threads, StepOf(t),
           NEW u \in Threads \ {t}, pc'[u] \in Body
    PROVE  conn' = conn
<1>1. pc[u] \in Body
  BY OthersStay DEF Calm
<1>2. InTransaction(conn) /\ Owner = u
  BY <1>1, CalmOwner
<1>3. ASSUME RollbackBy(t) PROVE FALSE
  <2>1. conn'.stack = <<>>
    BY <1>3, RollbackByStack DEF Calm
  <2>2. OwnsTransaction(u)'
    BY DEF Isolated
  <2> QED
    BY <2>1, <2>2 DEF OwnsTransaction, InTransaction
<1>4. pc[t] \notin Body
  BY <1>2, CalmOwner
<1>5. ASSUME pc[t] \in Unit PROVE ~HasSavepoint(conn, SavepointOf(t))
  BY <1>2, <1>5, CalmSavepoint
<1>6. CASE Receive(t)
  BY <1>6 DEF Receive, shared
<1>7. CASE SignUpStep(t)
  BY <1>4, <1>7 DEF SignUpStep, Handle, Lookup, Hash, InsertUser, ReadRowid, CreateJwt,
     shared, Body, SignUpBody
<1>8. CASE PluginStep(t)
  BY <1>4, <1>8 DEF PluginStep, Authenticate, ReadRow, ReadFields, SelectRow, SelectFields,
     UpsertOption, OptionId, DeleteFields, InsertField, shared, Body, WriteBody
<1>9. CASE BeginWork(t) \/ OpenSavepoint(t) \/ ReleaseSavepoint(t) \/ Commit(t)
  BY <1>2, <1>4, <1>9 DEF BeginWork, OpenSavepoint, ReleaseSavepoint, Commit, Body
<1>10. CASE RollbackToSavepoint(t) \/ ReleaseRolledBack(t)
  BY <1>5, <1>10 DEF RollbackToSavepoint, ReleaseRolledBack, Unit, Unwinding
<1>11. CASE Rollback(t) \/ ResetTx(t) \/ Unwind(t)
  BY <1>3, <1>11 DEF Rollback, ResetTx, Unwind
<1>12. CASE FaultOutside(t) \/ FaultInside(t) \/ FaultInDestructor(t)
  BY <1>3, <1>12 DEF FaultOutside, FaultInside, FaultInDestructor, Throws
<1> QED
  BY <1>6, <1>7, <1>8, <1>9, <1>10, <1>11, <1>12 DEF StepOf, Run, UnitStep

-----------------------------------------------------------------------------
(* What the step of a thread does to the connection: nothing, or it begins *)
(* a transaction, goes on with its own, or ends one, and only a COMMIT of  *)
(* its own changes the committed database.                                 *)
Begins(t) ==
    /\ ~InTransaction(conn)
    /\ conn'.stack = <<Frame("BEGIN", t, conn.disk)>>
    /\ conn'.disk = conn.disk /\ conn'.view = conn.view

OwnTablesOnly(t) ==
    \/ SignsUp(t) /\ conn'.view.options = conn.view.options
    \/ ~SignsUp(t) /\ conn'.view.users = conn.view.users

Continues(t) ==
    /\ InTransaction(conn) /\ Owner = t
    /\ 1 \in DOMAIN conn.stack /\ 1 \in DOMAIN conn'.stack
    /\ \A i \in DOMAIN conn'.stack :
           conn'.stack[i] = IF i \in DOMAIN conn.stack THEN conn.stack[i]
                            ELSE Frame(SavepointOf(t), t, conn.disk)
    /\ conn'.disk = conn.disk
    /\ conn'.view \in {conn.view, conn.disk} \/ OwnTablesOnly(t)

Commits(t) ==
    /\ pc[t] = "commit" /\ InTransaction(conn) /\ Owner = t
    /\ conn'.disk = conn.view

Ends(t) ==
    /\ conn'.stack = <<>> /\ conn'.view = conn'.disk
    /\ conn'.disk = conn.disk \/ Commits(t)

Effect(t) == conn' = conn \/ Begins(t) \/ Continues(t) \/ Ends(t)

LEMMA RollbackEffect ==
    ASSUME Calm, NEW t \in Threads, RollbackBy(t)
    PROVE  Effect(t)
BY ConnTyped, EndedStack DEF Calm, RollbackBy, Effect, Ends

(* A write of the owner of the transaction. *)
LEMMA WriteEffect ==
    ASSUME Calm, NEW t \in Threads, pc[t] \in Body, NEW db,
           conn'.stack = conn.stack, conn'.view = db,
           conn'.disk = IF InTransaction(conn) THEN conn.disk ELSE db,
           \/ SignsUp(t) /\ db.options = conn.view.options
           \/ ~SignsUp(t) /\ db.users = conn.view.users
    PROVE  Continues(t)
BY CalmOwner DEF Continues, OwnTablesOnly

LEMMA InsertEffect ==
    ASSUME Calm, NEW t \in Threads, InsertUser(t)
    PROVE  Effect(t)
<1>1. conn \in Connections(Databases, DBFrames, 0 .. MaxId)
  BY ConnTyped DEF Calm
<1>2. pc[t] \in Body /\ SignsUp(t)
  <2>1. req[t] \in SignUps
    BY ServesSignUp DEF Calm, Typed, InsertUser, SignUpBody
  <2> QED
    BY <2>1 DEF SignUps, SignsUp, InsertUser, Body, SignUpBody
<1>3. CASE EmailTaken(conn.view.users, req[t].email)
  BY <1>3 DEF InsertUser, Effect
<1>4. CASE ~EmailTaken(conn.view.users, req[t].email)
  <2>1. PICK id \in Ids :
            conn' = [Written(conn, [conn.view EXCEPT !.users[req[t].email] = id])
                         EXCEPT !.rowid = id]
    BY <1>4 DEF InsertUser
  <2> DEFINE db == [conn.view EXCEPT !.users[req[t].email] = id]
  <2>2. db.options = conn.view.options
    BY <1>1 DEF Connections, Databases
  <2>3. /\ conn'.stack = conn.stack /\ conn'.view = db
        /\ conn'.disk = IF InTransaction(conn) THEN conn.disk ELSE db
    BY <1>1, <2>1 DEF Written, Connections
  <2> HIDE DEF db
  <2> QED
    BY <1>2, <2>2, <2>3, WriteEffect DEF Effect
<1> QED
  BY <1>3, <1>4

LEMMA RowEffect ==
    ASSUME Calm, NEW t \in Threads, UpsertOption(t) \/ DeleteFields(t) \/ InsertField(t)
    PROVE  Effect(t)
<1>1. conn \in Connections(Databases, DBFrames, 0 .. MaxId)
  BY ConnTyped DEF Calm
<1>2. pc[t] \in Body /\ ~SignsUp(t)
  <2>1. pc[t] \in WriteBody
    BY DEF UpsertOption, DeleteFields, InsertField, WriteBody
  <2>2. req[t] \in Writes
    BY <2>1, ServesWrite DEF Calm, Typed
  <2> QED
    BY <2>1, <2>2 DEF Writes, SignsUp, Body
<1>3. CASE conn' = conn
  BY <1>3 DEF Effect
<1>4. ASSUME NEW db, db.users = conn.view.users,
             conn' = Written(conn, db)
               \/ \E id : conn' = [Written(conn, db) EXCEPT !.rowid = id]
      PROVE  Effect(t)
  <2>1. /\ conn'.stack = conn.stack /\ conn'.view = db
        /\ conn'.disk = IF InTransaction(conn) THEN conn.disk ELSE db
    BY <1>1, <1>4 DEF Written, Connections
  <2> QED
    BY <1>2, <1>4, <2>1, WriteEffect DEF Effect
<1>5. CASE UpsertOption(t)
  <2> DEFINE db == [conn.view EXCEPT !.options[KeyOf(t)].flags = req[t].payload]
  <2>1. db.users = conn.view.users
    BY <1>1 DEF Connections, Databases
  <2>2. \E id : conn' = [Written(conn, db) EXCEPT !.rowid = id]
    BY <1>5 DEF UpsertOption
  <2> HIDE DEF db
  <2> QED
    BY <1>4, <2>1, <2>2
<1>6. CASE DeleteFields(t)
  <2> DEFINE db == [conn.view EXCEPT !.options[KeyOf(t)].fields = EmptyRow.fields]
  <2>1. db.users = conn.view.users
    BY <1>1 DEF Connections, Databases
  <2>2. conn' = Written(conn, db)
    BY <1>6 DEF DeleteFields
  <2> HIDE DEF db
  <2> QED
    BY <1>4, <2>1, <2>2
<1>7. CASE InsertField(t)
  <2> SUFFICES ASSUME conn' # conn PROVE Effect(t)
    BY <1>3
  <2>1. PICK k \in todo[t] :
            conn' = [Written(conn, [conn.view EXCEPT
                                        !.options[KeyOf(t)].fields[k] = req[t].payload])
                         EXCEPT !.rowid = PluginRowid]
    BY <1>7 DEF InsertField
  <2> DEFINE db == [conn.view EXCEPT !.options[KeyOf(t)].fields[k] = req[t].payload]
  <2>2. db.users = conn.view.users
    BY <1>1 DEF Connections, Databases
  <2>3. conn' = [Written(conn, db) EXCEPT !.rowid = PluginRowid]
    BY <2>1
  <2> HIDE DEF db
  <2> QED
    BY <1>4, <2>2, <2>3
<1> QED
  BY <1>5, <1>6, <1>7

LEMMA SavepointEffect ==
    ASSUME Calm, NEW t \in Threads, OpenSavepoint(t)
    PROVE  Effect(t)
<1>1. pc[t] \in Body /\ conn' = SavepointOpened(conn, SavepointOf(t), t)
  BY DEF OpenSavepoint, Body
<1>2. InTransaction(conn) /\ Owner = t /\ 1 \in DOMAIN conn.stack
  BY <1>1, CalmOwner
<1>3. conn.view = conn.disk
  BY DEF Calm, Intact, WorkDone, OpenSavepoint, Unwritten
<1>4. /\ Len(conn.stack) \in Nat /\ DOMAIN conn.stack = 1 .. Len(conn.stack)
      /\ Len(conn'.stack) = Len(conn.stack) + 1
      /\ DOMAIN conn'.stack = 1 .. Len(conn'.stack)
      /\ \A j \in 1 .. Len(conn.stack) : conn'.stack[j] = conn.stack[j]
      /\ conn'.stack[Len(conn'.stack)] = Frame(SavepointOf(t), t, conn.disk)
      /\ conn'.disk = conn.disk
      /\ conn'.view = conn.view
  BY <1>1, <1>3, ConnTyped, SavepointOpenedStack DEF Calm
<1> QED
  BY <1>2, <1>4 DEF Effect, Continues

(* ROLLBACK TO and RELEASE: the savepoint is the thread's own, and not the *)
(* outermost frame.                                                        *)
LEMMA ReleaseEffect ==
    ASSUME Calm, NEW t \in Threads, pc[t] \in Unit, HasSavepoint(conn, SavepointOf(t)),
           conn' = Released(conn, SavepointOf(t))
    PROVE  Continues(t) /\ conn'.view = conn.view
<1>1. InTransaction(conn) /\ Owner = t /\ conn.stack[1].name # SavepointOf(t)
  BY CalmSavepoint
<1>2. /\ Len(conn'.stack) \in 1 .. Len(conn.stack)
      /\ DOMAIN conn'.stack = 1 .. Len(conn'.stack)
      /\ \A j \in 1 .. Len(conn'.stack) : conn'.stack[j] = conn.stack[j]
      /\ conn'.view = conn.view /\ conn'.disk = conn.disk
  <2>1. Len(conn'.stack) \in 0 .. Len(conn.stack) /\ Len(conn'.stack) > 0
    BY <1>1, ConnTyped, ReleasedStack DEF Calm
  <2>2. /\ DOMAIN conn'.stack = 1 .. Len(conn'.stack)
        /\ \A j \in 1 .. Len(conn'.stack) : conn'.stack[j] = conn.stack[j]
        /\ conn'.view = conn.view /\ conn'.disk = conn.disk
    BY <1>1, ConnTyped, ReleasedStack DEF Calm
  <2>3. Len(conn.stack) \in Nat
    BY ConnTyped DEF Calm
  <2> QED
    BY <2>1, <2>2, <2>3
<1>3. DOMAIN conn.stack = 1 .. Len(conn.stack) /\ Len(conn.stack) \in Nat
  BY ConnTyped DEF Calm
<1> QED
  BY <1>1, <1>2, <1>3 DEF Continues

LEMMA RollbackToEffect ==
    ASSUME Calm, NEW t \in Threads, pc[t] \in Unit, HasSavepoint(conn, SavepointOf(t)),
           conn' = RolledBackTo(conn, SavepointOf(t))
    PROVE  Continues(t) /\ conn'.view = conn.disk
<1>1. InTransaction(conn) /\ Owner = t
  BY CalmSavepoint
<1>2. /\ Len(conn'.stack) \in 1 .. Len(conn.stack)
      /\ DOMAIN conn'.stack = 1 .. Len(conn'.stack)
      /\ \A j \in 1 .. Len(conn'.stack) : conn'.stack[j] = conn.stack[j]
      /\ conn'.disk = conn.disk
  BY ConnTyped, RolledBackToStack DEF Calm
<1>3. DOMAIN conn.stack = 1 .. Len(conn.stack) /\ Len(conn.stack) \in Nat
  BY ConnTyped DEF Calm
<1>4. conn'.view = conn.stack[SavepointIndex(conn, SavepointOf(t))].image
  BY ConnTyped DEF Calm, RolledBackTo, Connections
<1>5. conn'.view = conn.disk
  BY <1>4, SavepointFound DEF Calm, Intact, OneTransaction
<1> QED
  BY <1>1, <1>2, <1>3, <1>5 DEF Continues

LEMMA StepEffect ==
    ASSUME Calm, NEW t \in Threads, StepOf(t)
    PROVE  Effect(t)
<1>1. CASE Receive(t)
  BY <1>1 DEF Receive, Effect, shared
<1>2. CASE SignUpStep(t)
  BY <1>2, InsertEffect DEF SignUpStep, Handle, Lookup, Hash, ReadRowid, CreateJwt,
     Effect, shared
<1>3. CASE PluginStep(t)
  BY <1>3, RowEffect DEF PluginStep, Authenticate, ReadRow, ReadFields, SelectRow,
     SelectFields, OptionId, Effect, shared
<1>4. CASE BeginWork(t)
  BY <1>4, ConnTyped, BegunStack DEF Calm, BeginWork, Effect, Begins
<1>5. CASE ReleaseSavepoint(t) \/ ReleaseRolledBack(t)
  BY <1>5, ReleaseEffect DEF ReleaseSavepoint, ReleaseRolledBack, Unit, Body, Unwinding,
     Effect
<1>6. CASE RollbackToSavepoint(t)
  BY <1>6, RollbackToEffect DEF RollbackToSavepoint, Unit, Unwinding, Effect
<1>7. CASE Commit(t)
  <2>1. pc[t] = "commit" /\ InTransaction(conn) /\ Owner = t
    BY <1>7, CalmOwner DEF Commit, Body
  <2>2. conn' = Committed(conn)
    BY <1>7, <2>1 DEF Commit
  <2> QED
    BY <2>1, <2>2, ConnTyped, EndedStack DEF Calm, Effect, Ends, Commits
<1>8. CASE Rollback(t) \/ ResetTx(t) \/ Unwind(t)
  BY <1>8, RollbackEffect DEF Rollback, ResetTx, Unwind, Effect
<1>9. CASE FaultOutside(t) \/ FaultInside(t) \/ FaultInDestructor(t)
  BY <1>9, RollbackEffect DEF FaultOutside, FaultInside, FaultInDestructor, Throws, Effect
<1> QED
  BY <1>1, <1>2, <1>3, <1>4, <1>5, <1>6, <1>7, <1>8, <1>9, SavepointEffect
     DEF StepOf, Run, UnitStep

-----------------------------------------------------------------------------
(* The part of the invariant that is about the connection alone. *)
LEMMA OwnerInUnit ==
    ASSUME Calm, InTransaction(conn)
    PROVE  \E u \in Threads : u = Owner /\ pc[u] # "idle" /\ pc[u] \in Unit
BY CalmTransaction DEF Unit, Body, SignUpBody, WriteBody, Unwinding

LEMMA ConnectionKept ==
    ASSUME Calm, NEW t \in Threads, StepOf(t), FramesOwned', Typed'
    PROVE  OneTransaction' /\ Uncommitted'
<1> USE DEF Unit, Body, SignUpBody, WriteBody, Unwinding
<1>0. OneTransaction /\ Uncommitted
  BY DEF Calm, Intact
<1>1. ASSUME NEW u \in Threads, pc[u] # "idle", 1 \in DOMAIN conn'.stack,
             conn'.stack[1].by = u
      PROVE  /\ SignsUp(u)' <=> SignsUp(u)
             /\ SavepointOf(u)' = SavepointOf(u)
  <2>1. pc'[u] \in Unit
    BY <1>1 DEF FramesOwned
  <2> QED
    BY <1>1, <2>1, RequestStays DEF Calm
<1>2. CASE conn' = conn
  <2>1. CASE InTransaction(conn)
    <3>1. PICK u \in Threads : u = Owner /\ pc[u] # "idle"
      BY <2>1, OwnerInUnit
    <3>2. 1 \in DOMAIN conn.stack
      BY <2>1, CalmTransaction
    <3>3. /\ SignsUp(u)' <=> SignsUp(u)
          /\ SavepointOf(u)' = SavepointOf(u)
      BY <1>1, <1>2, <3>1, <3>2 DEF Owner
    <3>4. Owner' = u
      BY <1>2, <3>1 DEF Owner
    <3>5. SavepointOf(Owner)' = SavepointOf(Owner) /\ (SignsUp(Owner)' <=> SignsUp(Owner))
      BY <3>1, <3>3, <3>4 DEF SignsUp, SavepointOf
    <3> QED
      BY <1>0, <1>2, <3>1, <3>4, <3>5 DEF OneTransaction, Uncommitted, InTransaction
  <2>2. CASE ~InTransaction(conn)
    BY <1>0, <1>2, <2>2 DEF OneTransaction, Uncommitted, InTransaction
  <2> QED
    BY <2>1, <2>2
<1>3. CASE Begins(t)
  <2>1. conn'.view.users = conn.disk.users /\ conn'.view.options = conn.disk.options
    BY <1>0, <1>3 DEF Begins, Uncommitted
  <2>2. Uncommitted'
    BY <1>3, <2>1 DEF Begins, Uncommitted
  <2> QED
    BY <1>3, <2>2 DEF Begins, OneTransaction, Owner, Frame
<1>4. CASE Continues(t)
  <2>1. pc[t] # "idle"
    BY <1>4, CalmTransaction DEF Continues
  <2>2. Owner = t /\ Owner' = t /\ 1 \in DOMAIN conn'.stack /\ InTransaction(conn')
    BY <1>4 DEF Continues, Owner, InTransaction
  <2>3. /\ SignsUp(t)' <=> SignsUp(t)
        /\ SavepointOf(t)' = SavepointOf(t)
    BY <1>1, <2>1, <2>2 DEF Owner
  <2>4. OneTransaction'
    <3> SUFFICES ASSUME NEW i \in DOMAIN conn'.stack
                 PROVE  /\ conn'.stack[i].by = t
                        /\ conn'.stack[i].name = IF i = 1 THEN "BEGIN" ELSE SavepointOf(t)
                        /\ conn'.stack[i].image = conn.disk
      BY <1>4, <2>2, <2>3 DEF OneTransaction, Continues, SavepointOf, SignsUp
    <3>1. CASE i \in DOMAIN conn.stack
      BY <1>0, <1>4, <2>2, <3>1 DEF OneTransaction, Continues
    <3>2. CASE i \notin DOMAIN conn.stack
      BY <1>4, <3>2 DEF Continues, Frame
    <3> QED
      BY <3>1, <3>2
  <2>5. /\ conn'.view.users # conn.disk.users => SignsUp(t)
        /\ conn'.view.options # conn.disk.options => ~SignsUp(t)
    BY <1>0, <1>4, <2>2 DEF Uncommitted, Continues, OwnTablesOnly
  <2>6. conn'.disk = conn.disk
    BY <1>4 DEF Continues
  <2>7. SignsUp(Owner)' <=> SignsUp(t)
    BY <2>2, <2>3 DEF SignsUp
  <2> QED
    BY <2>2, <2>4, <2>5, <2>6, <2>7 DEF Uncommitted
<1>5. CASE Ends(t)
  BY <1>5 DEF Ends, OneTransaction, Uncommitted
<1> QED
  BY <1>2, <1>3, <1>4, <1>5, StepEffect DEF Effect

-----------------------------------------------------------------------------
(* What a unit of work has written. *)
LEMMA WorkOfOthers ==
    ASSUME Calm, Isolated', NEW t \in Threads, StepOf(t), NEW u \in Threads \ {t}
    PROVE  WorkDone(u)'
<1>1. pc'[u] = pc[u] /\ req'[u] = req[u] /\ account'[u] = account[u] /\ todo'[u] = todo[u]
  BY OthersStay, OthersKeep DEF Calm
<1>2. WorkDone(u)
  BY DEF Calm, Intact
<1>3. CASE pc'[u] \in Body
  <2>1. conn' = conn
    BY <1>3, LeftAlone
  <2> QED
    BY <1>1, <1>2, <2>1 DEF WorkDone, UserAdded, RowWritten, FieldsWritten, KeyOf, SignsUp
<1>4. CASE pc'[u] \notin Body
  BY <1>4 DEF WorkDone, Unwritten, Body, SignUpBody, WriteBody
<1> QED
  BY <1>3, <1>4

(* A step that leads to no statement of a body. *)
LEMMA WorkElsewhere ==
    ASSUME NEW t, pc'[t] \notin Body
    PROVE  WorkDone(t)'
BY DEF WorkDone, Unwritten, Body, SignUpBody, WriteBody

LEMMA ReadsAsCommitted ==
    ASSUME Calm, conn.view.users = conn.disk.users, conn.view.options = conn.disk.options
    PROVE  conn.view = conn.disk
<1>1. conn \in Connections(Databases, DBFrames, 0 .. MaxId)
  BY ConnTyped DEF Calm
<1>2. conn.view \in Databases /\ conn.disk \in Databases
  BY <1>1 DEF Connections
<1> QED
  BY <1>2 DEF Databases

LEMMA InsertDone ==
    ASSUME Calm, NEW t \in Threads, InsertUser(t)
    PROVE  WorkDone(t)'
<1>0. pc \in [Threads -> Steps] /\ conn \in Connections(Databases, DBFrames, 0 .. MaxId)
  BY ConnTyped DEF Calm, Typed, LocalType
<1>1. pc[t] = "insert" /\ conn.view = conn.disk /\ InTransaction(conn)
  BY CalmOwner DEF Calm, Intact, WorkDone, InsertUser, Unwritten, Body, SignUpBody
<1>2. CASE EmailTaken(conn.view.users, req[t].email)
  <2>1. pc'[t] = "rollbackTo"
    BY <1>0, <1>2 DEF InsertUser, Goto
  <2> QED
    BY <2>1, WorkElsewhere DEF Body, SignUpBody, WriteBody
<1>3. CASE ~EmailTaken(conn.view.users, req[t].email)
  <2>1. PICK id \in Ids :
            /\ NextRowid(conn.view.users, id)
            /\ conn' = [Written(conn, [conn.view EXCEPT !.users[req[t].email] = id])
                            EXCEPT !.rowid = id]
    BY <1>3 DEF InsertUser
  <2>2. /\ conn'.view.users = [conn.disk.users EXCEPT ![req[t].email] = id]
        /\ conn'.disk = conn.disk /\ conn'.rowid = id
    BY <1>0, <1>1, <2>1 DEF Written, Connections, Databases
  <2>3. pc'[t] = "rowid" /\ req' = req
    BY <1>0, <1>3 DEF InsertUser, Goto
  <2>4. conn.disk.users[req[t].email] = 0 /\ NextRowid(conn.disk.users, id)
    BY <1>1, <1>3, <2>1 DEF EmailTaken
  <2>5. UserAdded(t, conn.rowid)'
    BY <2>2, <2>3, <2>4 DEF UserAdded, NextRowid
  <2> QED
    BY <2>3, <2>5 DEF WorkDone, Unwritten
<1> QED
  BY <1>2, <1>3

LEMMA ReadRowidDone ==
    ASSUME Calm, NEW t \in Threads, ReadRowid(t)
    PROVE  WorkDone(t)'
<1>0. pc \in [Threads -> Steps] /\ account \in [Threads -> 0 .. MaxId]
  BY DEF Calm, Typed, LocalType
<1>1. UserAdded(t, conn.rowid)
  BY DEF Calm, Intact, WorkDone, ReadRowid
<1>2. /\ conn' = conn /\ req' = req /\ account'[t] = conn.rowid
      /\ pc'[t] = "release"
  BY <1>0 DEF ReadRowid, Goto, shared
<1>3. SignsUp(t)'
  <2>1. req[t] \in SignUps
    BY ServesSignUp DEF Calm, Typed, ReadRowid, SignUpBody
  <2> QED
    BY <1>2, <2>1 DEF SignUps, SignsUp
<1>4. UserAdded(t, account[t])'
  BY <1>1, <1>2 DEF UserAdded, NextRowid
<1> QED
  BY <1>2, <1>3, <1>4 DEF WorkDone, Unwritten

LEMMA UpsertDone ==
    ASSUME Calm, NEW t \in Threads, UpsertOption(t)
    PROVE  WorkDone(t)'
<1>0. pc \in [Threads -> Steps] /\ conn \in Connections(Databases, DBFrames, 0 .. MaxId)
  BY ConnTyped DEF Calm, Typed, LocalType
<1>1. pc[t] = "upsert" /\ conn.view = conn.disk /\ InTransaction(conn)
  BY CalmOwner DEF Calm, Intact, WorkDone, UpsertOption, Unwritten, Body, WriteBody
<1>2. KeyOf(t) \in Keys
  BY <1>1, ServesWrite DEF Calm, Typed, WriteBody
<1>3. pc'[t] \in {"optionid", "delete"} /\ req' = req
  BY <1>0 DEF UpsertOption, Goto
<1>4. /\ conn'.view.options =
             [conn.disk.options EXCEPT ![KeyOf(t)].flags = req[t].payload]
      /\ conn'.disk = conn.disk
  BY <1>0, <1>1 DEF UpsertOption, Written, Connections, Databases
<1>5. RowWritten(t, [conn.disk.options[KeyOf(t)] EXCEPT !.flags = req[t].payload])'
  BY <1>2, <1>3, <1>4 DEF RowWritten, KeyOf
<1> QED
  BY <1>3, <1>5 DEF WorkDone, Unwritten

(* After the DELETE the row has the new flags and no field. *)
LEMMA DeleteDone ==
    ASSUME Calm, NEW t \in Threads, DeleteFields(t)
    PROVE  WorkDone(t)'
<1>0. /\ pc \in [Threads -> Steps] /\ todo \in [Threads -> SUBSET FieldKeys]
      /\ conn \in Connections(Databases, DBFrames, 0 .. MaxId)
  BY ConnTyped DEF Calm, Typed, LocalType
<1>1. pc[t] = "delete" /\ InTransaction(conn)
  BY CalmOwner DEF DeleteFields, Body, WriteBody
<1>2. KeyOf(t) \in Keys /\ req[t].kind = "post" /\ req[t].payload \in Payloads
  BY <1>1, ServesWrite DEF Calm, Typed, WriteBody, Writes
<1> DEFINE fs == FieldsOf[req[t].payload]
<1>3. /\ conn.view.options =
             [conn.disk.options EXCEPT ![KeyOf(t)] =
                 [conn.disk.options[KeyOf(t)] EXCEPT !.flags = req[t].payload]]
      /\ conn.disk.options \in [Keys -> Rows]
  BY <1>0, <1>1 DEF Calm, Intact, WorkDone, RowWritten, Connections, Databases
<1>4. /\ conn'.view.options =
             [conn.view.options EXCEPT ![KeyOf(t)].fields = EmptyRow.fields]
      /\ conn'.disk = conn.disk
  BY <1>0, <1>1 DEF DeleteFields, Written, Connections, Databases
<1>5. conn'.view.options =
          [conn.disk.options EXCEPT ![KeyOf(t)] = FieldsWritten(t, {})]
  <2>1. conn.view.options[KeyOf(t)] =
            [conn.disk.options[KeyOf(t)] EXCEPT !.flags = req[t].payload]
    BY <1>2, <1>3
  <2>2. [conn.view.options[KeyOf(t)] EXCEPT !.fields = EmptyRow.fields] = FieldsWritten(t, {})
    BY <1>2, <1>3, <2>1 DEF Rows, FieldsWritten, EmptyRow
  <2>3. conn'.view.options =
            [conn.view.options EXCEPT ![KeyOf(t)] = FieldsWritten(t, {})]
    BY <1>4, <2>2
  <2> QED
    BY <1>2, <1>3, <2>3
<1>6. /\ req' = req /\ todo'[t] = fs
      /\ pc'[t] = IF fs = {} THEN "release" ELSE "field"
  BY <1>0 DEF DeleteFields, Goto
<1>7. RowWritten(t, FieldsWritten(t, {}))'
  BY <1>4, <1>5, <1>6 DEF RowWritten, FieldsWritten, KeyOf
<1>8. CASE fs = {}
  <2>1. FieldsWritten(t, {}) = RowOf(req[t].payload)
    BY <1>8 DEF FieldsWritten, RowOf
  <2>2. RowWritten(t, RowOf(req[t].payload))'
    BY <1>6, <1>7, <2>1 DEF RowWritten, FieldsWritten, KeyOf
  <2>3. ~SignsUp(t)'
    BY <1>2, <1>6 DEF SignsUp
  <2> QED
    BY <1>6, <1>8, <2>2, <2>3 DEF WorkDone, Unwritten
<1>9. CASE fs # {}
  <2>1. FieldsWritten(t, fs \ todo[t])' = FieldsWritten(t, {})'
    BY <1>6 DEF FieldsWritten
  <2> QED
    BY <1>6, <1>7, <1>9, <2>1 DEF WorkDone, Unwritten
<1> QED
  BY <1>8, <1>9

(* An INSERT of a field adds it to those that are there. *)
LEMMA FieldDone ==
    ASSUME Calm, NEW t \in Threads, InsertField(t)
    PROVE  WorkDone(t)'
<1>0. /\ pc \in [Threads -> Steps] /\ todo \in [Threads -> SUBSET FieldKeys]
      /\ conn \in Connections(Databases, DBFrames, 0 .. MaxId)
  BY ConnTyped DEF Calm, Typed, LocalType
<1>1. pc[t] = "field" /\ InTransaction(conn)
  BY CalmOwner DEF InsertField, Body, WriteBody
<1>2. KeyOf(t) \in Keys /\ req[t].kind = "post" /\ req[t].payload \in Payloads
  BY <1>1, ServesWrite DEF Calm, Typed, WriteBody, Writes
<1> DEFINE fs == FieldsOf[req[t].payload]
<1>3. /\ conn.view.options =
             [conn.disk.options EXCEPT ![KeyOf(t)] = FieldsWritten(t, fs \ todo[t])]
      /\ conn.disk.options \in [Keys -> Rows]
      /\ todo[t] \subseteq fs /\ fs \subseteq FieldKeys
  BY <1>0, <1>1, <1>2, DataAssumption
     DEF Calm, Intact, WorkDone, RowWritten, Connections, Databases
<1>4. PICK k \in todo[t] :
          LET row == conn.view.options[KeyOf(t)]
          IN  IF row.flags = NoPayload \/ row.fields[k] # NoPayload
              THEN Goto(t, "rollbackTo") /\ UNCHANGED <<conn, todo>>
              ELSE /\ conn' = [Written(conn, [conn.view EXCEPT
                                      !.options[KeyOf(t)].fields[k] = req[t].payload])
                                   EXCEPT !.rowid = PluginRowid]
                   /\ todo' = [todo EXCEPT ![t] = @ \ {k}]
                   /\ Goto(t, IF todo[t] = {k} THEN "release" ELSE "field")
  BY DEF InsertField
<1> DEFINE row == conn.view.options[KeyOf(t)]
<1>5. CASE row.flags = NoPayload \/ row.fields[k] # NoPayload
  <2>1. pc'[t] = "rollbackTo"
    BY <1>0, <1>4, <1>5 DEF Goto
  <2> QED
    BY <2>1, WorkElsewhere DEF Body, SignUpBody, WriteBody
<1>6. CASE ~(row.flags = NoPayload \/ row.fields[k] # NoPayload)
  <2>1. /\ conn' = [Written(conn, [conn.view EXCEPT
                                      !.options[KeyOf(t)].fields[k] = req[t].payload])
                        EXCEPT !.rowid = PluginRowid]
        /\ todo'[t] = todo[t] \ {k}
        /\ pc'[t] = IF todo[t] = {k} THEN "release" ELSE "field"
    BY <1>0, <1>4, <1>6 DEF Goto
  <2>2. /\ conn'.view.options =
               [conn.view.options EXCEPT ![KeyOf(t)].fields[k] = req[t].payload]
        /\ conn'.disk = conn.disk
    BY <1>0, <1>1, <2>1 DEF Written, Connections, Databases
  <2>3. row = FieldsWritten(t, fs \ todo[t])
    BY <1>2, <1>3
  <2>4. [row EXCEPT !.fields[k] = req[t].payload] = FieldsWritten(t, fs \ (todo[t] \ {k}))
    BY <1>3, <1>4, <2>3 DEF FieldsWritten
  <2>5. conn'.view.options =
            [conn.disk.options EXCEPT ![KeyOf(t)] = FieldsWritten(t, fs \ (todo[t] \ {k}))]
    <3>1. conn'.view.options =
              [conn.view.options EXCEPT ![KeyOf(t)] = FieldsWritten(t, fs \ (todo[t] \ {k}))]
      BY <2>2, <2>4
    <3> QED
      BY <1>2, <1>3, <3>1
  <2>6. req' = req
    BY DEF InsertField
  <2>7. RowWritten(t, FieldsWritten(t, fs \ todo[t]))'
    BY <2>1, <2>2, <2>5, <2>6 DEF RowWritten, FieldsWritten, KeyOf
  <2>8. CASE todo[t] = {k}
    <3>1. fs \ (todo[t] \ {k}) = fs
      BY <2>8
    <3>2. FieldsWritten(t, fs) = RowOf(req[t].payload)
      BY DEF FieldsWritten, RowOf
    <3>3. RowWritten(t, RowOf(req[t].payload))'
      BY <2>2, <2>5, <2>6, <3>1, <3>2 DEF RowWritten, KeyOf
    <3>4. ~SignsUp(t)'
      BY <1>2, <2>6 DEF SignsUp
    <3> QED
      BY <2>1, <2>8, <3>3, <3>4 DEF WorkDone, Unwritten
  <2>9. CASE todo[t] # {k}
    BY <1>3, <2>1, <2>6, <2>7, <2>9 DEF WorkDone, Unwritten
  <2> QED
    BY <2>8, <2>9
<1> QED
  BY <1>5, <1>6

(* Statements that leave what is read: the work done stays. *)
LEMMA UnitStepDone ==
    ASSUME Calm, NEW t \in Threads, UnitStep(t)
    PROVE  WorkDone(t)'
<1> USE DEF Body, SignUpBody, WriteBody
<1>0. pc \in [Threads -> Steps]
  BY DEF Calm, Typed, LocalType
<1>a. WorkDone(t)
  BY DEF Calm, Intact
<1>1. CASE BeginWork(t)
  <2>1. CASE InTransaction(conn)
    BY <1>0, <1>1, <2>1, WorkElsewhere DEF BeginWork, Answer, Reply, Goto
  <2>2. CASE ~InTransaction(conn)
    <3>1. conn.view = conn.disk
      BY <2>2, ReadsAsCommitted DEF Calm, Intact, Uncommitted
    <3>2. conn'.view = conn'.disk
      BY <1>1, <2>2, <3>1, ConnTyped, BegunStack DEF Calm, BeginWork
    <3>3. pc'[t] \in Unwritten
      BY <1>0, <1>1, <2>2 DEF BeginWork, Goto, Unwritten
    <3> QED
      BY <3>2, <3>3 DEF WorkDone, Unwritten
  <2> QED
    BY <2>1, <2>2
<1>2. CASE OpenSavepoint(t)
  <2>1. conn.view = conn.disk
    BY <1>a, <1>2 DEF WorkDone, OpenSavepoint, Unwritten
  <2>2. conn'.view = conn'.disk
    BY <1>2, <2>1, ConnTyped, SavepointOpenedStack DEF Calm, OpenSavepoint
  <2>3. pc'[t] \in {"insert", "upsert"}
    BY <1>0, <1>2 DEF OpenSavepoint, Goto
  <2> QED
    BY <2>2, <2>3 DEF WorkDone, Unwritten
<1>3. CASE ReleaseSavepoint(t)
  <2>1. CASE HasSavepoint(conn, SavepointOf(t))
    <3>1. /\ conn'.view = conn.view /\ conn'.disk = conn.disk
          /\ pc[t] = "release" /\ pc'[t] = "commit"
          /\ req' = req /\ account' = account
      BY <1>0, <1>3, <2>1, ReleaseEffect DEF ReleaseSavepoint, Goto, Unit, Continues
    <3> QED
      BY <1>a, <3>1 DEF WorkDone, Unwritten, UserAdded, RowWritten, KeyOf, SignsUp
  <2>2. CASE ~HasSavepoint(conn, SavepointOf(t))
    BY <1>0, <1>3, <2>2, WorkElsewhere DEF ReleaseSavepoint, Goto
  <2> QED
    BY <2>1, <2>2
<1>4. CASE Commit(t) \/ Rollback(t) \/ ResetTx(t) \/ Unwind(t)
  BY <1>0, <1>4, WorkElsewhere DEF Commit, Rollback, ResetTx, Unwind, Answer, Reply, Goto
<1>5. CASE RollbackToSavepoint(t) \/ ReleaseRolledBack(t)
  BY <1>0, <1>5, WorkElsewhere DEF RollbackToSavepoint, ReleaseRolledBack, AfterGuard, Goto
<1> QED
  BY <1>1, <1>2, <1>3, <1>4, <1>5 DEF UnitStep

LEMMA WorkOfOwn ==
    ASSUME Calm, NEW t \in Threads, StepOf(t)
    PROVE  WorkDone(t)'
<1> USE DEF Body, SignUpBody, WriteBody
<1>0. pc \in [Threads -> Steps]
  BY DEF Calm, Typed, LocalType
<1>a. WorkDone(t)
  BY DEF Calm, Intact
<1>1. CASE Receive(t) \/ FaultOutside(t) \/ FaultInside(t) \/ FaultInDestructor(t)
  BY <1>0, <1>1, WorkElsewhere
     DEF Receive, FaultOutside, FaultInside, FaultInDestructor, AfterGuard, Guarded,
         Answer, Reply, Goto
<1>2. CASE Handle(t) \/ Lookup(t) \/ CreateJwt(t)
  BY <1>0, <1>2, WorkElsewhere DEF Handle, Lookup, CreateJwt, Answer, Reply, Goto
<1>3. CASE Authenticate(t) \/ ReadRow(t) \/ ReadFields(t)
  BY <1>0, <1>3, WorkElsewhere DEF Authenticate, ReadRow, ReadFields, Answer, Reply, Goto
<1>4. CASE Hash(t) \/ SelectRow(t) \/ SelectFields(t)
  <2>1. conn' = conn /\ conn.view = conn.disk
    BY <1>a, <1>4 DEF Hash, SelectRow, SelectFields, WorkDone, Unwritten, shared
  <2>2. pc'[t] \in {"savepoint", "fields", "rollback"}
    BY <1>0, <1>4 DEF Hash, SelectRow, SelectFields, Goto
  <2> QED
    BY <2>1, <2>2 DEF WorkDone, Unwritten
<1>5. CASE OptionId(t)
  <2>1. conn' = conn /\ req' = req /\ pc[t] = "optionid" /\ pc'[t] \in {"delete", "rollbackTo"}
    BY <1>0, <1>5 DEF OptionId, Goto, shared
  <2> QED
    BY <1>a, <2>1 DEF WorkDone, Unwritten, RowWritten, KeyOf
<1> QED
  BY <1>1, <1>2, <1>3, <1>4, <1>5, InsertDone, ReadRowidDone, UpsertDone, DeleteDone,
     FieldDone, UnitStepDone DEF StepOf, Run, SignUpStep, PluginStep

-----------------------------------------------------------------------------
(* What a COMMIT makes of the committed database. *)
UserCommitted(t) ==
    /\ SignsUp(t) /\ UserAdded(t, account[t])
    /\ conn'.disk.users = [conn.disk.users EXCEPT ![req[t].email] = account[t]]
    /\ conn'.disk.options = conn.disk.options

RowCommitted(t) ==
    /\ req[t] \in Writes /\ KeyOf(t) \in Keys
    /\ conn'.disk.users = conn.disk.users
    /\ conn'.disk.options = [conn.disk.options EXCEPT ![KeyOf(t)] = RowOf(req[t].payload)]

LEMMA CommitDone ==
    ASSUME Calm, NEW t \in Threads, Commits(t)
    PROVE  UserCommitted(t) \/ RowCommitted(t)
<1>1. WorkDone(t) /\ Uncommitted /\ pc[t] \in StepsOf(req[t].kind)
  BY DEF Calm, Typed, ControlOK, Intact
<1>2. req[t] \in SignUps \cup Writes \cup Reads \cup {NoRequest}
  BY DEF Calm, Typed, LocalType, Requests
<1>3. req[t].kind \in {"google", "register", "post"}
  BY <1>1, <1>2 DEF Commits, StepsOf, Unwinding, SignUps, Writes, Reads, NoRequest
<1>4. CASE SignsUp(t)
  BY <1>1, <1>4 DEF Commits, WorkDone, Uncommitted, UserCommitted, UserAdded
<1>5. CASE ~SignsUp(t)
  <2>1. req[t].kind = "post"
    BY <1>3, <1>5 DEF SignsUp
  <2>2. req[t] \in Writes
    BY <1>2, <2>1 DEF SignUps, Writes, Reads, NoRequest
  <2>3. KeyOf(t) \in Keys
    BY <2>1, <2>2 DEF Calm, Typed, ControlOK, Commits, Writes, KeyOf, Keys
  <2> QED
    BY <1>1, <1>5, <2>2, <2>3 DEF Commits, WorkDone, Uncommitted, RowCommitted, RowWritten
<1> QED
  BY <1>4, <1>5

LEMMA DiskChanges ==
    ASSUME Calm, NEW t \in Threads, StepOf(t)
    PROVE  conn'.disk = conn.disk \/ Commits(t)
BY StepEffect DEF Effect, Begins, Continues, Ends

(* Rows stay whole in the committed database. *)
LEMMA WholeOptionsKept ==
    ASSUME Calm, NEW t \in Threads, StepOf(t)
    PROVE  WholeOptions'
<1>1. WholeOptions /\ conn.disk \in Databases
  BY ConnTyped DEF Calm, Intact, Connections
<1>2. CASE conn'.disk = conn.disk
  BY <1>1, <1>2 DEF WholeOptions
<1>3. CASE UserCommitted(t)
  BY <1>1, <1>3 DEF WholeOptions, UserCommitted
<1>4. CASE RowCommitted(t)
  <2>1. Whole(RowOf(req[t].payload))
    BY <1>4 DEF RowCommitted, Writes, Whole
  <2> SUFFICES ASSUME NEW k \in Keys
               PROVE  Whole(conn'.disk.options[k])
    BY DEF WholeOptions
  <2>2. conn'.disk.options[k] \in {conn.disk.options[k], RowOf(req[t].payload)}
    BY <1>1, <1>4 DEF RowCommitted, Databases
  <2> QED
    BY <1>1, <2>1, <2>2 DEF WholeOptions
<1> QED
  BY <1>2, <1>3, <1>4, DiskChanges, CommitDone

-----------------------------------------------------------------------------
(* Ids: those that were given out stay true because no user is ever lost,  *)
(* and those that are given out now are read from the committed database.  *)
NewlyIssued(t) ==
    \/ issued' = issued
    \/ /\ \/ CreateJwt(t)
          \/ Commit(t) /\ req[t].kind = "register" /\ InTransaction(conn)
       /\ issued' = issued \cup {<<req[t].email, account[t]>>}

LEMMA IssuedBy ==
    ASSUME NEW t \in Threads, StepOf(t)
    PROVE  NewlyIssued(t)
<1>1. CASE Receive(t) \/ FaultOutside(t) \/ FaultInside(t) \/ FaultInDestructor(t)
  BY <1>1 DEF NewlyIssued, Receive, FaultOutside, FaultInside,
     FaultInDestructor, Throws, shared
<1>2. CASE SignUpStep(t)
  <2>1. CASE CreateJwt(t)
    BY <2>1 DEF NewlyIssued, CreateJwt
  <2>2. CASE ~CreateJwt(t)
    BY <1>2, <2>2 DEF NewlyIssued, SignUpStep, Handle, Lookup, Hash, InsertUser, ReadRowid,
       shared
  <2> QED
    BY <2>1, <2>2
<1>3. CASE PluginStep(t)
  BY <1>3 DEF NewlyIssued, PluginStep, Authenticate, ReadRow, ReadFields, SelectRow,
     SelectFields, UpsertOption, OptionId, DeleteFields, InsertField, shared
<1>4. CASE Commit(t)
  <2>1. CASE InTransaction(conn) /\ req[t].kind = "register"
    BY <1>4, <2>1 DEF NewlyIssued, Commit
  <2>2. CASE ~(InTransaction(conn) /\ req[t].kind = "register")
    BY <1>4, <2>2 DEF NewlyIssued, Commit
  <2> QED
    BY <2>1, <2>2
<1>5. CASE UnitStep(t) /\ ~Commit(t)
  BY <1>5 DEF NewlyIssued, UnitStep, BeginWork, OpenSavepoint, ReleaseSavepoint,
     RollbackToSavepoint, ReleaseRolledBack, Rollback, ResetTx, Unwind
<1> QED
  BY <1>1, <1>2, <1>3, <1>4, <1>5 DEF StepOf, Run

(* The id that is given out is that of the user, in the committed database *)
(* that the step leaves.                                                   *)
LEMMA NewIdNamesUser ==
    ASSUME Calm, NEW t \in Threads, StepOf(t), issued' # issued
    PROVE  /\ issued' = issued \cup {<<req[t].email, account[t]>>}
           /\ account[t] # 0 /\ conn'.disk.users[req[t].email] = account[t]
<1>1. issued' = issued \cup {<<req[t].email, account[t]>>}
  BY IssuedBy DEF NewlyIssued
<1>2. CASE CreateJwt(t)
  <2>1. conn' = conn /\ pc[t] = "jwt"
    BY <1>2 DEF CreateJwt
  <2> QED
    BY <1>1, <2>1 DEF Calm, Intact, IdsKnown
<1>3. CASE Commit(t) /\ req[t].kind = "register" /\ InTransaction(conn)
  <2>1. Commits(t)
    <3>1. conn' = Committed(conn) /\ pc[t] = "commit"
      BY <1>3 DEF Commit
    <3>2. Owner = t
      BY <3>1, CalmOwner DEF Body
    <3> QED
      BY <1>3, <3>1, <3>2, ConnTyped, EndedStack DEF Calm, Commits
  <2>2. UserCommitted(t)
    BY <1>3, <2>1, CommitDone DEF RowCommitted, Writes
  <2>3. req[t].email \in Emails
    <3>1. req[t] \in Requests \cup {NoRequest}
      BY DEF Calm, Typed, LocalType
    <3> QED
      BY <1>3, <3>1 DEF Requests, SignUps, Writes, Reads, NoRequest
  <2>4. conn.disk.users \in [Emails -> 0 .. MaxId]
    BY ConnTyped DEF Calm, Connections, Databases
  <2>5. account[t] \in Ids
    BY <2>2 DEF UserCommitted, UserAdded
  <2> QED
    BY <1>1, <2>2, <2>3, <2>4, <2>5 DEF UserCommitted, Ids
<1> QED
  BY <1>1, <1>2, <1>3, IssuedBy DEF NewlyIssued

(* A thread that is about to make a token knows the id of its user. *)
LEMMA AccountKnown ==
    ASSUME Calm, NEW t \in Threads, StepOf(t), Keeps(conn.disk, conn'.disk),
           NEW u \in Threads, pc'[u] = "jwt"
    PROVE  account'[u] # 0 /\ conn'.disk.users[req'[u].email] = account'[u]
<1>0. pc \in [Threads -> Steps] /\ account \in [Threads -> 0 .. MaxId]
  BY DEF Calm, Typed, LocalType
<1>1. CASE u # t
  <2>1. pc[u] = "jwt" /\ req'[u] = req[u] /\ account'[u] = account[u]
    BY <1>1, OthersStay, OthersKeep DEF Calm
  <2>2. account[u] # 0 /\ conn.disk.users[req[u].email] = account[u]
    BY <2>1 DEF Calm, Intact, IdsKnown
  <2>3. req[u].email \in Emails
    BY <2>1, ServesSignUp DEF Calm, Typed, SignUps
  <2> QED
    BY <2>1, <2>2, <2>3 DEF Keeps
<1>2. CASE u = t /\ Lookup(t)
  <2>1. /\ conn' = conn /\ req' = req /\ Free("users")
        /\ account'[t] = conn.view.users[req[t].email]
    BY <1>0, <1>2 DEF Lookup, shared
  <2>2. conn.view.users[req[t].email] # 0
    BY <1>0, <1>2 DEF Lookup, Goto
  <2> QED
    BY <1>2, <2>1, <2>2, ReadsCommitted
<1>3. CASE u = t /\ Commit(t)
  <2>1. InTransaction(conn) /\ Owner = t /\ pc[t] = "commit"
    BY <1>3, CalmOwner DEF Commit, Body
  <2>2. req[t].kind = "google"
    BY <1>0, <1>3, <2>1 DEF Commit, Answer, Reply, Goto
  <2>3. req' = req /\ account' = account /\ conn' = Committed(conn)
    BY <1>3, <2>1, <2>2 DEF Commit
  <2>4. Commits(t)
    BY <2>1, <2>3, ConnTyped, EndedStack DEF Calm, Commits
  <2>5. UserCommitted(t)
    BY <2>2, <2>4, CommitDone DEF RowCommitted, Writes
  <2>6. req[t].email \in Emails
    <3>1. req[t] \in Requests \cup {NoRequest}
      BY DEF Calm, Typed, LocalType
    <3> QED
      BY <2>2, <3>1 DEF Requests, SignUps, Writes, Reads, NoRequest
  <2>7. conn.disk.users \in [Emails -> 0 .. MaxId] /\ account[t] \in Ids
    BY <2>5, ConnTyped DEF Calm, Connections, Databases, UserCommitted, UserAdded
  <2> QED
    BY <1>3, <2>3, <2>5, <2>6, <2>7 DEF UserCommitted, Ids
<1>4. CASE u = t /\ ~Lookup(t) /\ ~Commit(t)
  <2>1. pc'[t] # "jwt"
    <3>1. CASE Receive(t) \/ FaultOutside(t) \/ FaultInside(t) \/ FaultInDestructor(t)
      BY <1>0, <3>1 DEF Receive, FaultOutside, FaultInside, FaultInDestructor, AfterGuard, Guarded,
         Answer, Reply, Goto
    <3>2. CASE SignUpStep(t)
      BY <1>0, <1>4, <3>2 DEF SignUpStep, Handle, Hash, InsertUser, ReadRowid, CreateJwt,
         Answer, Reply, Goto
    <3>3. CASE PluginStep(t)
      BY <1>0, <3>3 DEF PluginStep, Authenticate, ReadRow, ReadFields, SelectRow,
         SelectFields, UpsertOption, OptionId, DeleteFields, InsertField, Answer, Reply, Goto
    <3>4. CASE UnitStep(t)
      BY <1>0, <1>4, <3>4 DEF UnitStep, BeginWork, OpenSavepoint, ReleaseSavepoint,
         RollbackToSavepoint, ReleaseRolledBack, Rollback, ResetTx, Unwind, AfterGuard,
         Answer, Reply, Goto
    <3> QED
      BY <3>1, <3>2, <3>3, <3>4 DEF StepOf, Run
  <2> QED
    BY <1>4, <2>1
<1> QED
  BY <1>1, <1>2, <1>3, <1>4

LEMMA IdsKnownKept ==
    ASSUME Calm, NEW t \in Threads, StepOf(t), Keeps(conn.disk, conn'.disk)
    PROVE  IdsKnown'
<1>1. ASSUME NEW x \in issued'
      PROVE  x[2] # 0 /\ conn'.disk.users[x[1]] = x[2]
  <2>1. CASE x \in issued
    <3>1. x[2] # 0 /\ conn.disk.users[x[1]] = x[2] /\ x[1] \in Emails
      BY <2>1 DEF Calm, Typed, SharedType, Intact, IdsKnown, IssuedIdsNameTheirUser
    <3> QED
      BY <3>1 DEF Keeps
  <2>2. CASE x \notin issued
    <3>1. x = <<req[t].email, account[t]>>
      BY <1>1, <2>2, NewIdNamesUser
    <3> QED
      BY <1>1, <2>2, <3>1, NewIdNamesUser
  <2> QED
    BY <2>1, <2>2
<1> QED
  BY <1>1, AccountKnown DEF IdsKnown, IssuedIdsNameTheirUser

-----------------------------------------------------------------------------
(* Reads: the row of a GET stays as it is between its two SELECTs, because *)
(* a POST that commits has the mutex of the plugin storage.                *)
LEMMA RowStaysKept ==
    ASSUME Calm, NEW t \in Threads, StepOf(t)
    PROVE  RowStays'
<1>0. pc \in [Threads -> Steps] /\ seen \in [Threads -> Rows]
  BY DEF Calm, Typed, LocalType
<1> SUFFICES ASSUME NEW u \in Threads, pc'[u] = "readFields"
             PROVE  /\ seen'[u].flags = conn'.disk.options[KeyOf(u)'].flags
                    /\ seen'[u].flags # NoPayload
  BY DEF RowStays
<1>1. CASE u # t
  <2>1. pc[u] = "readFields" /\ req'[u] = req[u] /\ seen'[u] = seen[u]
    BY <1>1, OthersStay, OthersKeep DEF Calm
  <2>2. seen[u].flags = conn.disk.options[KeyOf(u)].flags /\ seen[u].flags # NoPayload
    BY <2>1 DEF Calm, Intact, RowStays
  <2>3. conn'.disk.options = conn.disk.options
    <3>1. CASE conn'.disk = conn.disk
      BY <3>1
    <3>2. CASE UserCommitted(t)
      BY <3>2 DEF UserCommitted
    <3>3. CASE Commits(t) /\ RowCommitted(t)
      <4>1. StorageOf(u) = "plugins" /\ StorageOf(t) = "plugins"
        BY <2>1, <3>3, ServesRead
           DEF Calm, Typed, RowCommitted, Reads, Writes, StorageOf, SignsUp
      <4>2. mutex["plugins"] = u /\ mutex["plugins"] = t
        BY <2>1, <3>3, <4>1
           DEF Calm, MutexesHeld, Holding, Storages, Commits, Unit, Body
      <4> QED
        BY <1>1, <4>2
    <3> QED
      BY <3>1, <3>2, <3>3, DiskChanges, CommitDone
  <2> QED
    BY <2>1, <2>2, <2>3 DEF KeyOf
<1>2. CASE u = t /\ ReadRow(t)
  <2>1. conn' = conn /\ Free("plugins")
    BY <1>2 DEF ReadRow
  <2>2. conn.view.options[KeyOf(t)].flags # NoPayload
    BY <1>0, <1>2 DEF ReadRow, Answer, Reply, Goto
  <2>3. /\ seen' = [seen EXCEPT ![t].flags = conn.view.options[KeyOf(t)].flags]
        /\ req' = req
    BY <1>2, <2>2 DEF ReadRow
  <2>4. seen'[t].flags = conn.view.options[KeyOf(t)].flags
    BY <1>0, <2>3 DEF Rows
  <2> QED
    BY <1>2, <2>1, <2>2, <2>3, <2>4, ReadsCommitted DEF KeyOf
<1>3. CASE u = t /\ ~ReadRow(t)
  <2>1. pc'[t] # "readFields"
    <3>1. CASE Receive(t) \/ FaultOutside(t) \/ FaultInside(t) \/ FaultInDestructor(t)
      BY <1>0, <3>1 DEF Receive, FaultOutside, FaultInside, FaultInDestructor, AfterGuard, Guarded,
         Answer, Reply, Goto
    <3>2. CASE SignUpStep(t)
      BY <1>0, <3>2 DEF SignUpStep, Handle, Lookup, Hash, InsertUser, ReadRowid, CreateJwt,
         Answer, Reply, Goto
    <3>3. CASE PluginStep(t)
      BY <1>0, <1>3, <3>3 DEF PluginStep, Authenticate, ReadFields, SelectRow,
         SelectFields, UpsertOption, OptionId, DeleteFields, InsertField, Answer, Reply, Goto
    <3>4. CASE UnitStep(t)
      BY <1>0, <3>4 DEF UnitStep, BeginWork, OpenSavepoint, ReleaseSavepoint, Commit,
         RollbackToSavepoint, ReleaseRolledBack, Rollback, ResetTx, Unwind, AfterGuard,
         Answer, Reply, Goto
    <3> QED
      BY <3>1, <3>2, <3>3, <3>4 DEF StepOf, Run
  <2> QED
    BY <1>3, <2>1
<1> QED
  BY <1>1, <1>2, <1>3

(* The row that a GET puts together from its two SELECTs is the committed  *)
(* row.                                                                    *)
LEMMA AnswerIsCommitted ==
    ASSUME Calm, NEW t \in Threads, pc[t] = "readFields"
    PROVE  /\ KeyOf(t) \in Keys
           /\ [seen[t] EXCEPT !.fields = conn.view.options[KeyOf(t)].fields]
                  = conn.disk.options[KeyOf(t)]
<1>1. KeyOf(t) \in Keys
  BY ServesRead DEF Calm, Typed
<1>2. seen[t] \in Rows /\ conn.disk.options[KeyOf(t)] \in Rows
  BY <1>1, ConnTyped DEF Calm, Typed, LocalType, Connections, Databases
<1>3. conn.view.options = conn.disk.options
  BY ReadsCommitted
<1>4. seen[t].flags = conn.disk.options[KeyOf(t)].flags
  BY DEF Calm, Intact, RowStays
<1> QED
  BY <1>1, <1>2, <1>3, <1>4 DEF Rows

LEMMA WholeAnswersKept ==
    ASSUME Calm, NEW t \in Threads, StepOf(t)
    PROVE  WholeAnswers'
<1>0. pc \in [Threads -> Steps] /\ seen \in [Threads -> Rows]
  BY DEF Calm, Typed, LocalType
<1>a. Whole(EmptyRow)
  BY DEF Whole
<1> SUFFICES ASSUME NEW u \in Threads, pc'[u] = "idle"
             PROVE  Whole(seen'[u])
  BY DEF WholeAnswers, Whole
<1>1. CASE u # t
  <2>1. pc[u] = "idle" /\ seen'[u] = seen[u]
    BY <1>1, OthersStay, OthersKeep DEF Calm
  <2> QED
    BY <2>1 DEF Calm, Intact, WholeAnswers
<1>2. CASE u = t /\ ReadFields(t)
  <2>1. seen'[t] = [seen[t] EXCEPT !.fields = conn.view.options[KeyOf(t)].fields]
    BY <1>0, <1>2 DEF ReadFields, Reply
  <2>2. KeyOf(t) \in Keys /\ seen'[t] = conn.disk.options[KeyOf(t)]
    BY <1>2, <2>1, AnswerIsCommitted DEF ReadFields
  <2> QED
    BY <1>2, <2>2 DEF Calm, Intact, WholeOptions
<1>3. CASE u = t /\ ~ReadFields(t)
  <2>1. \E outcome : Answer(t, outcome)
    <3>1. CASE Receive(t) \/ FaultOutside(t) \/ FaultInside(t) \/ FaultInDestructor(t)
      BY <1>0, <1>3, <3>1
      DEF Receive, FaultOutside, FaultInside, FaultInDestructor, AfterGuard, Guarded,
         Answer, Reply, Goto
    <3>2. CASE SignUpStep(t)
      BY <1>0, <1>3, <3>2 DEF SignUpStep, Handle, Lookup, Hash, InsertUser, ReadRowid,
         CreateJwt, Goto
    <3>3. CASE PluginStep(t)
      BY <1>0, <1>3, <3>3 DEF PluginStep, Authenticate, ReadRow, SelectRow,
         SelectFields, UpsertOption, OptionId, DeleteFields, InsertField, Goto
    <3>4. CASE UnitStep(t)
      BY <1>0, <1>3, <3>4 DEF UnitStep, BeginWork, OpenSavepoint, ReleaseSavepoint, Commit,
         RollbackToSavepoint, ReleaseRolledBack, Rollback, ResetTx, Unwind, AfterGuard, Goto
    <3> QED
      BY <3>1, <3>2, <3>3, <3>4 DEF StepOf, Run
  <2>2. seen'[t] = EmptyRow
    BY <1>0, <2>1 DEF Answer, Reply
  <2> QED
    BY <1>3, <1>a, <2>2
<1> QED
  BY <1>1, <1>2, <1>3

-----------------------------------------------------------------------------
(* Tokens: the id in a request is that of a committed user. *)
LEMMA RequestsNameUsers ==
    ASSUME Calm, NEW t \in Threads, req[t].kind \in {"post", "get"}
    PROVE  IsUser(conn.disk.users, req[t].uid)
<1>1. PICK x \in issued : x[2] = req[t].uid
  BY DEF Calm, TokensGiven
<1>2. x[1] \in Emails
  BY DEF Calm, Typed, SharedType
<1> QED
  BY <1>1, <1>2 DEF Calm, Intact, IdsKnown, IssuedIdsNameTheirUser, IsUser

LEMMA TokensAcceptedKept ==
    ASSUME Calm, NEW t \in Threads, StepOf(t)
    PROVE  TokensAccepted'
<1>0. pc \in [Threads -> Steps] /\ status \in [Threads -> Outcomes \cup {"none", "pending"}]
  BY DEF Calm, Typed, LocalType
<1>1. faults \in Nat
  BY BoundsAssumption DEF Calm, Typed, CounterType
<1> SUFFICES ASSUME faults' = 0, NEW u \in Threads
             PROVE  status'[u] # "unauthorized"
  BY DEF TokensAccepted
<1>2. CASE FaultOutside(t) \/ FaultInside(t) \/ FaultInDestructor(t)
  BY <1>1, <1>2 DEF FaultOutside, FaultInside, FaultInDestructor, Throws
<1>3. CASE ~(FaultOutside(t) \/ FaultInside(t) \/ FaultInDestructor(t))
  <2>1. faults' = faults
    BY <1>3 DEF StepOf, Run, Receive, SignUpStep, Handle, Lookup, Hash, InsertUser, ReadRowid,
       CreateJwt, PluginStep, Authenticate, ReadRow, ReadFields, SelectRow, SelectFields,
       UpsertOption, OptionId, DeleteFields, InsertField, UnitStep, BeginWork, OpenSavepoint,
       ReleaseSavepoint, Commit, RollbackToSavepoint, ReleaseRolledBack, Rollback, ResetTx,
       Unwind, counters
  <2>2. status[u] # "unauthorized"
    BY <2>1 DEF Calm, Intact, TokensAccepted
  <2>3. CASE u # t
    BY <2>2, <2>3, OthersKeep DEF Calm
  <2>4. CASE u = t /\ Authenticate(t)
    <3>1. Free("users") /\ req[t].kind \in {"post", "get"}
      BY <2>4, ServesAuth DEF Authenticate, Calm, Typed, Writes, Reads
    <3>2. IsUser(conn.view.users, req[t].uid)
      BY <3>1, ReadsCommitted, RequestsNameUsers
    <3> QED
      BY <2>2, <2>4, <3>2 DEF Authenticate
  <2>5. CASE u = t /\ ~Authenticate(t)
    <3>1. CASE Receive(t)
      BY <1>0, <2>5, <3>1 DEF Receive
    <3>2. CASE SignUpStep(t)
      BY <1>0, <2>2, <2>5, <3>2 DEF SignUpStep, Handle, Lookup, Hash, InsertUser, ReadRowid,
         CreateJwt, Answer, Reply
    <3>3. CASE PluginStep(t)
      BY <1>0, <2>2, <2>5, <3>3 DEF PluginStep, ReadRow, ReadFields, SelectRow,
         SelectFields, UpsertOption, OptionId, DeleteFields, InsertField, Answer, Reply
    <3>4. CASE UnitStep(t)
      BY <1>0, <2>2, <2>5, <3>4 DEF UnitStep, BeginWork, OpenSavepoint, ReleaseSavepoint,
         Commit, RollbackToSavepoint, ReleaseRolledBack, Rollback, ResetTx, Unwind,
         Answer, Reply
    <3> QED
      BY <1>3, <3>1, <3>2, <3>3, <3>4 DEF StepOf, Run
  <2> QED
    BY <2>3, <2>4, <2>5
<1> QED
  BY <1>2, <1>3

-----------------------------------------------------------------------------
(* The steps together. *)
LEMMA IntactStep ==
    ASSUME Calm, NEW t \in Threads, StepOf(t), ~damaged',
           Typed', FramesOwned', Isolated', Keeps(conn.disk, conn'.disk)
    PROVE  Intact'
<1>1. OneTransaction' /\ Uncommitted'
  BY ConnectionKept
<1>2. \A u \in Threads : WorkDone(u)'
  BY WorkOfOthers, WorkOfOwn
<1> QED
  BY <1>1, <1>2, IdsKnownKept, WholeOptionsKept, WholeAnswersKept, RowStaysKept,
     TokensAcceptedKept DEF Intact

LEMMA IntactCrash ==
    ASSUME Typed, Intact, Crash
    PROVE  Intact'
<1> USE DEF Crash, Opened
<1>1. OneTransaction' /\ Uncommitted'
  BY DEF OneTransaction, Uncommitted
<1>2. \A t \in Threads : WorkDone(t)'
  <2>1. \A t \in Threads : pc'[t] \notin Body
    BY DEF Body, SignUpBody, WriteBody
  <2> QED
    BY <2>1, WorkElsewhere
<1>3. IdsKnown'
  BY DEF Intact, IdsKnown, IssuedIdsNameTheirUser
<1>4. WholeOptions'
  BY DEF Intact, WholeOptions
<1>5. WholeAnswers'
  BY DEF Intact, WholeAnswers, Whole
<1>6. RowStays'
  BY DEF RowStays
<1>7. TokensAccepted'
  BY DEF Intact, TokensAccepted
<1> QED
  BY <1>1, <1>2, <1>3, <1>4, <1>5, <1>6, <1>7 DEF Intact

LEMMA IntactStutter ==
    ASSUME Intact, UNCHANGED vars
    PROVE  Intact'
<1> USE DEF vars, shared, local, counters
<1>1. OneTransaction' /\ Uncommitted'
  BY DEF Intact, OneTransaction, Uncommitted, Owner, SavepointOf, SignsUp, InTransaction
<1>2. \A t \in Threads : WorkDone(t)'
  <2> SUFFICES ASSUME NEW t \in Threads PROVE WorkDone(t)'
    OBVIOUS
  <2>1. WorkDone(t)
    BY DEF Intact
  <2>2. pc'[t] = pc[t] /\ req' = req /\ account' = account /\ todo' = todo /\ conn' = conn
    OBVIOUS
  <2> QED
    BY <2>1, <2>2 DEF WorkDone, UserAdded, RowWritten, FieldsWritten, KeyOf, SignsUp
<1>3. IdsKnown' /\ WholeOptions' /\ WholeAnswers' /\ TokensAccepted'
  BY DEF Intact, IdsKnown, IssuedIdsNameTheirUser, WholeOptions, WholeAnswers, TokensAccepted
<1>4. RowStays'
  BY DEF Intact, RowStays, KeyOf
<1> QED
  BY <1>1, <1>2, <1>3, <1>4 DEF Intact

LEMMA TokensGivenNext ==
    ASSUME Typed, TokensGiven, [Next]_vars
    PROVE  TokensGiven'
<1>0. req \in [Threads -> Requests \cup {NoRequest}]
  BY DEF Typed, LocalType
<1>1. CASE UNCHANGED vars
  BY <1>1 DEF TokensGiven, vars, shared, local
<1>2. CASE Crash
  BY <1>2 DEF Crash, TokensGiven, NoRequest
<1>3. ASSUME NEW t \in Threads, StepOf(t)
      PROVE  TokensGiven'
  <2>1. issued \subseteq issued'
    BY <1>3, IssuedBy DEF NewlyIssued
  <2> SUFFICES ASSUME NEW u \in Threads, req'[u].kind \in {"post", "get"}
               PROVE  \E x \in issued' : x[2] = req'[u].uid
    BY DEF TokensGiven
  <2>2. CASE req'[u] = req[u]
    BY <2>1, <2>2 DEF TokensGiven
  <2>3. CASE req'[u] # req[u]
    <3>1. u = t
      BY <1>3, <2>3, OthersStay
    <3>2. req'[t].kind # "none"
      BY <3>1
    <3>3. CASE Receive(t)
      BY <1>0, <2>1, <3>1, <3>3 DEF Receive
    <3>4. CASE SignUpStep(t)
      BY <1>0, <2>3, <3>1, <3>2, <3>4 DEF SignUpStep, Handle, Lookup, Hash, InsertUser,
         ReadRowid, CreateJwt, Answer, Reply, NoRequest
    <3>5. CASE PluginStep(t)
      <4>1. CASE Authenticate(t) \/ ReadRow(t) \/ ReadFields(t)
        BY <1>0, <2>3, <3>1, <3>2, <4>1 DEF Authenticate, ReadRow, ReadFields,
           Answer, Reply, NoRequest
      <4>2. CASE ~(Authenticate(t) \/ ReadRow(t) \/ ReadFields(t))
        BY <2>3, <3>5, <4>2 DEF PluginStep, SelectRow, SelectFields, UpsertOption, OptionId,
           DeleteFields, InsertField
      <4> QED
        BY <4>1, <4>2
    <3>6. CASE UnitStep(t)
      BY <1>0, <2>3, <3>1, <3>2, <3>6 DEF UnitStep, BeginWork, OpenSavepoint,
         ReleaseSavepoint, Commit, RollbackToSavepoint, ReleaseRolledBack, Rollback, ResetTx,
         Unwind, Answer, Reply, NoRequest
    <3>7. CASE FaultOutside(t) \/ FaultInside(t) \/ FaultInDestructor(t)
      BY <1>0, <2>3, <3>1, <3>2, <3>7 DEF FaultOutside, FaultInside, FaultInDestructor,
         Answer, Reply, NoRequest
    <3> QED
      BY <1>3, <3>3, <3>4, <3>5, <3>6, <3>7 DEF StepOf, Run
  <2> QED
    BY <2>2, <2>3
<1> QED
  BY <1>1, <1>2, <1>3 DEF Next, StepOf, Quiescent

LEMMA TokensGivenHolds == Spec => []TokensGiven
<1>1. Init => TokensGiven
  BY DEF Init, TokensGiven, NoRequest
<1>2. Typed /\ TokensGiven /\ [Next]_vars => TokensGiven'
  BY TokensGivenNext
<1> QED
  BY <1>1, <1>2, TypedInvariant, PTL DEF Spec

ConfinedIntact == ~damaged => Intact

LEMMA IntactNext ==
    ASSUME Typed, Typed', MutexesHeld, ConfinedFrames, ConfinedFrames', UsersKept,
           TokensGiven, ConfinedIsolation, ConfinedIsolation', ConfinedIntact, [Next]_vars
    PROVE  ConfinedIntact'
<1> SUFFICES ASSUME ~damaged'
             PROVE  Intact'
  BY DEF ConfinedIntact
<1>1. ~damaged /\ Intact /\ Isolated /\ Isolated' /\ FramesOwned /\ FramesOwned'
  BY StuckStays DEF ConfinedIntact, ConfinedIsolation, ConfinedFrames
<1>2. Calm
  BY <1>1 DEF Calm
<1>3. Keeps(conn.disk, conn'.disk)
  BY NextKeepsUsers DEF NoUserLost
<1>4. ASSUME NEW t \in Threads, StepOf(t)
      PROVE  Intact'
  BY <1>1, <1>2, <1>3, <1>4, IntactStep
<1> QED
  BY <1>1, <1>4, IntactCrash, IntactStutter DEF Next, StepOf, Quiescent

LEMMA IntactInit == Init => Intact
<1> SUFFICES ASSUME Init PROVE Intact
  OBVIOUS
<1> USE DEF Init
<1>1. OneTransaction /\ Uncommitted
  BY DEF Opened, OneTransaction, Uncommitted
<1>2. \A t \in Threads : WorkDone(t)
  BY DEF WorkDone, Unwritten
<1>3. IdsKnown
  <2>1. \A x \in issued : x \in Emails \X Ids /\ InitialUsers[x[1]] = x[2]
    OBVIOUS
  <2>2. conn.disk.users = InitialUsers
    BY DEF Opened, InitialDatabase
  <2> QED
    BY <2>1, <2>2, DataAssumption DEF IdsKnown, IssuedIdsNameTheirUser, Ids
<1>4. WholeOptions
  BY DEF WholeOptions, Opened, InitialDatabase, Whole
<1>5. WholeAnswers /\ RowStays /\ TokensAccepted
  BY DEF WholeAnswers, RowStays, TokensAccepted, Whole
<1> QED
  BY <1>1, <1>2, <1>3, <1>4, <1>5 DEF Intact

LEMMA ConfinedIntactHolds == Spec => []ConfinedIntact
<1>1. Init => ConfinedIntact
  BY IntactInit DEF ConfinedIntact
<1>2. ConfinedIsolation <=> (~damaged => Isolated)
  BY DEF ConfinedIsolation
<1>3. /\ Typed /\ Typed' /\ MutexesHeld /\ ConfinedFrames /\ ConfinedFrames'
      /\ UsersKept /\ TokensGiven /\ ConfinedIsolation /\ ConfinedIsolation' /\ ConfinedIntact
      /\ [Next]_vars
      => ConfinedIntact'
  BY IntactNext
<1> QED
  BY <1>1, <1>2, <1>3, TypedInvariant, MutexesHeldHolds, ConfinedFramesHold, UsersKeptHolds,
     TokensGivenHolds, IsolationUnlessDamaged, PTL DEF Spec

(* In every build: until a rollback hits a transaction of another thread,  *)
(* or fails to end the last of its own, every unit of work is isolated,    *)
(* every id that was given to a client is that of its user in the committed*)
(* database, and every committed row is that of one POST.                  *)
THEOREM DamageIsConfined == Spec => []ConfinedDamage
<1>1. ConfinedIsolation /\ ConfinedIntact => ConfinedDamage
  BY DEF ConfinedIsolation, ConfinedIntact, ConfinedDamage, Intact, IdsKnown
<1>2. ConfinedIsolation <=> (~damaged => Isolated)
  BY DEF ConfinedIsolation
<1> QED
  BY <1>1, <1>2, ConfinedIntactHolds, IsolationUnlessDamaged, PTL

(* In every build, until then: a GET answers the row of one POST, although *)
(* it reads with two SELECTs.                                              *)
THEOREM AnswersAreWhole == Spec => [](~damaged => WholeAnswers)
<1>1. ConfinedIntact => (~damaged => WholeAnswers)
  BY DEF ConfinedIntact, Intact
<1> QED
  BY <1>1, ConfinedIntactHolds, PTL

(* In every build, until then: the middleware refuses a token only after a *)
(* statement has failed; the user it names is found, also after a restart. *)
THEOREM TokensStayAccepted == Spec => [](~damaged => TokensAccepted)
<1>1. ConfinedIntact => (~damaged => TokensAccepted)
  BY DEF ConfinedIntact, Intact
<1> QED
  BY <1>1, ConfinedIntactHolds, PTL

(* All parts of the inductive invariant hold in every reachable state of   *)
(* every build: the mutex of a storage is with the thread that works on it,*)
(* and with nobody when no thread does, through every exception and crash; *)
(* and until a foreign transaction is hit or the last ROLLBACK fails, the  *)
(* connection, the units of work and the committed database are intact.    *)
THEOREM InductiveHolds == Spec => []Inductive
<1>1. /\ TypeOK /\ Typed /\ MutexesHeld /\ ConfinedFrames /\ TokensGiven
      /\ (~damaged => Isolated) /\ ConfinedIntact
      => Inductive
  BY DEF Inductive, Typed, ConfinedFrames, ConfinedIntact
<1> QED
  BY <1>1, TypeInvariant, TypedInvariant, MutexesHeldHolds, ConfinedFramesHold,
     TokensGivenHolds, IsolationUnlessDamaged, ConfinedIntactHolds, PTL

-----------------------------------------------------------------------------
(* The refinement: what the abstract specification calls its data is ours. *)
LEMMA SameData ==
    /\ Atomic!Requests = Requests /\ Atomic!NoRequest = NoRequest
    /\ Atomic!Ids = Ids /\ Atomic!Keys = Keys
    /\ Atomic!EmptyRow = EmptyRow /\ Atomic!Failures = Failures
    /\ \A p : Atomic!RowOf(p) = RowOf(p)
    /\ \A users, id : Atomic!IsUser(users, id) <=> IsUser(users, id)
    /\ \A users, id : Atomic!NextRowid(users, id) <=> NextRowid(users, id)
BY DEF Atomic!Requests, Requests, Atomic!SignUps, SignUps, Atomic!Writes, Writes,
       Atomic!Reads, Reads, Atomic!NoRequest, NoRequest, Atomic!Ids, Ids, Atomic!Keys, Keys,
       Atomic!EmptyRow, EmptyRow, Atomic!Failures, Failures, Atomic!RowOf, RowOf,
       Atomic!IsUser, IsUser, Atomic!NextRowid, NextRowid

answers ==
    [t \in Threads |->
        IF pc[t] = "idle" THEN [outcome |-> status[t], row |-> seen[t]]
                          ELSE [outcome |-> "pending", row |-> EmptyRow]]

LEMMA AtomicReply ==
    ASSUME NEW t \in Threads, NEW outcome, NEW row
    PROVE  Atomic!Reply(t, outcome, row) <=>
               /\ req' = [req EXCEPT ![t] = NoRequest]
               /\ answers' = [answers EXCEPT ![t] = [outcome |-> outcome, row |-> row]]
BY SameData DEF Atomic!Reply, answers

(* An answer of a thread is one of the abstract specification. *)
LEMMA ReplyIsAtomic ==
    ASSUME Typed, NEW t \in Threads, NEW outcome, NEW row, Reply(t, outcome, row)
    PROVE  Atomic!Reply(t, outcome, row)
<1>1. /\ pc' = [pc EXCEPT ![t] = "idle"]
      /\ status' = [status EXCEPT ![t] = outcome]
      /\ seen' = [seen EXCEPT ![t] = row]
  BY DEF Reply, Goto
<1>2. /\ pc \in [Threads -> Steps] /\ seen \in [Threads -> Rows]
      /\ status \in [Threads -> Outcomes \cup {"none", "pending"}]
  BY DEF Typed, LocalType
<1>3. answers' = [answers EXCEPT ![t] = [outcome |-> outcome, row |-> row]]
  BY <1>1, <1>2 DEF answers
<1> QED
  BY <1>3, AtomicReply DEF Reply

AtomicStep == [Atomic!Next]_(Atomic!vars)

(* A thread that goes on with its request: nobody sees it. *)
LEMMA SilentStep ==
    ASSUME Typed, NEW t \in Threads, StepOf(t), pc[t] # "idle", pc'[t] # "idle",
           req' = req, issued' = issued, conn'.disk = conn.disk
    PROVE  AtomicStep
<1>1. answers' = answers
  BY OthersStay, OthersKeep DEF answers
<1> QED
  BY <1>1 DEF AtomicStep, Atomic!vars, answers

(* A request that fails leaves the committed database. *)
LEMMA FailedStep ==
    ASSUME Typed, NEW t \in Threads, pc[t] # "idle", NEW outcome \in Failures,
           Answer(t, outcome), issued' = issued, conn'.disk = conn.disk
    PROVE  AtomicStep
<1>1. req[t] # NoRequest
  BY DEF Typed, ControlOK, StepsOf, NoRequest
<1>2. Atomic!Reply(t, outcome, EmptyRow)
  BY ReplyIsAtomic DEF Answer
<1>3. Atomic!Fail(t)
  BY <1>1, <1>2, SameData DEF Atomic!Fail
<1> QED
  BY <1>3 DEF AtomicStep, Atomic!Next

LEMMA ReceiveIsAtomic ==
    ASSUME Typed, NEW t \in Threads, Receive(t)
    PROVE  AtomicStep
<1>0. /\ pc \in [Threads -> Steps] /\ seen \in [Threads -> Rows]
      /\ status \in [Threads -> Outcomes \cup {"none", "pending"}]
  BY DEF Typed, LocalType
<1>1. req[t] = NoRequest
  <2>1. pc[t] \in StepsOf(req[t].kind) /\ req[t] \in Requests \cup {NoRequest}
    BY DEF Typed, LocalType, ControlOK
  <2>2. pc[t] = "idle"
    BY DEF Receive
  <2> QED
    BY <2>1, <2>2
       DEF Requests, SignUps, Writes, Reads, NoRequest, StepsOf, Unwinding
<1>2. pc'[t] # "idle"
  BY <1>0 DEF Receive, Goto
<1>3. \A u \in Threads \ {t} : pc'[u] = pc[u] /\ seen'[u] = seen[u] /\ status'[u] = status[u]
  BY OthersStay, OthersKeep DEF StepOf
<1>4. answers' = [answers EXCEPT ![t] = [outcome |-> "pending", row |-> EmptyRow]]
  BY <1>2, <1>3 DEF answers
<1>5. \E r \in Requests :
          /\ r.kind \in {"post", "get"} => \E x \in issued : x[2] = r.uid
          /\ req' = [req EXCEPT ![t] = r]
  BY DEF Receive
<1>6. Atomic!Submit(t)
  BY <1>1, <1>4, <1>5, SameData DEF Atomic!Submit, answers, Receive, shared
<1> QED
  BY <1>6 DEF AtomicStep, Atomic!Next

LEMMA TokenIsAtomic ==
    ASSUME Calm, NEW t \in Threads, CreateJwt(t)
    PROVE  AtomicStep
<1>1. req[t].kind = "google"
  <2>1. pc[t] \in StepsOf(req[t].kind) /\ pc[t] = "jwt"
    BY DEF Calm, Typed, ControlOK, CreateJwt
  <2> QED
    BY <2>1 DEF StepsOf, Unwinding
<1>2. account[t] # 0 /\ conn.disk.users[req[t].email] = account[t]
  BY DEF Calm, Intact, IdsKnown, CreateJwt
<1>3. Atomic!Reply(t, "created", EmptyRow)
  BY ReplyIsAtomic DEF Calm, CreateJwt, Answer
<1>4. Atomic!SendToken(t)
  BY <1>1, <1>2, <1>3, SameData DEF Atomic!SendToken, CreateJwt
<1> QED
  BY <1>4 DEF AtomicStep, Atomic!Next

LEMMA ReadIsAtomic ==
    ASSUME Calm, NEW t \in Threads, ReadRow(t) \/ ReadFields(t)
    PROVE  AtomicStep
<1>0. /\ pc \in [Threads -> Steps] /\ seen \in [Threads -> Rows]
      /\ conn.disk.options \in [Keys -> Rows]
  BY ConnTyped DEF Calm, Typed, LocalType, Connections, Databases
<1>1. /\ pc[t] \in {"read", "readFields"} /\ conn' = conn /\ issued' = issued
      /\ StepOf(t)
  BY DEF ReadRow, ReadFields, StepOf, Run, PluginStep
<1>2. req[t].kind = "get" /\ KeyOf(t) \in Keys
  BY <1>1, ServesRead DEF Calm, Typed, Reads
<1>3. IsUser(conn.disk.users, req[t].uid)
  BY <1>2, RequestsNameUsers
<1>4. ASSUME NEW found, found = conn.disk.options[KeyOf(t)], NEW outcome,
             outcome = IF found = EmptyRow THEN "notFound" ELSE "ok",
             Reply(t, outcome, found)
      PROVE  AtomicStep
  <2>1. /\ req' = [req EXCEPT ![t] = NoRequest]
        /\ answers' = [answers EXCEPT ![t] = [outcome |-> outcome, row |-> found]]
    BY <1>4, ReplyIsAtomic, AtomicReply DEF Calm
  <2>2. Atomic!Get(t)
    BY <1>1, <1>2, <1>3, <1>4, <2>1, SameData DEF Atomic!Get, Atomic!Reply, KeyOf, answers
  <2> QED
    BY <2>2 DEF AtomicStep, Atomic!Next
<1> DEFINE found == conn.disk.options[KeyOf(t)]
<1>5. CASE ReadRow(t)
  <2>1. conn.view.options = conn.disk.options
    BY <1>5, ReadsCommitted DEF ReadRow
  <2>2. CASE conn.view.options[KeyOf(t)].flags = NoPayload
    <3>1. found = EmptyRow
      <4>1. Whole(found) /\ found.flags = NoPayload
        BY <1>2, <2>1, <2>2 DEF Calm, Intact, WholeOptions
      <4>2. \A p \in Payloads : RowOf(p).flags # NoPayload
        BY DataAssumption DEF RowOf
      <4> QED
        BY <4>1, <4>2 DEF Whole
    <3>2. Reply(t, "notFound", EmptyRow)
      BY <1>5, <2>2 DEF ReadRow, Answer
    <3> HIDE DEF found
    <3>3. Reply(t, "notFound", found)
      BY <3>1, <3>2
    <3> QED
      BY <1>4, <3>1, <3>3 DEF found
  <2>3. CASE conn.view.options[KeyOf(t)].flags # NoPayload
    BY <1>0, <1>1, <1>5, <2>3, SilentStep DEF Calm, ReadRow, Goto
  <2> QED
    BY <2>2, <2>3
<1>6. CASE ReadFields(t)
  <2>1. Reply(t, "ok", found)
    BY <1>6, AnswerIsCommitted DEF ReadFields
  <2>2. found # EmptyRow
    BY <1>6 DEF ReadFields, Calm, Intact, RowStays, EmptyRow
  <2> HIDE DEF found
  <2> QED
    BY <1>4, <2>1, <2>2 DEF found
<1> QED
  BY <1>5, <1>6

(* The COMMIT is where a request takes effect. *)
LEMMA CommitIsAtomic ==
    ASSUME Calm, NEW t \in Threads, Commit(t)
    PROVE  AtomicStep
<1>0. /\ pc \in [Threads -> Steps] /\ account \in [Threads -> 0 .. MaxId]
      /\ conn.disk.users \in [Emails -> 0 .. MaxId]
      /\ req[t] \in Requests \cup {NoRequest}
  BY ConnTyped DEF Calm, Typed, LocalType, Connections, Databases
<1>1. pc[t] = "commit" /\ InTransaction(conn) /\ Owner = t
  BY CalmOwner DEF Commit, Body
<1>2. conn' = Committed(conn)
  BY <1>1 DEF Commit
<1>3. Commits(t)
  BY <1>1, <1>2, ConnTyped, EndedStack DEF Calm, Commits
<1>4. StepOf(t)
  BY DEF StepOf, Run, UnitStep
<1>5. ASSUME UserCommitted(t)
      PROVE  /\ req[t].email \in Emails
             /\ Atomic!AddUser(req[t].email)
             /\ conn'.disk.users[req[t].email] = account[t]
  <2>1. req[t].email \in Emails
    BY <1>0, <1>5 DEF UserCommitted, SignsUp, Requests, SignUps, Writes, Reads, NoRequest
  <2>2. /\ conn.disk.users[req[t].email] = 0
        /\ account[t] \in Ids /\ NextRowid(conn.disk.users, account[t])
        /\ conn'.disk.users = [conn.disk.users EXCEPT ![req[t].email] = account[t]]
    BY <1>5 DEF UserCommitted, UserAdded
  <2> QED
    BY <1>0, <2>1, <2>2, SameData DEF Atomic!AddUser
<1>6. CASE req[t].kind = "google"
  <2>1. UserCommitted(t)
    BY <1>3, <1>6, CommitDone DEF RowCommitted, Writes
  <2>2. pc'[t] = "jwt" /\ UNCHANGED <<req, account, todo, seen, status, issued>>
    BY <1>0, <1>1, <1>6 DEF Commit, Goto
  <2>3. answers' = answers
    BY <1>1, <1>4, <2>2, OthersStay DEF Calm, answers
  <2>4. conn'.disk.options = conn.disk.options
    BY <2>1 DEF UserCommitted
  <2>5. Atomic!CreateAccount(t)
    BY <1>5, <1>6, <2>1, <2>2, <2>3, <2>4 DEF Atomic!CreateAccount, answers
  <2> QED
    BY <2>5 DEF AtomicStep, Atomic!Next
<1>7. CASE req[t].kind = "register"
  <2>1. UserCommitted(t)
    BY <1>3, <1>7, CommitDone DEF RowCommitted, Writes
  <2>2. /\ issued' = issued \cup {<<req[t].email, account[t]>>}
        /\ Answer(t, "created")
    BY <1>1, <1>7 DEF Commit
  <2>3. Atomic!Reply(t, "created", EmptyRow)
    BY <2>2, ReplyIsAtomic DEF Calm, Answer
  <2>4. conn'.disk.options = conn.disk.options
    BY <2>1 DEF UserCommitted
  <2>5. Atomic!Register(t)
    BY <1>5, <1>7, <2>1, <2>2, <2>3, <2>4, SameData DEF Atomic!Register
  <2> QED
    BY <2>5 DEF AtomicStep, Atomic!Next
<1>8. CASE req[t].kind \notin {"google", "register"}
  <2>1. RowCommitted(t)
    BY <1>3, <1>8, CommitDone DEF UserCommitted, SignsUp
  <2>2. Answer(t, "ok") /\ issued' = issued
    BY <1>1, <1>8 DEF Commit
  <2>3. Atomic!Reply(t, "ok", EmptyRow)
    BY <2>2, ReplyIsAtomic DEF Calm, Answer
  <2>4. req[t].kind = "post"
    BY <2>1 DEF RowCommitted, Writes
  <2>5. IsUser(conn.disk.users, req[t].uid)
    BY <2>4, RequestsNameUsers
  <2>6. Atomic!Post(t)
    BY <2>1, <2>2, <2>3, <2>4, <2>5, SameData DEF Atomic!Post, RowCommitted, KeyOf
  <2> QED
    BY <2>6 DEF AtomicStep, Atomic!Next
<1> QED
  BY <1>6, <1>7, <1>8

LEMMA SilentSignUp ==
    ASSUME Calm, NEW t \in Threads, SignUpStep(t), ~CreateJwt(t)
    PROVE  AtomicStep
<1>0. /\ pc \in [Threads -> Steps] /\ StepOf(t)
  BY DEF Calm, Typed, LocalType, StepOf, Run
<1>1. /\ pc[t] \notin {"idle", "commit"} /\ issued' = issued
      /\ (pc'[t] # "idle" /\ req' = req) \/ Answer(t, "error")
  BY <1>0 DEF SignUpStep, Handle, Lookup, Hash, InsertUser, ReadRowid, Goto, shared
<1>2. conn'.disk = conn.disk
  BY <1>0, <1>1, DiskChanges DEF Commits
<1> QED
  BY <1>0, <1>1, <1>2, SilentStep, FailedStep DEF Calm, Failures

LEMMA SilentPlugin ==
    ASSUME Calm, NEW t \in Threads, PluginStep(t), ~ReadRow(t), ~ReadFields(t)
    PROVE  AtomicStep
<1>0. /\ pc \in [Threads -> Steps] /\ StepOf(t)
  BY DEF Calm, Typed, LocalType, StepOf, Run
<1>1. /\ pc[t] \notin {"idle", "commit"} /\ issued' = issued
      /\ (pc'[t] # "idle" /\ req' = req) \/ Answer(t, "unauthorized")
  BY <1>0 DEF PluginStep, Authenticate, SelectRow, SelectFields, UpsertOption, OptionId,
     DeleteFields, InsertField, Goto, shared
<1>2. conn'.disk = conn.disk
  BY <1>0, <1>1, DiskChanges DEF Commits
<1> QED
  BY <1>0, <1>1, <1>2, SilentStep, FailedStep DEF Calm, Failures

LEMMA SilentUnit ==
    ASSUME Calm, NEW t \in Threads, UnitStep(t), ~Commit(t)
    PROVE  AtomicStep
<1>0. /\ pc \in [Threads -> Steps] /\ StepOf(t)
  BY DEF Calm, Typed, LocalType, StepOf, Run
<1>1. /\ pc[t] \notin {"idle", "commit"} /\ issued' = issued
      /\ (pc'[t] # "idle" /\ req' = req) \/ \E outcome \in {"error", "aborted"} : Answer(t, outcome)
  <2>1. CASE BeginWork(t)
    BY <1>0, <2>1 DEF BeginWork, Goto
  <2>2. CASE OpenSavepoint(t) \/ ReleaseSavepoint(t)
    BY <1>0, <2>2 DEF OpenSavepoint, ReleaseSavepoint, Goto
  <2>3. CASE RollbackToSavepoint(t) \/ ReleaseRolledBack(t)
    BY <1>0, <2>3 DEF RollbackToSavepoint, ReleaseRolledBack, AfterGuard, Goto
  <2>4. CASE Rollback(t) \/ ResetTx(t) \/ Unwind(t)
    BY <1>0, <2>4 DEF Rollback, ResetTx, Unwind, Goto
  <2> QED
    BY <2>1, <2>2, <2>3, <2>4 DEF UnitStep
<1>2. conn'.disk = conn.disk
  BY <1>0, <1>1, DiskChanges DEF Commits
<1> QED
  BY <1>0, <1>1, <1>2, SilentStep, FailedStep DEF Calm, Failures

LEMMA FaultIsAtomic ==
    ASSUME Calm, NEW t \in Threads, FaultOutside(t) \/ FaultInside(t) \/ FaultInDestructor(t)
    PROVE  AtomicStep
<1>0. /\ pc \in [Threads -> Steps] /\ StepOf(t)
  BY DEF Calm, Typed, LocalType, StepOf
<1>1. issued' = issued /\ conn'.disk = conn.disk
  <2>1. RollbackBy(t) => conn'.disk = conn.disk
    BY ConnTyped, EndedStack DEF Calm, RollbackBy
  <2> QED
    BY <2>1 DEF FaultOutside, FaultInside, FaultInDestructor, Throws
<1>2. CASE FaultOutside(t)
  <2>1. pc[t] # "idle"
    BY <1>2 DEF FaultOutside
  <2>2. \E outcome \in Failures : Answer(t, outcome)
    BY <1>2 DEF FaultOutside, Failures
  <2> QED
    BY <1>1, <2>1, <2>2, FailedStep DEF Calm
<1>3. CASE FaultInside(t)
  <2>1. pc[t] # "idle" /\ pc'[t] # "idle" /\ req' = req
    BY <1>0, <1>3 DEF FaultInside, AfterGuard, Goto, Guarded
  <2> QED
    BY <1>0, <1>1, <2>1, SilentStep DEF Calm
<1>4. CASE FaultInDestructor(t)
  <2>1. pc[t] # "idle"
    BY <1>4 DEF FaultInDestructor
  <2>2. \E outcome \in Failures : Answer(t, outcome)
    BY <1>4 DEF FaultInDestructor, Failures
  <2> QED
    BY <1>1, <2>1, <2>2, FailedStep DEF Calm
<1> QED
  BY <1>2, <1>3, <1>4

(* A crash fails every request in progress, and no other. *)
LEMMA CrashIsAtomic ==
    ASSUME Typed, Crash
    PROVE  AtomicStep
<1>1. \A t \in Threads : req[t] = NoRequest <=> pc[t] = "idle"
  <2> SUFFICES ASSUME NEW t \in Threads
               PROVE  req[t] = NoRequest <=> pc[t] = "idle"
    OBVIOUS
  <2>1. pc[t] \in StepsOf(req[t].kind) /\ req[t] \in Requests \cup {NoRequest}
    BY DEF Typed, LocalType, ControlOK
  <2> QED
    BY <2>1 DEF Requests, SignUps, Writes, Reads, NoRequest, StepsOf, Unwinding
<1>2. req' = [t \in Threads |-> NoRequest]
  BY DEF Crash
<1>3. answers' = [t \in Threads |->
                     IF req[t] = NoRequest THEN answers[t]
                     ELSE [outcome |-> "aborted", row |-> EmptyRow]]
  BY <1>1 DEF Crash, answers
<1>4. conn'.disk = conn.disk /\ issued' = issued
  BY DEF Crash, Opened
<1>5. Atomic!Crash
  BY <1>2, <1>3, <1>4, SameData DEF Atomic!Crash, answers
<1> QED
  BY <1>5 DEF AtomicStep, Atomic!Next

(* Every step of a calm state is one of the abstract specification, or     *)
(* leaves what it is about.                                                *)
LEMMA StepIsAtomic ==
    ASSUME Calm, [Next]_vars
    PROVE  AtomicStep
<1>1. ASSUME UNCHANGED vars
      PROVE  AtomicStep
  BY <1>1 DEF AtomicStep, Atomic!vars, vars, shared, local
<1>2. CASE Crash
  BY <1>2, CrashIsAtomic DEF Calm
<1>3. ASSUME NEW t \in Threads, StepOf(t)
      PROVE  AtomicStep
  <2>1. CASE Receive(t)
    BY <2>1, ReceiveIsAtomic DEF Calm
  <2>2. CASE SignUpStep(t)
    BY <2>2, TokenIsAtomic, SilentSignUp
  <2>3. CASE PluginStep(t)
    BY <2>3, ReadIsAtomic, SilentPlugin
  <2>4. CASE UnitStep(t)
    BY <2>4, CommitIsAtomic, SilentUnit
  <2>5. CASE FaultOutside(t) \/ FaultInside(t) \/ FaultInDestructor(t)
    BY <2>5, FaultIsAtomic
  <2> QED
    BY <1>3, <2>1, <2>2, <2>3, <2>4, <2>5 DEF StepOf, Run
<1> QED
  BY <1>1, <1>2, <1>3 DEF Next, StepOf, Quiescent

LEMMA InitIsAtomic == Init => Atomic!Init
<1> SUFFICES ASSUME Init PROVE Atomic!Init
  OBVIOUS
<1>1. conn.disk = InitialDatabase
  BY DEF Init, Opened
<1>2. answers = [t \in Threads |-> [outcome |-> "none", row |-> EmptyRow]]
  BY DEF Init, answers
<1> QED
  BY <1>1, <1>2, SameData DEF Init, Atomic!Init, InitialDatabase, answers

(* In every build, each step is one indivisible operation of AtomicStore,  *)
(* or invisible, as long as no rollback has hit a transaction of another   *)
(* thread and no last ROLLBACK has failed: requests take effect at once or *)
(* not at all.  The step that does the damage is still one of these.       *)
THEOREM AtomicUnlessDamaged ==
    Spec => Atomic!Init /\ [][~damaged => [Atomic!Next]_(Atomic!vars)]_vars
<1>1. /\ Typed /\ MutexesHeld /\ ConfinedFrames /\ UsersKept /\ TokensGiven
      /\ (~damaged => Isolated) /\ ConfinedIntact /\ [Next]_vars
      => [~damaged => [Atomic!Next]_(Atomic!vars)]_vars
  BY StepIsAtomic DEF Calm, ConfinedFrames, ConfinedIntact, AtomicStep
<1> QED
  BY <1>1, InitIsAtomic, TypedInvariant, MutexesHeldHolds, ConfinedFramesHold,
     UsersKeptHolds, TokensGivenHolds, IsolationUnlessDamaged, ConfinedIntactHolds,
     PTL DEF Spec

(* Every behaviour in which no rollback ever does such damage, of whatever *)
(* build, implements AtomicStore: every request, whatever runs beside it   *)
(* and whatever else fails or crashes, takes effect in one indivisible step*)
(* and answers what that step would, or fails without any effect.          *)
THEOREM Implementation == Spec /\ []~damaged => ImplementsAtomicStore
<1>1. ~damaged /\ [~damaged => [Atomic!Next]_(Atomic!vars)]_vars
      => [Atomic!Next]_(Atomic!vars)
  BY DEF Atomic!vars, vars, shared, local
<1> QED
  BY <1>1, AtomicUnlessDamaged, PTL DEF ImplementsAtomicStore, Atomic!Spec

=============================================================================
