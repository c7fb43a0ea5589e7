--------------------------- MODULE SyncStoreProofs --------------------------
(***************************************************************************)
(* Safety of SyncStore, for every value of the constants: the mutexes, the *)
(* transactions that are open, and whose they are.                         *)
(***************************************************************************)
EXTENDS SyncStoreTypes

(* Until ~Transaction has run after rollback(), or the unit of work has    *)
(* committed or unwound, its transaction may be open.                      *)
Open == Unit \ {"txreset"}

(* A step of one thread leaves the place and the request of the others.    *)
StepOf(t) ==
    Receive(t) \/ Run(t) \/ FaultOutside(t) \/ FaultInside(t) \/ FaultInDestructor(t)

LEMMA OthersStay ==
    ASSUME Typed, NEW t \in Threads, StepOf(t)
    PROVE  \A u \in Threads \ {t} : pc'[u] = pc[u] /\ req'[u] = req[u]
<1>1. pc \in [Threads -> Steps] /\ req \in [Threads -> Requests \cup {NoRequest}]
  BY DEF Typed, LocalType
<1>2. CASE Receive(t)
  BY <1>1, <1>2 DEF Receive, Goto
<1>3. CASE SignUpStep(t)
  BY <1>1, <1>3 DEF SignUpStep, Handle, Lookup, Hash, InsertUser, ReadRowid, CreateJwt,
     Answer, Reply, Goto
<1>4. CASE PluginStep(t)
  BY <1>1, <1>4 DEF PluginStep, Authenticate, ReadRow, ReadFields, SelectRow, SelectFields,
     UpsertOption, OptionId, DeleteFields, InsertField, Answer, Reply, Goto
<1>5. CASE UnitStep(t)
  BY <1>1, <1>5 DEF UnitStep, BeginWork, OpenSavepoint, ReleaseSavepoint, Commit,
     RollbackToSavepoint, ReleaseRolledBack, Rollback, ResetTx, Unwind,
     Answer, Reply, Goto
<1>6. CASE FaultOutside(t) \/ FaultInside(t) \/ FaultInDestructor(t)
  BY <1>1, <1>6 DEF FaultOutside, FaultInside, FaultInDestructor, Answer, Reply, Goto
<1> QED
  BY <1>2, <1>3, <1>4, <1>5, <1>6 DEF StepOf, Run

(* The steps that are no business of the open transaction: they leave its  *)
(* frames, and the thread inside or outside of a unit of work.             *)
Quiet(t) == Receive(t) \/ SignUpStep(t) \/ PluginStep(t)

LEMMA QuietStep ==
    ASSUME Typed, NEW t \in Threads, Quiet(t)
    PROVE  /\ conn'.stack = conn.stack
           /\ damaged' = damaged
           /\ pc'[t] \in Body => pc[t] \in Body
           /\ pc'[t] \in Open <=> pc[t] \in Open
<1> USE DEF Open, Unit, Body, SignUpBody, WriteBody, Unwinding
<1>1. pc \in [Threads -> Steps] /\ conn \in Connections(Databases, DBFrames, 0 .. MaxId)
  BY DEF Typed, LocalType, SharedType
<1>2. CASE Receive(t)
  BY <1>1, <1>2 DEF Receive, Goto, shared
<1>3. CASE Handle(t) \/ Lookup(t) \/ Hash(t) \/ ReadRowid(t) \/ CreateJwt(t)
  BY <1>1, <1>3 DEF Handle, Lookup, Hash, ReadRowid, CreateJwt, Answer, Reply, Goto, shared
<1>4. CASE InsertUser(t)
  BY <1>1, <1>4 DEF InsertUser, Goto, Written, Connections
<1>5. CASE Authenticate(t) \/ ReadRow(t) \/ ReadFields(t)
  BY <1>1, <1>5 DEF Authenticate, ReadRow, ReadFields, Answer, Reply, Goto, shared
<1>6. CASE SelectRow(t) \/ SelectFields(t) \/ OptionId(t)
  BY <1>1, <1>6 DEF SelectRow, SelectFields, OptionId, Goto, shared
<1>7. CASE UpsertOption(t)
  BY <1>1, <1>7 DEF UpsertOption, Goto, Written, Connections
<1>8. CASE DeleteFields(t)
  BY <1>1, <1>8 DEF DeleteFields, Goto, Written, Connections
<1>9. CASE InsertField(t)
  BY <1>1, <1>9 DEF InsertField, Goto, Written, Connections
<1> QED
  BY <1>2, <1>3, <1>4, <1>5, <1>6, <1>7, <1>8, <1>9 DEF Quiet, SignUpStep, PluginStep

LEMMA ConnTyped ==
    ASSUME Typed
    PROVE  /\ conn \in Connections(Databases, DBFrames, 0 .. MaxId)
           /\ conn.stack \in Seq(DBFrames)
           /\ DOMAIN conn.stack = 1 .. Len(conn.stack)
           /\ \A i \in DOMAIN conn.stack : conn.stack[i].by \in Threads
<1>1. conn \in Connections(Databases, DBFrames, 0 .. MaxId)
  BY DEF Typed, SharedType
<1>2. conn.stack \in Seq(DBFrames)
  BY <1>1 DEF Connections
<1>3. \A x \in DBFrames : x.by \in Threads
  BY DEF DBFrames, Frames
<1> HIDE DEF DBFrames
<1> QED
  BY <1>1, <1>2, <1>3

(* A rollback leaves no transaction. *)
LEMMA RollbackByStack ==
    ASSUME Typed, NEW t, RollbackBy(t)
    PROVE  conn'.stack = <<>> /\ damaged' = (damaged \/ Foreign(t))
BY ConnTyped, EndedStack DEF RollbackBy

-----------------------------------------------------------------------------
(* No transaction is left behind: a thread leaves its unit of work only    *)
(* when no transaction is open, or when it has ended its own.              *)
LEMMA FramesOwnedPrefix ==
    ASSUME Typed, FramesOwned, NEW t \in Threads, StepOf(t), pc'[t] \in Open,
           DOMAIN conn'.stack \subseteq DOMAIN conn.stack,
           \A i \in DOMAIN conn'.stack : conn'.stack[i] = conn.stack[i]
    PROVE  FramesOwned'
<1>1. \A u \in Threads : pc[u] \in Open => pc'[u] \in Open
  BY OthersStay
<1> QED
  BY <1>1, ConnTyped DEF FramesOwned, Open

LEMMA FramesOwnedEmpty ==
    ASSUME conn'.stack = <<>>
    PROVE  FramesOwned'
BY DEF FramesOwned

LEMMA FramesOwnedNext ==
    ASSUME Typed, FramesOwned, [Next]_vars, ~stuck'
    PROVE  FramesOwned'
<1> USE DEF Open, Unit, Body, SignUpBody, WriteBody, Unwinding
<1>0. pc \in [Threads -> Steps]
  BY DEF Typed, LocalType
<1>1. CASE UNCHANGED vars
  BY <1>1 DEF FramesOwned, vars, shared, local
<1>2. CASE Crash
  BY <1>2, FramesOwnedEmpty DEF Crash, Opened
<1>3. ASSUME NEW t \in Threads, Quiet(t)
      PROVE  FramesOwned'
  <2>1. StepOf(t)
    BY <1>3 DEF Quiet, StepOf, Run
  <2>2. \A u \in Threads : pc[u] \in Open <=> pc'[u] \in Open
    BY <1>3, <2>1, QuietStep, OthersStay
  <2> QED
    BY <1>3, <2>2, QuietStep, ConnTyped DEF FramesOwned
<1>4. ASSUME NEW t \in Threads, BeginWork(t)
      PROVE  FramesOwned'
  <2>1. CASE InTransaction(conn)
    <3>1. \A u \in Threads : pc[u] \in Open => pc'[u] \in Open
      BY <1>0, <1>4, <2>1 DEF BeginWork, Answer, Reply, Goto
    <3> QED
      BY <1>4, <2>1, <3>1, ConnTyped DEF FramesOwned, BeginWork
  <2>2. CASE ~InTransaction(conn)
    <3>1. pc'[t] \in Open
      BY <1>0, <1>4, <2>2 DEF BeginWork, Goto
    <3>2. conn'.stack = <<Frame("BEGIN", t, conn.disk)>>
      BY <1>4, <2>2, ConnTyped, BegunStack DEF BeginWork
    <3> QED
      BY <3>1, <3>2 DEF FramesOwned, Frame
  <2> QED
    BY <2>1, <2>2
<1>5. ASSUME NEW t \in Threads, OpenSavepoint(t)
      PROVE  FramesOwned'
  <2>1. StepOf(t)
    BY <1>5 DEF StepOf, Run, UnitStep
  <2>2. pc'[t] \in Open
    BY <1>0, <1>5 DEF OpenSavepoint, Goto
  <2>3. \A u \in Threads : pc[u] \in Open => pc'[u] \in Open
    BY <2>1, <2>2, OthersStay
  <2>4. conn' = SavepointOpened(conn, SavepointOf(t), t)
    BY <1>5 DEF OpenSavepoint
  <2>5. /\ DOMAIN conn'.stack = 1 .. (Len(conn.stack) + 1)
        /\ \A j \in 1 .. Len(conn.stack) : conn'.stack[j] = conn.stack[j]
        /\ conn'.stack[Len(conn.stack) + 1].by = t
    <3>1. Len(conn'.stack) = Len(conn.stack) + 1
      BY <2>4, ConnTyped, SavepointOpenedStack
    <3>2. conn'.stack[Len(conn.stack) + 1] = Frame(SavepointOf(t), t, conn.view)
      BY <2>4, <3>1, ConnTyped, SavepointOpenedStack
    <3>3. DOMAIN conn'.stack = 1 .. Len(conn'.stack)
      BY <2>4, ConnTyped, SavepointOpenedStack
    <3>4. \A j \in 1 .. Len(conn.stack) : conn'.stack[j] = conn.stack[j]
      BY <2>4, ConnTyped, SavepointOpenedStack
    <3> QED
      BY <3>1, <3>2, <3>3, <3>4 DEF Frame
  <2>6. Len(conn.stack) \in Nat
    BY ConnTyped
  <2> QED
    BY <2>2, <2>3, <2>5, <2>6, ConnTyped DEF FramesOwned
<1>6. ASSUME NEW t \in Threads, ReleaseSavepoint(t) \/ ReleaseRolledBack(t)
      PROVE  FramesOwned'
  <2>1. StepOf(t)
    BY <1>6 DEF StepOf, Run, UnitStep
  <2>2. pc'[t] \in Open
    BY <1>0, <1>6 DEF ReleaseSavepoint, ReleaseRolledBack, Goto, AfterGuard
  <2>3. CASE conn' = conn
    BY <2>1, <2>2, <2>3, FramesOwnedPrefix
  <2>4. CASE HasSavepoint(conn, SavepointOf(t)) /\ conn' = Released(conn, SavepointOf(t))
    <3>1. /\ Len(conn'.stack) \in 0 .. Len(conn.stack)
          /\ DOMAIN conn'.stack = 1 .. Len(conn'.stack)
          /\ \A j \in 1 .. Len(conn'.stack) : conn'.stack[j] = conn.stack[j]
      BY <2>4, ConnTyped, ReleasedStack
    <3> QED
      BY <2>1, <2>2, <3>1, ConnTyped, FramesOwnedPrefix
  <2> QED
    BY <1>6, <2>3, <2>4 DEF ReleaseSavepoint, ReleaseRolledBack
<1>7. ASSUME NEW t \in Threads, Commit(t)
      PROVE  FramesOwned'
  <2>1. CASE InTransaction(conn)
    BY <1>7, <2>1, ConnTyped, EndedStack, FramesOwnedEmpty DEF Commit
  <2>2. CASE ~InTransaction(conn)
    BY <1>7, <2>2, FramesOwnedEmpty DEF Commit, InTransaction
  <2> QED
    BY <2>1, <2>2
<1>8. ASSUME NEW t \in Threads, RollbackToSavepoint(t)
      PROVE  FramesOwned'
  <2>1. StepOf(t)
    BY <1>8 DEF StepOf, Run, UnitStep
  <2>2. pc'[t] \in Open
    BY <1>0, <1>8 DEF RollbackToSavepoint, Goto, AfterGuard
  <2>3. CASE conn' = conn
    BY <2>1, <2>2, <2>3, FramesOwnedPrefix
  <2>4. CASE HasSavepoint(conn, SavepointOf(t)) /\ conn' = RolledBackTo(conn, SavepointOf(t))
    <3>1. /\ Len(conn'.stack) \in 1 .. Len(conn.stack)
          /\ DOMAIN conn'.stack = 1 .. Len(conn'.stack)
          /\ \A j \in 1 .. Len(conn'.stack) : conn'.stack[j] = conn.stack[j]
      BY <2>4, ConnTyped, RolledBackToStack
    <3> QED
      BY <2>1, <2>2, <3>1, ConnTyped, FramesOwnedPrefix
  <2> QED
    BY <1>8, <2>3, <2>4 DEF RollbackToSavepoint
<1>9. ASSUME NEW t \in Threads, Rollback(t)
      PROVE  FramesOwned'
  <2>1. CASE InTransaction(conn)
    BY <1>9, <2>1, RollbackByStack, FramesOwnedEmpty DEF Rollback
  <2>2. CASE ~InTransaction(conn)
    BY <1>9, <2>2, FramesOwnedEmpty DEF Rollback, InTransaction
  <2> QED
    BY <2>1, <2>2
<1>10. ASSUME NEW t \in Threads, ResetTx(t)
       PROVE  FramesOwned'
  <2>1. CASE DtorRollsBackAgain
    BY <1>10, <2>1, RollbackByStack, FramesOwnedEmpty DEF ResetTx
  <2>2. CASE ~DtorRollsBackAgain
    <3>1. \A u \in Threads : pc[u] \in Open => pc'[u] \in Open
      BY <1>0, <1>10 DEF ResetTx, Answer, Reply, Goto
    <3> QED
      BY <1>10, <2>2, <3>1, ConnTyped DEF FramesOwned, ResetTx
  <2> QED
    BY <2>1, <2>2
<1>11. ASSUME NEW t \in Threads, Unwind(t)
       PROVE  FramesOwned'
  BY <1>11, RollbackByStack, FramesOwnedEmpty DEF Unwind
<1>12. ASSUME NEW t \in Threads, FaultOutside(t) \/ FaultInside(t)
       PROVE  FramesOwned'
  <2>1. CASE RollbackBy(t)
    BY <2>1, RollbackByStack, FramesOwnedEmpty
  <2>2. CASE conn' = conn
    <3>1. \A u \in Threads : pc[u] \in Open => pc'[u] \in Open
      BY <1>0, <1>12 DEF FaultOutside, FaultInside, AfterGuard, Guarded, Answer, Reply, Goto
    <3> QED
      BY <2>2, <3>1, ConnTyped DEF FramesOwned
  <2> QED
    BY <1>12, <2>1, <2>2 DEF FaultOutside, FaultInside, Throws
<1>13. ASSUME NEW t \in Threads, FaultInDestructor(t)
       PROVE  FramesOwned'
  <2>1. CASE RollbackBy(t)
    BY <2>1, RollbackByStack, FramesOwnedEmpty
  <2>2. CASE conn' = conn /\ ~LeftOpen(t)
    <3>1. \A u \in Threads \ {t} : pc'[u] = pc[u]
      BY <1>13, OthersStay DEF StepOf
    <3> QED
      BY <2>2, <3>1, ConnTyped DEF FramesOwned, LeftOpen
  <2> QED
    BY <1>13, <2>1, <2>2 DEF FaultInDestructor
<1> QED
  BY <1>1, <1>2, <1>3, <1>4, <1>5, <1>6, <1>7, <1>8, <1>9, <1>10, <1>11, <1>12, <1>13
     DEF Next, Run, Quiet, UnitStep, Quiescent

(* Only a restart frees the connection of what a failed last ROLLBACK left *)
(* on it; and the failure is a damage.                                     *)
LEMMA StuckStays ==
    ASSUME Typed, [Next]_vars
    PROVE  /\ ~stuck' => ~stuck \/ Crash
           /\ stuck' => stuck \/ damaged'
           /\ damaged => damaged'
<1>1. CASE UNCHANGED vars
  BY <1>1 DEF vars, shared
<1>2. CASE Crash
  BY <1>2 DEF Crash
<1>3. ASSUME NEW t \in Threads, Quiet(t)
      PROVE  stuck' = stuck /\ damaged' = damaged
  <2>1. damaged' = damaged
    BY <1>3, QuietStep
  <2>2. CASE Receive(t)
    BY <2>2 DEF Receive, shared
  <2>3. CASE SignUpStep(t)
    BY <2>3 DEF SignUpStep, Handle, Lookup, Hash, InsertUser, ReadRowid, CreateJwt, shared
  <2>4. CASE PluginStep(t)
    BY <2>4 DEF PluginStep, Authenticate, ReadRow, ReadFields, SelectRow, SelectFields,
       UpsertOption, OptionId, DeleteFields, InsertField, shared
  <2> QED
    BY <1>3, <2>1, <2>2, <2>3, <2>4 DEF Quiet
<1>4. ASSUME NEW t \in Threads, UnitStep(t)
      PROVE  stuck' = stuck /\ (damaged => damaged')
  BY <1>4 DEF UnitStep, BeginWork, OpenSavepoint, ReleaseSavepoint, Commit,
     RollbackToSavepoint, ReleaseRolledBack, Rollback, ResetTx, Unwind, RollbackBy
<1>5. ASSUME NEW t \in Threads, FaultOutside(t) \/ FaultInside(t)
      PROVE  stuck' = stuck /\ (damaged => damaged')
  <2>1. stuck' = stuck
    BY <1>5 DEF FaultOutside, FaultInside, Throws
  <2>2. CASE damaged' = damaged
    BY <2>1, <2>2
  <2>3. CASE RollbackBy(t)
    BY <2>1, <2>3 DEF RollbackBy
  <2> QED
    BY <1>5, <2>2, <2>3 DEF FaultOutside, FaultInside, Throws
<1>6. ASSUME NEW t \in Threads, FaultInDestructor(t)
      PROVE  (stuck => stuck') /\ (stuck' => stuck \/ damaged') /\ (damaged => damaged')
  <2>1. CASE damaged' = (damaged \/ LeftOpen(t)) /\ stuck' = (stuck \/ LeftOpen(t))
    BY <2>1
  <2>2. CASE RollbackBy(t) /\ stuck' = stuck
    BY <2>2 DEF RollbackBy
  <2> QED
    BY <1>6, <2>1, <2>2 DEF FaultInDestructor
<1> QED
  BY <1>1, <1>2, <1>3, <1>4, <1>5, <1>6 DEF Next, Run, Quiet, Quiescent

ConfinedFrames == (~stuck => FramesOwned) /\ (stuck => damaged)

LEMMA ConfinedFramesHold == Spec => []ConfinedFrames
<1>1. Init => ConfinedFrames
  BY DEF Init, Opened, FramesOwned, ConfinedFrames
<1>2. ASSUME Typed, ConfinedFrames, [Next]_vars
      PROVE  ConfinedFrames'
  <2>1. CASE Crash
    <3>1. FramesOwned'
      BY <2>1, FramesOwnedEmpty DEF Crash, Opened
    <3> QED
      BY <2>1, <3>1 DEF Crash, ConfinedFrames
  <2>2. CASE ~Crash
    BY <1>2, <2>2, FramesOwnedNext, StuckStays DEF ConfinedFrames
  <2> QED
    BY <2>1, <2>2
<1> QED
  BY <1>1, <1>2, TypedInvariant, PTL DEF Spec

(* Whatever statements fail, COMMIT, ROLLBACK TO, RELEASE and rollback()'s *)
(* own ROLLBACK among them: no request that has been answered leaves a     *)
(* transaction open, unless ~Transaction's ROLLBACK failed as well.        *)
THEOREM TransactionsEnd == Spec => []NoLeakedTransaction
<1>1. ConfinedFrames => NoLeakedTransaction
  BY DEF ConfinedFrames, FramesOwned, NoLeakedTransaction
<1> QED
  BY <1>1, ConfinedFramesHold, PTL

-----------------------------------------------------------------------------
(* Isolation.  The transaction on the connection has one owner, so at most *)
(* one thread can be in the body of a unit of work that is intact.         *)
ConfinedIsolation == ~damaged => Isolated

LEMMA OneOwner ==
    ASSUME NEW t, NEW u, OwnsTransaction(t), OwnsTransaction(u)
    PROVE  t = u
BY DEF OwnsTransaction

(* A rollback by one thread hits nobody in a body, or is recorded. *)
LEMMA RollbackIsolation ==
    ASSUME Typed, ConfinedIsolation, NEW t \in Threads, StepOf(t), RollbackBy(t),
           pc'[t] \notin Body
    PROVE  ConfinedIsolation'
<1> SUFFICES ASSUME ~damaged', NEW u \in Threads, pc'[u] \in Body
             PROVE  FALSE
  BY DEF ConfinedIsolation, Isolated
<1>1. u # t /\ pc[u] \in Body
  BY OthersStay
<1>2. ~damaged /\ ~Foreign(t)
  BY RollbackByStack DEF Typed, SharedType
<1>3. OwnsTransaction(u)
  BY <1>1, <1>2 DEF ConfinedIsolation, Isolated
<1> QED
  BY <1>1, <1>2, <1>3 DEF OwnsTransaction, Foreign

(* A step that keeps the outermost frame and starts no unit of work. *)
LEMMA HeadKept ==
    ASSUME Typed, ConfinedIsolation, NEW t \in Threads, StepOf(t),
           pc'[t] \in Body => pc[t] \in Body, damaged' = damaged,
           ~damaged /\ Isolated /\ (\E u \in Threads : pc'[u] \in Body)
               => InTransaction(conn') /\ conn'.stack[1] = conn.stack[1]
    PROVE  ConfinedIsolation'
<1> SUFFICES ASSUME ~damaged', NEW u \in Threads, pc'[u] \in Body
             PROVE  OwnsTransaction(u)'
  BY DEF ConfinedIsolation, Isolated
<1>1. pc[u] \in Body
  BY OthersStay
<1>2. Isolated /\ OwnsTransaction(u)
  BY <1>1 DEF ConfinedIsolation, Isolated
<1> QED
  BY <1>2 DEF OwnsTransaction, InTransaction

(* BEGIN succeeds only outside every transaction, hence outside every body.*)
LEMMA BeginIsolation ==
    ASSUME Typed, ConfinedIsolation, NEW t \in Threads, BeginWork(t)
    PROVE  ConfinedIsolation'
<1>0. pc \in [Threads -> Steps] /\ StepOf(t)
  BY DEF Typed, LocalType, StepOf, Run, UnitStep
<1>1. CASE InTransaction(conn)
  <2>1. pc'[t] \notin Body
    BY <1>0, <1>1 DEF BeginWork, Answer, Reply, Goto, Body, SignUpBody, WriteBody
  <2>2. conn' = conn /\ damaged' = damaged
    BY <1>1 DEF BeginWork
  <2> QED
    BY <1>0, <1>1, <2>1, <2>2, HeadKept
<1>2. CASE ~InTransaction(conn)
  <2> SUFFICES ASSUME ~damaged', NEW u \in Threads, pc'[u] \in Body
               PROVE  OwnsTransaction(u)'
    BY DEF ConfinedIsolation, Isolated
  <2>1. ~damaged
    BY DEF BeginWork
  <2>2. conn'.stack = <<Frame("BEGIN", t, conn.disk)>>
    BY <1>2, ConnTyped, BegunStack DEF BeginWork
  <2>3. CASE u = t
    BY <2>2, <2>3 DEF OwnsTransaction, InTransaction, Frame
  <2>4. CASE u # t
    <3>1. pc[u] \in Body
      BY <1>0, <2>4, OthersStay
    <3> QED
      BY <1>2, <2>1, <3>1 DEF ConfinedIsolation, Isolated, OwnsTransaction
  <2> QED
    BY <2>3, <2>4
<1> QED
  BY <1>1, <1>2

(* A RELEASE does not end a transaction that was begun. *)
LEMMA ReleaseIsolation ==
    ASSUME Typed, ConfinedIsolation, NEW t \in Threads,
           ReleaseSavepoint(t) \/ ReleaseRolledBack(t)
    PROVE  ConfinedIsolation'
<1>0. pc \in [Threads -> Steps] /\ StepOf(t)
  BY DEF Typed, LocalType, StepOf, Run, UnitStep
<1>1. pc'[t] \in Body => pc[t] \in Body
  BY <1>0 DEF ReleaseSavepoint, ReleaseRolledBack, AfterGuard, Goto,
              Body, SignUpBody, WriteBody
<1>2. damaged' = damaged
  BY DEF ReleaseSavepoint, ReleaseRolledBack
<1>3. ASSUME ~damaged, Isolated, NEW u \in Threads, pc'[u] \in Body
      PROVE  InTransaction(conn') /\ conn'.stack[1] = conn.stack[1]
  <2>1. OwnsTransaction(u)
    BY <1>0, <1>1, <1>3, OthersStay DEF Isolated
  <2>2. CASE conn' = conn
    BY <2>1, <2>2 DEF OwnsTransaction
  <2>3. CASE HasSavepoint(conn, SavepointOf(t)) /\ conn' = Released(conn, SavepointOf(t))
    <3>1. conn.stack[1].name # SavepointOf(t)
      BY <2>1 DEF OwnsTransaction, SavepointOf
    <3>2. /\ Len(conn'.stack) \in 1 .. Len(conn.stack)
          /\ \A j \in 1 .. Len(conn'.stack) : conn'.stack[j] = conn.stack[j]
      BY <2>3, <3>1, ConnTyped, ReleasedStack
    <3>3. Len(conn.stack) \in Nat
      BY ConnTyped
    <3> QED
      BY <3>2, <3>3 DEF InTransaction
  <2> QED
    BY <2>2, <2>3 DEF ReleaseSavepoint, ReleaseRolledBack
<1> QED
  BY <1>0, <1>1, <1>2, <1>3, HeadKept

LEMMA RollbackToIsolation ==
    ASSUME Typed, ConfinedIsolation, NEW t \in Threads, RollbackToSavepoint(t)
    PROVE  ConfinedIsolation'
<1>0. pc \in [Threads -> Steps] /\ StepOf(t)
  BY DEF Typed, LocalType, StepOf, Run, UnitStep
<1>1. pc'[t] \notin Body
  BY <1>0 DEF RollbackToSavepoint, AfterGuard, Goto, Body, SignUpBody, WriteBody
<1>2. damaged' = damaged
  BY DEF RollbackToSavepoint
<1>3. ASSUME ~damaged, Isolated, NEW u \in Threads, pc'[u] \in Body
      PROVE  InTransaction(conn') /\ conn'.stack[1] = conn.stack[1]
  <2>1. OwnsTransaction(u)
    BY <1>0, <1>1, <1>3, OthersStay DEF Isolated
  <2>2. CASE conn' = conn
    BY <2>1, <2>2 DEF OwnsTransaction
  <2>3. CASE HasSavepoint(conn, SavepointOf(t)) /\ conn' = RolledBackTo(conn, SavepointOf(t))
    <3>1. /\ Len(conn'.stack) \in 1 .. Len(conn.stack)
          /\ \A j \in 1 .. Len(conn'.stack) : conn'.stack[j] = conn.stack[j]
      BY <2>3, ConnTyped, RolledBackToStack
    <3>2. Len(conn.stack) \in Nat
      BY ConnTyped
    <3> QED
      BY <3>1, <3>2 DEF InTransaction
  <2> QED
    BY <2>2, <2>3 DEF RollbackToSavepoint
<1> QED
  BY <1>0, <1>1, <1>2, <1>3, HeadKept

LEMMA SavepointIsolation ==
    ASSUME Typed, ConfinedIsolation, NEW t \in Threads, OpenSavepoint(t)
    PROVE  ConfinedIsolation'
<1>0. pc \in [Threads -> Steps] /\ StepOf(t)
  BY DEF Typed, LocalType, StepOf, Run, UnitStep
<1>1. pc[t] \in Body
  BY DEF OpenSavepoint, Body
<1>2. damaged' = damaged
  BY DEF OpenSavepoint
<1>3. ASSUME Isolated
      PROVE  InTransaction(conn') /\ conn'.stack[1] = conn.stack[1]
  <2>1. OwnsTransaction(t)
    BY <1>1, <1>3 DEF Isolated
  <2>2. Len(conn.stack) \in Nat \ {0}
    BY <2>1, ConnTyped DEF OwnsTransaction, InTransaction
  <2>3. conn' = SavepointOpened(conn, SavepointOf(t), t)
    BY DEF OpenSavepoint
  <2>4. /\ Len(conn'.stack) = Len(conn.stack) + 1
        /\ \A j \in 1 .. Len(conn.stack) : conn'.stack[j] = conn.stack[j]
    BY <2>3, ConnTyped, SavepointOpenedStack
  <2> QED
    BY <2>2, <2>4 DEF InTransaction
<1> QED
  BY <1>0, <1>1, <1>2, <1>3, HeadKept

(* A COMMIT ends the transaction of the only thread that was in a body. *)
LEMMA CommitIsolation ==
    ASSUME Typed, ConfinedIsolation, NEW t \in Threads, Commit(t)
    PROVE  ConfinedIsolation'
<1>0. pc \in [Threads -> Steps] /\ StepOf(t)
  BY DEF Typed, LocalType, StepOf, Run, UnitStep
<1>1. pc[t] \in Body /\ damaged' = damaged
  BY DEF Commit, Body
<1>2. pc'[t] \notin Body
  BY <1>0 DEF Commit, Answer, Reply, Goto, Body, SignUpBody, WriteBody
<1> SUFFICES ASSUME ~damaged', NEW u \in Threads, pc'[u] \in Body
             PROVE  FALSE
  BY DEF ConfinedIsolation, Isolated
<1>3. u # t /\ pc[u] \in Body
  BY <1>0, <1>2, OthersStay
<1> QED
  BY <1>1, <1>3, OneOwner DEF ConfinedIsolation, Isolated

LEMMA IsolationNext ==
    ASSUME Typed, ConfinedIsolation, [Next]_vars
    PROVE  ConfinedIsolation'
<1>0. pc \in [Threads -> Steps]
  BY DEF Typed, LocalType
<1> USE DEF Body, SignUpBody, WriteBody
<1>1. CASE UNCHANGED vars
  BY <1>1 DEF ConfinedIsolation, Isolated, OwnsTransaction, vars, shared, local
<1>2. CASE Crash
  BY <1>2 DEF Crash, ConfinedIsolation, Isolated
<1>3. ASSUME NEW t \in Threads, Quiet(t)
      PROVE  ConfinedIsolation'
  <2>1. StepOf(t)
    BY <1>3 DEF Quiet, StepOf, Run
  <2>2. /\ pc'[t] \in Body => pc[t] \in Body
        /\ damaged' = damaged
        /\ conn'.stack = conn.stack
    BY <1>3, QuietStep
  <2>3. \A u \in Threads : pc'[u] \in Body => pc[u] \in Body
    BY <2>1, <2>2, OthersStay
  <2> QED
    BY <2>2, <2>3 DEF ConfinedIsolation, Isolated, OwnsTransaction, InTransaction
<1>4. ASSUME NEW t \in Threads, Rollback(t) \/ ResetTx(t) \/ Unwind(t)
      PROVE  ConfinedIsolation'
  <2>1. StepOf(t)
    BY <1>4 DEF StepOf, Run, UnitStep
  <2>2. pc'[t] \notin Body
    BY <1>0, <1>4 DEF Rollback, ResetTx, Unwind, Answer, Reply, Goto
  <2>3. CASE RollbackBy(t)
    BY <2>1, <2>2, <2>3, RollbackIsolation
  <2>4. CASE conn' = conn /\ damaged' = damaged
    <3>1. \A u \in Threads : pc'[u] \in Body => pc[u] \in Body
      BY <2>1, <2>2, OthersStay
    <3> QED
      BY <2>4, <3>1 DEF ConfinedIsolation, Isolated, OwnsTransaction
  <2> QED
    BY <1>4, <2>3, <2>4 DEF Rollback, ResetTx, Unwind
<1>5. ASSUME NEW t \in Threads, FaultOutside(t) \/ FaultInside(t)
      PROVE  ConfinedIsolation'
  <2>1. StepOf(t)
    BY <1>5 DEF StepOf
  <2>2. pc'[t] \notin Body
    BY <1>0, <1>5 DEF FaultOutside, FaultInside, AfterGuard, Answer, Reply, Goto
  <2>3. CASE RollbackBy(t)
    BY <2>1, <2>2, <2>3, RollbackIsolation
  <2>4. CASE conn' = conn /\ damaged' = damaged
    <3>1. \A u \in Threads : pc'[u] \in Body => pc[u] \in Body
      BY <2>1, <2>2, OthersStay
    <3> QED
      BY <2>4, <3>1 DEF ConfinedIsolation, Isolated, OwnsTransaction
  <2> QED
    BY <1>5, <2>3, <2>4 DEF FaultOutside, FaultInside, Throws
<1>6. ASSUME NEW t \in Threads, FaultInDestructor(t)
      PROVE  ConfinedIsolation'
  <2>1. StepOf(t)
    BY <1>6 DEF StepOf
  <2>2. pc'[t] \notin Body
    BY <1>0, <1>6 DEF FaultInDestructor, Answer, Reply, Goto
  <2>3. CASE RollbackBy(t)
    BY <2>1, <2>2, <2>3, RollbackIsolation
  <2>4. CASE conn' = conn /\ (damaged => damaged')
    <3>1. \A u \in Threads : pc'[u] \in Body => pc[u] \in Body
      BY <2>1, <2>2, OthersStay
    <3> QED
      BY <2>4, <3>1 DEF ConfinedIsolation, Isolated, OwnsTransaction
  <2> QED
    BY <1>6, <2>3, <2>4 DEF FaultInDestructor
<1> QED
  BY <1>1, <1>2, <1>3, <1>4, <1>5, <1>6, BeginIsolation, SavepointIsolation, ReleaseIsolation,
     CommitIsolation, RollbackToIsolation
     DEF Next, Run, Quiet, UnitStep, Quiescent

(* In every build: as long as no rollback has hit a transaction of another *)
(* thread and no last ROLLBACK has failed, every unit of work runs in its  *)
(* own transaction: BEGIN's refusal does what the two mutexes do not.      *)
THEOREM IsolationUnlessDamaged == Spec => [](~damaged => Isolated)
<1>1. Init => ConfinedIsolation
  BY DEF Init, ConfinedIsolation, Isolated, Body, SignUpBody, WriteBody
<1>2. Typed /\ ConfinedIsolation /\ [Next]_vars => ConfinedIsolation'
  BY IsolationNext
<1>3. ConfinedIsolation <=> (~damaged => Isolated)
  BY DEF ConfinedIsolation
<1> QED
  BY <1>1, <1>2, <1>3, TypedInvariant, PTL DEF Spec

-----------------------------------------------------------------------------
(* No user is ever taken away.  What the statements read, and whatever a   *)
(* ROLLBACK TO goes back to, has every user of the committed database.     *)
Keeps(old, new) == \A e \in Emails : old.users[e] # 0 => new.users[e] = old.users[e]

UsersKept ==
    /\ Keeps(conn.disk, conn.view)
    /\ \A i \in DOMAIN conn.stack : Keeps(conn.disk, conn.stack[i].image)

NoUserLost == UsersKept' /\ Keeps(conn.disk, conn'.disk)

LEMMA KeepsItself == \A db : Keeps(db, db)
BY DEF Keeps

(* A statement that leaves the committed database, and every frame it      *)
(* leaves on the stack was there or has an image with its users.           *)
LEMMA DiskKept ==
    ASSUME conn'.disk = conn.disk, Keeps(conn.disk, conn'.view),
           \A i \in DOMAIN conn'.stack : Keeps(conn.disk, conn'.stack[i].image)
    PROVE  NoUserLost
BY KeepsItself DEF NoUserLost, UsersKept

LEMMA RollbackKeepsUsers ==
    ASSUME Typed, NEW t, RollbackBy(t)
    PROVE  NoUserLost
<1>1. conn'.disk = conn.disk /\ conn'.view = conn.disk /\ conn'.stack = <<>>
  BY ConnTyped, EndedStack DEF RollbackBy
<1> QED
  BY <1>1, KeepsItself, DiskKept

(* A write that leaves the users of what was read before it. *)
LEMMA WriteKeepsUsers ==
    ASSUME Typed, UsersKept, NEW db, Keeps(conn.view, db),
           conn'.view = db, conn'.stack = conn.stack,
           conn'.disk = IF InTransaction(conn) THEN conn.disk ELSE db
    PROVE  NoUserLost
<1>1. Keeps(conn.disk, db)
  BY DEF UsersKept, Keeps
<1>2. CASE InTransaction(conn)
  BY <1>1, <1>2, DiskKept DEF UsersKept
<1>3. CASE ~InTransaction(conn)
  BY <1>1, <1>3, KeepsItself DEF NoUserLost, UsersKept, InTransaction
<1> QED
  BY <1>2, <1>3

LEMMA InsertKeepsUsers ==
    ASSUME Typed, UsersKept, NEW t \in Threads, InsertUser(t)
    PROVE  NoUserLost
<1> DEFINE email == req[t].email
<1>1. conn \in Connections(Databases, DBFrames, 0 .. MaxId)
  BY ConnTyped
<1>2. CASE EmailTaken(conn.view.users, email)
  BY <1>2, KeepsItself DEF InsertUser, NoUserLost, UsersKept
<1>3. CASE ~EmailTaken(conn.view.users, email)
  <2>1. PICK id \in Ids :
            conn' = [Written(conn, [conn.view EXCEPT !.users[email] = id]) EXCEPT !.rowid = id]
    BY <1>3 DEF InsertUser
  <2> DEFINE db == [conn.view EXCEPT !.users[email] = id]
  <2>2. Keeps(conn.view, db)
    BY <1>1, <1>3 DEF Keeps, EmailTaken, Connections, Databases
  <2> HIDE DEF db
  <2>3. /\ conn'.view = db /\ conn'.stack = conn.stack
        /\ conn'.disk = IF InTransaction(conn) THEN conn.disk ELSE db
    BY <1>1, <2>1 DEF Written, Connections, db
  <2> QED
    BY <2>2, <2>3, WriteKeepsUsers
<1> QED
  BY <1>2, <1>3

(* The statements of the plugin storage leave the users alone. *)
LEMMA PluginKeepsUsers ==
    ASSUME Typed, UsersKept, NEW t \in Threads, PluginStep(t)
    PROVE  NoUserLost
<1>1. conn \in Connections(Databases, DBFrames, 0 .. MaxId)
  BY ConnTyped
<1>2. CASE conn' = conn
  BY <1>2, KeepsItself DEF NoUserLost, UsersKept
<1>3. CASE UpsertOption(t)
  <2> DEFINE db == [conn.view EXCEPT !.options[KeyOf(t)].flags = req[t].payload]
  <2>1. Keeps(conn.view, db)
    BY <1>1 DEF Keeps, Connections, Databases
  <2> HIDE DEF db
  <2>2. /\ conn'.view = db /\ conn'.stack = conn.stack
        /\ conn'.disk = IF InTransaction(conn) THEN conn.disk ELSE db
    BY <1>1, <1>3 DEF UpsertOption, Written, Connections, db
  <2> QED
    BY <2>1, <2>2, WriteKeepsUsers
<1>4. CASE DeleteFields(t)
  <2> DEFINE db == [conn.view EXCEPT !.options[KeyOf(t)].fields = EmptyRow.fields]
  <2>1. Keeps(conn.view, db)
    BY <1>1 DEF Keeps, Connections, Databases
  <2> HIDE DEF db
  <2>2. /\ conn'.view = db /\ conn'.stack = conn.stack
        /\ conn'.disk = IF InTransaction(conn) THEN conn.disk ELSE db
    BY <1>1, <1>4 DEF DeleteFields, Written, Connections, db
  <2> QED
    BY <2>1, <2>2, WriteKeepsUsers
<1>5. CASE InsertField(t) /\ conn' # conn
  <2>1. PICK k \in todo[t] :
            conn' = [Written(conn, [conn.view EXCEPT
                                        !.options[KeyOf(t)].fields[k] = req[t].payload])
                         EXCEPT !.rowid = PluginRowid]
    BY <1>5 DEF InsertField
  <2> DEFINE db == [conn.view EXCEPT !.options[KeyOf(t)].fields[k] = req[t].payload]
  <2>2. Keeps(conn.view, db)
    BY <1>1 DEF Keeps, Connections, Databases
  <2> HIDE DEF db
  <2>3. /\ conn'.view = db /\ conn'.stack = conn.stack
        /\ conn'.disk = IF InTransaction(conn) THEN conn.disk ELSE db
    BY <1>1, <2>1 DEF Written, Connections, db
  <2> QED
    BY <2>2, <2>3, WriteKeepsUsers
<1> QED
  BY <1>2, <1>3, <1>4, <1>5 DEF PluginStep, Authenticate, ReadRow, ReadFields, SelectRow,
     SelectFields, OptionId, shared

LEMMA UnitKeepsUsers ==
    ASSUME Typed, UsersKept, NEW t \in Threads, UnitStep(t)
    PROVE  NoUserLost
<1>1. /\ conn \in Connections(Databases, DBFrames, 0 .. MaxId)
      /\ DOMAIN conn.stack = 1 .. Len(conn.stack) /\ Len(conn.stack) \in Nat
  BY ConnTyped
<1>2. CASE conn' = conn
  BY <1>2, KeepsItself DEF NoUserLost, UsersKept
<1>3. CASE RollbackBy(t)
  BY <1>3, RollbackKeepsUsers
<1>4. CASE conn' = Begun(conn, t)
  <2>1. /\ conn'.stack = <<Frame("BEGIN", t, conn.disk)>>
        /\ conn'.disk = conn.disk /\ conn'.view = conn.view
    BY <1>1, <1>4, BegunStack
  <2> QED
    BY <2>1, KeepsItself, DiskKept DEF UsersKept, Frame
<1>5. CASE conn' = SavepointOpened(conn, SavepointOf(t), t)
  <2>1. /\ Len(conn'.stack) = Len(conn.stack) + 1
        /\ DOMAIN conn'.stack = 1 .. Len(conn'.stack)
        /\ \A j \in 1 .. Len(conn.stack) : conn'.stack[j] = conn.stack[j]
        /\ conn'.stack[Len(conn'.stack)] = Frame(SavepointOf(t), t, conn.view)
        /\ conn'.disk = conn.disk /\ conn'.view = conn.view
    BY <1>1, <1>5, SavepointOpenedStack
  <2>2. ASSUME NEW i \in DOMAIN conn'.stack
        PROVE  Keeps(conn.disk, conn'.stack[i].image)
    <3>1. CASE i \in 1 .. Len(conn.stack)
      BY <1>1, <2>1, <3>1 DEF UsersKept
    <3>2. CASE i = Len(conn'.stack)
      BY <2>1, <3>2 DEF UsersKept, Frame
    <3> QED
      BY <1>1, <2>1, <3>1, <3>2
  <2> QED
    BY <2>1, <2>2, DiskKept DEF UsersKept
<1>6. CASE HasSavepoint(conn, SavepointOf(t)) /\ conn' = Released(conn, SavepointOf(t))
  <2>1. /\ Len(conn'.stack) \in 0 .. Len(conn.stack)
        /\ DOMAIN conn'.stack = 1 .. Len(conn'.stack)
        /\ \A j \in 1 .. Len(conn'.stack) : conn'.stack[j] = conn.stack[j]
        /\ conn'.view = conn.view
        /\ Len(conn'.stack) > 0 => conn'.disk = conn.disk
        /\ conn'.disk \in {conn.disk, conn.view}
    BY <1>1, <1>6, ReleasedStack
  <2>2. CASE conn'.disk = conn.disk
    BY <1>1, <2>1, <2>2, DiskKept DEF UsersKept
  <2>3. CASE conn'.disk # conn.disk
    <3>1. DOMAIN conn'.stack = {} /\ conn'.disk = conn.view
      BY <2>1, <2>3
    <3> QED
      BY <2>1, <3>1, KeepsItself DEF NoUserLost, UsersKept
  <2> QED
    BY <2>2, <2>3
<1>7. CASE HasSavepoint(conn, SavepointOf(t)) /\ conn' = RolledBackTo(conn, SavepointOf(t))
  <2>1. /\ Len(conn'.stack) \in 1 .. Len(conn.stack)
        /\ DOMAIN conn'.stack = 1 .. Len(conn'.stack)
        /\ \A j \in 1 .. Len(conn'.stack) : conn'.stack[j] = conn.stack[j]
        /\ conn'.disk = conn.disk
    BY <1>1, <1>7, RolledBackToStack
  <2>2. \E i \in DOMAIN conn.stack : conn'.view = conn.stack[i].image
    BY <1>1, <1>7, SavepointFound DEF RolledBackTo, Connections
  <2> QED
    BY <1>1, <2>1, <2>2, DiskKept DEF UsersKept
<1>8. CASE conn' = Committed(conn)
  <2>1. conn'.disk = conn.view /\ conn'.view = conn.view /\ conn'.stack = <<>>
    BY <1>1, <1>8, EndedStack
  <2> QED
    BY <2>1, KeepsItself DEF NoUserLost, UsersKept
<1>9. CASE BeginWork(t) \/ OpenSavepoint(t) \/ Commit(t)
  BY <1>2, <1>4, <1>5, <1>8, <1>9 DEF BeginWork, OpenSavepoint, Commit
<1>10. CASE ReleaseSavepoint(t) \/ RollbackToSavepoint(t) \/ ReleaseRolledBack(t)
  BY <1>2, <1>6, <1>7, <1>10 DEF ReleaseSavepoint, RollbackToSavepoint, ReleaseRolledBack
<1>11. CASE Rollback(t) \/ ResetTx(t) \/ Unwind(t)
  BY <1>2, <1>3, <1>11 DEF Rollback, ResetTx, Unwind
<1> QED
  BY <1>9, <1>10, <1>11 DEF UnitStep

LEMMA NextKeepsUsers ==
    ASSUME Typed, UsersKept, [Next]_vars
    PROVE  NoUserLost
<1>1. CASE conn' = conn
  BY <1>1, KeepsItself DEF NoUserLost, UsersKept
<1>2. CASE Crash
  BY <1>2, KeepsItself DEF Crash, Opened, NoUserLost, UsersKept
<1>3. ASSUME NEW t \in Threads,
             FaultOutside(t) \/ FaultInside(t) \/ FaultInDestructor(t)
      PROVE  NoUserLost
  BY <1>1, <1>3, RollbackKeepsUsers
     DEF FaultOutside, FaultInside, FaultInDestructor, Throws
<1>4. ASSUME NEW t \in Threads, SignUpStep(t)
      PROVE  NoUserLost
  BY <1>1, <1>4, InsertKeepsUsers DEF SignUpStep, Handle, Lookup, Hash, ReadRowid,
     CreateJwt, shared
<1>5. ASSUME NEW t \in Threads, Receive(t)
      PROVE  NoUserLost
  BY <1>1, <1>5 DEF Receive, shared
<1> QED
  BY <1>1, <1>2, <1>3, <1>4, <1>5, PluginKeepsUsers, UnitKeepsUsers
     DEF Next, Run, Quiescent, vars, shared

LEMMA UsersKeptHolds == Spec => []UsersKept
<1>1. Init => UsersKept
  BY KeepsItself DEF Init, Opened, UsersKept
<1>2. Typed /\ UsersKept /\ [Next]_vars => UsersKept'
  BY NextKeepsUsers DEF NoUserLost
<1> QED
  BY <1>1, <1>2, TypedInvariant, PTL DEF Spec

(* In every build, whatever is rolled back and whoever's it was: a user    *)
(* that was committed stays, with its id.                                  *)
THEOREM UsersStay == Spec => CommittedUsersStay
<1>1. ASSUME Typed, UsersKept, [Next]_vars
      PROVE  [\A e \in Emails :
                 conn.disk.users[e] # 0 => conn'.disk.users[e] = conn.disk.users[e]]_vars
  BY <1>1, NextKeepsUsers DEF NoUserLost, Keeps
<1> QED
  BY <1>1, TypedInvariant, UsersKeptHolds, PTL DEF Spec, CommittedUsersStay

-----------------------------------------------------------------------------
(* The mutexes.  A step of a thread takes no mutex and gives none back, or *)
(* takes the free one of its storage, or gives that one back.              *)
LEMMA StorageTyped == \A t : StorageOf(t) \in Storages
BY DEF StorageOf, Storages

LEMMA MutexKept ==
    ASSUME Typed, MutexesHeld, NEW t \in Threads, StepOf(t), mutex' = mutex,
           Holding(t)' <=> Holding(t), Holding(t) => req'[t] = req[t]
    PROVE  MutexesHeld'
<1> SUFFICES ASSUME NEW u \in Threads, NEW s \in Storages
             PROVE  (mutex[s] = u <=> Holding(u) /\ StorageOf(u) = s)'
  BY DEF MutexesHeld
<1>1. mutex[s] = u <=> Holding(u) /\ StorageOf(u) = s
  BY DEF MutexesHeld
<1>2. Holding(u)' <=> Holding(u)
  BY OthersStay DEF Holding
<1>3. Holding(u) => req'[u] = req[u]
  BY OthersStay
<1> QED
  BY <1>1, <1>2, <1>3 DEF StorageOf, SignsUp

LEMMA MutexTaken ==
    ASSUME Typed, MutexesHeld, NEW t \in Threads, StepOf(t), Free(StorageOf(t)),
           mutex' = Locked(t), Holding(t)', req'[t] = req[t]
    PROVE  MutexesHeld'
<1> SUFFICES ASSUME NEW u \in Threads, NEW s \in Storages
             PROVE  (mutex[s] = u <=> Holding(u) /\ StorageOf(u) = s)'
  BY DEF MutexesHeld
<1>1. mutex \in [Storages -> Threads \cup {NoThread}]
  BY DEF Typed, SharedType
<1>2. mutex[s] = u <=> Holding(u) /\ StorageOf(u) = s
  BY DEF MutexesHeld
<1>3. mutex[StorageOf(t)] \notin Threads
  BY ThreadsAssumption DEF Free
<1>4. CASE u = t
  <2>1. StorageOf(u)' = StorageOf(t)
    BY <1>4 DEF StorageOf, SignsUp
  <2>2. ~Holding(t)
    BY <1>3, StorageTyped DEF MutexesHeld
  <2> QED
    BY <1>1, <1>2, <1>4, <2>1, <2>2 DEF Locked
<1>5. CASE u # t
  <2>1. StorageOf(u)' = StorageOf(u) /\ (Holding(u)' <=> Holding(u))
    BY <1>5, OthersStay DEF StorageOf, SignsUp, Holding
  <2> QED
    BY <1>1, <1>2, <1>3, <1>5, <2>1 DEF Locked
<1> QED
  BY <1>4, <1>5

LEMMA MutexGiven ==
    ASSUME Typed, MutexesHeld, NEW t \in Threads, StepOf(t), Holding(t),
           mutex' = Unlocked(t), ~Holding(t)'
    PROVE  MutexesHeld'
<1> SUFFICES ASSUME NEW u \in Threads, NEW s \in Storages
             PROVE  (mutex[s] = u <=> Holding(u) /\ StorageOf(u) = s)'
  BY DEF MutexesHeld
<1>1. mutex \in [Storages -> Threads \cup {NoThread}]
  BY DEF Typed, SharedType
<1>2. mutex[s] = u <=> Holding(u) /\ StorageOf(u) = s
  BY DEF MutexesHeld
<1>3. mutex[StorageOf(t)] = t
  BY StorageTyped DEF MutexesHeld
<1>4. mutex[s] = t => s = StorageOf(t)
  BY DEF MutexesHeld
<1>5. CASE u = t
  BY <1>1, <1>4, <1>5, ThreadsAssumption DEF Unlocked
<1>6. CASE u # t
  <2>1. StorageOf(u)' = StorageOf(u) /\ (Holding(u)' <=> Holding(u))
    BY <1>6, OthersStay DEF StorageOf, SignsUp, Holding
  <2> QED
    BY <1>1, <1>2, <1>3, <1>6, <2>1, ThreadsAssumption DEF Unlocked
<1> QED
  BY <1>5, <1>6

LEMMA MutexesHeldNext ==
    ASSUME Typed, MutexesHeld, [Next]_vars
    PROVE  MutexesHeld'
<1> USE DEF Holding, Unit, Body, SignUpBody, WriteBody, Unwinding
<1>0. /\ pc \in [Threads -> Steps]
      /\ req \in [Threads -> Requests \cup {NoRequest}]
  BY DEF Typed, LocalType
<1>1. CASE UNCHANGED vars
  BY <1>1 DEF MutexesHeld, StorageOf, SignsUp, vars, shared, local
<1>2. CASE Crash
  BY <1>2, ThreadsAssumption DEF Crash, MutexesHeld
<1>3. ASSUME NEW t \in Threads, Receive(t) \/ SignUpStep(t)
      PROVE  MutexesHeld'
  <2>1. StepOf(t) /\ mutex' = mutex
    BY <1>3 DEF StepOf, Run, Receive, SignUpStep, Handle, Lookup, Hash, InsertUser,
       ReadRowid, CreateJwt, shared
  <2>2. Holding(t)' <=> Holding(t)
    BY <1>0, <1>3 DEF Receive, SignUpStep, Handle, Lookup, Hash, InsertUser, ReadRowid,
       CreateJwt, Answer, Reply, Goto
  <2>3. Holding(t) => req'[t] = req[t]
    BY <1>0, <1>3 DEF Receive, SignUpStep, Handle, Lookup, Hash, InsertUser, ReadRowid,
       CreateJwt
  <2> QED
    BY <2>1, <2>2, <2>3, MutexKept
<1>4. ASSUME NEW t \in Threads, ReadRow(t)
      PROVE  MutexesHeld'
  <2>1. StepOf(t)
    BY <1>4 DEF StepOf, Run, PluginStep
  <2>2. CASE mutex' = mutex /\ Answer(t, "notFound")
    BY <1>0, <1>4, <2>1, <2>2, MutexKept DEF ReadRow, Answer, Reply, Goto
  <2>3. CASE mutex' = Locked(t) /\ Goto(t, "readFields") /\ req' = req
    <3>1. StorageOf(t) = "plugins"
      <4>1. pc[t] \in StepsOf(req[t].kind)
        BY DEF Typed, ControlOK
      <4> QED
        BY <1>4, <4>1 DEF ReadRow, StepsOf, StorageOf, SignsUp
    <3> QED
      BY <1>0, <1>4, <2>1, <2>3, <3>1, MutexTaken DEF ReadRow, Goto
  <2> QED
    BY <1>4, <2>2, <2>3 DEF ReadRow
<1>5. ASSUME NEW t \in Threads, ReadFields(t)
      PROVE  MutexesHeld'
  BY <1>0, <1>5, MutexGiven DEF ReadFields, Reply, Goto, StepOf, Run, PluginStep
<1>6. ASSUME NEW t \in Threads,
             \/ Authenticate(t) \/ SelectRow(t) \/ SelectFields(t) \/ UpsertOption(t)
             \/ OptionId(t) \/ DeleteFields(t) \/ InsertField(t)
      PROVE  MutexesHeld'
  <2>1. StepOf(t) /\ mutex' = mutex
    BY <1>6 DEF StepOf, Run, PluginStep, Authenticate, SelectRow, SelectFields,
       UpsertOption, OptionId, DeleteFields, InsertField, shared
  <2>2. Holding(t)' <=> Holding(t)
    BY <1>0, <1>6 DEF Authenticate, SelectRow, SelectFields, UpsertOption, OptionId,
       DeleteFields, InsertField, Answer, Reply, Goto
  <2>3. Holding(t) => req'[t] = req[t]
    BY <1>0, <1>6 DEF Authenticate, SelectRow, SelectFields, UpsertOption, OptionId,
       DeleteFields, InsertField
  <2> QED
    BY <2>1, <2>2, <2>3, MutexKept
<1>7. ASSUME NEW t \in Threads, BeginWork(t)
      PROVE  MutexesHeld'
  <2>1. StepOf(t)
    BY <1>7 DEF StepOf, Run, UnitStep
  <2>2. CASE InTransaction(conn)
    BY <1>0, <1>7, <2>1, <2>2, MutexKept DEF BeginWork, Answer, Reply, Goto
  <2>3. CASE ~InTransaction(conn)
    BY <1>0, <1>7, <2>1, <2>3, MutexTaken DEF BeginWork, Goto
  <2> QED
    BY <2>2, <2>3
<1>8. ASSUME NEW t \in Threads, Commit(t)
      PROVE  MutexesHeld'
  <2>1. StepOf(t)
    BY <1>8 DEF StepOf, Run, UnitStep
  <2>2. CASE InTransaction(conn)
    <3>1. ~Holding(t)'
      BY <1>0, <1>8, <2>2 DEF Commit, Answer, Reply, Goto
    <3> QED
      BY <1>8, <2>1, <2>2, <3>1, MutexGiven DEF Commit
  <2>3. CASE ~InTransaction(conn)
    BY <1>0, <1>8, <2>1, <2>3, MutexKept DEF Commit, Goto
  <2> QED
    BY <2>2, <2>3
<1>9. ASSUME NEW t \in Threads,
             \/ OpenSavepoint(t) \/ ReleaseSavepoint(t) \/ RollbackToSavepoint(t)
             \/ ReleaseRolledBack(t) \/ Rollback(t)
      PROVE  MutexesHeld'
  <2>1. StepOf(t) /\ mutex' = mutex /\ req' = req
    BY <1>9 DEF StepOf, Run, UnitStep, OpenSavepoint, ReleaseSavepoint,
       RollbackToSavepoint, ReleaseRolledBack, Rollback
  <2>2. Holding(t)' <=> Holding(t)
    BY <1>0, <1>9 DEF OpenSavepoint, ReleaseSavepoint, RollbackToSavepoint,
       ReleaseRolledBack, Rollback, AfterGuard, Goto
  <2> QED
    BY <2>1, <2>2, MutexKept
<1>10. ASSUME NEW t \in Threads, ResetTx(t) \/ Unwind(t)
       PROVE  MutexesHeld'
  BY <1>0, <1>10, MutexGiven
     DEF ResetTx, Unwind, Answer, Reply, Goto, StepOf, Run, UnitStep
<1>11. ASSUME NEW t \in Threads, FaultOutside(t)
       PROVE  MutexesHeld'
  <2>1. StepOf(t)
    BY <1>11 DEF StepOf
  <2>2. pc'[t] = "idle"
    BY <1>0, <1>11 DEF FaultOutside, Answer, Reply, Goto
  <2>3. CASE pc[t] = "readFields"
    BY <1>11, <2>1, <2>2, <2>3, MutexGiven DEF FaultOutside
  <2>4. CASE pc[t] # "readFields"
    BY <1>11, <2>1, <2>2, <2>4, MutexKept DEF FaultOutside
  <2> QED
    BY <2>3, <2>4
<1>12. ASSUME NEW t \in Threads, FaultInside(t)
       PROVE  MutexesHeld'
  <2>1. StepOf(t) /\ mutex' = mutex /\ req' = req
    BY <1>12 DEF StepOf, FaultInside
  <2>2. Holding(t)' <=> Holding(t)
    BY <1>0, <1>12 DEF FaultInside, AfterGuard, Guarded, Goto
  <2> QED
    BY <2>1, <2>2, MutexKept
<1>13. ASSUME NEW t \in Threads, FaultInDestructor(t)
       PROVE  MutexesHeld'
  BY <1>0, <1>13, MutexGiven DEF FaultInDestructor, Answer, Reply, Goto, StepOf
<1> QED
  BY <1>1, <1>2, <1>3, <1>4, <1>5, <1>6, <1>7, <1>8, <1>9, <1>10, <1>11, <1>12, <1>13
     DEF Next, Run, PluginStep, UnitStep, Quiescent

LEMMA MutexesHeldHolds == Spec => []MutexesHeld
<1>1. Init => MutexesHeld
  BY ThreadsAssumption
     DEF Init, MutexesHeld, Holding, Unit, Body, SignUpBody, WriteBody, Unwinding
<1>2. Typed /\ MutexesHeld /\ [Next]_vars => MutexesHeld'
  BY MutexesHeldNext
<1> QED
  BY <1>1, <1>2, TypedInvariant, PTL DEF Spec

=============================================================================
