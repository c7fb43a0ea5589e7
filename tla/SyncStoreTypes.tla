--------------------------- MODULE SyncStoreTypes ---------------------------
(***************************************************************************)
(* Type correctness of SyncStore, for every value of the constants.        *)
(*                                                                         *)
(* TypeOK is not inductive: that a POST's handler writes into a row of the *)
(* table needs to know that the thread serves a POST, and for a user.  So  *)
(* TypeOK is proved together with ControlOK.                               *)
(***************************************************************************)
EXTENDS SyncStoreInvariants, TLAPS

-----------------------------------------------------------------------------
(* What the SQL statements do to a connection, whoever sends them.         *)

(* An existing savepoint is found, under its name, in the open transaction.*)
LEMMA SavepointFound ==
    ASSUME NEW c, NEW n, HasSavepoint(c, n)
    PROVE  /\ SavepointIndex(c, n) \in DOMAIN c.stack
           /\ c.stack[SavepointIndex(c, n)].name = n
BY DEF HasSavepoint, SavepointIndex, Latest

(* The statements map connections to connections. *)
LEMMA OpenedType ==
    ASSUME NEW DB, NEW F, NEW Rowids, NEW db \in DB, 0 \in Rowids
    PROVE  Opened(db) \in Connections(DB, F, Rowids)
BY DEF Opened, Connections

LEMMA BegunType ==
    ASSUME NEW DB, NEW F, NEW Rowids, NEW c \in Connections(DB, F, Rowids), NEW t,
           Frame("BEGIN", t, c.disk) \in F
    PROVE  Begun(c, t) \in Connections(DB, F, Rowids)
<1>1. <<Frame("BEGIN", t, c.disk)>> \in Seq(F)
  OBVIOUS
<1> QED
  BY <1>1 DEF Begun, Connections

LEMMA CommittedType ==
    ASSUME NEW DB, NEW F, NEW Rowids, NEW c \in Connections(DB, F, Rowids)
    PROVE  Committed(c) \in Connections(DB, F, Rowids)
<1>1. <<>> \in Seq(F)
  OBVIOUS
<1> QED
  BY <1>1 DEF Committed, Connections

LEMMA RolledBackType ==
    ASSUME NEW DB, NEW F, NEW Rowids, NEW c \in Connections(DB, F, Rowids)
    PROVE  RolledBack(c) \in Connections(DB, F, Rowids)
<1>1. <<>> \in Seq(F)
  OBVIOUS
<1> QED
  BY <1>1 DEF RolledBack, Connections

LEMMA SavepointOpenedType ==
    ASSUME NEW DB, NEW F, NEW Rowids, NEW c \in Connections(DB, F, Rowids), NEW n, NEW t,
           Frame(n, t, c.view) \in F
    PROVE  SavepointOpened(c, n, t) \in Connections(DB, F, Rowids)
<1>1. Append(c.stack, Frame(n, t, c.view)) \in Seq(F)
  BY DEF Connections
<1> QED
  BY <1>1 DEF SavepointOpened, Connections

LEMMA WrittenType ==
    ASSUME NEW DB, NEW F, NEW Rowids, NEW c \in Connections(DB, F, Rowids), NEW db \in DB
    PROVE  Written(c, db) \in Connections(DB, F, Rowids)
BY DEF Written, Connections

LEMMA RolledBackToType ==
    ASSUME NEW DB, NEW F, NEW Rowids, NEW c \in Connections(DB, F, Rowids),
           NEW n, HasSavepoint(c, n), \A x \in F : x.image \in DB
    PROVE  RolledBackTo(c, n) \in Connections(DB, F, Rowids)
<1> DEFINE i == SavepointIndex(c, n)
<1>1. i \in 1 .. Len(c.stack) /\ c.stack \in Seq(F)
  BY SavepointFound DEF Connections
<1>2. c.stack[i].image \in DB
  BY <1>1
<1>3. SubSeq(c.stack, 1, i) \in Seq(F)
  BY <1>1
<1> HIDE DEF i
<1> QED
  BY <1>2, <1>3 DEF RolledBackTo, Connections, i

LEMMA ReleasedType ==
    ASSUME NEW DB, NEW F, NEW Rowids, NEW c \in Connections(DB, F, Rowids),
           NEW n, HasSavepoint(c, n)
    PROVE  Released(c, n) \in Connections(DB, F, Rowids)
<1> DEFINE i == SavepointIndex(c, n)
<1>1. i \in 1 .. Len(c.stack) /\ c.stack \in Seq(F)
  BY SavepointFound DEF Connections
<1>2. SubSeq(c.stack, 1, i - 1) \in Seq(F)
  BY <1>1
<1>3. Committed(c) \in Connections(DB, F, Rowids)
  BY CommittedType
<1> HIDE DEF i
<1> QED
  BY <1>2, <1>3 DEF Released, Connections, i

-----------------------------------------------------------------------------
(* ROLLBACK TO keeps the outermost frames, and at least one. *)
LEMMA RolledBackToStack ==
    ASSUME NEW DB, NEW F, NEW Rowids, NEW c \in Connections(DB, F, Rowids),
           NEW n, HasSavepoint(c, n)
    PROVE  LET d == RolledBackTo(c, n)
           IN  /\ Len(d.stack) \in 1 .. Len(c.stack)
               /\ DOMAIN d.stack = 1 .. Len(d.stack)
               /\ \A j \in 1 .. Len(d.stack) : d.stack[j] = c.stack[j]
               /\ d.disk = c.disk
<1> DEFINE i == SavepointIndex(c, n)
<1>1. i \in 1 .. Len(c.stack) /\ c.stack \in Seq(F)
  BY SavepointFound DEF Connections
<1> HIDE DEF i
<1>2. RolledBackTo(c, n).stack = SubSeq(c.stack, 1, i)
  BY DEF RolledBackTo, Connections, i
<1>3. RolledBackTo(c, n).disk = c.disk
  BY DEF RolledBackTo, Connections, i
<1> QED
  BY <1>1, <1>2, <1>3

(* So does RELEASE, unless it releases the outermost frame: a transaction  *)
(* that was begun is not committed by it.                                  *)
LEMMA ReleasedStack ==
    ASSUME NEW DB, NEW F, NEW Rowids, NEW c \in Connections(DB, F, Rowids),
           NEW n, HasSavepoint(c, n)
    PROVE  LET d == Released(c, n)
           IN  /\ Len(d.stack) \in 0 .. Len(c.stack)
               /\ DOMAIN d.stack = 1 .. Len(d.stack)
               /\ \A j \in 1 .. Len(d.stack) : d.stack[j] = c.stack[j]
               /\ d.view = c.view
               /\ c.stack[1].name # n => Len(d.stack) > 0 /\ d.disk = c.disk
               /\ Len(d.stack) > 0 => d.disk = c.disk
               /\ d.disk \in {c.disk, c.view}
<1> DEFINE i == SavepointIndex(c, n)
<1>1. i \in 1 .. Len(c.stack) /\ c.stack \in Seq(F) /\ c.stack[i].name = n
  BY SavepointFound DEF Connections
<1> HIDE DEF i
<1>2. CASE i = 1
  <2>1. Released(c, n).stack = <<>> /\ Released(c, n).view = c.view
    BY <1>2 DEF Released, Committed, Connections, i
  <2>2. Released(c, n).disk = c.view
    BY <1>2 DEF Released, Committed, Connections, i
  <2> QED
    BY <1>1, <1>2, <2>1, <2>2
<1>3. CASE i # 1
  <2>1. /\ Released(c, n).stack = SubSeq(c.stack, 1, i - 1)
        /\ Released(c, n).view = c.view
        /\ Released(c, n).disk = c.disk
    BY <1>3 DEF Released, Connections, i
  <2> QED
    BY <1>1, <1>3, <2>1
<1> QED
  BY <1>2, <1>3

(* BEGIN, SAVEPOINT and the end of a transaction. *)
LEMMA BegunStack ==
    ASSUME NEW DB, NEW F, NEW Rowids, NEW c \in Connections(DB, F, Rowids), NEW t
    PROVE  /\ Begun(c, t).stack = <<Frame("BEGIN", t, c.disk)>>
           /\ Begun(c, t).disk = c.disk
           /\ Begun(c, t).view = c.view
BY DEF Begun, Connections

LEMMA SavepointOpenedStack ==
    ASSUME NEW DB, NEW F, NEW Rowids, NEW c \in Connections(DB, F, Rowids), NEW n, NEW t
    PROVE  LET d == SavepointOpened(c, n, t)
           IN  /\ Len(d.stack) = Len(c.stack) + 1
               /\ DOMAIN d.stack = 1 .. Len(d.stack)
               /\ \A j \in 1 .. Len(c.stack) : d.stack[j] = c.stack[j]
               /\ d.stack[Len(d.stack)] = Frame(n, t, c.view)
               /\ d.disk = c.disk
               /\ d.view = c.view
BY DEF SavepointOpened, Connections

LEMMA EndedStack ==
    ASSUME NEW DB, NEW F, NEW Rowids, NEW c \in Connections(DB, F, Rowids)
    PROVE  /\ RolledBack(c).stack = <<>> /\ Committed(c).stack = <<>>
           /\ RolledBack(c).disk = c.disk /\ RolledBack(c).view = c.disk
           /\ Committed(c).disk = c.view /\ Committed(c).view = c.view
BY DEF RolledBack, Committed, Connections

-----------------------------------------------------------------------------
(* Type correctness. *)
DBFrames == Frames(FrameNames, Threads, Databases)

LocalType ==
    /\ pc \in [Threads -> Steps]
    /\ req \in [Threads -> Requests \cup {NoRequest}]
    /\ account \in [Threads -> 0 .. MaxId]
    /\ todo \in [Threads -> SUBSET FieldKeys]
    /\ seen \in [Threads -> Rows]
    /\ status \in [Threads -> Outcomes \cup {"none", "pending"}]

SharedType ==
    /\ conn \in Connections(Databases, DBFrames, 0 .. MaxId)
    /\ mutex \in [Storages -> Threads \cup {NoThread}]
    /\ issued \in SUBSET (Emails \X (0 .. MaxId))
    /\ damaged \in BOOLEAN
    /\ stuck \in BOOLEAN

CounterType ==
    /\ faults \in 0 .. MaxFaults
    /\ crashes \in 0 .. MaxCrashes
    /\ requests \in 0 .. MaxRequests

LEMMA TypeParts == TypeOK <=> LocalType /\ SharedType /\ CounterType
BY DEF TypeOK, LocalType, SharedType, CounterType, DBFrames

-----------------------------------------------------------------------------
LEMMA EmptyRowType == EmptyRow \in Rows
BY DEF EmptyRow, Rows, Values

LEMMA InitialDatabaseType == InitialDatabase \in Databases
BY InitialUsersAssumption, EmptyRowType DEF InitialDatabase, Databases

LEMMA FrameType ==
    ASSUME NEW n \in FrameNames, NEW t \in Threads, NEW db \in Databases
    PROVE  Frame(n, t, db) \in DBFrames
BY DEF Frame, DBFrames, Frames

(* What a thread serves, told from where it is. *)
LEMMA ServesSignUp ==
    ASSUME LocalType, ControlOK, NEW t \in Threads,
           pc[t] \in {"handle", "lookup", "jwt"} \cup SignUpBody
    PROVE  req[t] \in SignUps
<1>1. req[t] \in SignUps \cup Writes \cup Reads \cup {NoRequest}
  BY DEF LocalType, Requests
<1>2. pc[t] \in StepsOf(req[t].kind)
  BY DEF ControlOK
<1>3. req[t] \notin Writes
  BY <1>2 DEF Writes, StepsOf, Unwinding, SignUpBody
<1>4. req[t] \notin Reads
  BY <1>2 DEF Reads, StepsOf, SignUpBody
<1>5. req[t] # NoRequest
  BY <1>2 DEF NoRequest, StepsOf, SignUpBody
<1> QED
  BY <1>1, <1>3, <1>4, <1>5

LEMMA ServesWrite ==
    ASSUME LocalType, ControlOK, NEW t \in Threads, pc[t] \in WriteBody
    PROVE  req[t] \in Writes /\ KeyOf(t) \in Keys
<1>1. req[t] \in SignUps \cup Writes \cup Reads \cup {NoRequest}
  BY DEF LocalType, Requests
<1>2. pc[t] \in StepsOf(req[t].kind)
  BY DEF ControlOK
<1>3. req[t] \notin SignUps
  BY <1>2 DEF SignUps, StepsOf, Unwinding, WriteBody
<1>4. req[t] \notin Reads
  BY <1>2 DEF Reads, StepsOf, WriteBody
<1>5. req[t] # NoRequest
  BY <1>2 DEF NoRequest, StepsOf, WriteBody
<1>6. req[t] \in Writes
  BY <1>1, <1>3, <1>4, <1>5
<1>7. req[t].kind = "post" /\ req[t].plugin \in Plugins
  BY <1>6 DEF Writes
<1>8. req[t].uid \in Ids
  BY <1>7 DEF ControlOK, WriteBody
<1> QED
  BY <1>6, <1>7, <1>8 DEF KeyOf, Keys

LEMMA ServesRead ==
    ASSUME LocalType, ControlOK, NEW t \in Threads, pc[t] \in {"read", "readFields"}
    PROVE  req[t] \in Reads /\ KeyOf(t) \in Keys
<1>1. req[t] \in SignUps \cup Writes \cup Reads \cup {NoRequest}
  BY DEF LocalType, Requests
<1>2. pc[t] \in StepsOf(req[t].kind)
  BY DEF ControlOK
<1>3. req[t] \notin SignUps
  BY <1>2 DEF SignUps, StepsOf, Unwinding
<1>4. req[t] \notin Writes
  BY <1>2 DEF Writes, StepsOf, Unwinding
<1>5. req[t] # NoRequest
  BY <1>2 DEF NoRequest, StepsOf
<1>6. req[t] \in Reads
  BY <1>1, <1>3, <1>4, <1>5
<1>7. req[t].kind = "get" /\ req[t].plugin \in Plugins
  BY <1>6 DEF Reads
<1>8. req[t].uid \in Ids
  BY <1>7 DEF ControlOK
<1> QED
  BY <1>6, <1>7, <1>8 DEF KeyOf, Keys

LEMMA ServesAuth ==
    ASSUME LocalType, ControlOK, NEW t \in Threads, pc[t] = "auth"
    PROVE  req[t] \in Writes \cup Reads
<1>1. req[t] \in SignUps \cup Writes \cup Reads \cup {NoRequest}
  BY DEF LocalType, Requests
<1>2. pc[t] \in StepsOf(req[t].kind)
  BY DEF ControlOK
<1>3. req[t] \notin SignUps
  BY <1>2 DEF SignUps, StepsOf, Unwinding
<1>4. req[t] # NoRequest
  BY <1>2 DEF NoRequest, StepsOf
<1> QED
  BY <1>1, <1>3, <1>4

LEMMA ServesUnit ==
    ASSUME LocalType, ControlOK, NEW t \in Threads, pc[t] \in Unit \cup {"begin"}
    PROVE  req[t] \in SignUps \cup Writes
<1>1. req[t] \in SignUps \cup Writes \cup Reads \cup {NoRequest}
  BY DEF LocalType, Requests
<1>2. pc[t] \in StepsOf(req[t].kind)
  BY DEF ControlOK
<1>3. req[t] \notin Reads
  BY <1>2 DEF Reads, StepsOf, Unit, Body, SignUpBody, WriteBody, Unwinding
<1>4. req[t] # NoRequest
  BY <1>2 DEF NoRequest, StepsOf, Unit, Body, SignUpBody, WriteBody, Unwinding
<1> QED
  BY <1>1, <1>3, <1>4

-----------------------------------------------------------------------------
(* An answer brings the thread back to the pool, whatever the outcome. *)
LEMMA ReplyKeeps ==
    ASSUME LocalType, ControlOK, NEW t \in Threads, NEW outcome \in Outcomes,
           NEW row \in Rows, Reply(t, outcome, row)
    PROVE  LocalType' /\ ControlOK'
<1>1. LocalType'
  BY DataAssumption DEF LocalType, Reply, Goto, Steps
<1>2. ControlOK'
  BY DEF ControlOK, LocalType, Reply, Goto, StepsOf, NoRequest
<1> QED
  BY <1>1, <1>2

LEMMA AnswerKeeps ==
    ASSUME LocalType, ControlOK, NEW t \in Threads, NEW outcome \in Outcomes,
           Answer(t, outcome)
    PROVE  LocalType' /\ ControlOK'
BY ReplyKeeps, EmptyRowType DEF Answer

(* A move to a step of the same request, other than back to the middleware.*)
LEMMA GotoKeeps ==
    ASSUME LocalType, ControlOK, NEW t \in Threads, NEW step, Goto(t, step),
           req' = req, step \in StepsOf(req[t].kind),
           pc[t] # "auth" \/ req[t].uid \in Ids
    PROVE  pc' \in [Threads -> Steps] /\ ControlOK'
<1>1. step \in Steps
  BY DEF StepsOf, Steps, Unit, Body, SignUpBody, WriteBody, Unwinding
<1>2. pc' \in [Threads -> Steps]
  BY <1>1 DEF LocalType, Goto
<1>3. ControlOK'
  BY DEF ControlOK, LocalType, Goto
<1> QED
  BY <1>2, <1>3

-----------------------------------------------------------------------------
(* One lemma per group of actions: the parts of TypeOK that are not the    *)
(* thread's own follow from the facts about connections.                   *)
Typed == LocalType /\ SharedType /\ CounterType /\ ControlOK

LEMMA InitTyped == Init => Typed
<1> SUFFICES ASSUME Init PROVE Typed
  OBVIOUS
<1>1. LocalType
  BY DataAssumption, EmptyRowType DEF Init, LocalType, Steps
<1>2. SharedType
  <2>1. conn \in Connections(Databases, DBFrames, 0 .. MaxId)
    BY DataAssumption, OpenedType, InitialDatabaseType DEF Init
  <2>2. issued \in SUBSET (Emails \X (0 .. MaxId))
    BY DataAssumption DEF Init, Ids
  <2> QED
    BY <2>1, <2>2 DEF Init, SharedType
<1>3. CounterType
  BY BoundsAssumption DEF Init, CounterType
<1>4. ControlOK
  BY DEF Init, ControlOK, NoRequest, StepsOf
<1> QED
  BY <1>1, <1>2, <1>3, <1>4 DEF Typed

LEMMA ReceiveTyped ==
    ASSUME Typed, NEW t \in Threads, Receive(t)
    PROVE  Typed'
<1> USE DEF Receive
<1>1. LocalType /\ SharedType /\ CounterType /\ ControlOK
  BY DEF Typed
<1>2. PICK r \in Requests :
          /\ req' = [req EXCEPT ![t] = r]
          /\ Goto(t, CASE r.kind = "google"   -> "handle"
                       [] r.kind = "register" -> "begin"
                       [] OTHER               -> "auth")
  OBVIOUS
<1>3. r.kind \in AllKinds
  BY DEF Requests, SignUps, Writes, Reads, AllKinds
<1>4. LocalType'
  <2>1. pc' \in [Threads -> Steps]
    BY <1>1, <1>2, <1>3 DEF LocalType, Goto, Steps
  <2> QED
    BY <1>1, <1>2, <2>1, EmptyRowType DEF LocalType
<1>5. ControlOK'
  BY <1>1, <1>2, <1>3 DEF ControlOK, LocalType, Goto, StepsOf, AllKinds
<1>6. SharedType'
  BY <1>1 DEF SharedType, shared
<1>7. CounterType'
  BY <1>1, BoundsAssumption DEF CounterType
<1> QED
  BY <1>4, <1>5, <1>6, <1>7 DEF Typed

LEMMA HandleTyped ==
    ASSUME Typed, NEW t \in Threads, Handle(t)
    PROVE  Typed'
<1> USE DEF Handle
<1>1. LocalType /\ SharedType /\ CounterType /\ ControlOK
  BY DEF Typed
<1>2. LocalType' /\ ControlOK'
  <2>1. CASE /\ Goto(t, "lookup")
             /\ UNCHANGED <<req, account, todo, seen, status>>
    <3>1. "lookup" \in StepsOf(req[t].kind)
      BY <1>1, ServesSignUp DEF ControlOK, StepsOf, SignUps, Unwinding
    <3> QED
      BY <1>1, <2>1, <3>1, GotoKeeps DEF LocalType
  <2>2. CASE Answer(t, "error")
    BY <1>1, <2>2, AnswerKeeps DEF Outcomes, Failures
  <2>3. CASE Answer(t, "aborted")
    BY <1>1, <2>3, AnswerKeeps DEF Outcomes, Failures
  <2> QED
    BY <2>1, <2>2, <2>3
<1>3. SharedType' /\ CounterType'
  BY <1>1 DEF SharedType, CounterType, shared, counters
<1> QED
  BY <1>2, <1>3 DEF Typed

LEMMA LookupTyped ==
    ASSUME Typed, NEW t \in Threads, Lookup(t)
    PROVE  Typed'
<1> USE DEF Lookup
<1>1. LocalType /\ SharedType /\ CounterType /\ ControlOK
  BY DEF Typed
<1>2. LocalType' /\ ControlOK'
  <2>1. req[t] \in SignUps /\ req[t].kind = "google"
    BY <1>1, ServesSignUp DEF ControlOK, StepsOf, SignUps, Unwinding
  <2>2. conn.view.users[req[t].email] \in 0 .. MaxId
    BY <1>1, <2>1 DEF SharedType, Connections, Databases, SignUps
  <2>3. {"begin", "jwt"} \subseteq StepsOf(req[t].kind)
    BY <2>1 DEF StepsOf
  <2>4. pc' \in [Threads -> Steps] /\ ControlOK'
    BY <1>1, <2>3, GotoKeeps
  <2> QED
    BY <1>1, <2>2, <2>4 DEF LocalType
<1>3. SharedType' /\ CounterType'
  BY <1>1 DEF SharedType, CounterType, shared, counters
<1> QED
  BY <1>1, <1>2, <1>3 DEF Typed

LEMMA AuthenticateTyped ==
    ASSUME Typed, NEW t \in Threads, Authenticate(t)
    PROVE  Typed'
<1> USE DEF Authenticate
<1>1. LocalType /\ SharedType /\ CounterType /\ ControlOK
  BY DEF Typed
<1>2. LocalType' /\ ControlOK'
  <2>1. CASE IsUser(conn.view.users, req[t].uid)
    <3>1. PICK e \in Emails : conn.view.users[e] = req[t].uid
      BY <2>1 DEF IsUser
    <3>2. req[t].uid \in Ids
      BY <1>1, <2>1, <3>1, DataAssumption DEF SharedType, Connections, Databases, IsUser, Ids
    <3>3. (IF req[t].kind = "post" THEN "begin" ELSE "read") \in StepsOf(req[t].kind)
      BY <1>1, ServesAuth DEF StepsOf, Writes, Reads
    <3> QED
      BY <1>1, <2>1, <3>2, <3>3, GotoKeeps DEF LocalType
  <2>2. CASE ~IsUser(conn.view.users, req[t].uid)
    BY <1>1, <2>2, AnswerKeeps DEF Outcomes, Failures
  <2> QED
    BY <2>1, <2>2
<1>3. SharedType' /\ CounterType'
  BY <1>1 DEF SharedType, CounterType, shared, counters
<1> QED
  BY <1>1, <1>2, <1>3 DEF Typed

LEMMA HashTyped ==
    ASSUME Typed, NEW t \in Threads, Hash(t)
    PROVE  Typed'
<1> USE DEF Hash
<1>1. LocalType /\ SharedType /\ CounterType /\ ControlOK
  BY DEF Typed
<1>2. LocalType' /\ ControlOK'
  <2>1. {"savepoint", "rollback"} \subseteq StepsOf(req[t].kind)
    BY <1>1, ServesSignUp DEF ControlOK, StepsOf, SignUps, SignUpBody, Unwinding
  <2>2. pc' \in [Threads -> Steps] /\ ControlOK'
    BY <1>1, <2>1, GotoKeeps
  <2> QED
    BY <1>1, <2>2 DEF LocalType, Outcomes, Failures
<1>3. SharedType' /\ CounterType'
  BY <1>1 DEF SharedType, CounterType, shared, counters
<1> QED
  BY <1>1, <1>2, <1>3 DEF Typed

LEMMA SelectRowTyped ==
    ASSUME Typed, NEW t \in Threads, SelectRow(t)
    PROVE  Typed'
<1> USE DEF SelectRow
<1>1. LocalType /\ SharedType /\ CounterType /\ ControlOK
  BY DEF Typed
<1>2. LocalType' /\ ControlOK'
  <2>1. req[t] \in Writes /\ KeyOf(t) \in Keys
    BY <1>1, ServesWrite DEF WriteBody
  <2>2. conn.view.options[KeyOf(t)].flags \in Values
    BY <1>1, <2>1 DEF SharedType, Connections, Databases, Rows
  <2>3. {"savepoint", "fields"} \subseteq StepsOf(req[t].kind)
    BY <2>1 DEF StepsOf, Writes
  <2>4. pc' \in [Threads -> Steps] /\ ControlOK'
    BY <1>1, <2>3, GotoKeeps
  <2>5. seen' \in [Threads -> Rows]
    BY <1>1, <2>2 DEF LocalType, Rows
  <2> QED
    BY <1>1, <2>4, <2>5 DEF LocalType
<1>3. SharedType' /\ CounterType'
  BY <1>1 DEF SharedType, CounterType, shared, counters
<1> QED
  BY <1>1, <1>2, <1>3 DEF Typed

LEMMA SelectFieldsTyped ==
    ASSUME Typed, NEW t \in Threads, SelectFields(t)
    PROVE  Typed'
<1> USE DEF SelectFields
<1>1. LocalType /\ SharedType /\ CounterType /\ ControlOK
  BY DEF Typed
<1>2. LocalType' /\ ControlOK'
  <2>1. "savepoint" \in StepsOf(req[t].kind)
    BY <1>1, ServesWrite DEF WriteBody, StepsOf, Writes
  <2> QED
    BY <1>1, <2>1, GotoKeeps DEF LocalType
<1>3. SharedType' /\ CounterType'
  BY <1>1 DEF SharedType, CounterType, shared, counters
<1> QED
  BY <1>1, <1>2, <1>3 DEF Typed

LEMMA ReadRowidTyped ==
    ASSUME Typed, NEW t \in Threads, ReadRowid(t)
    PROVE  Typed'
<1> USE DEF ReadRowid
<1>1. LocalType /\ SharedType /\ CounterType /\ ControlOK
  BY DEF Typed
<1>2. LocalType' /\ ControlOK'
  <2>1. "release" \in StepsOf(req[t].kind)
    BY <1>1, ServesSignUp DEF SignUpBody, StepsOf, SignUps
  <2>2. conn.rowid \in 0 .. MaxId
    BY <1>1 DEF SharedType, Connections
  <2> QED
    BY <1>1, <2>1, <2>2, GotoKeeps DEF LocalType
<1>3. SharedType' /\ CounterType'
  BY <1>1 DEF SharedType, CounterType, shared, counters
<1> QED
  BY <1>1, <1>2, <1>3 DEF Typed

LEMMA OptionIdTyped ==
    ASSUME Typed, NEW t \in Threads, OptionId(t)
    PROVE  Typed'
<1> USE DEF OptionId
<1>1. LocalType /\ SharedType /\ CounterType /\ ControlOK
  BY DEF Typed
<1>2. LocalType' /\ ControlOK'
  <2>1. {"rollbackTo", "delete"} \subseteq StepsOf(req[t].kind)
    BY <1>1, ServesWrite DEF WriteBody, StepsOf, Writes, Unwinding
  <2> QED
    BY <1>1, <2>1, GotoKeeps DEF LocalType
<1>3. SharedType' /\ CounterType'
  BY <1>1 DEF SharedType, CounterType, shared, counters
<1> QED
  BY <1>1, <1>2, <1>3 DEF Typed

(* The updates that the INSERT, UPDATE and DELETE statements make. *)
LEMMA UserAddedType ==
    ASSUME NEW db \in Databases, NEW e, NEW id \in 0 .. MaxId
    PROVE  [db EXCEPT !.users[e] = id] \in Databases
<1>1. [db.users EXCEPT ![e] = id] \in [Emails -> 0 .. MaxId]
  BY DEF Databases
<1> QED
  BY <1>1 DEF Databases

LEMMA RowChangedType ==
    ASSUME NEW db \in Databases, NEW k, NEW row \in Rows
    PROVE  [db EXCEPT !.options[k] = row] \in Databases
<1>1. [db.options EXCEPT ![k] = row] \in [Keys -> Rows]
  BY DEF Databases
<1> QED
  BY <1>1 DEF Databases

LEMMA FlagsSetType ==
    ASSUME NEW db \in Databases, NEW k \in Keys, NEW v \in Values
    PROVE  [db EXCEPT !.options[k].flags = v] \in Databases
<1>1. [db.options[k] EXCEPT !.flags = v] \in Rows
  BY DEF Databases, Rows
<1>2. [db EXCEPT !.options[k].flags = v]
          = [db EXCEPT !.options[k] = [db.options[k] EXCEPT !.flags = v]]
  BY DEF Databases
<1> QED
  BY <1>1, <1>2, RowChangedType

LEMMA FieldsSetType ==
    ASSUME NEW db \in Databases, NEW k \in Keys, NEW v \in [FieldKeys -> Values]
    PROVE  [db EXCEPT !.options[k].fields = v] \in Databases
<1>1. [db.options[k] EXCEPT !.fields = v] \in Rows
  BY DEF Databases, Rows
<1>2. [db EXCEPT !.options[k].fields = v]
          = [db EXCEPT !.options[k] = [db.options[k] EXCEPT !.fields = v]]
  BY DEF Databases
<1> QED
  BY <1>1, <1>2, RowChangedType

LEMMA FieldSetType ==
    ASSUME NEW db \in Databases, NEW k \in Keys, NEW x, NEW v \in Values
    PROVE  [db EXCEPT !.options[k].fields[x] = v] \in Databases
<1>1. [db.options[k].fields EXCEPT ![x] = v] \in [FieldKeys -> Values]
  BY DEF Databases, Rows
<1>2. [db EXCEPT !.options[k].fields[x] = v]
          = [db EXCEPT !.options[k].fields = [db.options[k].fields EXCEPT ![x] = v]]
  BY DEF Databases, Rows
<1> QED
  BY <1>1, <1>2, FieldsSetType

(* The holder's mutex is a mutex, and what it is set to an owner. *)
LEMMA MutexType ==
    ASSUME SharedType, NEW t \in Threads
    PROVE  /\ Locked(t) \in [Storages -> Threads \cup {NoThread}]
           /\ Unlocked(t) \in [Storages -> Threads \cup {NoThread}]
BY DEF SharedType, Locked, Unlocked

LEMMA RollbackByType ==
    ASSUME SharedType, NEW t, RollbackBy(t)
    PROVE  /\ conn' \in Connections(Databases, DBFrames, 0 .. MaxId)
           /\ damaged' \in BOOLEAN
BY RolledBackType DEF SharedType, RollbackBy, Foreign

(* A thread in its unit of work may move on to any of its last steps. *)
LEMMA UnwindingSteps ==
    ASSUME LocalType, ControlOK, NEW t \in Threads, pc[t] \in Unit
    PROVE  /\ Unwinding \cup {"release", "commit"} \subseteq StepsOf(req[t].kind)
           /\ pc[t] # "auth"
BY ServesUnit
   DEF StepsOf, SignUps, Writes, Unit, Body, SignUpBody, WriteBody, Unwinding

LEMMA BeginWorkTyped ==
    ASSUME Typed, NEW t \in Threads, BeginWork(t)
    PROVE  Typed'
<1> USE DEF BeginWork
<1>1. LocalType /\ SharedType /\ CounterType /\ ControlOK
  BY DEF Typed
<1>2. LocalType' /\ ControlOK'
  <2>1. CASE InTransaction(conn)
    BY <1>1, <2>1, AnswerKeeps DEF Outcomes, Failures
  <2>2. CASE ~InTransaction(conn)
    <3>1. (CASE req[t].kind = "google"   -> "savepoint"
             [] req[t].kind = "register" -> "hash"
             [] OTHER                    -> "row") \in StepsOf(req[t].kind)
      BY <1>1, ServesUnit DEF StepsOf, SignUps, Writes
    <3> QED
      BY <1>1, <2>2, <3>1, GotoKeeps DEF LocalType
  <2> QED
    BY <2>1, <2>2
<1>3. SharedType' /\ CounterType'
  <2>1. conn' \in Connections(Databases, DBFrames, 0 .. MaxId)
    <3>1. conn.disk \in Databases
      BY <1>1 DEF SharedType, Connections
    <3>2. Frame("BEGIN", t, conn.disk) \in DBFrames
      BY <3>1, FrameType DEF FrameNames
    <3> QED
      BY <1>1, <3>2, BegunType DEF SharedType
  <2> QED
    BY <1>1, <2>1, MutexType DEF SharedType, CounterType, counters
<1> QED
  BY <1>1, <1>2, <1>3 DEF Typed

LEMMA ReadRowTyped ==
    ASSUME Typed, NEW t \in Threads, ReadRow(t)
    PROVE  Typed'
<1> USE DEF ReadRow
<1>1. LocalType /\ SharedType /\ CounterType /\ ControlOK
  BY DEF Typed
<1> DEFINE flags == conn.view.options[KeyOf(t)].flags
<1>2. LocalType' /\ ControlOK'
  <2>1. CASE flags = NoPayload
    BY <1>1, <2>1, AnswerKeeps DEF Outcomes, Successes
  <2>2. CASE flags # NoPayload
    <3>1. req[t] \in Reads /\ KeyOf(t) \in Keys
      BY <1>1, ServesRead
    <3>2. flags \in Values
      BY <1>1, <3>1 DEF SharedType, Connections, Databases, Rows
    <3>3. "readFields" \in StepsOf(req[t].kind)
      BY <3>1 DEF StepsOf, Reads
    <3>4. pc' \in [Threads -> Steps] /\ ControlOK'
      BY <1>1, <2>2, <3>3, GotoKeeps DEF LocalType
    <3>5. seen' \in [Threads -> Rows]
      BY <1>1, <2>2, <3>2 DEF LocalType, Rows
    <3> QED
      BY <1>1, <2>2, <3>4, <3>5 DEF LocalType
  <2> QED
    BY <2>1, <2>2
<1>3. SharedType' /\ CounterType'
  BY <1>1, MutexType DEF SharedType, CounterType, counters
<1> QED
  BY <1>1, <1>2, <1>3 DEF Typed

LEMMA ReadFieldsTyped ==
    ASSUME Typed, NEW t \in Threads, ReadFields(t)
    PROVE  Typed'
<1> USE DEF ReadFields
<1>1. LocalType /\ SharedType /\ CounterType /\ ControlOK
  BY DEF Typed
<1>2. LocalType' /\ ControlOK'
  <2>1. KeyOf(t) \in Keys
    BY <1>1, ServesRead
  <2>2. conn.view.options[KeyOf(t)].fields \in [FieldKeys -> Values]
    BY <1>1, <2>1 DEF SharedType, Connections, Databases, Rows
  <2>3. [seen[t] EXCEPT !.fields = conn.view.options[KeyOf(t)].fields] \in Rows
    BY <1>1, <2>2 DEF LocalType, Rows
  <2> QED
    BY <1>1, <2>3, ReplyKeeps DEF Outcomes, Successes
<1>3. SharedType' /\ CounterType'
  BY <1>1, MutexType DEF SharedType, CounterType, counters
<1> QED
  BY <1>1, <1>2, <1>3 DEF Typed

LEMMA OpenSavepointTyped ==
    ASSUME Typed, NEW t \in Threads, OpenSavepoint(t)
    PROVE  Typed'
<1> USE DEF OpenSavepoint
<1>1. LocalType /\ SharedType /\ CounterType /\ ControlOK
  BY DEF Typed
<1>2. LocalType' /\ ControlOK'
  <2>1. (IF SignsUp(t) THEN "insert" ELSE "upsert") \in StepsOf(req[t].kind)
    BY <1>1, ServesUnit DEF StepsOf, SignUps, Writes, SignsUp, Unit, Body
  <2> QED
    BY <1>1, <2>1, GotoKeeps DEF LocalType
<1>3. SharedType' /\ CounterType'
  <2>1. conn' \in Connections(Databases, DBFrames, 0 .. MaxId)
    <3>1. conn.view \in Databases
      BY <1>1 DEF SharedType, Connections
    <3>2. Frame(SavepointOf(t), t, conn.view) \in DBFrames
      BY <3>1, FrameType DEF FrameNames, SavepointNames, SavepointOf
    <3> QED
      BY <1>1, <3>2, SavepointOpenedType DEF SharedType
  <2> QED
    BY <1>1, <2>1, MutexType DEF SharedType, CounterType, counters
<1> QED
  BY <1>1, <1>2, <1>3 DEF Typed

LEMMA InsertUserTyped ==
    ASSUME Typed, NEW t \in Threads, InsertUser(t)
    PROVE  Typed'
<1> USE DEF InsertUser, EmailTaken
<1>1. LocalType /\ SharedType /\ CounterType /\ ControlOK
  BY DEF Typed
<1> DEFINE email == req[t].email
           users == conn.view.users
<1>2. LocalType' /\ ControlOK'
  <2>1. {"rowid", "rollbackTo"} \subseteq StepsOf(req[t].kind)
    BY <1>1, ServesSignUp DEF StepsOf, SignUps, SignUpBody, Unwinding
  <2>2. pc' \in [Threads -> Steps] /\ ControlOK'
    BY <1>1, <2>1, GotoKeeps
  <2> QED
    BY <1>1, <2>2 DEF LocalType, Outcomes, Failures
<1>3. SharedType' /\ CounterType'
  <2>1. conn' \in Connections(Databases, DBFrames, 0 .. MaxId)
    <3>1. CASE users[email] # 0
      BY <1>1, <3>1 DEF SharedType
    <3>2. CASE users[email] = 0
      <4>1. PICK id \in Ids :
                conn' = [Written(conn, [conn.view EXCEPT !.users[email] = id])
                             EXCEPT !.rowid = id]
        BY <3>2
      <4>2. [conn.view EXCEPT !.users[email] = id] \in Databases
        <5>1. conn.view \in Databases /\ id \in 0 .. MaxId
          BY <1>1, DataAssumption DEF SharedType, Connections, Ids
        <5> QED
          BY <5>1, UserAddedType
      <4>3. Written(conn, [conn.view EXCEPT !.users[email] = id])
                \in Connections(Databases, DBFrames, 0 .. MaxId)
        BY <1>1, <4>2, WrittenType DEF SharedType
      <4>4. id \in 0 .. MaxId
        BY DataAssumption DEF Ids
      <4> QED
        BY <4>1, <4>3, <4>4 DEF Connections
    <3> QED
      BY <3>1, <3>2
  <2> QED
    BY <1>1, <2>1, MutexType DEF SharedType, CounterType, counters
<1> QED
  BY <1>1, <1>2, <1>3 DEF Typed

LEMMA UpsertOptionTyped ==
    ASSUME Typed, NEW t \in Threads, UpsertOption(t)
    PROVE  Typed'
<1> USE DEF UpsertOption
<1>1. LocalType /\ SharedType /\ CounterType /\ ControlOK
  BY DEF Typed
<1>2. LocalType' /\ ControlOK'
  <2>1. {"optionid", "delete"} \subseteq StepsOf(req[t].kind)
    BY <1>1, ServesWrite DEF WriteBody, StepsOf, Writes
  <2> QED
    BY <1>1, <2>1, GotoKeeps DEF LocalType
<1>3. SharedType' /\ CounterType'
  <2>1. conn' \in Connections(Databases, DBFrames, 0 .. MaxId)
    <3> DEFINE db == [conn.view EXCEPT !.options[KeyOf(t)].flags = req[t].payload]
    <3>1. KeyOf(t) \in Keys /\ req[t].payload \in Values
      BY <1>1, ServesWrite DEF WriteBody, Writes, Values
    <3>2. db \in Databases
      BY <1>1, <3>1, FlagsSetType DEF SharedType, Connections
    <3>3. Written(conn, db) \in Connections(Databases, DBFrames, 0 .. MaxId)
      BY <1>1, <3>2, WrittenType DEF SharedType
    <3>4. PluginRowid \in 0 .. MaxId
      BY DataAssumption DEF PluginRowid
    <3> QED
      BY <3>3, <3>4 DEF Connections
  <2> QED
    BY <1>1, <2>1, MutexType DEF SharedType, CounterType, counters
<1> QED
  BY <1>1, <1>2, <1>3 DEF Typed

LEMMA DeleteFieldsTyped ==
    ASSUME Typed, NEW t \in Threads, DeleteFields(t)
    PROVE  Typed'
<1> USE DEF DeleteFields
<1>1. LocalType /\ SharedType /\ CounterType /\ ControlOK
  BY DEF Typed
<1>2. LocalType' /\ ControlOK'
  <2>1. {"release", "field"} \subseteq StepsOf(req[t].kind)
    BY <1>1, ServesWrite DEF WriteBody, StepsOf, Writes
  <2>2. FieldsOf[req[t].payload] \subseteq FieldKeys
    BY <1>1, ServesWrite, DataAssumption DEF WriteBody, Writes
  <2> QED
    BY <1>1, <2>1, <2>2, GotoKeeps DEF LocalType
<1>3. SharedType' /\ CounterType'
  <2>1. conn' \in Connections(Databases, DBFrames, 0 .. MaxId)
    <3> DEFINE db == [conn.view EXCEPT !.options[KeyOf(t)].fields = EmptyRow.fields]
    <3>1. KeyOf(t) \in Keys
      BY <1>1, ServesWrite DEF WriteBody
    <3>2. EmptyRow.fields \in [FieldKeys -> Values]
      BY EmptyRowType DEF Rows
    <3>3. db \in Databases
      BY <1>1, <3>1, <3>2, FieldsSetType DEF SharedType, Connections
    <3> QED
      BY <1>1, <3>3, WrittenType DEF SharedType
  <2> QED
    BY <1>1, <2>1, MutexType DEF SharedType, CounterType, counters
<1> QED
  BY <1>1, <1>2, <1>3 DEF Typed

LEMMA InsertFieldTyped ==
    ASSUME Typed, NEW t \in Threads, InsertField(t)
    PROVE  Typed'
<1> USE DEF InsertField
<1>1. LocalType /\ SharedType /\ CounterType /\ ControlOK
  BY DEF Typed
<1> DEFINE row == conn.view.options[KeyOf(t)]
           db(k) == [conn.view EXCEPT !.options[KeyOf(t)].fields[k] = req[t].payload]
<1>a. PICK k \in todo[t] :
          IF row.flags = NoPayload \/ row.fields[k] # NoPayload
          THEN Goto(t, "rollbackTo") /\ UNCHANGED <<conn, todo>>
          ELSE /\ conn' = [Written(conn, db(k)) EXCEPT !.rowid = PluginRowid]
               /\ todo' = [todo EXCEPT ![t] = @ \ {k}]
               /\ Goto(t, IF todo[t] = {k} THEN "release" ELSE "field")
  OBVIOUS
<1>2. LocalType' /\ ControlOK'
  <2>1. {"release", "field", "rollbackTo"} \subseteq StepsOf(req[t].kind)
    BY <1>1, ServesWrite DEF WriteBody, StepsOf, Writes, Unwinding
  <2> HIDE DEF db, row
  <2> QED
    BY <1>1, <1>a, <2>1, GotoKeeps DEF LocalType
<1>3. SharedType' /\ CounterType'
  <2>1. conn' \in Connections(Databases, DBFrames, 0 .. MaxId)
    <3>1. KeyOf(t) \in Keys /\ req[t].payload \in Values
      BY <1>1, ServesWrite DEF WriteBody, Writes, Values
    <3>2. db(k) \in Databases
      BY <1>1, <3>1, FieldSetType DEF SharedType, Connections
    <3>3. Written(conn, db(k)) \in Connections(Databases, DBFrames, 0 .. MaxId)
      BY <1>1, <3>2, WrittenType DEF SharedType
    <3>4. PluginRowid \in 0 .. MaxId
      BY DataAssumption DEF PluginRowid
    <3> HIDE DEF db, row
    <3> QED
      BY <1>1, <1>a, <3>3, <3>4 DEF Connections, SharedType
  <2> QED
    BY <1>1, <2>1, MutexType DEF SharedType, CounterType, counters
<1> QED
  BY <1>1, <1>2, <1>3 DEF Typed

LEMMA ReleaseSavepointTyped ==
    ASSUME Typed, NEW t \in Threads, ReleaseSavepoint(t)
    PROVE  Typed'
<1> USE DEF ReleaseSavepoint
<1>1. LocalType /\ SharedType /\ CounterType /\ ControlOK
  BY DEF Typed
<1>2. LocalType' /\ ControlOK'
  <2>1. {"commit", "rollbackTo"} \subseteq StepsOf(req[t].kind)
    BY <1>1, UnwindingSteps DEF Unit, Body, Unwinding
  <2> QED
    BY <1>1, <2>1, GotoKeeps DEF LocalType
<1>3. SharedType' /\ CounterType'
  <2>1. conn' \in Connections(Databases, DBFrames, 0 .. MaxId)
    BY <1>1, ReleasedType DEF SharedType
  <2> QED
    BY <1>1, <2>1, MutexType DEF SharedType, CounterType, counters
<1> QED
  BY <1>1, <1>2, <1>3 DEF Typed

LEMMA CommitTyped ==
    ASSUME Typed, NEW t \in Threads, Commit(t)
    PROVE  Typed'
<1> USE DEF Commit
<1>1. LocalType /\ SharedType /\ CounterType /\ ControlOK
  BY DEF Typed
<1>2. LocalType' /\ ControlOK'
  <2>1. CASE /\ InTransaction(conn)
             /\ req[t].kind = "google"
    <3>1. "jwt" \in StepsOf(req[t].kind)
      BY <2>1 DEF StepsOf
    <3> QED
      BY <1>1, <2>1, <3>1, GotoKeeps DEF LocalType
  <2>2. CASE InTransaction(conn) /\ req[t].kind # "google"
    BY <1>1, <2>2, AnswerKeeps DEF Outcomes, Successes
  <2>3. CASE ~InTransaction(conn)
    <3>1. "dtor" \in StepsOf(req[t].kind)
      BY <1>1, UnwindingSteps DEF Unit, Body, Unwinding
    <3> QED
      BY <1>1, <2>3, <3>1, GotoKeeps DEF LocalType
  <2> QED
    BY <2>1, <2>2, <2>3
<1>3. SharedType' /\ CounterType'
  <2>1. conn' \in Connections(Databases, DBFrames, 0 .. MaxId)
    BY <1>1, CommittedType DEF SharedType
  <2>2. issued' \in SUBSET (Emails \X (0 .. MaxId))
    <3>1. CASE issued' = issued
      BY <1>1, <3>1 DEF SharedType
    <3>2. CASE /\ issued' = issued \cup {<<req[t].email, account[t]>>}
               /\ req[t].kind = "register"
      <4>1. req[t] \in SignUps
        BY <1>1, <3>2, ServesUnit DEF Unit, Body, Writes
      <4> QED
        BY <1>1, <3>2, <4>1 DEF SharedType, LocalType, SignUps
    <3> QED
      BY <3>1, <3>2
  <2> QED
    BY <1>1, <2>1, <2>2, MutexType DEF SharedType, CounterType, counters
<1> QED
  BY <1>1, <1>2, <1>3 DEF Typed

LEMMA CreateJwtTyped ==
    ASSUME Typed, NEW t \in Threads, CreateJwt(t)
    PROVE  Typed'
<1> USE DEF CreateJwt
<1>1. LocalType /\ SharedType /\ CounterType /\ ControlOK
  BY DEF Typed
<1>2. LocalType' /\ ControlOK'
  BY <1>1, AnswerKeeps DEF Outcomes, Successes
<1>3. SharedType' /\ CounterType'
  <2>1. issued' \in SUBSET (Emails \X (0 .. MaxId))
    BY <1>1, ServesSignUp DEF SharedType, LocalType, SignUps
  <2> QED
    BY <1>1, <2>1 DEF SharedType, CounterType, counters
<1> QED
  BY <1>1, <1>2, <1>3 DEF Typed

LEMMA RollbackToSavepointTyped ==
    ASSUME Typed, NEW t \in Threads, RollbackToSavepoint(t)
    PROVE  Typed'
<1> USE DEF RollbackToSavepoint
<1>1. LocalType /\ SharedType /\ CounterType /\ ControlOK
  BY DEF Typed
<1>2. LocalType' /\ ControlOK'
  <2>1. {"releaseSp", "rollback", "dtor"} \subseteq StepsOf(req[t].kind)
    BY <1>1, UnwindingSteps DEF Unit, Unwinding
  <2> QED
    BY <1>1, <2>1, GotoKeeps DEF LocalType, AfterGuard
<1>3. SharedType' /\ CounterType'
  <2>1. conn' \in Connections(Databases, DBFrames, 0 .. MaxId)
    <3>1. \A x \in DBFrames : x.image \in Databases
      BY DEF DBFrames, Frames
    <3> QED
      BY <1>1, <3>1, RolledBackToType DEF SharedType
  <2> QED
    BY <1>1, <2>1, MutexType DEF SharedType, CounterType, counters
<1> QED
  BY <1>1, <1>2, <1>3 DEF Typed

LEMMA ReleaseRolledBackTyped ==
    ASSUME Typed, NEW t \in Threads, ReleaseRolledBack(t)
    PROVE  Typed'
<1> USE DEF ReleaseRolledBack
<1>1. LocalType /\ SharedType /\ CounterType /\ ControlOK
  BY DEF Typed
<1>2. LocalType' /\ ControlOK'
  <2>1. {"rollback", "dtor"} \subseteq StepsOf(req[t].kind)
    BY <1>1, UnwindingSteps DEF Unit, Unwinding
  <2> QED
    BY <1>1, <2>1, GotoKeeps DEF LocalType, AfterGuard
<1>3. SharedType' /\ CounterType'
  <2>1. conn' \in Connections(Databases, DBFrames, 0 .. MaxId)
    BY <1>1, ReleasedType DEF SharedType
  <2> QED
    BY <1>1, <2>1, MutexType DEF SharedType, CounterType, counters
<1> QED
  BY <1>1, <1>2, <1>3 DEF Typed

LEMMA RollbackTyped ==
    ASSUME Typed, NEW t \in Threads, Rollback(t)
    PROVE  Typed'
<1> USE DEF Rollback
<1>1. LocalType /\ SharedType /\ CounterType /\ ControlOK
  BY DEF Typed
<1>2. LocalType' /\ ControlOK'
  <2>1. {"txreset", "dtor"} \subseteq StepsOf(req[t].kind)
    BY <1>1, UnwindingSteps DEF Unit, Unwinding
  <2> QED
    BY <1>1, <2>1, GotoKeeps DEF LocalType
<1>3. SharedType' /\ CounterType'
  BY <1>1, RollbackByType DEF SharedType, CounterType, counters
<1> QED
  BY <1>1, <1>2, <1>3 DEF Typed

LEMMA ResetTxTyped ==
    ASSUME Typed, NEW t \in Threads, ResetTx(t)
    PROVE  Typed'
<1> USE DEF ResetTx
<1>1. LocalType /\ SharedType /\ CounterType /\ ControlOK
  BY DEF Typed
<1>2. LocalType' /\ ControlOK'
  BY <1>1, AnswerKeeps DEF Outcomes, Failures
<1>3. SharedType' /\ CounterType'
  BY <1>1, RollbackByType, MutexType DEF SharedType, CounterType, counters
<1> QED
  BY <1>1, <1>2, <1>3 DEF Typed

LEMMA UnwindTyped ==
    ASSUME Typed, NEW t \in Threads, Unwind(t)
    PROVE  Typed'
<1> USE DEF Unwind
<1>1. LocalType /\ SharedType /\ CounterType /\ ControlOK
  BY DEF Typed
<1>2. LocalType' /\ ControlOK'
  BY <1>1, AnswerKeeps DEF Outcomes, Failures
<1>3. SharedType' /\ CounterType'
  BY <1>1, RollbackByType, MutexType DEF SharedType, CounterType, counters
<1> QED
  BY <1>1, <1>2, <1>3 DEF Typed

LEMMA ThrowsType ==
    ASSUME SharedType, CounterType, NEW t, Throws(t)
    PROVE  /\ conn' \in Connections(Databases, DBFrames, 0 .. MaxId)
           /\ damaged' \in BOOLEAN
           /\ CounterType'
BY RollbackByType, BoundsAssumption DEF Throws, SharedType, CounterType

LEMMA FaultOutsideTyped ==
    ASSUME Typed, NEW t \in Threads, FaultOutside(t)
    PROVE  Typed'
<1> USE DEF FaultOutside
<1>1. LocalType /\ SharedType /\ CounterType /\ ControlOK
  BY DEF Typed
<1>2. LocalType' /\ ControlOK'
  BY <1>1, AnswerKeeps DEF Outcomes, Failures
<1>3. SharedType' /\ CounterType'
  <2>1. issued' = issued /\ stuck' = stuck
    BY DEF Throws
  <2> QED
    BY <1>1, <2>1, ThrowsType, MutexType DEF SharedType
<1> QED
  BY <1>1, <1>2, <1>3 DEF Typed

LEMMA FaultInsideTyped ==
    ASSUME Typed, NEW t \in Threads, FaultInside(t)
    PROVE  Typed'
<1> USE DEF FaultInside
<1>1. LocalType /\ SharedType /\ CounterType /\ ControlOK
  BY DEF Typed
<1>2. LocalType' /\ ControlOK'
  <2>1. pc[t] \in Unit
    BY DEF Unit, Body, Guarded, SignUpBody, WriteBody, Unwinding
  <2>2. {"rollbackTo", "rollback", "dtor"} \subseteq StepsOf(req[t].kind) /\ pc[t] # "auth"
    BY <1>1, <2>1, UnwindingSteps DEF Unwinding
  <2>3. PICK step \in {"rollbackTo", "rollback", "dtor"} : Goto(t, step)
    BY DEF AfterGuard
  <2> QED
    BY <1>1, <2>2, <2>3, GotoKeeps DEF LocalType
<1>3. SharedType' /\ CounterType'
  <2>1. issued' = issued /\ stuck' = stuck
    BY DEF Throws
  <2> QED
    BY <1>1, <2>1, ThrowsType DEF SharedType
<1> QED
  BY <1>1, <1>2, <1>3 DEF Typed

LEMMA FaultInDestructorTyped ==
    ASSUME Typed, NEW t \in Threads, FaultInDestructor(t)
    PROVE  Typed'
<1> USE DEF FaultInDestructor
<1>1. LocalType /\ SharedType /\ CounterType /\ ControlOK
  BY DEF Typed
<1>2. LocalType' /\ ControlOK'
  BY <1>1, AnswerKeeps DEF Outcomes, Failures
<1>3. SharedType'
  BY <1>1, RollbackByType, MutexType DEF SharedType, LeftOpen
<1>4. CounterType'
  BY <1>1, BoundsAssumption DEF CounterType
<1> QED
  BY <1>1, <1>2, <1>3, <1>4 DEF Typed

LEMMA CrashTyped ==
    ASSUME Typed, Crash
    PROVE  Typed'
<1> USE DEF Crash
<1>1. LocalType /\ SharedType /\ CounterType /\ ControlOK
  BY DEF Typed
<1>2. LocalType'
  BY <1>1, EmptyRowType, DataAssumption DEF LocalType, Steps, Outcomes, Failures
<1>3. ControlOK'
  BY DEF ControlOK, NoRequest, StepsOf
<1>4. SharedType'
  <2>1. conn' \in Connections(Databases, DBFrames, 0 .. MaxId)
    <3>1. conn.disk \in Databases /\ 0 \in 0 .. MaxId
      BY <1>1, DataAssumption DEF SharedType, Connections
    <3> QED
      BY <3>1, OpenedType
  <2> QED
    BY <1>1, <2>1 DEF SharedType
<1>5. CounterType'
  BY <1>1, BoundsAssumption DEF CounterType
<1> QED
  BY <1>2, <1>3, <1>4, <1>5 DEF Typed

(* The actions again, for the proofs that go through them one by one. *)
LEMMA StutterTyped ==
    ASSUME Typed, UNCHANGED vars
    PROVE  Typed'
BY DEF Typed, LocalType, SharedType, CounterType, ControlOK, vars, shared, local, counters

LEMMA NextTyped ==
    ASSUME Typed, [Next]_vars
    PROVE  Typed'
<1>1. CASE UNCHANGED vars
  BY <1>1, StutterTyped
<1>2. CASE Crash
  BY <1>2, CrashTyped
<1>3. ASSUME NEW t \in Threads,
             Receive(t) \/ FaultOutside(t) \/ FaultInside(t) \/ FaultInDestructor(t)
      PROVE  Typed'
  BY <1>3, ReceiveTyped, FaultOutsideTyped, FaultInsideTyped, FaultInDestructorTyped
<1>4. ASSUME NEW t \in Threads, SignUpStep(t)
      PROVE  Typed'
  BY <1>4, HandleTyped, LookupTyped, HashTyped, InsertUserTyped, ReadRowidTyped,
     CreateJwtTyped DEF SignUpStep
<1>5. ASSUME NEW t \in Threads, PluginStep(t)
      PROVE  Typed'
  BY <1>5, AuthenticateTyped, ReadRowTyped, ReadFieldsTyped, SelectRowTyped,
     SelectFieldsTyped, UpsertOptionTyped, OptionIdTyped, DeleteFieldsTyped,
     InsertFieldTyped DEF PluginStep
<1>6. ASSUME NEW t \in Threads, UnitStep(t)
      PROVE  Typed'
  BY <1>6, BeginWorkTyped, OpenSavepointTyped, ReleaseSavepointTyped, CommitTyped,
     RollbackToSavepointTyped, ReleaseRolledBackTyped, RollbackTyped, ResetTxTyped,
     UnwindTyped DEF UnitStep
<1> QED
  BY <1>1, <1>2, <1>3, <1>4, <1>5, <1>6 DEF Next, Run, Quiescent

(* Every variable keeps its type, whatever the threads, the data and the   *)
(* bounds: in particular every statement is sent for an existing key, and  *)
(* every open transaction is a sequence of frames of the pool's threads.   *)
THEOREM TypeInvariant == Spec => []TypeOK
<1>1. Init => Typed
  BY InitTyped
<1>2. Typed /\ [Next]_vars => Typed'
  BY NextTyped
<1>3. Typed => TypeOK
  BY TypeParts DEF Typed
<1> QED
  BY <1>1, <1>2, <1>3, PTL DEF Spec

(* The same with the control invariant, for other proofs. *)
THEOREM TypedInvariant == Spec => []Typed
<1>1. Init => Typed
  BY InitTyped
<1>2. Typed /\ [Next]_vars => Typed'
  BY NextTyped
<1> QED
  BY <1>1, <1>2, PTL DEF Spec

=============================================================================
