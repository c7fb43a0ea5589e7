--------------------------- MODULE LifecycleProofs --------------------------
(***************************************************************************)
(* Proofs about Lifecycle: that main and the requests do not pull objects  *)
(* from under each other.  Consistent is inductive: a request in progress  *)
(* means that main has left its start-up behind, so the bus is full; an    *)
(* object that a call holds is owned, so it exists; and as long as stop()  *)
(* has not returned, every local is alive.                                 *)
(***************************************************************************)
EXTENDS Lifecycle, SequenceTheorems, TLAPS

(* main's locals by number. *)
LEMMA LocalsByNumber ==
    /\ Len(Locals) = 12
    /\ Locals[1] = "db" /\ Locals[2] = "userStorage" /\ Locals[3] = "pluginOptionsStorage"
    /\ Locals[4] = "googleAuthKeyHandler" /\ Locals[5] = "messageBus"
    /\ Locals[6] = "jwtHandler" /\ Locals[7] = "authUserViaGoogleHandler"
    /\ Locals[8] = "getPluginOptionsHandler" /\ Locals[9] = "postPluginOptionsHandler"
    /\ Locals[10] = "authMiddleware" /\ Locals[11] = "restControllerResolvers"
    /\ Locals[12] = "restServer"
BY DEF Locals

(* Every command is registered by one of the locals, which is a handler.   *)
LEMMA EveryCommandRegistered ==
    ASSUME NEW c \in Commands
    PROVE  \E i \in 1 .. Len(Locals) : c \in Registers(Locals[i]) /\ Locals[i] \in Handlers
<1>1. \E i \in 6 .. 9 : HandlerOf(c) = Locals[i]
    BY LocalsByNumber DEF HandlerOf
<1>2. HandlerOf(c) \in Handlers
    BY DEF HandlerOf, Handlers
<1> QED BY <1>1, <1>2, LocalsByNumber DEF Registers

(* A list of more than one command has more than none after the first. *)
LEMMA TailLeft ==
    ASSUME NEW s \in Seq(Commands), Len(s) > 1
    PROVE  Tail(s) # <<>>
<1>1. s # <<>>
    BY EmptySeq
<1>2. PICK rest \in Seq(Commands) : rest = Tail(s) /\ Len(rest) = Len(s) - 1
    BY <1>1, HeadTailProperties
<1>3. Len(rest) # 0
    BY <1>2, LenProperties
<1> QED BY <1>2, <1>3, EmptySeq

(* When all locals are alive, so are those that a step refers to. *)
LEMMA AllAlive ==
    ASSUME built = Len(Locals)
    PROVE  /\ \A t \in Threads : Defined(t)
           /\ Handlers \subseteq Alive
<1>1. \A i \in 1 .. 12 : Locals[i] \in Alive
    BY LocalsByNumber DEF Alive
<1>2. {"db", "userStorage", "pluginOptionsStorage", "googleAuthKeyHandler", "messageBus",
       "authMiddleware", "restControllerResolvers"} \subseteq Alive
    BY <1>1, LocalsByNumber
<1>3. ASSUME NEW t \in Threads PROVE Defined(t)
    <2>1. \A c : UsedBy(c) \subseteq Alive
        BY <1>2 DEF UsedBy
    <2> QED BY <1>2, <2>1 DEF Defined, Uses
<1>4. Handlers \subseteq Alive
    BY <1>1, LocalsByNumber DEF Handlers
<1> QED BY <1>3, <1>4

(* What controllers call are commands. *)
LEMMA CommandsOfTyped ==
    ASSUME NEW kind
    PROVE  CommandsOf(kind) \in Seq(Commands) /\ CommandsOf(kind) # <<>>
<1> {"CreateJwt", "RetrieveId", "RefreshJwt", "AuthUserViaGoogle",
     "GetPluginOptions", "PostPluginOptions"} \subseteq Commands
    BY DEF Commands
<1> QED BY DEF CommandsOf

(* Whoever registers commands is a handler. *)
LEMMA RegistrarsAreHandlers ==
    ASSUME NEW c, NEW name, c \in Registers(name)
    PROVE  name \in Handlers
BY DEF Registers, HandlerOf, Handlers

(* Owners are handlers, and None owns nothing. *)
LEMMA OwnedTyped ==
    ASSUME NEW names, NEW calls
    PROVE  Owned(names, calls) \subseteq Handlers
BY DEF Owned

-----------------------------------------------------------------------------
(* Every step keeps the types. *)
LEMMA StepTyped == Consistent /\ [Next]_vars => TypeOK'
<1> SUFFICES ASSUME Consistent, [Next]_vars PROVE TypeOK'
    OBVIOUS
<1>0. TypeOK /\ CallsHold
    BY DEF Consistent
<1>1. CASE Construct
    <2>1. built + 1 \in 1 .. Len(Locals)
        BY <1>0, <1>1, LocalsByNumber DEF TypeOK, Construct
    <2>2. handlers' \in [Commands -> Handlers \cup {None}]
        BY <1>0, <1>1, RegistrarsAreHandlers DEF TypeOK, Construct
    <2>3. objects' \in SUBSET Handlers
        BY <1>0, <1>1 DEF TypeOK, Construct
    <2> QED BY <1>0, <1>1, <2>1, <2>2, <2>3 DEF TypeOK, Construct, local
<1>2. CASE Start \/ Terminate \/ Stop \/ Ended \/ UNCHANGED vars
    BY <1>0, <1>2 DEF TypeOK, Start, Terminate, Stop, Ended, vars, process, local
<1>3. CASE Destroy
    <2>1. built' \in 0 .. Len(Locals)
        BY <1>0, <1>3, LocalsByNumber DEF TypeOK, Destroy
    <2>2. objects' \in SUBSET Handlers
        BY <1>0, <1>3, OwnedTyped DEF TypeOK, Destroy
    <2> QED BY <1>0, <1>3, <2>1, <2>2 DEF TypeOK, Destroy, local
<1>4. ASSUME NEW t \in Threads, NEW outcome \in {"answered", "noHandler", "expired", "undefined"},
             Finish(t, outcome)
      PROVE  /\ pc' \in [Threads -> {"idle", "route", "find", "lock", "execute"}]
             /\ todo' \in [Threads -> Seq(Commands)]
             /\ fn' \in [Threads -> Handlers \cup {None}]
             /\ status' \in [Threads -> {"none", "pending", "answered", "noHandler",
                                         "expired", "undefined"}]
    BY <1>0, <1>4, EmptySeq DEF TypeOK, Finish, Goto
<1>5. ASSUME NEW t \in Threads, Accept(t) PROVE TypeOK'
    <2>1. todo' \in [Threads -> Seq(Commands)]
        BY <1>0, <1>5, CommandsOfTyped DEF TypeOK, Accept
    <2>2. requests' \in 0 .. MaxRequests
        BY <1>0, <1>5, LifecycleAssumption DEF TypeOK, Accept
    <2> QED BY <1>0, <1>5, <2>1, <2>2 DEF TypeOK, Accept, Goto, process
<1>6. ASSUME NEW t \in Threads, Route(t) PROVE TypeOK'
    BY <1>0, <1>6 DEF TypeOK, Route, Goto, process
<1>7. ASSUME NEW t \in Threads, Find(t) PROVE TypeOK'
    <2>1. CASE handlers[Head(todo[t])] = None
        BY <1>0, <1>4, <1>7, <2>1 DEF TypeOK, Find, process
    <2>2. CASE handlers[Head(todo[t])] # None
        <3>1. Head(todo[t]) \in Commands
            BY <1>0, <1>7, HeadTailProperties DEF TypeOK, CallsHold, Find
        <3> QED BY <1>0, <1>7, <2>2, <3>1 DEF TypeOK, Find, Goto, process
    <2> QED BY <2>1, <2>2
<1>8. ASSUME NEW t \in Threads, Lock(t) PROVE TypeOK'
    <2>1. CASE fn[t] \in objects
        BY <1>0, <1>8, <2>1 DEF TypeOK, Lock, Kept, Goto, process
    <2>2. CASE fn[t] \notin objects
        BY <1>0, <1>4, <1>8, <2>2 DEF TypeOK, Lock, process
    <2> QED BY <2>1, <2>2
<1>9. ASSUME NEW t \in Threads, Execute(t) PROVE TypeOK'
    <2>1. strong' \in [Threads -> Handlers \cup {None}] /\ objects' \in SUBSET Handlers
        BY <1>0, <1>9, OwnedTyped DEF TypeOK, Execute
    <2>2. CASE Finish(t, "answered")
        BY <1>0, <1>4, <1>9, <2>1, <2>2 DEF TypeOK, Execute, process
    <2>3. CASE ~Finish(t, "answered")
        <3>1. Rest(t) \in Seq(Commands)
            <4>1. todo[t] \in Seq(Commands) /\ todo[t] # <<>>
                BY <1>0, <1>9 DEF TypeOK, CallsHold, Execute
            <4>2. Tail(todo[t]) \in Seq(Commands)
                BY <4>1, HeadTailProperties
            <4> QED BY <4>2 DEF Rest
        <3>2. todo' = [todo EXCEPT ![t] = Rest(t)] /\ fn' = [fn EXCEPT ![t] = None]
            BY <1>9, <2>3 DEF Execute
        <3>3. Goto(t, "find") /\ UNCHANGED status
            BY <1>9, <2>3 DEF Execute
        <3>4. UNCHANGED <<process, requests>>
            BY <1>9 DEF Execute
        <3> QED BY <1>0, <2>1, <3>1, <3>2, <3>3, <3>4 DEF TypeOK, Goto, process
    <2> QED BY <2>2, <2>3
<1>10. ASSUME NEW t \in Threads, Undefined(t) PROVE TypeOK'
    <2>1. strong' \in [Threads -> Handlers \cup {None}] /\ objects' \in SUBSET Handlers
        BY <1>0, <1>10, OwnedTyped DEF TypeOK, Undefined
    <2> QED BY <1>0, <1>4, <1>10, <2>1 DEF TypeOK, Undefined
<1> QED
    BY <1>1, <1>2, <1>3, <1>5, <1>6, <1>7, <1>8, <1>9, <1>10 DEF Next, MainStep, Work

-----------------------------------------------------------------------------
(* Idle threads refer to nothing. *)
LEMMA IdleDefined ==
    ASSUME NEW t \in Threads, pc[t] = "idle"
    PROVE  Defined(t)
BY DEF Defined, Uses

(* A command that is found has its handler. *)
LEMMA FoundHandler ==
    ASSUME Consistent, NEW t \in Threads, pc[t] # "idle"
    PROVE  /\ main # "starting"
           /\ Head(todo[t]) \in Commands
           /\ handlers[Head(todo[t])] \in Handlers
<1>1. todo[t] \in Seq(Commands) /\ todo[t] # <<>>
    BY DEF TypeOK, Consistent, CallsHold
<1>2. Head(todo[t]) \in Commands
    BY <1>1, HeadTailProperties
<1> QED BY <1>2 DEF Consistent, ServedWhileBuilt, BusFilled

LEMMA NoneIsNoHandler == None \notin Handlers
BY DEF None, Handlers

(* A call that ends lets go of its object: who else owns one keeps it.     *)
LEMMA StepConsistent == Consistent /\ TypeOK' /\ [Next]_vars => Consistent'
<1> SUFFICES ASSUME Consistent, TypeOK', [Next]_vars PROVE Consistent'
    OBVIOUS
<1>0. TypeOK /\ Consistent
    BY DEF Consistent
<1>1. CASE Construct
    <2>1. built + 1 \in 1 .. Len(Locals) /\ built' = built + 1
        BY <1>0, <1>1, LocalsByNumber DEF TypeOK, Construct
    <2>2. Alive' = Alive \cup {Locals[built + 1]}
        <3>1. 1 .. built' = (1 .. built) \cup {built + 1}
            BY <1>0, <2>1 DEF TypeOK
        <3> QED BY <2>1, <3>1 DEF Alive
    <2>3. ObjectsOwned'
        BY <1>0, <1>1, <2>2 DEF Construct, Consistent, ObjectsOwned, Owned
    <2>4. BusFilled'
        <3> SUFFICES ASSUME NEW i \in 1 .. built', NEW c \in Registers(Locals[i])
                     PROVE  handlers'[c] = Locals[i]
            BY <1>1 DEF BusFilled, Construct
        <3>1. c \in Commands /\ HandlerOf(c) = Locals[i]
            BY DEF Registers
        <3>2. CASE c \in Registers(Locals[built + 1])
            BY <1>1, <3>1, <3>2 DEF Construct, Registers
        <3>3. CASE c \notin Registers(Locals[built + 1])
            <4>1. i \in 1 .. built
                BY <1>0, <2>1, <3>3 DEF TypeOK
            <4> QED BY <1>0, <1>1, <3>1, <3>3, <4>1 DEF Construct, Consistent, BusFilled
        <3> QED BY <3>2, <3>3
    <2> QED
        BY <1>0, <1>1, <2>3, <2>4
        DEF Construct, local, Consistent, CallsHold, ServedWhileBuilt, AlwaysRegistered
<1>2. CASE Start
    <2>1. \A c \in Commands : handlers[c] \in Handlers
        BY <1>0, <1>2, EveryCommandRegistered DEF Start, Ready, Consistent, BusFilled
    <2> QED
        BY <1>0, <1>2, <2>1
        DEF Start, Ready, local, Consistent, ObjectsOwned, Owned, Alive, CallsHold, BusFilled,
            ServedWhileBuilt, AlwaysRegistered
<1>3. CASE Terminate \/ Stop
    BY <1>0, <1>3
    DEF Terminate, Stop, local, Consistent, ObjectsOwned, Owned, Alive, CallsHold,
        BusFilled, ServedWhileBuilt, AlwaysRegistered
<1>4. CASE Destroy
    <2>1. ObjectsOwned'
        BY <1>0, <1>4 DEF Destroy, Consistent, ObjectsOwned, Owned, Alive
    <2>2. BusFilled'
        <3>1. 1 .. built' \subseteq 1 .. built
            BY <1>0, <1>4 DEF TypeOK, Destroy
        <3> QED BY <1>0, <1>4, <3>1 DEF Destroy, Consistent, BusFilled
    <2> QED
        BY <1>0, <1>4, <2>1, <2>2
        DEF Destroy, local, Consistent, CallsHold, ServedWhileBuilt, AlwaysRegistered
<1>5. CASE Ended \/ UNCHANGED vars
    BY <1>0, <1>5
    DEF Ended, vars, process, local, Consistent, ObjectsOwned, Owned, Alive, CallsHold, BusFilled,
        ServedWhileBuilt, AlwaysRegistered
<1>6. ASSUME NEW t \in Threads, Accept(t) PROVE Consistent'
    <2>1. \A kind : CommandsOf(kind) # <<>>
        BY CommandsOfTyped
    <2>2. CallsHold'
        BY <1>0, <1>6, <2>1 DEF Accept, Goto, TypeOK, Consistent, CallsHold
    <2>3. ServedWhileBuilt'
        BY <1>0, <1>6 DEF Accept, Connected, process, Consistent, ServedWhileBuilt
    <2>4. ObjectsOwned' /\ BusFilled'
        BY <1>0, <1>6 DEF Accept, process, Consistent, ObjectsOwned, Owned, Alive, BusFilled
    <2> QED
        BY <1>0, <1>6, <2>2, <2>3, <2>4
        DEF Accept, TypeOK, Consistent, AlwaysRegistered
<1>7. ASSUME NEW t \in Threads, Route(t) PROVE Consistent'
    <2>1. main # "starting" /\ pc[t] # "idle"
        BY <1>7, FoundHandler DEF Route
    <2> QED
        BY <1>0, <1>7, <2>1
        DEF Route, Goto, process, TypeOK, Consistent, ObjectsOwned, Owned, Alive, CallsHold,
            BusFilled, ServedWhileBuilt, AlwaysRegistered
<1>8. ASSUME NEW t \in Threads, Find(t) PROVE Consistent'
    <2>1. main # "starting" /\ pc[t] # "idle" /\ handlers[Head(todo[t])] \in Handlers
        BY <1>8, FoundHandler DEF Find
    <2>2. handlers[Head(todo[t])] # None
        BY <2>1, NoneIsNoHandler
    <2> QED
        BY <1>0, <1>8, <2>1, <2>2
        DEF Find, Goto, process, TypeOK, Consistent, ObjectsOwned, Owned, Alive, CallsHold,
            BusFilled, ServedWhileBuilt, AlwaysRegistered
<1>9. ASSUME NEW t \in Threads, Lock(t) PROVE Consistent'
    <2>1. main # "starting" /\ pc[t] = "lock" /\ fn[t] \in Handlers /\ strong[t] = None
        BY <1>0, <1>9, FoundHandler DEF Lock, Consistent, CallsHold
    <2>2. CASE fn[t] \in objects
        <3>1. ObjectsOwned'
            BY <1>0, <1>9, <2>1, <2>2, NoneIsNoHandler
            DEF Lock, Kept, process, TypeOK, Consistent, ObjectsOwned, Owned, Alive
        <3>2. CallsHold'
            BY <1>0, <1>9, <2>1, <2>2 DEF Lock, Kept, Goto, TypeOK, Consistent, CallsHold
        <3> QED
            BY <1>0, <1>9, <2>1, <2>2, <3>1, <3>2
            DEF Lock, Goto, process, TypeOK, Consistent, BusFilled, ServedWhileBuilt,
                AlwaysRegistered
    <2>3. CASE fn[t] \notin objects
        <3>1. Finish(t, "expired") /\ UNCHANGED strong
            BY <1>9, <2>3 DEF Lock
        <3> QED
            BY <1>0, <1>9, <2>1, <3>1
            DEF Lock, Finish, Goto, process, TypeOK, Consistent, ObjectsOwned, Owned, Alive,
                CallsHold, BusFilled, ServedWhileBuilt, AlwaysRegistered
    <2> QED BY <2>2, <2>3
<1>10. ASSUME NEW t \in Threads, Execute(t) PROVE Consistent'
    <2>1. main # "starting" /\ pc[t] = "execute"
        BY <1>10, FoundHandler DEF Execute
    <2>2. ObjectsOwned'
        BY <1>10 DEF Execute, process, ObjectsOwned, Owned, Alive
    <2>3. BusFilled'
        BY <1>0, <1>10 DEF Execute, process, Consistent, BusFilled
    <2>4. CASE Finish(t, "answered")
        BY <1>0, <1>10, <2>1, <2>2, <2>3, <2>4
        DEF Execute, Finish, Goto, process, TypeOK, Consistent, CallsHold, ServedWhileBuilt,
            AlwaysRegistered
    <2>5. CASE ~Finish(t, "answered")
        <3>1. Rest(t) # <<>>
            <4>1. todo[t] \in Seq(Commands) /\ Len(todo[t]) > 1
                BY <1>0, <1>10, <2>5 DEF TypeOK, Consistent, Execute
            <4> QED BY <4>1, TailLeft DEF Rest
        <3>2. CallsHold' /\ ServedWhileBuilt' /\ AlwaysRegistered'
            BY <1>0, <1>10, <2>1, <2>5, <3>1
            DEF Execute, Goto, process, TypeOK, Consistent, CallsHold, ServedWhileBuilt,
                AlwaysRegistered
        <3> QED BY <2>2, <2>3, <3>2 DEF Consistent
    <2> QED BY <2>4, <2>5
<1>11. ASSUME NEW t \in Threads, Undefined(t) PROVE Consistent'
    <2>1. pc[t] # "idle"
        BY <1>11, IdleDefined DEF Undefined
    <2>2. main # "starting" /\ main' # "starting"
        BY <1>11, <2>1, FoundHandler DEF Undefined
    <2>3. ObjectsOwned'
        BY <1>11 DEF Undefined, ObjectsOwned, Owned, Alive
    <2>4. main' \in {"serving", "stopping"} => main' = main
        BY <1>11 DEF Undefined
    <2>5. BusFilled'
        BY <1>0, <1>11, <2>2 DEF Undefined, Consistent, BusFilled
    <2>6. CallsHold'
        BY <1>0, <1>11 DEF Undefined, Finish, Goto, TypeOK, Consistent, CallsHold
    <2> QED
        BY <1>0, <1>11, <2>1, <2>2, <2>3, <2>4, <2>5, <2>6
        DEF Undefined, Finish, TypeOK, Consistent, ServedWhileBuilt, AlwaysRegistered
<1> QED
    BY <1>1, <1>2, <1>3, <1>4, <1>5, <1>6, <1>7, <1>8, <1>9, <1>10, <1>11
    DEF Next, MainStep, Work

-----------------------------------------------------------------------------
LEMMA InitConsistent == Init => Consistent
<1> SUFFICES ASSUME Init PROVE Consistent
    OBVIOUS
<1>1. TypeOK
    BY LifecycleAssumption, LocalsByNumber, EmptySeq DEF Init, TypeOK
<1>2. Owned(Alive, strong) = {}
    BY NoneIsNoHandler DEF Init, Owned, Alive
<1> QED
    BY <1>1, <1>2
    DEF Init, Consistent, ObjectsOwned, CallsHold, BusFilled, ServedWhileBuilt,
        AlwaysRegistered

(* For any number of threads and requests: the objects that are owned exist*)
(* and no others, a running call holds its handler, and the bus is filled  *)
(* before the first request.                                               *)
THEOREM LifecycleConsistent == Spec => []Consistent
<1>1. Consistent /\ [Next]_vars => Consistent'
    BY StepTyped, StepConsistent DEF Consistent
<1> QED BY InitConsistent, <1>1, PTL DEF Spec

(* The handler of a running call exists, even while main is destroying its *)
(* locals under the requests in progress.                                  *)
THEOREM HandlersAreKept == Spec => []HandlersOutliveCalls
<1>1. Consistent => HandlersOutliveCalls
    BY DEF Consistent, ObjectsOwned, Owned, CallsHold, HandlersOutliveCalls
<1> QED BY LifecycleConsistent, <1>1, PTL

(* No request ever finds a command without handler: main has registered all*)
(* of them before the server is started, and nothing unregisters one.      *)
THEOREM CommandsAreRegistered == Spec => []AlwaysRegistered
<1>1. Consistent => AlwaysRegistered
    BY DEF Consistent
<1> QED BY LifecycleConsistent, <1>1, PTL

(* The steps that end a request as expired or undefined: a failed lock, and*)
(* a reference to a local that is gone.                                    *)
LEMMA LostBy ==
    ASSUME TypeOK, [Next]_vars, NEW t \in Threads,
           status'[t] # status[t], status'[t] \in {"expired", "undefined"}
    PROVE  /\ main # "crashed"
           /\ (Lock(t) /\ fn[t] \notin objects) \/ Undefined(t)
<1>1. ~UNCHANGED status
    OBVIOUS
<1>2. ASSUME NEW u \in Threads, NEW outcome,
             outcome \notin {"expired", "undefined"} \/ u # t,
             status' = [status EXCEPT ![u] = outcome]
      PROVE  FALSE
    BY <1>2 DEF TypeOK
<1>3. ~MainStep /\ ~Terminate /\ ~Ended /\ ~UNCHANGED vars
    BY <1>1 DEF MainStep, Construct, Start, Stop, Destroy, Terminate, Ended, vars, local
<1>4. PICK u \in Threads : main # "crashed" /\ (Accept(u) \/ Work(u))
    BY <1>3 DEF Next
<1>5. ~Accept(u) /\ ~Route(u)
    BY <1>1, <1>2 DEF Accept, Route
<1>6. ~Find(u)
    BY <1>1, <1>2 DEF Find, Finish
<1>7. ~Execute(u)
    BY <1>1, <1>2 DEF Execute, Finish
<1>8. CASE Undefined(u)
    BY <1>2, <1>4, <1>8 DEF Undefined, Finish
<1>9. CASE Lock(u)
    <2>1. fn[u] \notin objects /\ u = t
        BY <1>1, <1>2, <1>9 DEF Lock, Finish
    <2> QED BY <1>4, <1>9, <2>1
<1> QED BY <1>4, <1>5, <1>6, <1>7, <1>8, <1>9 DEF Work

(* Until stop() has returned every local is alive: each handler has its    *)
(* local for an owner, so a lock of the weak_ptr succeeds, and no thread   *)
(* refers to a local that is gone.                                         *)
THEOREM LostOnlyInShutdownHolds == Spec => LostOnlyInShutdown
<1>1. Consistent /\ [Next]_vars =>
          \A t \in Threads :
              status'[t] # status[t] /\ status'[t] \in {"expired", "undefined"} =>
                  main = "destroying" \/ main = "exited"
    <2> SUFFICES ASSUME Consistent, [Next]_vars, NEW t \in Threads, status'[t] # status[t],
                        status'[t] \in {"expired", "undefined"}
                 PROVE  main = "destroying" \/ main = "exited"
        OBVIOUS
    <2>0. TypeOK /\ Consistent
        BY DEF Consistent
    <2>1. main # "crashed" /\ ((Lock(t) /\ fn[t] \notin objects) \/ Undefined(t))
        BY <2>0, LostBy
    <2>2. main # "starting"
        BY <2>0, <2>1, IdleDefined DEF Lock, Undefined, Consistent, ServedWhileBuilt
    <2>3. ASSUME main \in {"serving", "stopping"} PROVE FALSE
        <3>1. Defined(t) /\ Handlers \subseteq Alive
            BY <2>0, <2>3, AllAlive DEF Consistent, ServedWhileBuilt
        <3>2. CASE Lock(t) /\ fn[t] \notin objects
            BY <2>0, <3>1, <3>2 DEF Lock, Consistent, CallsHold, ObjectsOwned, Owned
        <3> QED BY <2>1, <3>1, <3>2 DEF Undefined
    <2> QED BY <2>0, <2>1, <2>2, <2>3 DEF TypeOK
<1> QED BY LifecycleConsistent, <1>1, PTL DEF Spec, LostOnlyInShutdown

(* A handler is built after everything that the commands refer to, so it is*)
(* destroyed before.                                                       *)
LEMMA HandlersGoFirst ==
    ASSUME TypeOK, NEW h \in Handlers, h \in Alive, NEW c
    PROVE  UsedBy(c) \subseteq Alive
<1>1. PICK i \in 1 .. built : Locals[i] = h
    BY DEF Alive
<1>2. built \in 0 .. 12 /\ i \in 1 .. 12
    BY <1>1, LocalsByNumber DEF TypeOK
<1>3. i >= 6
    <2>1. \A k \in 1 .. 5 : Locals[k] \notin Handlers
        BY LocalsByNumber DEF Handlers
    <2> QED BY <1>1, <1>2, <2>1
<1>4. \A k \in 1 .. 5 : Locals[k] \in Alive
    BY <1>1, <1>2, <1>3 DEF Alive
<1> QED BY <1>4, LocalsByNumber DEF UsedBy

(* The one step that takes a call into a handler is a lock. *)
LEMMA EnteredByLock ==
    ASSUME TypeOK, [Next]_vars, NEW t \in Threads, pc[t] = "lock", pc'[t] = "execute"
    PROVE  fn[t] \in objects
<1>1. ASSUME NEW u \in Threads, NEW step, step # "execute" \/ u # t, Goto(u, step)
      PROVE  FALSE
    BY <1>1 DEF TypeOK, Goto
<1>2. ~UNCHANGED pc
    OBVIOUS
<1>3. PICK u \in Threads : Accept(u) \/ Work(u)
    BY <1>2 DEF Next, MainStep, Construct, Start, Stop, Destroy, Terminate, Ended, vars, local
<1>4. ~Accept(u) /\ ~Route(u) /\ ~Find(u) /\ ~Execute(u) /\ ~Undefined(u)
    BY <1>1 DEF Accept, Route, Find, Execute, Undefined, Finish
<1>5. Lock(u)
    BY <1>3, <1>4 DEF Work
<1> QED BY <1>1, <1>5 DEF Lock, Finish

(* For any number of threads: the object of a handler whose local is gone  *)
(* exists only as long as a call that has come in time is inside, and while*)
(* its local is there so is everything that it refers to.                  *)
THEOREM LateCallsAreRefused == Spec => LateCallsRefused
<1>1. Consistent /\ [Next]_vars =>
          \A t \in Threads :
              pc[t] = "lock" /\ pc'[t] = "execute" =>
                  \/ UsedBy(Head(todo[t])) \subseteq Alive
                  \/ \E u \in Threads \ {t} : strong[u] = fn[t]
    <2> SUFFICES ASSUME Consistent, [Next]_vars, NEW t \in Threads,
                        pc[t] = "lock", pc'[t] = "execute"
                 PROVE  \/ UsedBy(Head(todo[t])) \subseteq Alive
                        \/ \E u \in Threads \ {t} : strong[u] = fn[t]
        OBVIOUS
    <2>0. TypeOK /\ Consistent
        BY DEF Consistent
    <2>1. fn[t] \in Handlers /\ strong[t] = None
        BY <2>0 DEF Consistent, CallsHold
    <2>2. fn[t] \in Alive \/ \E u \in Threads : strong[u] = fn[t]
        BY <2>0, EnteredByLock DEF Consistent, ObjectsOwned, Owned
    <2>3. CASE fn[t] \in Alive
        BY <2>0, <2>1, <2>3, HandlersGoFirst
    <2>4. CASE \E u \in Threads : strong[u] = fn[t]
        BY <2>1, <2>4, NoneIsNoHandler
    <2> QED BY <2>2, <2>3, <2>4
<1> QED BY LifecycleConsistent, <1>1, PTL DEF Spec, LateCallsRefused

=============================================================================
