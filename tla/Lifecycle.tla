------------------------------ MODULE Lifecycle -----------------------------
(***************************************************************************)
(* The process from main() to its end.  ApplicationMain::main builds its   *)
(* locals one by one, the make...Handler functions register the handlers on*)
(* the message bus, the server is started, and after a termination request *)
(* it is stopped and the locals are destroyed in reverse order.  Meanwhile *)
(* the threads of the pool take requests through router, controller and bus*)
(* to the handlers.                                                        *)
(*                                                                         *)
(* The locals are alive in the order of Locals: exactly the first `built`. *)
(* A handler object is owned by a shared_ptr, so it may outlive its local: *)
(* the bus stores a weak_ptr, and a call locks it for as long as it runs.  *)
(* stop() does not wait for the requests in progress, so main destroys its *)
(* locals under them.  What requests do to the database is left to         *)
(* SyncStore.                                                              *)
(***************************************************************************)
EXTENDS Integers, Sequences

CONSTANTS
    Threads,     \* the threads of the HTTP server's pool
    Kinds,       \* the kinds of request that arrive
    MaxRequests  \* bound on the number of requests

Locals ==
    <<"db", "userStorage", "pluginOptionsStorage", "googleAuthKeyHandler",
      "messageBus", "jwtHandler", "authUserViaGoogleHandler",
      "getPluginOptionsHandler", "postPluginOptionsHandler",
      "authMiddleware", "restControllerResolvers", "restServer">>

Handlers == {"jwtHandler", "authUserViaGoogleHandler",
             "getPluginOptionsHandler", "postPluginOptionsHandler"}

Commands == {"CreateJwt", "RetrieveId", "RefreshJwt", "AuthUserViaGoogle",
             "GetPluginOptions", "PostPluginOptions"}

(* The handler that executes a command, and what the make...Handler        *)
(* function of that handler registers.                                     *)
HandlerOf(command) ==
    IF command = "AuthUserViaGoogle" THEN "authUserViaGoogleHandler"
    ELSE IF command = "GetPluginOptions" THEN "getPluginOptionsHandler"
    ELSE IF command = "PostPluginOptions" THEN "postPluginOptionsHandler"
    ELSE "jwtHandler"

(* As a defect, makeJwtHandler forgets one command.                        *)
RegistersAllButOne(name) == {c \in Commands \ {"RefreshJwt"} : HandlerOf(c) = name}

Registers(name) == {c \in Commands : HandlerOf(c) = name}

AllKinds == {"google", "refresh", "get", "post"}

(* The commands that the controller for a request calls, one after another.*)
CommandsOf(kind) ==
    IF kind = "google" THEN <<"AuthUserViaGoogle", "CreateJwt">>
    ELSE IF kind = "refresh" THEN <<"RefreshJwt">>
    ELSE IF kind = "get" THEN <<"RetrieveId", "GetPluginOptions">>
    ELSE <<"RetrieveId", "PostPluginOptions">>

(* The locals that a handler refers to while it executes a command. *)
UsedBy(command) ==
    IF command = "CreateJwt" THEN {}
    ELSE IF command \in {"RetrieveId", "RefreshJwt"} THEN {"userStorage", "db"}
    ELSE IF command = "AuthUserViaGoogle"
    THEN {"googleAuthKeyHandler", "userStorage", "db"}
    ELSE {"pluginOptionsStorage", "db"}

None == "none"

ASSUME LifecycleAssumption ==
    /\ Kinds \subseteq AllKinds
    /\ MaxRequests \in Nat

-----------------------------------------------------------------------------
VARIABLES
    main,      \* what the main thread is doing
    built,     \* how many of the Locals are alive
    handlers,  \* the bus: command -> the handler object that its function holds
    objects,   \* the handler objects that exist
    pc,        \* thread -> where it is in its request
    todo,      \* thread -> the commands it has yet to call
    fn,        \* thread -> the handler of the function copied from the bus
    strong,    \* thread -> the handler object that it keeps alive
    status,    \* thread -> how its last request ended
    requests   \* how many so far

process == <<main, built, handlers>>
local == <<pc, todo, fn, status>>
vars == <<process, objects, local, strong, requests>>

Alive == {Locals[i] : i \in 1 .. built}

TypeOK ==
    /\ main \in {"starting", "serving", "stopping", "destroying", "exited", "crashed"}
    /\ built \in 0 .. Len(Locals)
    /\ handlers \in [Commands -> Handlers \cup {None}]
    /\ objects \in SUBSET Handlers
    /\ pc \in [Threads -> {"idle", "route", "find", "lock", "execute"}]
    /\ todo \in [Threads -> Seq(Commands)]
    /\ fn \in [Threads -> Handlers \cup {None}]
    /\ strong \in [Threads -> Handlers \cup {None}]
    /\ status \in [Threads -> {"none", "pending", "answered", "noHandler", "expired", "undefined"}]
    /\ requests \in 0 .. MaxRequests

Init ==
    /\ main = "starting"
    /\ built = 0
    /\ handlers = [c \in Commands |-> None]
    /\ objects = {}
    /\ pc = [t \in Threads |-> "idle"]
    /\ todo = [t \in Threads |-> <<>>]
    /\ fn = [t \in Threads |-> None]
    /\ strong = [t \in Threads |-> None]
    /\ status = [t \in Threads |-> "none"]
    /\ requests = 0

-----------------------------------------------------------------------------
(* A local is constructed; a handler registers itself. *)
Construct ==
    /\ main = "starting"
    /\ built < Len(Locals)
    /\ built' = built + 1
    /\ LET new == Locals[built + 1]
       IN  /\ handlers' = [c \in Commands |->
                              IF c \in Registers(new) THEN new ELSE handlers[c]]
           /\ objects' = objects \cup ({new} \cap Handlers)
    /\ UNCHANGED <<main, local, strong, requests>>

Ready == built = Len(Locals)

Start ==
    /\ main = "starting"
    /\ Ready
    /\ main' = "serving"
    /\ UNCHANGED <<built, handlers, objects, local, strong, requests>>

(* waitForTerminationRequest returns. *)
Terminate ==
    /\ main = "serving"
    /\ main' = "stopping"
    /\ UNCHANGED <<built, handlers, objects, local, strong, requests>>

(* restServer.stop() ends the accepting of connections.  It waits for no   *)
(* request: those in progress go on, and the connections stay open.        *)
Stop ==
    /\ main = "stopping"
    /\ main' = "destroying"
    /\ UNCHANGED <<built, handlers, objects, local, strong, requests>>

(* A defect: main drops the pointers that the make...Handler functions     *)
(* return.                                                                 *)
OwnedByCalls(locals, calls) == {h \in Handlers : \E t \in Threads : calls[t] = h}

(* As a defect, the functions on the bus hold a shared_ptr: those of the   *)
(* bus itself and the copies that the calls have made.                     *)
OwnedByFunctions(locals, calls) ==
    {h \in Handlers :
        \/ h \in locals
        \/ "messageBus" \in locals /\ \E c \in Commands : handlers[c] = h
        \/ \E t \in Threads : calls[t] = h \/ fn[t] = h}

(* The handler objects that somebody owns: a local of main or a call.      *)
Owned(locals, calls) ==
    {h \in Handlers : h \in locals \/ \E t \in Threads : calls[t] = h}

(* A local is destroyed: a handler object goes unless a call holds it.     *)
Destroy ==
    /\ main = "destroying"
    /\ IF built = 0
       THEN main' = "exited" /\ UNCHANGED <<built, objects>>
       ELSE /\ built' = built - 1
            /\ objects' = Owned({Locals[i] : i \in 1 .. built - 1}, strong)
            /\ UNCHANGED main
    /\ UNCHANGED <<handlers, local, strong, requests>>

MainStep == Construct \/ Start \/ Stop \/ Destroy

-----------------------------------------------------------------------------
(* The locals of main that the next step of a thread refers to.  The copy  *)
(* of the bus's function is the thread's own and needs none.               *)
Uses(t) ==
    IF pc[t] = "route" THEN {"restControllerResolvers"}
    ELSE IF pc[t] = "execute" THEN UsedBy(Head(todo[t]))
    ELSE IF pc[t] # "find" THEN {}
    ELSE IF Head(todo[t]) = "RetrieveId" THEN {"messageBus", "authMiddleware"}
    ELSE {"messageBus"}

Defined(t) == Uses(t) \subseteq Alive

Goto(t, step) == pc' = [pc EXCEPT ![t] = step]

Finish(t, outcome) ==
    /\ Goto(t, "idle")
    /\ todo' = [todo EXCEPT ![t] = <<>>]
    /\ fn' = [fn EXCEPT ![t] = None]
    /\ status' = [status EXCEPT ![t] = outcome]

(* A new connection takes a server that accepts; a connection that a thread*)
(* has answered a request on stays open and may bring the next one.        *)
Connected(t) == main = "serving" \/ status[t] = "answered"

Accept(t) ==
    /\ Connected(t)
    /\ pc[t] = "idle"
    /\ requests < MaxRequests
    /\ requests' = requests + 1
    /\ \E kind \in Kinds : todo' = [todo EXCEPT ![t] = CommandsOf(kind)]
    /\ Goto(t, "route")
    /\ status' = [status EXCEPT ![t] = "pending"]
    /\ UNCHANGED <<process, objects, fn, strong>>

(* createRequestHandler finds the controller. *)
Route(t) ==
    /\ pc[t] = "route"
    /\ Defined(t)
    /\ Goto(t, "find")
    /\ UNCHANGED <<process, objects, todo, fn, status, strong, requests>>

(* MessageBus::call copies the function under the bus's mutex, which it    *)
(* gives back before the function runs.                                    *)
Find(t) ==
    /\ pc[t] = "find"
    /\ Defined(t)
    /\ LET handler == handlers[Head(todo[t])]
       IN  IF handler = None
           THEN Finish(t, "noHandler")
           ELSE /\ fn' = [fn EXCEPT ![t] = handler]
                /\ Goto(t, "lock")
                /\ UNCHANGED <<todo, status>>
    /\ UNCHANGED <<process, objects, strong, requests>>

(* What a call keeps of the object it has found, and as a defect nothing:  *)
(* the bus holds a plain pointer.                                          *)
NothingKept(t) == None

Kept(t) == fn[t]

(* wobj.lock() *)
Lock(t) ==
    /\ pc[t] = "lock"
    /\ IF fn[t] \in objects
       THEN /\ strong' = [strong EXCEPT ![t] = Kept(t)]
            /\ Goto(t, "execute")
            /\ UNCHANGED <<todo, fn, status>>
       ELSE Finish(t, "expired") /\ UNCHANGED strong
    /\ UNCHANGED <<process, objects, requests>>

(* The commands that are left after one, and as a defect the same again.   *)
TriedAgain(t) == todo[t]

Rest(t) == Tail(todo[t])

(* The handler runs to its end, by return or by exception; the last owner  *)
(* deletes it.  The controller calls the next command or answers.          *)
Execute(t) ==
    /\ pc[t] = "execute"
    /\ Defined(t)
    /\ strong' = [strong EXCEPT ![t] = None]
    /\ objects' = Owned(Alive, strong')
    /\ \/ Finish(t, "answered")
       \/ /\ Len(todo[t]) > 1
          /\ todo' = [todo EXCEPT ![t] = Rest(t)]
          /\ fn' = [fn EXCEPT ![t] = None]
          /\ Goto(t, "find")
          /\ UNCHANGED status
    /\ UNCHANGED <<process, requests>>

(* A thread refers to a local that is gone: undefined behaviour.  The      *)
(* process dies of it, or the request ends in some way.                    *)
Undefined(t) ==
    /\ ~Defined(t)
    /\ main # "crashed"
    /\ \/ main' = "crashed"
       \/ UNCHANGED main
    /\ Finish(t, "undefined")
    /\ strong' = [strong EXCEPT ![t] = None]
    /\ objects' = Owned(Alive, strong')
    /\ UNCHANGED <<built, handlers, requests>>

Work(t) == Route(t) \/ Find(t) \/ Lock(t) \/ Execute(t) \/ Undefined(t)

(* The end: main has returned, or the process is dead, or nobody asks it to*)
(* terminate.                                                              *)
Ended ==
    /\ \/ main = "crashed"
       \/ main = "exited" /\ \A t \in Threads : pc[t] = "idle"
    /\ UNCHANGED vars

Next ==
    \/ MainStep \/ Terminate \/ Ended
    \/ main # "crashed" /\ \E t \in Threads : Accept(t) \/ Work(t)

Spec == Init /\ [][Next]_vars

(* Main and the pool threads are scheduled; nobody has to connect or to ask*)
(* the process to terminate.                                               *)
Fairness == WF_vars(MainStep) /\ \A t \in Threads : WF_vars(Work(t))

FairSpec == Spec /\ Fairness

-----------------------------------------------------------------------------
(* A call never runs in a handler object that has been deleted: the lock of*)
(* the weak_ptr keeps it, whatever main destroys in the meantime.          *)
HandlersOutliveCalls ==
    \A t \in Threads : pc[t] = "execute" => fn[t] \in objects

(* Every command has its handler when the first request comes: the "No     *)
(* handler registered" exception of call() never happens.                  *)
AlwaysRegistered == \A t \in Threads : status[t] # "noHandler"

ObjectsOwned == objects = Owned(Alive, strong)

CallsHold ==
    \A t \in Threads :
        /\ pc[t] # "idle" => todo[t] # <<>>
        /\ pc[t] = "lock" => fn[t] \in Handlers
        /\ pc[t] = "execute" => fn[t] \in Handlers /\ strong[t] = fn[t]
        /\ pc[t] # "execute" => strong[t] = None

BusFilled ==
    /\ \A i \in 1 .. built : \A c \in Registers(Locals[i]) : handlers[c] = Locals[i]
    /\ main # "starting" => \A c \in Commands : handlers[c] \in Handlers

ServedWhileBuilt ==
    /\ main = "starting" => \A t \in Threads : pc[t] = "idle" /\ status[t] = "none"
    /\ main \in {"serving", "stopping"} => built = Len(Locals)

(* The inductive invariant: the handler objects that exist are those that a*)
(* local of main or a running call owns, a running call owns its own, and  *)
(* the bus is filled before the first request.                             *)
Consistent ==
    /\ TypeOK
    /\ ObjectsOwned
    /\ CallsHold
    /\ BusFilled
    /\ ServedWhileBuilt
    /\ AlwaysRegistered

(* A request finds its handler expired, or refers to a local that is gone, *)
(* only once stop() has returned and main destroys its locals.             *)
LostOnlyInShutdown ==
    [][\A t \in Threads :
           status'[t] # status[t] /\ status'[t] \in {"expired", "undefined"} =>
               main = "destroying" \/ main = "exited"]_vars

(* main destroys the handlers before the storages that they refer to, and  *)
(* the bus locks a handler before each call: a call that comes too late is *)
(* refused.  It enters a handler whose storage is gone only while another  *)
(* call, one that came in time, is still inside and keeps the object.      *)
LateCallsRefused ==
    [][\A t \in Threads :
           pc[t] = "lock" /\ pc'[t] = "execute" =>
               \/ UsedBy(Head(todo[t])) \subseteq Alive
               \/ \E u \in Threads \ {t} : strong[u] = fn[t]]_vars

(* Every accepted request comes to an end while the process lives. *)
RequestsEnd == \A t \in Threads : pc[t] # "idle" ~> pc[t] = "idle" \/ main = "crashed"

=============================================================================
