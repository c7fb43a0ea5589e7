---------------------------- MODULE GoogleExchange --------------------------
(***************************************************************************)
(* GoogleAuthKeyHandler: several sign-ins at once exchange authorization   *)
(* codes with Google.                                                      *)
(*                                                                         *)
(* An exchange sets up Poco's SSL library, sends the code over a first     *)
(* session, takes the library down and asks for the email over a second    *)
(* one.  What it sets up belongs to the process: the count of              *)
(* initializations and the SSLManager with its default client context,     *)
(* which a session takes when it is made.                                  *)
(*                                                                         *)
(* Poco is external.  initializeSSL counts up; uninitializeSSL counts down *)
(* and shuts the manager down, which drops the default context whoever has *)
(* set it.  A session that finds none has the manager make one from the    *)
(* configuration of the application.  Each of these calls is one step.     *)
(***************************************************************************)
EXTENDS Integers, FiniteSets

CONSTANTS
    Threads,      \* the pool threads that serve a sign-in
    NoContext,    \* the manager has no default client context
    Configured,   \* the context that the manager makes by itself
    MaxExchanges  \* bound on the length of a behaviour

ASSUME ExchangeAssumption ==
    /\ IsFiniteSet(Threads)
    /\ NoContext \notin Threads /\ Configured \notin Threads
    /\ NoContext # Configured
    /\ MaxExchanges \in Nat

(* A context made by an exchange is named after its thread. *)
Contexts == Threads \cup {Configured}

VARIABLES
    pc,          \* thread -> the call it is about to make, or "idle"
    initialized, \* the number of initializations of the SSL library
    default,     \* the default client context of the manager
    context,     \* thread -> the context of its session
    interrupted, \* the threads whose set-up another exchange has taken down
    exchanges    \* how many so far

vars == <<pc, initialized, default, context, interrupted, exchanges>>

(* Between initializeSSL and uninitializeSSL. *)
Inside == {"configure", "session", "token", "uninitialize"}

Steps == Inside \cup {"idle", "userInfoSession", "userInfo"}

TypeOK ==
    /\ pc \in [Threads -> Steps]
    /\ initialized \in Nat
    /\ default \in Contexts \cup {NoContext}
    /\ context \in [Threads -> Contexts \cup {NoContext}]
    /\ interrupted \in SUBSET Threads
    /\ exchanges \in 0 .. MaxExchanges

Init ==
    /\ pc = [t \in Threads |-> "idle"]
    /\ initialized = 0
    /\ default = NoContext
    /\ context = [t \in Threads |-> NoContext]
    /\ interrupted = {}
    /\ exchanges = 0

-----------------------------------------------------------------------------
Goto(t, step) == pc' = [pc EXCEPT ![t] = step]

Return(t) ==
    /\ Goto(t, "idle")
    /\ context' = [context EXCEPT ![t] = NoContext]

Initialize(t) ==
    /\ pc[t] = "idle"
    /\ exchanges < MaxExchanges
    /\ exchanges' = exchanges + 1
    /\ initialized' = initialized + 1
    /\ Goto(t, "configure")
    /\ UNCHANGED <<default, context, interrupted>>

(* handle() gives the manager a context of its own.  As a defect, only the *)
(* first exchange inside does so.                                          *)
ConfiguredOnce(t) == IF initialized > 1 THEN default ELSE t
NewDefault(t) == t

InitializeClient(t) ==
    /\ pc[t] = "configure"
    /\ default' = NewDefault(t)
    /\ interrupted' = interrupted \ {t}
    /\ Goto(t, "session")
    /\ UNCHANGED <<initialized, context, exchanges>>

(* HTTPSClientSession takes the default context, and has one made if there *)
(* is none.                                                                *)
TakeContext(t) ==
    /\ default' = IF default = NoContext THEN Configured ELSE default
    /\ context' = [context EXCEPT ![t] = default']

OpenSession(t) ==
    /\ pc[t] = "session"
    /\ TakeContext(t)
    /\ Goto(t, "token")
    /\ UNCHANGED <<initialized, interrupted, exchanges>>

(* The code is sent and the answer read. *)
ExchangeCode(t) ==
    /\ pc[t] = "token"
    /\ Goto(t, "uninitialize")
    /\ UNCHANGED <<initialized, default, context, interrupted, exchanges>>

(* A context or a session cannot be made, an exception or a time-out of the*)
(* session, a status other than 2xx, an unreadable body: handle ends on the*)
(* spot, and what it has initialized stays so.  As a defect it tries again.*)
TriesAgain(t) == Goto(t, "session") /\ UNCHANGED context
GivesUp(t) == Return(t)

FailToken(t) ==
    /\ pc[t] \in {"configure", "session", "token"}
    /\ GivesUp(t)
    /\ UNCHANGED <<initialized, default, interrupted, exchanges>>

Uninitialize(t) ==
    /\ pc[t] = "uninitialize"
    /\ initialized' = initialized - 1
    /\ default' = NoContext
    /\ interrupted' = interrupted \cup {s \in Threads \ {t} : pc[s] \in Inside}
    /\ Goto(t, "userInfoSession")
    /\ context' = [context EXCEPT ![t] = NoContext]
    /\ UNCHANGED exchanges

(* fetchResult makes a session of its own. *)
OpenUserInfoSession(t) ==
    /\ pc[t] = "userInfoSession"
    /\ TakeContext(t)
    /\ Goto(t, "userInfo")
    /\ UNCHANGED <<initialized, interrupted, exchanges>>

(* As a defect, fetchResult takes the library down once more. *)
FetchAndUninitialize(t) ==
    /\ pc[t] = "userInfo"
    /\ Return(t)
    /\ initialized' = initialized - 1
    /\ default' = NoContext
    /\ UNCHANGED <<interrupted, exchanges>>

FetchResult(t) ==
    /\ pc[t] = "userInfo"
    /\ Return(t)
    /\ UNCHANGED <<initialized, default, interrupted, exchanges>>

FailUserInfo(t) ==
    /\ pc[t] \in {"userInfoSession", "userInfo"}
    /\ Return(t)
    /\ UNCHANGED <<initialized, default, interrupted, exchanges>>

(* Nothing is left to do: where a bounded behaviour may stop. *)
Quiescent ==
    /\ exchanges = MaxExchanges
    /\ \A t \in Threads : pc[t] = "idle"
    /\ UNCHANGED vars

Run(t) ==
    \/ InitializeClient(t) \/ OpenSession(t) \/ ExchangeCode(t) \/ FailToken(t)
    \/ Uninitialize(t)
    \/ OpenUserInfoSession(t) \/ FetchResult(t) \/ FailUserInfo(t)

Next ==
    \/ \E t \in Threads : Initialize(t) \/ Run(t)
    \/ Quiescent

Spec == Init /\ [][Next]_vars

(* A session has time-outs: each of its calls returns or throws. *)
FairSpec == Spec /\ \A t \in Threads : WF_vars(Run(t))

-----------------------------------------------------------------------------
(* Nobody takes the library down under an exchange that is between its own *)
(* two calls: the count is one of the process, and a single call too many, *)
(* of whatever thread, would bring it to zero too soon.                    *)
UpWhileInside == \A t \in Threads : pc[t] \in Inside => initialized > 0

(* The code goes out under a context that an exchange has set up, unless   *)
(* some other exchange took the manager down in the meantime.              *)
CodeUnderOwnSettings ==
    \A t \in Threads : context[t] = Configured /\ pc[t] = "token" => t \in interrupted

(* Every exchange ends, one way or the other. *)
ExchangesEnd == \A t \in Threads : pc[t] # "idle" ~> pc[t] = "idle"

=============================================================================
