------------------------------- MODULE Sessions -----------------------------
(***************************************************************************)
(* The tokens of the clients over time: createAuthToken and                *)
(* createRefreshToken with their lifetimes, the middleware that asks them, *)
(* the refresh, and clients that refresh or sign in again when refused.    *)
(*                                                                         *)
(* A token is the id in it and the time it has left; Tick lets time pass.  *)
(* The look at a token and the look-up of its user are steps of their own, *)
(* so a token may expire, and a power loss take the user away, in between. *)
(*                                                                         *)
(* JwtHandler leaves the expiration to Signer::verify, and whether that    *)
(* minds it is up to Poco, which is not part of the repository:            *)
(* SignerChecksExpiry.  The database is opened with synchronous = NORMAL in*)
(* WAL mode: what was committed since the last checkpoint survives the     *)
(* death of the process, not a loss of power.                              *)
(*                                                                         *)
(* A sign-in is one step here, which may fail or, on the connection that   *)
(* all threads share, lose its row or read the id of somebody else's:      *)
(* SyncStore has its single steps.                                         *)
(***************************************************************************)
EXTENDS Integers, Sequences

CONSTANTS
    Clients,            \* each with an email of its own
    AuthLife,           \* 15 minutes
    RefreshLife,        \* 7 days
    SignerChecksExpiry, \* TRUE: verify refuses a token that has expired
    MaxDelay,           \* how long a request, or a retry, may be on its way
    MaxLosses,          \* bound on power losses and sign-ins gone astray
    MaxFaults,          \* bound on requests that fail for another cause
    MaxRefusals         \* where the count of refusals in a row stops

ASSUME SessionsAssumption ==
    /\ AuthLife \in Nat \ {0} /\ RefreshLife \in Nat \ {0}
    /\ MaxDelay \in Nat /\ MaxRefusals \in Nat \ {0}
    /\ MaxLosses \in Nat /\ MaxFaults \in Nat
    /\ SignerChecksExpiry \in BOOLEAN

Tokens == [id : Nat, left : Nat]
NoToken == [id |-> 0, left |-> 0]

VARIABLES
    users,   \* the users table, in the order of the ids 1, 2, ...
    synced,  \* how many of them a checkpoint has made safe
    lost,    \* the <<client, id>> whose row is gone, or never was
    losses,  \* how many power losses and sign-ins gone astray so far
    faults,  \* how many requests have failed so far
    given,   \* client -> the id that its sign-in has just returned, or 0
    auth,    \* client -> the auth token it holds
    refresh, \* client -> the refresh token it holds
    next,    \* client -> the request it makes next
    pc,      \* client -> the step of its request, or "idle"
    waited,  \* client -> the time since its request or its refusal
    age,     \* client -> the time since it signed in, up to AuthLife
    refused  \* client -> the refusals in a row

table == <<users, synced, lost, losses>>
tokens == <<auth, refresh, age>>
vars == <<table, faults, given, tokens, next, pc, waited, refused>>

TypeOK ==
    /\ users \in Seq(Clients)
    /\ synced \in 0 .. Len(users)
    /\ lost \in SUBSET (Clients \X Nat)
    /\ losses \in 0 .. MaxLosses
    /\ faults \in 0 .. MaxFaults
    /\ given \in [Clients -> Nat]
    /\ auth \in [Clients -> Tokens]
    /\ refresh \in [Clients -> Tokens]
    /\ next \in [Clients -> {"signIn", "use", "refresh"}]
    /\ pc \in [Clients -> {"idle", "signIn", "createJwt", "verify", "find",
                           "verifyAuth", "keep", "verifyRefresh", "renew"}]
    /\ waited \in [Clients -> Nat]
    /\ age \in [Clients -> 0 .. AuthLife]
    /\ refused \in [Clients -> 0 .. MaxRefusals]

Init ==
    /\ users = <<>>
    /\ synced = 0
    /\ lost = {}
    /\ losses = 0
    /\ faults = 0
    /\ given = [c \in Clients |-> 0]
    /\ auth = [c \in Clients |-> NoToken]
    /\ refresh = [c \in Clients |-> NoToken]
    /\ next = [c \in Clients |-> "signIn"]
    /\ pc = [c \in Clients |-> "idle"]
    /\ waited = [c \in Clients |-> 0]
    /\ age = [c \in Clients |-> AuthLife]
    /\ refused = [c \in Clients |-> 0]

-----------------------------------------------------------------------------
(* Signer::verify. *)
Verified(token) == token # NoToken /\ (SignerChecksExpiry => token.left > 0)

(* findById; as a defect, one that only finds what a checkpoint has synced. *)
FoundIfSynced(id) == id \in 1 .. synced
Found(id) == id \in DOMAIN users

Goto(c, step) == pc' = [pc EXCEPT ![c] = step]

(* The answer arrives, and the client decides what to do next. *)
Answer(c, nextRequest, refusals) ==
    /\ Goto(c, "idle")
    /\ next' = [next EXCEPT ![c] = nextRequest]
    /\ refused' = [refused EXCEPT ![c] = refusals]
    /\ waited' = [waited EXCEPT ![c] = 0]

Refuse(c, nextRequest) ==
    Answer(c, nextRequest,
           IF refused[c] = MaxRefusals THEN refused[c] ELSE refused[c] + 1)

(* The handler throws, or gets an error.  Exceptions of findById are made  *)
(* errors by the handlers of tokens: the client cannot tell them from the  *)
(* other refusals.                                                         *)
Fails(c, nextRequest) ==
    /\ faults < MaxFaults /\ faults' = faults + 1
    /\ Refuse(c, nextRequest)

(* A client that has not been refused may refresh on its own account. *)
Send(c) ==
    /\ pc[c] = "idle"
    /\ \E r \in {next[c]} \cup
              (IF next[c] = "use" /\ refused[c] = 0 THEN {"refresh"} ELSE {}) :
           Goto(c, IF r = "signIn" THEN "signIn"
                   ELSE IF r = "use" THEN "verify" ELSE "verifyAuth")
    /\ waited' = [waited EXCEPT ![c] = 0]
    /\ UNCHANGED <<table, faults, given, tokens, next, refused>>

-----------------------------------------------------------------------------
(* The sign-in finds the user of the email or adds one, and returns its id.*)
(* As a defect, it returns that of the last row.                           *)
LatestId(c) == Len(users')
UserId(c) == CHOOSE i \in DOMAIN users' : users'[i] = c

Registered(c) == \E i \in DOMAIN users : users[i] = c

SignIn(c) ==
    /\ pc[c] = "signIn"
    /\ users' = IF Registered(c) THEN users ELSE Append(users, c)
    /\ given' = [given EXCEPT ![c] = UserId(c)]
    /\ Goto(c, "createJwt")
    /\ UNCHANGED <<synced, lost, losses, faults, tokens, next, waited, refused>>

(* In another thread's work, a new row is rolled back, or the id of another*)
(* row is read: any that the table has, or has not yet.                    *)
SignInAstray(c) ==
    /\ pc[c] = "signIn" /\ ~Registered(c)
    /\ losses < MaxLosses /\ losses' = losses + 1
    /\ users' \in {users, Append(users, c)}
    /\ \E id \in 1 .. Len(users) + 1 :
           /\ given' = [given EXCEPT ![c] = id]
           /\ lost' = lost \cup {<<c, id>>}
    /\ Goto(c, "createJwt")
    /\ UNCHANGED <<synced, faults, tokens, next, waited, refused>>

(* Google, BEGIN, the look-up or add() fails, or CreateJwt when all is     *)
(* written.                                                                *)
SignInFails(c) ==
    /\ pc[c] \in {"signIn", "createJwt"}
    /\ Fails(c, "signIn")
    /\ given' = [given EXCEPT ![c] = 0]
    /\ UNCHANGED <<table, tokens>>

CreateAuthToken(id) == [id |-> id, left |-> AuthLife]
CreateRefreshToken(id) == [id |-> id, left |-> RefreshLife]

CreateJwt(c) ==
    /\ pc[c] = "createJwt"
    /\ auth' = [auth EXCEPT ![c] = CreateAuthToken(given[c])]
    /\ refresh' = [refresh EXCEPT ![c] = CreateRefreshToken(given[c])]
    /\ age' = [age EXCEPT ![c] = 0]
    /\ Answer(c, "use", refused[c])
    /\ given' = [given EXCEPT ![c] = 0]
    /\ UNCHANGED <<table, faults>>

(* RetrieveIdCommand, for the middleware. *)
Verify(c) ==
    /\ pc[c] = "verify"
    /\ IF Verified(auth[c])
       THEN Goto(c, "find") /\ UNCHANGED <<next, refused, waited>>
       ELSE Refuse(c, "refresh")
    /\ UNCHANGED <<table, faults, given, tokens>>

FindUser(c) ==
    /\ pc[c] = "find"
    /\ \/ Found(auth[c].id) /\ Answer(c, "use", 0) /\ UNCHANGED faults
       \/ ~Found(auth[c].id) /\ Refuse(c, "refresh") /\ UNCHANGED faults
       \/ Fails(c, "refresh")
    /\ UNCHANGED <<table, given, tokens>>

(* RefreshJwtCommand: the auth token is given back while it verifies. *)
VerifyAuth(c) ==
    /\ pc[c] = "verifyAuth"
    /\ Goto(c, IF Verified(auth[c]) THEN "keep" ELSE "verifyRefresh")
    /\ UNCHANGED <<table, faults, given, tokens, next, waited, refused>>

KeepTokens(c) ==
    /\ pc[c] = "keep"
    /\ \/ Found(auth[c].id) /\ Answer(c, "use", refused[c]) /\ UNCHANGED faults
       \/ ~Found(auth[c].id) /\ Refuse(c, "signIn") /\ UNCHANGED faults
       \/ Fails(c, "signIn")
    /\ UNCHANGED <<table, given, tokens>>

VerifyRefresh(c) ==
    /\ pc[c] = "verifyRefresh"
    /\ IF Verified(refresh[c])
       THEN Goto(c, "renew") /\ UNCHANGED <<next, refused, waited>>
       ELSE Refuse(c, "signIn")
    /\ UNCHANGED <<table, faults, given, tokens>>

(* A new auth token with the same refresh token; as a defect, the old one. *)
SameToken(c) == auth[c]
Renewed(c) == CreateAuthToken(refresh[c].id)

RenewAuthToken(c) ==
    /\ pc[c] = "renew"
    /\ \/ /\ Found(refresh[c].id)
          /\ auth' = [auth EXCEPT ![c] = Renewed(c)]
          /\ Answer(c, "use", refused[c])
          /\ UNCHANGED faults
       \/ ~Found(refresh[c].id) /\ Refuse(c, "signIn") /\ UNCHANGED <<auth, faults>>
       \/ Fails(c, "signIn") /\ UNCHANGED auth
    /\ UNCHANGED <<table, given, refresh, age>>

-----------------------------------------------------------------------------
(* A request is on its way, or a client has been refused and tries again.  *)
Pressing(c) == pc[c] # "idle" \/ refused[c] > 0

(* An expired token stays expired. *)
Older(token) == [token EXCEPT !.left = IF @ = 0 THEN 0 ELSE @ - 1]

Tick ==
    /\ \A c \in Clients : Pressing(c) => waited[c] < MaxDelay
    /\ auth' = [c \in Clients |-> Older(auth[c])]
    /\ refresh' = [c \in Clients |-> Older(refresh[c])]
    /\ age' = [c \in Clients |-> IF age[c] = AuthLife THEN age[c] ELSE age[c] + 1]
    /\ waited' = [c \in Clients |-> IF Pressing(c) THEN waited[c] + 1 ELSE 0]
    /\ UNCHANGED <<table, faults, given, next, pc, refused>>

(* SQLite writes the log back to the database and syncs both. *)
Checkpoint ==
    /\ synced' = Len(users)
    /\ UNCHANGED <<users, lost, losses, faults, given, tokens, next, pc, waited, refused>>

(* The machine stops and is started again: the end of the log is gone, and *)
(* with it every request that was on its way.                              *)
Surviving == synced .. Len(users)

PowerLoss ==
    /\ losses < MaxLosses
    /\ losses' = losses + 1
    /\ \E n \in Surviving :
           /\ users' = SubSeq(users, 1, n)
           /\ synced' = n
           /\ lost' = lost \cup {<<users[i], i>> : i \in (n + 1) .. Len(users)}
    /\ pc' = [c \in Clients |-> "idle"]
    /\ waited' = [c \in Clients |-> 0]
    /\ given' = [c \in Clients |-> 0]
    /\ UNCHANGED <<faults, tokens, next, refused>>

Serve(c) ==
    \/ SignIn(c) \/ SignInAstray(c) \/ SignInFails(c) \/ CreateJwt(c) \/ Verify(c) \/ FindUser(c)
    \/ VerifyAuth(c) \/ KeepTokens(c) \/ VerifyRefresh(c) \/ RenewAuthToken(c)

Next ==
    \/ \E c \in Clients : Send(c) \/ Serve(c)
    \/ Tick \/ Checkpoint \/ PowerLoss

Spec == Init /\ [][Next]_vars

(* Requests are handled, and a client that was refused tries again. *)
Fairness ==
    \A c \in Clients :
        WF_vars(Serve(c)) /\ WF_vars(refused[c] > 0 /\ Send(c))

FairSpec == Spec /\ Fairness

-----------------------------------------------------------------------------
(* The refresh may give an auth token back that expires on its way, or be  *)
(* refused itself: at most two refusals in a row before a request is       *)
(* served.  A power loss that takes the user away costs two more, and a    *)
(* third if somebody else is given the id in the middle of the refresh,    *)
(* which then keeps an auth token that may expire once more; a sign-in gone*)
(* astray costs the same.  A storage that fails costs its own refusal, and *)
(* those of the detour it sends the client on.  A new token must outlive   *)
(* the way to the client and back.                                         *)
LongLived == AuthLife > 2 * MaxDelay

Several == \E c, d \in Clients : c # d
LossCosts == IF Several THEN 3 ELSE 2
FaultCosts == LossCosts + 1

FewRefusals ==
    LongLived =>
        \A c \in Clients : refused[c] <= 2 + LossCosts * losses + FaultCosts * faults

(* The id in a token is that of its client's user, unless a power loss took*)
(* that very user back or the sign-in itself went astray: nobody else is   *)
(* mixed up with anybody.                                                  *)
Names(c, id) == id \in DOMAIN users /\ users[id] = c

ConfinedDamage ==
    \A c \in Clients : \A token \in {auth[c], refresh[c]} :
        token = NoToken \/ Names(c, token.id) \/ <<c, token.id>> \in lost

(* A client is refused only for a cause: its row was lost, the storage or  *)
(* its sign-in failed just now or, if the signer minds the expiration, it  *)
(* signed in longer ago than an auth token lives.  If the signer does not, *)
(* no session ends by itself.                                              *)
Aged(c) == SignerChecksExpiry /\ age[c] >= AuthLife

RefusedForCause ==
    [][\A c \in Clients :
           refused'[c] > refused[c] =>
               (\E x \in lost : x[1] = c) \/ faults' > faults \/ Aged(c)]_vars

(* A client that was refused and keeps trying is served in the end, also   *)
(* while tokens expire and after its user was lost.                        *)
Recovers == LongLived => \A c \in Clients : refused[c] > 0 ~> refused[c] = 0

=============================================================================
