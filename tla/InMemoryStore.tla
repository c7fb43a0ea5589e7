---------------------------- MODULE InMemoryStore ---------------------------
(***************************************************************************)
(* The command handlers on InMemoryUserStorage and                         *)
(* InMemoryPluginOptionStorage, the storages the handlers were first       *)
(* written for.                                                            *)
(*                                                                         *)
(* Each storage keeps two copies of an object, one for each way to find it,*)
(* and has a shared_mutex that is held for one call: an action is one call *)
(* of a storage, together with the code of the handler up to the next one. *)
(* Units of work are objects of the calling thread that know whether they  *)
(* were committed and nothing else: a rollback takes nothing back.         *)
(***************************************************************************)
EXTENDS SyncData

CONSTANTS
    Threads,      \* the threads that call handlers
    Kinds,        \* the kinds of request that they are given
    UpdateKinds,  \* what a caller of update() changes: "password", "email"
    Passwords,    \* raw passwords
    NoPassword,   \* the password of an account that came from Google
    MaxRequests, MaxFaults  \* bounds on the length of a behaviour

(* The program starts with empty storages. *)
ASSUME InMemoryAssumption ==
    /\ \A e \in Emails : InitialUsers[e] = 0
    /\ Kinds \subseteq AllKinds \cup {"login", "update"}
    /\ UpdateKinds \subseteq {"password", "email"}
    /\ NoPassword \notin Passwords
    /\ MaxRequests \in Nat /\ MaxFaults \in Nat

(* What hash() returns, and the empty vector of an account from Google. *)
Hashed(raw) == [hashOf |-> raw]
NoHash == Hashed(NoPassword)
Hashes == {Hashed(raw) : raw \in Passwords} \cup {NoHash}

(* A default User has neither email nor password. *)
NoEmail == "noEmail"

Users == [id : Ids, email : Emails \cup {NoEmail}, password : Hashes]
NoUser == [id |-> 0]
DefaultUser == [id |-> 0, email |-> NoEmail, password |-> NoHash]

(* A PluginOptions object: nothing ever gives it an id other than 0.  A    *)
(* default one has no name, and is for no user.                            *)
NoPlugin == "noName"
OptionKeys == Ids \X (Plugins \cup {NoPlugin})

Options == [id : {0}, key : OptionKeys, row : Rows]
NoOptions == [id |-> 1]
DefaultOptions == [id |-> 0, key |-> <<0, NoPlugin>>, row |-> EmptyRow]

(* InMemoryUserStorageUoW and InMemoryPluginOptionStorageUoW. *)
Works == [active : BOOLEAN, committed : BOOLEAN]
Finished == [active |-> FALSE, committed |-> FALSE]
BeginWork == [active |-> TRUE, committed |-> FALSE]
CommitOf(work) ==
    IF work.active THEN [active |-> FALSE, committed |-> TRUE] ELSE work
RollbackOf(work) ==
    IF work.active THEN [active |-> FALSE, committed |-> FALSE] ELSE work

InMemoryRequests ==
    Requests \cup [kind : {"login"}, email : Emails]
             \cup [kind : {"update"}, uid : Ids] \cup {NoRequest}

NoLogin == [outcome |-> "none", email |-> "none", password |-> NoPassword, id |-> 0]

VARIABLES
    byId, byEmail, lastId, \* InMemoryUserStorage
    optionsById,           \* InMemoryPluginOptionStorage: _byId[0]
    byUserIdAndName,       \* and its other map
    pc,       \* thread -> the call it is about to make, or "idle"
    req,      \* thread -> the request it serves
    password, \* thread -> the raw password of the request
    user,     \* thread -> its copy of a user
    poKey,    \* thread -> user id and name in its PluginOptions object
    work,     \* thread -> its last unit of work
    status,   \* thread -> the outcome of its last request
    seen,     \* thread -> the row that a GET returned
    login,    \* thread -> its last log-in
    issued,   \* the <<email, id>> that clients hold
    secrets,  \* the <<email, id, password>> that accounts have had
    renamed,  \* the ids whose email was changed
    alive,    \* the process has not died
    faults, requests \* how many so far

userStorage == <<byId, byEmail, lastId>>
optionStorage == <<optionsById, byUserIdAndName>>
local == <<pc, req, password, user, poKey, work, status, seen, login>>
history == <<issued, secrets, renamed>>
counters == <<alive, faults, requests>>
vars == <<userStorage, optionStorage, local, history, counters>>

TypeOK ==
    /\ byId \in [Ids -> Users \cup {NoUser}]
    /\ byEmail \in [Emails -> Users \cup {NoUser}]
    /\ lastId \in 0 .. MaxId
    /\ optionsById \in Options \cup {NoOptions}
    /\ byUserIdAndName \in [OptionKeys -> Options \cup {NoOptions}]
    /\ pc \in [Threads -> {"idle", "handle", "lookup", "hash", "add", "jwt",
                           "auth", "find", "update", "read", "verify", "change"}]
    /\ req \in [Threads -> InMemoryRequests]
    /\ password \in [Threads -> Passwords \cup {NoPassword}]
    /\ user \in [Threads -> Users \cup {NoUser}]
    /\ poKey \in [Threads -> OptionKeys \cup {DefaultOptions.key}]
    /\ work \in [Threads -> Works]
    /\ status \in [Threads -> Outcomes \cup {"none"}]
    /\ seen \in [Threads -> Rows]
    /\ login \in [Threads -> [outcome : {"none", "ok", "invalid"}, email : Emails \cup {"none"},
                             password : Passwords \cup {NoPassword}, id : Ids \cup {0}]]
    /\ issued \in SUBSET (Emails \X Ids)
    /\ secrets \in SUBSET (Emails \X Ids \X Passwords)
    /\ renamed \in SUBSET Ids
    /\ alive \in BOOLEAN
    /\ faults \in 0 .. MaxFaults
    /\ requests \in 0 .. MaxRequests

Init ==
    /\ byId = [i \in Ids |-> NoUser]
    /\ byEmail = [e \in Emails |-> NoUser]
    /\ lastId = 0
    /\ optionsById = NoOptions
    /\ byUserIdAndName = [k \in OptionKeys |-> NoOptions]
    /\ pc = [t \in Threads |-> "idle"]
    /\ req = [t \in Threads |-> NoRequest]
    /\ password = [t \in Threads |-> NoPassword]
    /\ user = [t \in Threads |-> NoUser]
    /\ poKey = [t \in Threads |-> DefaultOptions.key]
    /\ work = [t \in Threads |-> Finished]
    /\ status = [t \in Threads |-> "none"]
    /\ seen = [t \in Threads |-> EmptyRow]
    /\ login = [t \in Threads |-> NoLogin]
    /\ issued = {} /\ secrets = {} /\ renamed = {}
    /\ alive = TRUE
    /\ faults = 0
    /\ requests = 0

-----------------------------------------------------------------------------
Goto(t, step) == pc' = [pc EXCEPT ![t] = step]

Done(t) ==
    /\ Goto(t, "idle")
    /\ req' = [req EXCEPT ![t] = NoRequest]
    /\ password' = [password EXCEPT ![t] = NoPassword]
    /\ user' = [user EXCEPT ![t] = NoUser]
    /\ poKey' = [poKey EXCEPT ![t] = DefaultOptions.key]

(* The handler returns, and the unit of work, if any, is destroyed. *)
Reply(t, outcome, row) ==
    /\ Done(t)
    /\ status' = [status EXCEPT ![t] = outcome]
    /\ seen' = [seen EXCEPT ![t] = row]
    /\ UNCHANGED login

Answer(t, outcome) == Reply(t, outcome, EmptyRow)

Busy(t, step) == alive /\ pc[t] = step

FirstStep(kind) ==
    IF kind = "google" THEN "handle"
    ELSE IF kind = "register" THEN "hash"
    ELSE IF kind = "login" THEN "verify"
    ELSE IF kind = "update" THEN "change" ELSE "auth"

(* Requests for options and calls of update() are for an id that a client  *)
(* holds.                                                                  *)
Receive(t) ==
    /\ alive /\ pc[t] = "idle"
    /\ requests < MaxRequests
    /\ requests' = requests + 1
    /\ \E r \in InMemoryRequests \ {NoRequest} :
           /\ r.kind \in Kinds
           /\ r.kind \in {"post", "get", "update"} => \E x \in issued : x[2] = r.uid
           /\ req' = [req EXCEPT ![t] = r]
           /\ \E raw \in IF r.kind \in {"register", "login", "update"}
                         THEN Passwords ELSE {NoPassword} :
                  password' = [password EXCEPT ![t] = raw]
           /\ Goto(t, FirstStep(r.kind))
    /\ UNCHANGED <<userStorage, optionStorage, user, poKey, work, status, seen, login,
                   history, alive, faults>>

-----------------------------------------------------------------------------
(* AuthUserViaGoogleHandler: the exchange with Google, findByEmail, add.   *)
Handle(t) ==
    /\ Busy(t, "handle")
    /\ \/ /\ Goto(t, "lookup")
          /\ UNCHANGED <<req, password, user, poKey, status, seen, login>>
       \/ Answer(t, "error")
    /\ UNCHANGED <<userStorage, optionStorage, work, history, counters>>

FindByEmail(t) ==
    /\ Busy(t, "lookup")
    /\ LET found == byEmail[req[t].email]
       IN  IF found # NoUser
           THEN /\ user' = [user EXCEPT ![t] = found]
                /\ Goto(t, "jwt")
                /\ UNCHANGED work
           ELSE /\ work' = [work EXCEPT ![t] = BeginWork]
                /\ Goto(t, "add")
                /\ UNCHANGED user
    /\ UNCHANGED <<userStorage, optionStorage, req, password, poKey, status, seen, login,
                   history, counters>>

(* RegisterUserHandler: a password that cannot be hashed ends the request. *)
Hash(t) ==
    /\ Busy(t, "hash")
    /\ \/ /\ Goto(t, "add")
          /\ work' = [work EXCEPT ![t] = BeginWork]
          /\ UNCHANGED <<req, password, user, poKey, status, seen, login>>
       \/ /\ Answer(t, "error")
          /\ work' = [work EXCEPT ![t] = RollbackOf(BeginWork)]
    /\ UNCHANGED <<userStorage, optionStorage, history, counters>>

(* add() looks the email up under the same lock that it inserts under.  As *)
(* a defect it trusts the handler's own look-up.                           *)
TakenIsNotAsked(email) == FALSE
Taken(email) == byEmail[email] # NoUser

GenerateId == lastId + 1

NewUser(t, id) ==
    [id |-> id, email |-> req[t].email,
     password |-> IF req[t].kind = "google" THEN NoHash ELSE Hashed(password[t])]

(* The user as it is stored by email; as a defect, before it has its id.   *)
CopyWithoutId(u) == [u EXCEPT !.id = 0]
CopyForEmail(u) == u

StoreNew(u) ==
    /\ byId' = [byId EXCEPT ![u.id] = u]
    /\ byEmail' = [byEmail EXCEPT ![u.email] = CopyForEmail(u)]

(* What the handler does to its unit of work when add() returns an error;  *)
(* as a defect, what it does after a success.                              *)
CommittedAnyway(w) == CommitOf(w)
AfterError(w) == RollbackOf(w)

AddNew(t) ==
    LET u == NewUser(t, GenerateId)
    IN  /\ u.id \in Ids
        /\ lastId' = GenerateId
        /\ StoreNew(u)
        /\ work' = [work EXCEPT ![t] = CommitOf(@)]
        /\ secrets' = IF u.password = NoHash THEN secrets
                      ELSE secrets \cup {<<u.email, u.id, password[t]>>}
        /\ IF req[t].kind = "google"
           THEN /\ user' = [user EXCEPT ![t] = u]
                /\ Goto(t, "jwt")
                /\ UNCHANGED <<req, password, poKey, status, seen, login, issued>>
           ELSE /\ issued' = issued \cup {<<u.email, u.id>>}
                /\ Answer(t, "created")

AddTaken(t) ==
    /\ work' = [work EXCEPT ![t] = AfterError(@)]
    /\ Answer(t, "error")
    /\ UNCHANGED <<userStorage, issued, secrets>>

Add(t) ==
    /\ Busy(t, "add")
    /\ IF Taken(req[t].email) THEN AddTaken(t) ELSE AddNew(t)
    /\ UNCHANGED <<optionStorage, renamed, counters>>

(* A call throws: an allocation has failed.  The unit of work goes, and   *)
(* only RetrieveId makes an error of the exception.                        *)
Thrown(t) ==
    /\ faults < MaxFaults /\ faults' = faults + 1
    /\ work' = [work EXCEPT ![t].active = FALSE]
    /\ Answer(t, IF pc[t] = "auth" THEN "unauthorized" ELSE "aborted")

(* What an assignment of u to an entry of a map may leave when it throws.  *)
(* operator[] inserts a default User where there is none, if it gets that  *)
(* far; of a User the id is assigned first, the email next and the password*)
(* last.                                                                   *)
HalfStored(entry, u) ==
    LET old == IF entry = NoUser THEN DefaultUser ELSE entry
    IN  {[old EXCEPT !.id = u.id], [u EXCEPT !.password = old.password]}
            \cup (IF entry = NoUser THEN {NoUser} ELSE {})

(* One of the two assignments of add() or update() throws. *)
StoreThrows(u) ==
    \/ /\ \E entry \in HalfStored(byId[u.id], u) : byId' = [byId EXCEPT ![u.id] = entry]
       /\ UNCHANGED byEmail
    \/ /\ byId' = [byId EXCEPT ![u.id] = u]
       /\ \E entry \in HalfStored(byEmail[u.email], u) :
              byEmail' = [byEmail EXCEPT ![u.email] = entry]

(* add() throws after it has used up an id. *)
AddFails(t) ==
    /\ Busy(t, "add") /\ ~Taken(req[t].email)
    /\ LET u == NewUser(t, GenerateId)
       IN  /\ u.id \in Ids
           /\ lastId' = GenerateId
           /\ StoreThrows(u)
    /\ Thrown(t)
    /\ UNCHANGED <<optionStorage, history, alive, requests>>

(* A call throws before it has written anything. *)
CallFails(t) ==
    /\ alive /\ pc[t] # "idle"
    /\ \/ req[t].kind \in AllKinds /\ Thrown(t)
       \/ /\ req[t].kind \notin AllKinds
          /\ faults < MaxFaults /\ faults' = faults + 1
          /\ Done(t)
          /\ UNCHANGED <<work, status, seen, login>>
    /\ UNCHANGED <<userStorage, optionStorage, history, alive, requests>>

(* The token for the account, from the thread's copy of the user. *)
CreateJwt(t) ==
    /\ Busy(t, "jwt")
    /\ issued' = issued \cup {<<req[t].email, user[t].id>>}
    /\ Answer(t, "created")
    /\ UNCHANGED <<userStorage, optionStorage, work, secrets, renamed, counters>>

-----------------------------------------------------------------------------
(* LoginUserHandler: findByEmail and verify, on a copy of the user.  As a  *)
(* defect any password will do.                                            *)
VerifiesAny(raw, hash) == TRUE
Verify(raw, hash) == hash = Hashed(raw)

LoginAs(t, outcome, id) ==
    /\ login' = [login EXCEPT ![t] = [outcome |-> outcome, email |-> req[t].email,
                                      password |-> password[t], id |-> id]]
    /\ Done(t)
    /\ UNCHANGED <<status, seen>>

Login(t) ==
    /\ Busy(t, "verify")
    /\ LET found == byEmail[req[t].email]
       IN  IF found # NoUser /\ Verify(password[t], found.password)
           THEN LoginAs(t, "ok", found.id)
           ELSE LoginAs(t, "invalid", 0)
    /\ UNCHANGED <<userStorage, optionStorage, work, history, counters>>

(* verify() on an empty vector hands libsodium a null pointer: undefined.  *)
(* Either it is taken for a wrong password, as above, or the process dies. *)
LoginDies(t) ==
    /\ Busy(t, "verify")
    /\ byEmail[req[t].email] # NoUser
    /\ byEmail[req[t].email].password = NoHash
    /\ alive' = FALSE
    /\ pc' = [s \in Threads |-> "idle"]
    /\ req' = [s \in Threads |-> NoRequest]
    /\ password' = [s \in Threads |-> NoPassword]
    /\ user' = [s \in Threads |-> NoUser]
    /\ poKey' = [s \in Threads |-> DefaultOptions.key]
    /\ status' = [s \in Threads |-> IF req[s].kind \in AllKinds THEN "aborted" ELSE status[s]]
    /\ seen' = [s \in Threads |-> IF req[s].kind \in AllKinds THEN EmptyRow ELSE seen[s]]
    /\ UNCHANGED <<userStorage, optionStorage, work, login, history, faults, requests>>

(* A caller of findById and update(), which no handler is yet: it changes a*)
(* copy of the user and stores it under both keys.                         *)
ReadUser(t) ==
    /\ Busy(t, "change") /\ user[t] = NoUser
    /\ IF byId[req[t].uid] = NoUser
       THEN Done(t)
       ELSE /\ user' = [user EXCEPT ![t] = byId[req[t].uid]]
            /\ UNCHANGED <<pc, req, password, poKey>>
    /\ UNCHANGED <<userStorage, optionStorage, work, status, seen, login, history, counters>>

Changed(u, raw) ==
    {[u EXCEPT !.password = Hashed(raw)] : k \in UpdateKinds \cap {"password"}}
        \cup {[u EXCEPT !.email = e] : e \in IF "email" \in UpdateKinds THEN Emails ELSE {}}

(* update(), and as a defect one that only stores the user by its email.   *)
StoreByEmailOnly(u) ==
    /\ byEmail' = [byEmail EXCEPT ![u.email] = u]
    /\ UNCHANGED byId

Store(u) ==
    /\ byId' = [byId EXCEPT ![u.id] = u]
    /\ byEmail' = [byEmail EXCEPT ![u.email] = u]

(* What the user stored by its id adds to the history of its account. *)
Recorded(t, u) ==
    /\ secrets' = secrets \cup
           IF byId'[u.id] = u
           THEN {<<u.email, u.id, raw>> : raw \in {r \in Passwords : u.password = Hashed(r)}}
           ELSE {}
    /\ renamed' = IF byId'[u.id].email = user[t].email THEN renamed ELSE renamed \cup {u.id}

UpdateUser(t) ==
    /\ Busy(t, "change") /\ user[t] # NoUser
    /\ \E u \in Changed(user[t], password[t]) : Store(u) /\ Recorded(t, u)
    /\ Done(t)
    /\ UNCHANGED <<lastId, optionStorage, work, status, seen, login, issued, counters>>

UpdateUserFails(t) ==
    /\ Busy(t, "change") /\ user[t] # NoUser
    /\ faults < MaxFaults /\ faults' = faults + 1
    /\ \E u \in Changed(user[t], password[t]) : StoreThrows(u) /\ Recorded(t, u)
    /\ Done(t)
    /\ UNCHANGED <<lastId, optionStorage, work, status, seen, login, issued, alive, requests>>

-----------------------------------------------------------------------------
(* RetrieveIdCommand: findById. *)
Authenticate(t) ==
    /\ Busy(t, "auth")
    /\ IF byId[req[t].uid] # NoUser
       THEN /\ Goto(t, IF req[t].kind = "post" THEN "find" ELSE "read")
            /\ UNCHANGED <<req, password, user, poKey, status, seen, login>>
       ELSE Answer(t, "unauthorized")
    /\ UNCHANGED <<userStorage, optionStorage, work, history, counters>>

(* The key of the second map: the user id and the name.  As a defect, the  *)
(* name alone.                                                             *)
KeyOfName(uid, name) == <<1, name>>
MakeUserNameKey(uid, name) == <<uid, name>>

KeyOf(t) == MakeUserNameKey(req[t].uid, req[t].plugin)

GetOptions(t) ==
    /\ Busy(t, "read")
    /\ LET found == byUserIdAndName[KeyOf(t)]
       IN  IF found = NoOptions THEN Answer(t, "notFound") ELSE Reply(t, "ok", found.row)
    /\ UNCHANGED <<userStorage, optionStorage, work, history, counters>>

(* PostPluginOptionsHandler changes a copy of what there is, or else a new *)
(* object: from the row that it finds it keeps the id, the user and the    *)
(* name.                                                                   *)
FindOptions(t) ==
    /\ Busy(t, "find")
    /\ work' = [work EXCEPT ![t] = BeginWork]
    /\ LET found == byUserIdAndName[KeyOf(t)]
       IN  poKey' = [poKey EXCEPT ![t] =
                        IF found = NoOptions THEN <<req[t].uid, req[t].plugin>> ELSE found.key]
    /\ Goto(t, "update")
    /\ UNCHANGED <<userStorage, optionStorage, req, password, user, status, seen, login,
                   history, counters>>

(* setFields replaces the fields; as a defect, it adds to those there were.*)
MergedRow(t, payload) ==
    IF byUserIdAndName[KeyOf(t)] = NoOptions THEN RowOf(payload)
    ELSE [flags |-> payload,
          fields |-> [k \in FieldKeys |->
                         IF k \in FieldsOf[payload] THEN payload
                         ELSE byUserIdAndName[KeyOf(t)].row.fields[k]]]
NewRow(t, payload) == RowOf(payload)

NewOptions(t) == [id |-> 0, key |-> poKey[t], row |-> NewRow(t, req[t].payload)]

(* update() files an object under the user and the name in it.             *)
KeyIn(po) == MakeUserNameKey(po.key[1], po.key[2])

(* All rows share the id 0: the last one written is found under it.        *)
UpdateOptions(t) ==
    /\ Busy(t, "update")
    /\ LET po == NewOptions(t)
       IN  /\ optionsById' = po
           /\ byUserIdAndName' = [byUserIdAndName EXCEPT ![KeyIn(po)] = po]
    /\ work' = [work EXCEPT ![t] = CommitOf(@)]
    /\ Answer(t, "ok")
    /\ UNCHANGED <<userStorage, history, counters>>

(* What an assignment of po to an entry may leave when it throws: of a     *)
(* PluginOptions the ids come first, then the name, the flags and the      *)
(* fields, which are the old ones or none.                                 *)
HalfUpdated(entry, po) ==
    LET old == IF entry = NoOptions THEN DefaultOptions ELSE entry
    IN  {[old EXCEPT !.key = <<po.key[1], old.key[2]>>]}
            \cup {[po EXCEPT !.row.fields = fields] : fields \in {old.row.fields, EmptyRow.fields}}
            \cup (IF entry = NoOptions THEN {NoOptions} ELSE {})

UpdateOptionsFails(t) ==
    /\ Busy(t, "update")
    /\ LET po == NewOptions(t)
       IN  \/ /\ optionsById' \in HalfUpdated(optionsById, po)
              /\ UNCHANGED byUserIdAndName
           \/ /\ optionsById' = po
              /\ \E entry \in HalfUpdated(byUserIdAndName[KeyIn(po)], po) :
                     byUserIdAndName' = [byUserIdAndName EXCEPT ![KeyIn(po)] = entry]
    /\ Thrown(t)
    /\ UNCHANGED <<userStorage, history, alive, requests>>

(* Nothing is left to do: where a bounded behaviour may stop. *)
Quiescent ==
    /\ ~alive \/ requests = MaxRequests
    /\ \A t \in Threads : pc[t] = "idle"
    /\ UNCHANGED vars

SignUpStep(t) == Handle(t) \/ FindByEmail(t) \/ Hash(t) \/ Add(t) \/ CreateJwt(t)

PluginStep(t) == Authenticate(t) \/ GetOptions(t) \/ FindOptions(t) \/ UpdateOptions(t)

UserStep(t) == Login(t) \/ LoginDies(t) \/ ReadUser(t) \/ UpdateUser(t)

Next ==
    \/ \E t \in Threads :
           \/ Receive(t) \/ SignUpStep(t) \/ PluginStep(t) \/ UserStep(t)
           \/ CallFails(t) \/ AddFails(t) \/ UpdateUserFails(t) \/ UpdateOptionsFails(t)
    \/ Quiescent

Spec == Init /\ [][Next]_vars

-----------------------------------------------------------------------------
(* The tables of AtomicStore are what the handlers can find by email and by*)
(* user and name.  A log-in or a call of update() is none of its requests. *)
Atomic == INSTANCE AtomicStore WITH
    users   <- [e \in Emails |-> byEmail[e].id],
    options <- [k \in Keys |-> IF byUserIdAndName[k] = NoOptions THEN EmptyRow
                               ELSE byUserIdAndName[k].row],
    pending <- [t \in Threads |-> IF req[t].kind \in AllKinds THEN req[t] ELSE NoRequest],
    answer  <- [t \in Threads |->
                   IF req[t].kind \in AllKinds
                   THEN [outcome |-> "pending", row |-> EmptyRow]
                   ELSE [outcome |-> status[t], row |-> seen[t]]]

(* Nothing has thrown, and no email was changed.                           *)
Undisturbed == faults = 0 /\ renamed = {}

(* Although a unit of work of the in-memory storages locks nothing and     *)
(* takes nothing back, the handlers keep on them the promise they keep on  *)
(* SQLite: every request takes effect at once or not at all.  A write that *)
(* throws half-way leaves half of it behind, and a user who takes another  *)
(* email is none of AtomicStore's.                                         *)
ImplementsAtomicStore ==
    Atomic!Init /\ [][Undisturbed' => [Atomic!Next]_(Atomic!vars)]_vars

(* The two copies of a user agree, and every user is found both ways, as   *)
(* long as nothing throws between the two assignments, and no email        *)
(* changes.                                                                *)
SameCopies ==
    /\ \A i \in Ids : byId[i] # NoUser =>
           byId[i].id = i /\ byEmail[byId[i].email] = byId[i]
    /\ \A e \in Emails : byEmail[e] # NoUser =>
           byEmail[e].email = e /\ byId[byEmail[e].id] = byEmail[e]

CopiesAgree == Undisturbed => SameCopies

(* Wherever add() or update() throws: an account that add() has stored only*)
(* by its id is found by nobody, and one whose entry by email was left half*)
(* assigned is whole under its id.  So a sign-in that takes over such an   *)
(* entry gets a token for an account that findById knows, and the ids that *)
(* clients hold are found both ways, as long as no email changes.          *)
FoundBothWays(email, id) ==
    byEmail[email].id = id /\ byId[id].id = id /\ byId[id].email = email

IssuedIdsFoundBothWays ==
    renamed = {} => \A x \in issued : FoundBothWays(x[1], x[2])

(* update() with another email leaves the entry of the old one behind, and *)
(* may take over the entry of somebody else: until something throws, only  *)
(* users that were renamed have entries that differ from what findById     *)
(* returns.                                                                *)
StaleOnlyAfterRename ==
    faults = 0 =>
        \A e \in Emails : byEmail[e] # NoUser =>
            byId[byEmail[e].id] = byEmail[e] \/ byEmail[e].id \in renamed

(* A log-in that succeeds returns the id of an account that has had that   *)
(* email and that very password.  Only an update() that changes an email   *)
(* and throws may leave the password of one account under the id of        *)
(* another.                                                                *)
Clean == faults = 0 \/ renamed = {}

LoginsProven ==
    Clean => \A t \in Threads : login[t].outcome = "ok" =>
                 <<login[t].email, login[t].id, login[t].password>> \in secrets

(* A handler commits its unit of work exactly when the request succeeds:   *)
(* the rollback of these storages would take nothing back.                 *)
CommittedExactlyOnSuccess ==
    [][\A t \in Threads :
           work[t].active /\ ~work'[t].active =>
               (work'[t].committed <=> pc'[t] = "jwt" \/ status'[t] \in Successes)]_vars

(* The options found for a user and a name are that user's.  Only an       *)
(* update() that throws leaves them without their name, and then they are  *)
(* empty: what a POST makes of such an entry is filed elsewhere.           *)
OptionsOfTheirUser ==
    \A k \in Keys :
        LET found == byUserIdAndName[MakeUserNameKey(k[1], k[2])]
        IN  found # NoOptions =>
                /\ found.key[1] = k[1]
                /\ found.key[2] = k[2] \/ (faults > 0 /\ found.row = EmptyRow)

=============================================================================
