------------------------- MODULE InMemoryStoreProofs ------------------------
(***************************************************************************)
(* Proofs about InMemoryStore, for any threads, requests and faults.       *)
(*                                                                         *)
(* The two maps of the user storage are only written together, but a caller*)
(* of update() writes a copy that it has read before, and any assignment   *)
(* may throw.  Held says what is still true of such a copy, and Filed what *)
(* an entry has even if it was left half assigned: whoever is found by     *)
(* email is whole under its id.  With them, and with ids that are used     *)
(* once, the agreement of the maps is inductive.                           *)
(***************************************************************************)
EXTENDS InMemoryStore, TLAPS

Steps == {"idle", "handle", "lookup", "hash", "add", "jwt",
          "auth", "find", "update", "read", "verify", "change"}

Logins == [outcome : {"none", "ok", "invalid"}, email : Emails \cup {"none"},
           password : Passwords \cup {NoPassword}, id : Ids \cup {0}]

UserTyped ==
    /\ byId \in [Ids -> Users \cup {NoUser}]
    /\ byEmail \in [Emails -> Users \cup {NoUser}]
    /\ lastId \in 0 .. MaxId

LocalTyped ==
    /\ pc \in [Threads -> Steps]
    /\ req \in [Threads -> InMemoryRequests]
    /\ password \in [Threads -> Passwords \cup {NoPassword}]
    /\ user \in [Threads -> Users \cup {NoUser}]
    /\ poKey \in [Threads -> OptionKeys \cup {DefaultOptions.key}]
    /\ status \in [Threads -> Outcomes \cup {"none"}]
    /\ seen \in [Threads -> Rows]

LoginTyped == login \in [Threads -> Logins]

WorkTyped == work \in [Threads -> Works]

OptionsTyped ==
    /\ optionsById \in Options \cup {NoOptions}
    /\ byUserIdAndName \in [OptionKeys -> Options \cup {NoOptions}]

HistoryTyped ==
    /\ issued \in SUBSET (Emails \X Ids)
    /\ secrets \in SUBSET (Emails \X Ids \X Passwords)
    /\ renamed \in SUBSET Ids

CountersTyped ==
    /\ alive \in BOOLEAN
    /\ faults \in 0 .. MaxFaults
    /\ requests \in 0 .. MaxRequests

Typed ==
    /\ UserTyped /\ LocalTyped /\ LoginTyped /\ WorkTyped
    /\ OptionsTyped /\ HistoryTyped /\ CountersTyped

(* What a thread needs for its next call. *)
Placed(t) ==
    /\ pc[t] = "idle" => user[t] = NoUser
    /\ pc[t] \in {"handle", "lookup", "hash", "add", "jwt", "verify"} =>
           req[t].email \in Emails
    /\ pc[t] \in {"auth", "find", "update", "read"} => req[t].uid \in Ids /\ KeyOf(t) \in Keys
    /\ pc[t] \in {"find", "update"} => req[t].payload \in Payloads
    /\ pc[t] = "auth" /\ req[t].kind = "post" => req[t].payload \in Payloads
    /\ pc[t] = "change" => req[t].uid \in Ids
    /\ pc[t] = "verify" => password[t] \in Passwords
    /\ pc[t] = "jwt" => user[t] \in Users
    /\ pc[t] = "update" => poKey[t] \in OptionKeys

(* An account that was at least given its email under its id. *)
Complete(id) == byId[id] # NoUser /\ byId[id].email \in Emails

(* The copy that a caller of update() works on: its user is one that a     *)
(* client knows, is still there and, unless it was renamed, has the same   *)
(* email.                                                                  *)
Held(t) ==
    pc[t] = "change" =>
        /\ \E x \in issued : x[2] = req[t].uid
        /\ user[t] # NoUser =>
               /\ user[t].id = req[t].uid
               /\ user[t].email \in Emails
               /\ Complete(user[t].id)
               /\ user[t].id \notin renamed => byId[user[t].id].email = user[t].email

(* The user a token is about to be made for is the one of the email. *)
Named(t) ==
    pc[t] = "jwt" =>
        /\ Complete(user[t].id)
        /\ renamed = {} => FoundBothWays(req[t].email, user[t].id)

Proven(t) ==
    Clean /\ login[t].outcome = "ok" =>
        <<login[t].email, login[t].id, login[t].password>> \in secrets

Pending(t) == work[t].active => ~work[t].committed

(* Users are filed under their own id, and ids are used once.  Who is found*)
(* by email has that email under its id until it is renamed, and in the    *)
(* entry itself until something throws.                                    *)
Filed ==
    /\ \A i \in Ids : byId[i] # NoUser =>
           byId[i].id = i /\ i <= lastId /\ (faults = 0 => byId[i].email \in Emails)
    /\ \A e \in Emails : byEmail[e] # NoUser =>
           /\ Complete(byEmail[e].id)
           /\ renamed = {} => byId[byEmail[e].id].email = e
           /\ faults = 0 => byEmail[e].email = e

SecretsKept ==
    Clean => \A e \in Emails : \A raw \in Passwords :
        byEmail[e] # NoUser /\ byEmail[e].password = Hashed(raw) =>
            <<e, byEmail[e].id, raw>> \in secrets

IssuedFound == IssuedIdsFoundBothWays /\ \A x \in issued : Complete(x[2])

(* The steps add to what clients hold, and no fault is forgotten. *)
Onward ==
    issued \subseteq issued' /\ renamed \subseteq renamed' /\ (faults' = 0 => faults = 0)

Threaded == \A t \in Threads :
    Placed(t) /\ Held(t) /\ Named(t) /\ Proven(t) /\ Pending(t)

Invariant ==
    /\ Typed
    /\ Threaded
    /\ Filed
    /\ SecretsKept
    /\ StaleOnlyAfterRename
    /\ IssuedFound
    /\ CopiesAgree

-----------------------------------------------------------------------------
LEMMA UsersAreThere == \A u \in Users : u # NoUser /\ u.id \in Ids
BY DEF Users, NoUser, Ids

LEMMA CleanBefore ==
    ASSUME Onward, Clean'
    PROVE  Clean
BY DEF Onward, Clean

LEMMA HashesTyped ==
    /\ \A raw \in Passwords \cup {NoPassword} : Hashed(raw) \in Hashes
    /\ \A raw \in Passwords : Hashed(raw) # NoHash
    /\ \A r1, r2 : Hashed(r1) = Hashed(r2) => r1 = r2
BY InMemoryAssumption DEF Hashes, NoHash, Hashed

LEMMA RowsTyped == EmptyRow \in Rows /\ \A p \in Payloads : RowOf(p) \in Rows
BY DataAssumption DEF EmptyRow, Rows, RowOf, Values

LEMMA InitInvariant == Init => Invariant
<1> SUFFICES ASSUME Init PROVE Invariant
    OBVIOUS
<1>1. Typed
    <2>1. NoLogin \in Logins
        BY DEF NoLogin, Logins
    <2>2. Finished \in Works
        BY DEF Finished, Works
    <2>3. NoRequest \in InMemoryRequests
        BY DEF InMemoryRequests
    <2>4. UserTyped
        BY DataAssumption DEF Init, UserTyped
    <2>5. LocalTyped
        BY <2>3, RowsTyped DEF Init, LocalTyped, Steps
    <2>6. LoginTyped /\ WorkTyped
        BY <2>1, <2>2 DEF Init, LoginTyped, WorkTyped
    <2>7. OptionsTyped /\ HistoryTyped
        BY DEF Init, OptionsTyped, HistoryTyped
    <2>8. CountersTyped
        BY InMemoryAssumption DEF Init, CountersTyped
    <2> QED BY <2>4, <2>5, <2>6, <2>7, <2>8 DEF Typed
<1>2. Threaded
    <2> SUFFICES ASSUME NEW t \in Threads
                 PROVE  Placed(t) /\ Held(t) /\ Named(t) /\ Proven(t) /\ Pending(t)
        BY DEF Threaded
    <2>1. pc[t] = "idle" /\ user[t] = NoUser /\ login[t] = NoLogin /\ work[t] = Finished
        BY DEF Init
    <2> QED BY <2>1 DEF Placed, Held, Named, Proven, Pending, NoLogin, Finished
<1>3. /\ \A i \in Ids : byId[i] = NoUser
      /\ \A e \in Emails : byEmail[e] = NoUser
    BY DEF Init
<1>4. Filed /\ SecretsKept /\ StaleOnlyAfterRename /\ CopiesAgree
    BY <1>3 DEF Filed, SecretsKept, StaleOnlyAfterRename, CopiesAgree, SameCopies
<1>5. IssuedFound
    BY DEF Init, IssuedFound, IssuedIdsFoundBothWays
<1> QED BY <1>1, <1>2, <1>4, <1>5 DEF Invariant

-----------------------------------------------------------------------------
(* Steps that leave the users alone. *)

Alone(t) ==
    \A s \in Threads \ {t} :
        /\ pc'[s] = pc[s] /\ req'[s] = req[s] /\ password'[s] = password[s]
        /\ user'[s] = user[s] /\ poKey'[s] = poKey[s]
        /\ login'[s] = login[s] /\ work'[s] = work[s]

LEMMA OthersPlaced ==
    ASSUME NEW t \in Threads, Alone(t), NEW s \in Threads \ {t}, Placed(s)
    PROVE  Placed(s)'
BY DEF Alone, Placed, KeyOf, MakeUserNameKey

LEMMA QuietStep ==
    ASSUME Invariant, NEW t \in Threads, UNCHANGED <<userStorage, secrets, renamed>>,
           Onward, Alone(t), Typed', Placed(t)', Held(t)', Named(t)', Proven(t)',
           Pending(t)', IssuedFound'
    PROVE  Invariant'
<1>1. /\ byId' = byId /\ byEmail' = byEmail /\ lastId' = lastId
      /\ secrets' = secrets /\ renamed' = renamed
    BY DEF userStorage
<1>2. ASSUME NEW s \in Threads
      PROVE  (Placed(s) /\ Held(s) /\ Named(s) /\ Proven(s) /\ Pending(s))'
    <2>1. CASE s = t
        BY <2>1
    <2>2. CASE s # t
        <3>1. Placed(s)'
            BY <2>2, OthersPlaced DEF Invariant, Threaded
        <3>2. Held(s)'
            BY <1>1, <2>2 DEF Onward, Alone, Invariant, Threaded, Held, Complete
        <3>4. Named(s)'
            BY <1>1, <2>2 DEF Alone, Invariant, Threaded, Named, FoundBothWays, Complete
        <3>3. Proven(s)' /\ Pending(s)'
            BY <1>1, <2>2, CleanBefore DEF Alone, Invariant, Threaded, Proven, Pending
        <3> QED BY <3>1, <3>2, <3>3, <3>4
    <2> QED BY <2>1, <2>2
<1>3. Threaded'
    BY <1>2 DEF Threaded
<1>4. Filed' /\ SecretsKept'
    BY <1>1, CleanBefore DEF Onward, Invariant, Filed, Complete, SecretsKept
<1>5. StaleOnlyAfterRename'
    BY <1>1 DEF Onward, Invariant, StaleOnlyAfterRename
<1>6. CopiesAgree'
    BY <1>1 DEF Onward, Invariant, CopiesAgree, SameCopies, Undisturbed
<1> QED BY <1>3, <1>4, <1>5, <1>6 DEF Invariant

(* A thread that has finished needs nothing any more. *)
LEMMA Idle ==
    ASSUME NEW t \in Threads, pc'[t] = "idle", user'[t] = NoUser
    PROVE  Placed(t)' /\ Held(t)' /\ Named(t)'
BY DEF Placed, Held, Named

LEMMA DoneTyped ==
    ASSUME LocalTyped, NEW t \in Threads, Done(t)
    PROVE  /\ pc' \in [Threads -> Steps]
           /\ req' \in [Threads -> InMemoryRequests]
           /\ password' \in [Threads -> Passwords \cup {NoPassword}]
           /\ user' \in [Threads -> Users \cup {NoUser}]
           /\ poKey' \in [Threads -> OptionKeys \cup {DefaultOptions.key}]
           /\ pc'[t] = "idle" /\ user'[t] = NoUser
           /\ \A s \in Threads \ {t} :
                  /\ pc'[s] = pc[s] /\ req'[s] = req[s] /\ password'[s] = password[s]
                  /\ user'[s] = user[s] /\ poKey'[s] = poKey[s]
<1>1. NoRequest \in InMemoryRequests /\ "idle" \in Steps
    BY DEF InMemoryRequests, Steps
<1> QED BY <1>1 DEF LocalTyped, Done, Goto

LEMMA ReplyTyped ==
    ASSUME LocalTyped, NEW t \in Threads, NEW outcome \in Outcomes, NEW row \in Rows,
           Reply(t, outcome, row)
    PROVE  /\ LocalTyped' /\ login' = login
           /\ pc'[t] = "idle" /\ user'[t] = NoUser /\ status'[t] = outcome
           /\ \A s \in Threads \ {t} :
                  /\ pc'[s] = pc[s] /\ req'[s] = req[s] /\ password'[s] = password[s]
                  /\ user'[s] = user[s] /\ poKey'[s] = poKey[s]
<1>1. Done(t)
    BY DEF Reply
<1>2. /\ status' \in [Threads -> Outcomes \cup {"none"}]
      /\ seen' \in [Threads -> Rows] /\ login' = login /\ status'[t] = outcome
    BY DEF LocalTyped, Reply
<1> QED BY <1>1, <1>2, DoneTyped DEF LocalTyped

(* The end of a request that leaves the users alone. *)
LEMMA ReplyStep ==
    ASSUME Invariant, NEW t \in Threads, NEW outcome \in Outcomes, NEW row \in Rows,
           Reply(t, outcome, row), UNCHANGED <<userStorage, secrets, renamed>>, Onward,
           \A s \in Threads \ {t} : work'[s] = work[s], Pending(t)',
           WorkTyped', OptionsTyped', HistoryTyped', CountersTyped',
           IssuedFound'
    PROVE  Invariant'
<1>1. /\ LocalTyped' /\ login' = login /\ Placed(t)' /\ Held(t)' /\ Named(t)'
      /\ Alone(t)
    BY ReplyTyped, Idle DEF Invariant, Typed, Alone
<1>2. UserTyped' /\ LoginTyped'
    BY <1>1 DEF Invariant, Typed, UserTyped, LoginTyped, userStorage
<1>3. Proven(t)'
    BY <1>1, CleanBefore DEF Invariant, Threaded, Proven
<1> QED BY <1>1, <1>2, <1>3, QuietStep DEF Typed

(* A step to the next call that leaves the users alone. *)
LEMMA MoveStep ==
    ASSUME Invariant, NEW t \in Threads, NEW next \in Steps \ {"idle"}, Goto(t, next),
           UNCHANGED <<userStorage, req, password, status, seen, login, history, faults>>,
           user' \in [Threads -> Users \cup {NoUser}],
           poKey' \in [Threads -> OptionKeys \cup {DefaultOptions.key}],
           \A s \in Threads \ {t} :
               user'[s] = user[s] /\ poKey'[s] = poKey[s] /\ work'[s] = work[s],
           Placed(t)', Held(t)', Named(t)', Pending(t)',
           WorkTyped', OptionsTyped', CountersTyped'
    PROVE  Invariant'
<1>1. /\ pc' \in [Threads -> Steps] /\ \A s \in Threads \ {t} : pc'[s] = pc[s]
    BY DEF Invariant, Typed, LocalTyped, Goto
<1>2. LocalTyped' /\ UserTyped' /\ LoginTyped' /\ HistoryTyped'
    BY <1>1 DEF Invariant, Typed, LocalTyped, UserTyped, LoginTyped, HistoryTyped,
                userStorage, history
<1>3. Alone(t)
    BY <1>1 DEF Alone
<1>4. Proven(t)'
    BY DEF Invariant, Threaded, Proven, Clean, history
<1>5. IssuedFound' /\ Onward
    BY DEF Invariant, IssuedFound, IssuedIdsFoundBothWays,
                FoundBothWays, Complete, Onward, userStorage, history
<1> QED BY <1>2, <1>3, <1>4, <1>5, QuietStep DEF Typed, history

(* A step that leaves a copy for update() alone, where the thread has none.*)
LEMMA NoCopy ==
    ASSUME NEW t \in Threads, pc'[t] \notin {"change", "jwt"}
    PROVE  Held(t)' /\ Named(t)'
BY DEF Held, Named

-----------------------------------------------------------------------------
(* What a request carries, by its kind. *)
LEMMA RequestsTyped ==
    ASSUME NEW r \in InMemoryRequests, r # NoRequest
    PROVE  /\ r.kind \in {"google", "register", "login"} => r.email \in Emails
           /\ r.kind = "update" => r.uid \in Ids
           /\ r.kind \in {"post", "get"} => r.plugin \in Plugins
           /\ r.kind = "post" => r.payload \in Payloads
           /\ r.kind \in {"google", "register", "login", "update", "post", "get"}
<1>1. CASE r \in SignUps
    BY <1>1 DEF SignUps
<1>2. CASE r \in Writes
    BY <1>2 DEF Writes
<1>3. CASE r \in Reads
    BY <1>3 DEF Reads
<1>4. CASE r \in [kind : {"login"}, email : Emails]
    BY <1>4
<1>5. CASE r \in [kind : {"update"}, uid : Ids]
    BY <1>5
<1> QED BY <1>1, <1>2, <1>3, <1>4, <1>5 DEF InMemoryRequests, Requests

LEMMA ReceiveStep ==
    ASSUME Invariant, NEW t \in Threads, Receive(t)
    PROVE  Invariant'
<1>1. PICK r \in InMemoryRequests \ {NoRequest} :
          /\ r.kind \in {"post", "get", "update"} => \E x \in issued : x[2] = r.uid
          /\ req' = [req EXCEPT ![t] = r]
          /\ \E raw \in IF r.kind \in {"register", "login", "update"}
                        THEN Passwords ELSE {NoPassword} :
                 password' = [password EXCEPT ![t] = raw]
          /\ Goto(t, FirstStep(r.kind))
    BY DEF Receive
<1>2. /\ pc[t] = "idle" /\ requests < MaxRequests /\ requests' = requests + 1
      /\ UNCHANGED <<userStorage, optionStorage, user, poKey, work, status, seen, login,
                     history, alive, faults>>
    BY DEF Receive
<1>3. PICK raw \in Passwords \cup {NoPassword} :
          /\ password' = [password EXCEPT ![t] = raw]
          /\ r.kind = "login" => raw \in Passwords
    BY <1>1
<1>4. FirstStep(r.kind) \in Steps \ {"idle"}
    BY DEF FirstStep, Steps
<1>5. /\ pc'[t] = FirstStep(r.kind) /\ req'[t] = r /\ password'[t] = raw
      /\ user'[t] = NoUser
    BY <1>1, <1>2, <1>3 DEF Invariant, Typed, LocalTyped, Threaded, Placed, Goto
<1>6. LocalTyped'
    BY <1>1, <1>2, <1>3, <1>4 DEF Invariant, Typed, LocalTyped, Goto
<1>7. CountersTyped'
    BY <1>2, InMemoryAssumption DEF Invariant, Typed, CountersTyped
<1>8. Typed'
    BY <1>2, <1>6, <1>7
    DEF Invariant, Typed, UserTyped, LoginTyped, WorkTyped, OptionsTyped, HistoryTyped,
        userStorage, optionStorage, history
<1>9. Placed(t)'
    <2>1. r.kind \in {"post", "get"} => r.uid \in Ids
        BY <1>1 DEF Invariant, Typed, HistoryTyped
    <2>2. r.kind \in {"post", "get"} => <<r.uid, r.plugin>> \in Keys
        BY <2>1, RequestsTyped DEF Keys
    <2>3. KeyOf(t)' = <<r.uid, r.plugin>>
        BY <1>5 DEF KeyOf, MakeUserNameKey
    <2> QED BY <1>3, <1>5, <2>1, <2>2, <2>3, RequestsTyped DEF Placed, FirstStep
<1>10. Held(t)' /\ Named(t)' /\ Onward
    BY <1>1, <1>2, <1>5, RequestsTyped DEF Held, Named, FirstStep, Onward, history
<1>11. Alone(t)
    BY <1>1, <1>2, <1>3 DEF Alone, Invariant, Typed, LocalTyped, Goto
<1>12. Proven(t)' /\ Pending(t)'
    BY <1>2 DEF Invariant, Threaded, Proven, Pending, Clean, history
<1>13. IssuedFound'
    BY <1>2 DEF Invariant, IssuedFound, IssuedIdsFoundBothWays,
                FoundBothWays, Complete, userStorage, history
<1> QED BY <1>2, <1>8, <1>9, <1>10, <1>11, <1>12, <1>13, QuietStep DEF history

LEMMA HandleStep ==
    ASSUME Invariant, NEW t \in Threads, Handle(t)
    PROVE  Invariant'
<1>1. /\ pc[t] = "handle"
      /\ UNCHANGED <<userStorage, optionStorage, work, history, counters>>
    BY DEF Handle, Busy
<1>2. WorkTyped' /\ OptionsTyped' /\ HistoryTyped' /\ CountersTyped' /\ Pending(t)'
    BY <1>1 DEF Invariant, Typed, Threaded, WorkTyped, OptionsTyped, HistoryTyped,
                CountersTyped, Pending, optionStorage, history, counters
<1>3. IssuedFound' /\ Onward
    BY <1>1 DEF Invariant, IssuedFound, IssuedIdsFoundBothWays,
                FoundBothWays, Complete, Onward,
                userStorage, history, counters
<1>4. CASE Answer(t, "error")
    BY <1>1, <1>2, <1>3, <1>4, RowsTyped, ReplyStep
    DEF Answer, Outcomes, Failures, history
<1>5. CASE Goto(t, "lookup") /\ UNCHANGED <<req, password, user, poKey, status, seen, login>>
    <2>1. pc'[t] = "lookup"
        BY <1>5 DEF Invariant, Typed, LocalTyped, Goto
    <2>2. Placed(t)'
        BY <1>1, <1>5, <2>1 DEF Invariant, Threaded, Placed
    <2>3. /\ user' \in [Threads -> Users \cup {NoUser}]
          /\ poKey' \in [Threads -> OptionKeys \cup {DefaultOptions.key}]
        BY <1>5 DEF Invariant, Typed, LocalTyped
    <2> QED BY <1>1, <1>2, <1>5, <2>1, <2>2, <2>3, NoCopy, MoveStep DEF Steps, counters
<1> QED BY <1>4, <1>5 DEF Handle

(* BeginWork, and the two ends of a unit of work, in their types. *)
LEMMA WorksTyped ==
    /\ BeginWork \in Works /\ ~BeginWork.committed
    /\ \A w \in Works :
           /\ CommitOf(w) \in Works /\ ~CommitOf(w).active
           /\ RollbackOf(w) \in Works /\ ~RollbackOf(w).active
           /\ [w EXCEPT !.active = FALSE] \in Works
           /\ ~[w EXCEPT !.active = FALSE].active
BY DEF BeginWork, Works, CommitOf, RollbackOf

LEMMA FindByEmailStep ==
    ASSUME Invariant, NEW t \in Threads, FindByEmail(t)
    PROVE  Invariant'
<1> DEFINE found == byEmail[req[t].email]
<1>1. /\ pc[t] = "lookup"
      /\ UNCHANGED <<userStorage, optionStorage, req, password, poKey, status, seen, login,
                     history, counters>>
    BY DEF FindByEmail, Busy
<1>6. req[t].email \in Emails
    BY <1>1 DEF Invariant, Threaded, Placed
<1>2. OptionsTyped' /\ CountersTyped'
    BY <1>1 DEF Invariant, Typed, OptionsTyped, CountersTyped, optionStorage, counters
<1>3. found \in Users \cup {NoUser}
    BY <1>6 DEF Invariant, Typed, UserTyped
<1>4. CASE found # NoUser
    <2>1. user' = [user EXCEPT ![t] = found] /\ Goto(t, "jwt") /\ work' = work
        BY <1>4 DEF FindByEmail
    <2>2. pc'[t] = "jwt" /\ user'[t] = found
        BY <2>1 DEF Invariant, Typed, LocalTyped, Goto
    <2>3. /\ user' \in [Threads -> Users \cup {NoUser}]
          /\ poKey' \in [Threads -> OptionKeys \cup {DefaultOptions.key}]
        BY <1>1, <1>3, <2>1 DEF Invariant, Typed, LocalTyped
    <2>4. Placed(t)' /\ Held(t)'
        BY <1>1, <1>3, <1>4, <1>6, <2>2 DEF Placed, Held
    <2>5. Named(t)'
        <3>1. found.id \in Ids
            BY <1>3, <1>4, UsersAreThere
        <3>2. /\ Complete(found.id)
              /\ renamed = {} => byId[found.id].email = req[t].email
            BY <1>4, <1>6 DEF Invariant, Filed
        <3>3. byId[found.id].id = found.id
            BY <3>1, <3>2 DEF Invariant, Filed, Complete
        <3>4. byId' = byId /\ byEmail' = byEmail /\ req' = req /\ renamed' = renamed
            BY <1>1 DEF userStorage, history
        <3> HIDE DEF found
        <3>5. byEmail[req[t].email].id = found.id
            BY DEF found
        <3> QED BY <2>2, <3>2, <3>3, <3>4, <3>5 DEF Named, FoundBothWays, Complete
    <2>6. WorkTyped' /\ Pending(t)' /\ \A s \in Threads \ {t} :
                 user'[s] = user[s] /\ poKey'[s] = poKey[s] /\ work'[s] = work[s]
        BY <1>1, <2>1 DEF Invariant, Typed, Threaded, WorkTyped, LocalTyped, Pending
    <2> QED BY <1>1, <1>2, <2>1, <2>3, <2>4, <2>5, <2>6, MoveStep DEF Steps, counters
<1>5. CASE found = NoUser
    <2>1. work' = [work EXCEPT ![t] = BeginWork] /\ Goto(t, "add") /\ user' = user
        BY <1>5 DEF FindByEmail
    <2>2. pc'[t] = "add"
        BY <2>1 DEF Invariant, Typed, LocalTyped, Goto
    <2>3. Placed(t)' /\ Held(t)' /\ Named(t)'
        BY <1>1, <1>6, <2>1, <2>2, NoCopy DEF Placed
    <2>4. /\ WorkTyped' /\ Pending(t)'
          /\ \A s \in Threads \ {t} :
                 user'[s] = user[s] /\ poKey'[s] = poKey[s] /\ work'[s] = work[s]
        BY <1>1, <2>1, WorksTyped DEF Invariant, Typed, WorkTyped, Pending
    <2>5. /\ user' \in [Threads -> Users \cup {NoUser}]
          /\ poKey' \in [Threads -> OptionKeys \cup {DefaultOptions.key}]
        BY <1>1, <2>1 DEF Invariant, Typed, LocalTyped
    <2> QED BY <1>1, <1>2, <2>1, <2>3, <2>4, <2>5, MoveStep DEF Steps, counters
<1> QED BY <1>4, <1>5

LEMMA HashStep ==
    ASSUME Invariant, NEW t \in Threads, Hash(t)
    PROVE  Invariant'
<1>1. /\ pc[t] = "hash"
      /\ UNCHANGED <<userStorage, optionStorage, history, counters>>
    BY DEF Hash, Busy
<1>2. OptionsTyped' /\ HistoryTyped' /\ CountersTyped'
    BY <1>1 DEF Invariant, Typed, OptionsTyped, HistoryTyped, CountersTyped,
                optionStorage, history, counters
<1>3. IssuedFound' /\ Onward
    BY <1>1 DEF Invariant, IssuedFound, IssuedIdsFoundBothWays,
                FoundBothWays, Complete, Onward,
                userStorage, history, counters
<1>4. CASE work' = [work EXCEPT ![t] = RollbackOf(BeginWork)] /\ Answer(t, "error")
    <2>1. /\ WorkTyped' /\ Pending(t)' /\ \A s \in Threads \ {t} : work'[s] = work[s]
        BY <1>4, WorksTyped DEF Invariant, Typed, WorkTyped, Pending
    <2> QED
        BY <1>1, <1>2, <1>3, <1>4, <2>1, RowsTyped, ReplyStep
        DEF Answer, Outcomes, Failures, history
<1>5. CASE /\ work' = [work EXCEPT ![t] = BeginWork] /\ Goto(t, "add")
           /\ UNCHANGED <<req, password, user, poKey, status, seen, login>>
    <2>1. pc'[t] = "add"
        BY <1>5 DEF Invariant, Typed, LocalTyped, Goto
    <2>2. Placed(t)' /\ Held(t)' /\ Named(t)'
        BY <1>1, <1>5, <2>1, NoCopy DEF Placed, Invariant, Threaded
    <2>3. /\ WorkTyped' /\ Pending(t)'
          /\ \A s \in Threads \ {t} :
                 user'[s] = user[s] /\ poKey'[s] = poKey[s] /\ work'[s] = work[s]
        BY <1>5, WorksTyped DEF Invariant, Typed, WorkTyped, Pending
    <2>4. /\ user' \in [Threads -> Users \cup {NoUser}]
          /\ poKey' \in [Threads -> OptionKeys \cup {DefaultOptions.key}]
        BY <1>5 DEF Invariant, Typed, LocalTyped
    <2> QED BY <1>1, <1>2, <1>5, <2>2, <2>3, <2>4, MoveStep DEF Steps, counters
<1> QED BY <1>4, <1>5 DEF Hash

-----------------------------------------------------------------------------
(* What the other threads keep while one changes the users. *)
LEMMA OthersKept ==
    ASSUME Invariant, NEW t \in Threads, Alone(t), Onward, secrets \subseteq secrets',
           NEW s \in Threads \ {t}
    PROVE  Placed(s)' /\ Proven(s)' /\ Pending(s)'
<1>1. Placed(s)'
    BY OthersPlaced DEF Invariant, Threaded
<1>2. Proven(s)' /\ Pending(s)'
    BY CleanBefore DEF Alone, Invariant, Threaded, Proven, Pending
<1> QED BY <1>1, <1>2

(* What a throwing assignment leaves is a user with the new id, and with   *)
(* the password that was there before.                                     *)
LEMMA HalfStoredTyped ==
    ASSUME NEW u \in Users, NEW entry \in Users \cup {NoUser}, NEW x \in HalfStored(entry, u)
    PROVE  \/ x = NoUser /\ entry = NoUser
           \/ /\ x \in Users /\ x.id = u.id
              /\ entry # NoUser => /\ x.email \in {u.email, entry.email}
                                   /\ x.password = entry.password
              /\ entry = NoUser => x.password = NoHash
<1>1. NoHash \in Hashes
    BY DEF Hashes
<1>2. CASE entry = NoUser
    <2>1. /\ [DefaultUser EXCEPT !.id = u.id] \in Users
          /\ [u EXCEPT !.password = NoHash] \in Users
        BY <1>1 DEF DefaultUser, Users
    <2>2. x \in {[DefaultUser EXCEPT !.id = u.id], [u EXCEPT !.password = NoHash], NoUser}
        BY <1>2 DEF HalfStored, DefaultUser
    <2> QED BY <1>2, <2>1, <2>2 DEF DefaultUser, Users
<1>3. CASE entry # NoUser
    <2>1. entry \in Users
        BY <1>3
    <2>2. x \in {[entry EXCEPT !.id = u.id], [u EXCEPT !.password = entry.password]}
        BY <1>3 DEF HalfStored
    <2> QED BY <1>3, <2>1, <2>2 DEF Users
<1> QED BY <1>2, <1>3

(* A new id a for an email that nobody has: a is what add() leaves under   *)
(* the id, and b what it leaves under the email.                           *)
LEMMA NewEntries ==
    ASSUME Invariant, NEW e \in Emails, byEmail[e] = NoUser,
           NEW i \in Ids, i = lastId + 1, lastId' = i,
           NEW a \in Users \cup {NoUser}, NEW b \in Users \cup {NoUser},
           byId' = [byId EXCEPT ![i] = a], byEmail' = [byEmail EXCEPT ![e] = b],
           a # NoUser => a.id = i,
           b # NoUser => b.id = i /\ a # NoUser /\ a.email = e,
           faults' = 0 => a = b /\ b # NoUser /\ b.email = e,
           renamed' = renamed, secrets \subseteq secrets', Onward,
           \A raw \in Passwords :
               b # NoUser /\ b.password = Hashed(raw) => <<e, i, raw>> \in secrets'
    PROVE  /\ UserTyped' /\ Filed' /\ SecretsKept' /\ StaleOnlyAfterRename' /\ CopiesAgree'
           /\ \A s \in Threads : UNCHANGED <<pc[s], req[s], user[s]>> => Held(s)' /\ Named(s)'
           /\ \A x \in issued : /\ Complete(x[2])'
                                /\ renamed = {} => FoundBothWays(x[1], x[2])'
<1>1. /\ byId \in [Ids -> Users \cup {NoUser}]
      /\ byEmail \in [Emails -> Users \cup {NoUser}]
      /\ lastId \in 0 .. MaxId /\ MaxId \in Nat
    BY DataAssumption DEF Invariant, Typed, UserTyped
<1>2. byId[i] = NoUser
    BY <1>1 DEF Invariant, Filed
<1>3. /\ byId'[i] = a /\ \A j \in Ids \ {i} : byId'[j] = byId[j]
      /\ byEmail'[e] = b /\ \A d \in Emails \ {e} : byEmail'[d] = byEmail[d]
    BY <1>1
<1>4. UserTyped'
    BY <1>1 DEF UserTyped, Ids
<1>5. /\ \A d \in Emails : byEmail[d] # NoUser => d # e /\ byEmail'[d] = byEmail[d]
      /\ \A j \in Ids : byId[j] # NoUser => j # i /\ byId'[j] = byId[j]
    BY <1>2, <1>3
<1>6. ASSUME NEW j \in Ids, Complete(j)
      PROVE  Complete(j)' /\ byId'[j] = byId[j]
    BY <1>5, <1>6 DEF Complete
<1>7. ASSUME NEW d \in Emails, byEmail'[d] # NoUser
      PROVE  \/ d = e /\ byEmail'[d] = b /\ b.id = i /\ a # NoUser /\ a.email = e
             \/ /\ d # e /\ byEmail'[d] = byEmail[d] /\ byEmail[d] # NoUser
                /\ byEmail[d].id \in Ids /\ Complete(byEmail[d].id)
                /\ Complete(byEmail[d].id)'
                /\ byId'[byEmail[d].id] = byId[byEmail[d].id]
    <2>1. CASE d = e
        BY <1>3, <1>7, <2>1
    <2>2. CASE d # e
        <3>1. byEmail'[d] = byEmail[d] /\ byEmail[d] # NoUser
            BY <1>3, <1>7, <2>2
        <3>2. byEmail[d].id \in Ids
            BY <1>1, <3>1, UsersAreThere
        <3>3. Complete(byEmail[d].id)
            BY <3>1 DEF Invariant, Filed
        <3> QED BY <1>6, <2>2, <3>1, <3>2, <3>3
    <2> QED BY <2>1, <2>2
<1>8. Filed'
    <2>1. ASSUME NEW j \in Ids, byId'[j] # NoUser
          PROVE  byId'[j].id = j /\ j <= lastId' /\ (faults' = 0 => byId'[j].email \in Emails)
        <3>1. CASE j = i
            BY <1>1, <1>3, <2>1, <3>1 DEF Ids
        <3>2. CASE j # i
            BY <1>1, <1>3, <2>1, <3>2 DEF Invariant, Filed, Ids, Onward
        <3> QED BY <3>1, <3>2
    <2>2. ASSUME NEW d \in Emails, byEmail'[d] # NoUser
          PROVE  /\ byId'[byEmail'[d].id] # NoUser /\ byId'[byEmail'[d].id].email \in Emails
                 /\ renamed' = {} => byId'[byEmail'[d].id].email = d
                 /\ faults' = 0 => byEmail'[d].email = d
        BY <1>3, <1>7, <2>2 DEF Complete, Invariant, Filed, Onward
    <2> QED BY <2>1, <2>2 DEF Filed, Complete
<1>9. SecretsKept'
    <2> SUFFICES ASSUME Clean', NEW d \in Emails, NEW raw \in Passwords,
                        byEmail'[d] # NoUser, byEmail'[d].password = Hashed(raw)
                 PROVE  <<d, byEmail'[d].id, raw>> \in secrets'
        BY DEF SecretsKept
    <2> QED BY <1>7, CleanBefore DEF Invariant, SecretsKept
<1>10. StaleOnlyAfterRename'
    <2> SUFFICES ASSUME faults' = 0, NEW d \in Emails, byEmail'[d] # NoUser
                 PROVE  byId'[byEmail'[d].id] = byEmail'[d] \/ byEmail'[d].id \in renamed'
        BY DEF StaleOnlyAfterRename
    <2> QED BY <1>3, <1>7 DEF Invariant, StaleOnlyAfterRename, Onward
<1>11. CopiesAgree'
    <2> SUFFICES ASSUME Undisturbed' PROVE SameCopies'
        BY DEF CopiesAgree
    <2>1. SameCopies /\ faults = 0 /\ faults' = 0
        BY DEF Invariant, CopiesAgree, Undisturbed, Onward
    <2>2. ASSUME NEW j \in Ids, byId'[j] # NoUser
          PROVE  byId'[j].id = j /\ byEmail'[byId'[j].email] = byId'[j]
        <3>1. CASE j = i
            BY <1>3, <2>1, <3>1
        <3>2. CASE j # i
            <4>1. byId'[j] = byId[j] /\ byId[j].email \in Emails
                BY <1>3, <2>1, <2>2, <3>2 DEF Invariant, Filed
            <4>2. byId[j].id = j /\ byEmail[byId[j].email] = byId[j]
                BY <2>1, <2>2, <4>1 DEF SameCopies
            <4> QED BY <1>5, <2>2, <4>1, <4>2
        <3> QED BY <3>1, <3>2
    <2>3. ASSUME NEW d \in Emails, byEmail'[d] # NoUser
          PROVE  byEmail'[d].email = d /\ byId'[byEmail'[d].id] = byEmail'[d]
        BY <1>3, <1>7, <2>1, <2>3 DEF SameCopies
    <2> QED BY <2>2, <2>3 DEF SameCopies
<1>12. ASSUME NEW d \in Emails, NEW j \in Ids, Complete(j), FoundBothWays(d, j)
       PROVE  FoundBothWays(d, j)'
    <2>1. byEmail[d] # NoUser
        BY <1>12 DEF FoundBothWays, NoUser, Ids
    <2> QED BY <1>5, <1>6, <1>12, <2>1 DEF FoundBothWays
<1>13. ASSUME NEW s \in Threads, UNCHANGED <<pc[s], req[s], user[s]>>
       PROVE  Held(s)' /\ Named(s)'
    <2>0. Placed(s) /\ Held(s) /\ Named(s) /\ user[s] \in Users \cup {NoUser}
        BY DEF Invariant, Typed, LocalTyped, Threaded
    <2>1. Held(s)'
        <3>1. CASE pc[s] = "change" /\ user[s] # NoUser
            <4>1. user[s].id \in Ids /\ Complete(user[s].id)
                BY <2>0, <3>1, UsersAreThere DEF Held
            <4> QED BY <1>6, <1>13, <2>0, <4>1 DEF Held, Onward
        <3>2. CASE ~(pc[s] = "change" /\ user[s] # NoUser)
            BY <1>13, <2>0, <3>2 DEF Held, Onward
        <3> QED BY <3>1, <3>2
    <2>2. Named(s)'
        <3>1. CASE pc[s] = "jwt"
            <4>1. /\ user[s].id \in Ids /\ req[s].email \in Emails /\ Complete(user[s].id)
                  /\ renamed = {} => FoundBothWays(req[s].email, user[s].id)
                BY <2>0, <3>1, UsersAreThere DEF Placed, Named
            <4>2. user'[s] = user[s] /\ req'[s] = req[s] /\ pc'[s] = pc[s]
                BY <1>13
            <4>3. byId'[user[s].id] # NoUser /\ byId'[user[s].id].email \in Emails
                BY <1>6, <4>1 DEF Complete
            <4>4. renamed = {} => /\ byEmail'[req[s].email].id = user[s].id
                                  /\ byId'[user[s].id].id = user[s].id
                                  /\ byId'[user[s].id].email = req[s].email
                BY <1>12, <4>1 DEF FoundBothWays
            <4> QED BY <4>2, <4>3, <4>4 DEF Named, Complete, FoundBothWays
        <3>2. CASE pc[s] # "jwt"
            BY <1>13, <3>2 DEF Named
        <3> QED BY <3>1, <3>2
    <2> QED BY <2>1, <2>2
<1>14. ASSUME NEW x \in issued
       PROVE  Complete(x[2])' /\ (renamed = {} => FoundBothWays(x[1], x[2])')
    <2>1. x[1] \in Emails /\ x[2] \in Ids /\ Complete(x[2])
        BY DEF Invariant, Typed, HistoryTyped, IssuedFound
    <2>2. renamed = {} => FoundBothWays(x[1], x[2])
        BY DEF Invariant, IssuedFound, IssuedIdsFoundBothWays
    <2>3. Complete(x[2])'
        BY <1>6, <2>1 DEF Complete
    <2>4. renamed = {} => FoundBothWays(x[1], x[2])'
        BY <1>12, <2>1, <2>2 DEF FoundBothWays
    <2> QED BY <2>3, <2>4
<1> QED BY <1>4, <1>8, <1>9, <1>10, <1>11, <1>13, <1>14

(* The user that add() makes of a request. *)
LEMMA NewUserTyped ==
    ASSUME Invariant, NEW t \in Threads, pc[t] = "add",
           NewUser(t, GenerateId).id \in Ids
    PROVE  /\ NewUser(t, GenerateId) \in Users
           /\ NewUser(t, GenerateId).id = lastId + 1
           /\ NewUser(t, GenerateId).email = req[t].email
           /\ NewUser(t, GenerateId).password # NoHash =>
                  /\ NewUser(t, GenerateId).password = Hashed(password[t])
                  /\ password[t] \in Passwords
<1>1. req[t].email \in Emails /\ password[t] \in Passwords \cup {NoPassword}
    BY DEF Invariant, Typed, LocalTyped, Threaded, Placed
<1>2. /\ Hashed(password[t]) \in Hashes /\ NoHash \in Hashes
      /\ password[t] \notin Passwords => Hashed(password[t]) = NoHash
    BY <1>1, HashesTyped DEF NoHash
<1> QED BY <1>1, <1>2 DEF NewUser, GenerateId, Users

LEMMA AddNewStep ==
    ASSUME Invariant, NEW t \in Threads, pc[t] = "add", AddNew(t), ~Taken(req[t].email),
           UNCHANGED <<optionStorage, renamed, counters>>
    PROVE  Invariant'
<1> DEFINE u == NewUser(t, GenerateId)
<1>1. /\ u.id \in Ids /\ lastId' = lastId + 1
      /\ byId' = [byId EXCEPT ![u.id] = u] /\ byEmail' = [byEmail EXCEPT ![u.email] = u]
      /\ work' = [work EXCEPT ![t] = CommitOf(work[t])]
      /\ secrets' = IF u.password = NoHash THEN secrets
                    ELSE secrets \cup {<<u.email, u.id, password[t]>>}
      /\ \/ /\ user' = [user EXCEPT ![t] = u]
            /\ Goto(t, "jwt")
            /\ UNCHANGED <<req, password, poKey, status, seen, login, issued>>
         \/ /\ issued' = issued \cup {<<u.email, u.id>>}
            /\ Answer(t, "created")
    BY DEF AddNew, GenerateId, StoreNew, CopyForEmail
<1>2. /\ u \in Users /\ u.id = lastId + 1 /\ u.email = req[t].email
      /\ u.password # NoHash => u.password = Hashed(password[t]) /\ password[t] \in Passwords
      /\ u.email \in Emails /\ byEmail[u.email] = NoUser /\ u # NoUser
    BY <1>1, NewUserTyped, UsersAreThere DEF Taken, Invariant, Threaded, Placed
<1> HIDE DEF u
<1>3. \A raw \in Passwords : u.password = Hashed(raw) => <<u.email, u.id, raw>> \in secrets'
    <2>1. ASSUME NEW raw \in Passwords, u.password = Hashed(raw)
          PROVE  <<u.email, u.id, raw>> \in secrets'
        <3>1. u.password # NoHash
            BY <2>1, HashesTyped
        <3>2. raw = password[t]
            BY <1>2, <2>1, <3>1, HashesTyped
        <3> QED BY <1>1, <3>1, <3>2
    <2> QED BY <2>1
<1>4. secrets \subseteq secrets' /\ renamed' = renamed /\ Onward
    BY <1>1 DEF Onward, counters
<1>5. /\ UserTyped' /\ Filed' /\ SecretsKept' /\ StaleOnlyAfterRename' /\ CopiesAgree'
      /\ \A s \in Threads : UNCHANGED <<pc[s], req[s], user[s]>> => Held(s)' /\ Named(s)'
      /\ \A x \in issued : /\ Complete(x[2])'
                           /\ renamed = {} => FoundBothWays(x[1], x[2])'
    BY <1>1, <1>2, <1>3, <1>4, NewEntries
<1>6. /\ OptionsTyped' /\ CountersTyped' /\ WorkTyped' /\ Pending(t)'
      /\ \A s \in Threads \ {t} : work'[s] = work[s]
    BY <1>1, WorksTyped
    DEF Invariant, Typed, OptionsTyped, CountersTyped, WorkTyped, Pending,
        optionStorage, counters
<1>7. issued' \in SUBSET (Emails \X Ids) => HistoryTyped'
    BY <1>1, <1>2, <1>4 DEF Invariant, Typed, HistoryTyped
<1>8. byId'[u.id] = u /\ byEmail'[u.email] = u
    BY <1>1, <1>2 DEF Invariant, Typed, UserTyped
<1>9. ASSUME LocalTyped', HistoryTyped', Alone(t), login'[t] = login[t], LoginTyped',
             Placed(t)', Held(t)', Named(t)', IssuedFound'
      PROVE  Invariant'
    <2>1. Typed'
        BY <1>5, <1>6, <1>9 DEF Typed
    <2>2. Proven(t)'
        BY <1>4, <1>9, CleanBefore DEF Invariant, Threaded, Proven
    <2>3. ASSUME NEW s \in Threads \ {t}
          PROVE  (Placed(s) /\ Held(s) /\ Named(s) /\ Proven(s) /\ Pending(s))'
        <3>1. Placed(s)' /\ Proven(s)' /\ Pending(s)'
            BY <1>4, <1>9, OthersKept
        <3>2. Held(s)' /\ Named(s)'
            BY <1>5, <1>9 DEF Alone
        <3> QED BY <3>1, <3>2
    <2>4. Threaded'
        BY <1>6, <1>9, <2>2, <2>3 DEF Threaded
    <2> QED BY <1>5, <1>9, <2>1, <2>4 DEF Invariant
<1>10. CASE /\ user' = [user EXCEPT ![t] = u]
            /\ Goto(t, "jwt")
            /\ UNCHANGED <<req, password, poKey, status, seen, login, issued>>
    <2>1. /\ LocalTyped' /\ LoginTyped' /\ login'[t] = login[t]
          /\ pc'[t] = "jwt" /\ user'[t] = u
        BY <1>2, <1>10 DEF Invariant, Typed, LocalTyped, LoginTyped, Goto, Steps
    <2>2. HistoryTyped'
        BY <1>7, <1>10 DEF Invariant, Typed, HistoryTyped
    <2>3. Alone(t)
        BY <1>6, <1>10 DEF Alone, Invariant, Typed, LocalTyped, Goto
    <2>4. Placed(t)' /\ Held(t)' /\ Named(t)'
        BY <1>2, <1>8, <1>10, <2>1 DEF Placed, Held, Named, FoundBothWays, Complete
    <2>5. IssuedFound'
        BY <1>4, <1>5, <1>10
        DEF IssuedFound, IssuedIdsFoundBothWays, FoundBothWays, Complete
    <2> QED BY <1>9, <2>1, <2>2, <2>3, <2>4, <2>5
<1>11. CASE issued' = issued \cup {<<u.email, u.id>>} /\ Answer(t, "created")
    <2>1. "created" \in Outcomes
        BY DEF Outcomes, Successes
    <2>2. /\ LocalTyped' /\ login' = login /\ Alone(t)
          /\ Placed(t)' /\ Held(t)' /\ Named(t)'
        BY <1>6, <1>11, <2>1, ReplyTyped, RowsTyped, Idle DEF Answer, Alone, Invariant, Typed
    <2>3. LoginTyped'
        BY <2>2 DEF Invariant, Typed, LoginTyped
    <2>4. HistoryTyped'
        <3>1. <<u.email, u.id>> \in Emails \X Ids
            BY <1>1, <1>2
        <3> QED BY <1>7, <1>11, <3>1 DEF Invariant, Typed, HistoryTyped
    <2>5. ASSUME NEW x \in issued'
          PROVE  Complete(x[2])' /\ (renamed = {} => FoundBothWays(x[1], x[2])')
        <3>1. CASE x \in issued
            BY <1>5, <3>1 DEF Complete, FoundBothWays
        <3>2. CASE x = <<u.email, u.id>>
            BY <1>2, <1>8, <3>2 DEF FoundBothWays, Complete
        <3> QED BY <1>11, <2>5, <3>1, <3>2
    <2>6. IssuedFound'
        BY <1>4, <2>5 DEF IssuedFound, IssuedIdsFoundBothWays, FoundBothWays, Complete
    <2> QED BY <1>9, <2>2, <2>3, <2>4, <2>6
<1> QED BY <1>1, <1>10, <1>11

LEMMA AddStep ==
    ASSUME Invariant, NEW t \in Threads, Add(t)
    PROVE  Invariant'
<1>1. pc[t] = "add" /\ UNCHANGED <<optionStorage, renamed, counters>>
    BY DEF Add, Busy
<1>2. CASE ~Taken(req[t].email)
    BY <1>1, <1>2, AddNewStep DEF Add
<1>3. CASE Taken(req[t].email)
    <2>1. /\ work' = [work EXCEPT ![t] = RollbackOf(work[t])] /\ Answer(t, "error")
          /\ UNCHANGED <<userStorage, issued, secrets>>
        BY <1>3 DEF Add, AddTaken, AfterError
    <2>2. WorkTyped' /\ Pending(t)' /\ \A s \in Threads \ {t} : work'[s] = work[s]
        BY <2>1, WorksTyped DEF Invariant, Typed, WorkTyped, Pending
    <2>3. OptionsTyped' /\ HistoryTyped' /\ CountersTyped'
        BY <1>1, <2>1 DEF Invariant, Typed, OptionsTyped, HistoryTyped, CountersTyped,
                          optionStorage, counters
    <2>4. IssuedFound' /\ Onward
        BY <1>1, <2>1 DEF Invariant, IssuedFound, IssuedIdsFoundBothWays,
                FoundBothWays, Complete, Onward,
                          userStorage, counters
    <2> QED
        BY <1>1, <2>1, <2>2, <2>3, <2>4, RowsTyped, ReplyStep DEF Answer, Outcomes, Failures
<1> QED BY <1>2, <1>3

(* What a call that throws does to its thread. *)
LEMMA ThrownLocally ==
    ASSUME Invariant, NEW t \in Threads, Thrown(t)
    PROVE  /\ LocalTyped' /\ LoginTyped' /\ WorkTyped' /\ login' = login
           /\ Placed(t)' /\ Held(t)' /\ Named(t)' /\ Pending(t)' /\ Alone(t)
           /\ faults' \in 0 .. MaxFaults /\ faults' # 0
           /\ \E outcome \in Failures : Reply(t, outcome, EmptyRow)
           /\ \A s \in Threads \ {t} : work'[s] = work[s]
<1>1. PICK outcome \in Failures : Reply(t, outcome, EmptyRow)
    BY DEF Thrown, Answer, Failures
<1>2. outcome \in Outcomes
    BY DEF Outcomes
<1>3. faults' = faults + 1 /\ faults < MaxFaults /\ work' = [work EXCEPT ![t].active = FALSE]
    BY DEF Thrown
<1>4. faults' \in 0 .. MaxFaults /\ faults' # 0
    BY <1>3, InMemoryAssumption DEF Invariant, Typed, CountersTyped
<1>5. WorkTyped' /\ Pending(t)' /\ \A s \in Threads \ {t} : work'[s] = work[s]
    BY <1>3, WorksTyped DEF Invariant, Typed, WorkTyped, Pending
<1>6. /\ LocalTyped' /\ login' = login /\ Placed(t)' /\ Held(t)' /\ Named(t)'
      /\ Alone(t)
    BY <1>1, <1>2, <1>5, ReplyTyped, RowsTyped, Idle DEF Invariant, Typed, Alone
<1>7. LoginTyped'
    BY <1>6 DEF Invariant, Typed, LoginTyped
<1> QED BY <1>1, <1>4, <1>5, <1>6, <1>7

(* Whatever add() leaves when it throws: who has an entry by email is      *)
(* whole under the id.                                                     *)
LEMMA AddFailsStep ==
    ASSUME Invariant, NEW t \in Threads, AddFails(t)
    PROVE  Invariant'
<1> DEFINE u == NewUser(t, GenerateId)
<1>1. /\ pc[t] = "add" /\ Thrown(t) /\ byEmail[req[t].email] = NoUser
      /\ u.id \in Ids /\ lastId' = lastId + 1 /\ StoreThrows(u)
      /\ UNCHANGED <<optionStorage, history, alive, requests>>
    BY DEF AddFails, Busy, GenerateId, Taken
<1>2. /\ u \in Users /\ u.id = lastId + 1 /\ u.email = req[t].email /\ u.email \in Emails
      /\ u # NoUser
    BY <1>1, NewUserTyped, UsersAreThere DEF Invariant, Threaded, Placed
<1> HIDE DEF u
<1>3. /\ byId \in [Ids -> Users \cup {NoUser}]
      /\ byEmail \in [Emails -> Users \cup {NoUser}]
      /\ lastId \in 0 .. MaxId /\ MaxId \in Nat
    BY DataAssumption DEF Invariant, Typed, UserTyped
<1>4. byId[u.id] = NoUser
    BY <1>1, <1>2, <1>3 DEF Invariant, Filed
<1>5. /\ secrets' = secrets /\ renamed' = renamed /\ issued' = issued
      /\ Onward
    BY <1>1, ThrownLocally DEF history, Onward
<1>6. PICK a \in Users \cup {NoUser}, b \in Users \cup {NoUser} :
          /\ byId' = [byId EXCEPT ![u.id] = a] /\ byEmail' = [byEmail EXCEPT ![u.email] = b]
          /\ a # NoUser => a.id = u.id
          /\ b # NoUser => /\ b.id = u.id /\ a # NoUser /\ a.email = u.email
                           /\ b.password = NoHash
    <2>1. CASE /\ \E entry \in HalfStored(byId[u.id], u) : byId' = [byId EXCEPT ![u.id] = entry]
               /\ UNCHANGED byEmail
        <3>1. PICK a \in HalfStored(NoUser, u) : byId' = [byId EXCEPT ![u.id] = a]
            BY <1>4, <2>1
        <3>2. a \in Users \cup {NoUser} /\ (a # NoUser => a.id = u.id)
            BY <1>2, HalfStoredTyped
        <3>3. byEmail' = [byEmail EXCEPT ![u.email] = NoUser]
            BY <1>1, <1>2, <1>3, <2>1
        <3> QED BY <3>1, <3>2, <3>3
    <2>2. CASE /\ byId' = [byId EXCEPT ![u.id] = u]
               /\ \E entry \in HalfStored(byEmail[u.email], u) :
                      byEmail' = [byEmail EXCEPT ![u.email] = entry]
        <3>1. PICK b \in HalfStored(NoUser, u) : byEmail' = [byEmail EXCEPT ![u.email] = b]
            BY <1>1, <1>2, <2>2
        <3>2. /\ b \in Users \cup {NoUser}
              /\ b # NoUser => b.id = u.id /\ b.password = NoHash
            BY <1>2, HalfStoredTyped
        <3> QED BY <1>2, <2>2, <3>1, <3>2
    <2> QED BY <1>1, <2>1, <2>2 DEF StoreThrows
<1>7. \A raw \in Passwords : b # NoUser => b.password # Hashed(raw)
    BY <1>6, HashesTyped
<1>8. /\ UserTyped' /\ Filed' /\ SecretsKept' /\ StaleOnlyAfterRename' /\ CopiesAgree'
      /\ \A s \in Threads : UNCHANGED <<pc[s], req[s], user[s]>> => Held(s)' /\ Named(s)'
      /\ \A x \in issued : /\ Complete(x[2])'
                           /\ renamed = {} => FoundBothWays(x[1], x[2])'
    <2>1. /\ u.email \in Emails /\ byEmail[u.email] = NoUser
          /\ u.id \in Ids /\ u.id = lastId + 1 /\ lastId' = u.id
        BY <1>1, <1>2
    <2>2. faults' # 0
        BY <1>1, ThrownLocally
    <2>3. secrets \subseteq secrets'
        BY <1>5
    <2>4. \A raw \in Passwords :
              b # NoUser /\ b.password = Hashed(raw) => <<u.email, u.id, raw>> \in secrets'
        BY <1>7
    <2> QED BY <1>5, <1>6, <2>1, <2>2, <2>3, <2>4, NewEntries
<1>9. Typed'
    BY <1>1, <1>8, ThrownLocally
    DEF Invariant, Typed, OptionsTyped, HistoryTyped, CountersTyped, optionStorage, history
<1>10. ASSUME NEW s \in Threads
       PROVE  (Placed(s) /\ Held(s) /\ Named(s) /\ Proven(s) /\ Pending(s))'
    <2>1. CASE s = t
        <3>1. Proven(t)'
            BY <1>1, <1>5, ThrownLocally, CleanBefore DEF Invariant, Threaded, Proven
        <3> QED BY <1>1, <2>1, <3>1, ThrownLocally
    <2>2. CASE s # t
        <3>1. Placed(s)' /\ Proven(s)' /\ Pending(s)'
            BY <1>1, <1>5, <2>2, ThrownLocally, OthersKept
        <3>2. Held(s)' /\ Named(s)'
            BY <1>1, <1>8, <2>2, ThrownLocally DEF Alone
        <3> QED BY <3>1, <3>2
    <2> QED BY <2>1, <2>2
<1>11. Threaded'
    BY <1>10 DEF Threaded
<1>12. IssuedFound'
    BY <1>5, <1>8 DEF IssuedFound, IssuedIdsFoundBothWays, FoundBothWays, Complete
<1> QED BY <1>8, <1>9, <1>11, <1>12 DEF Invariant

(* A call that throws before it has written anything ends the request. *)
LEMMA CallFailsStep ==
    ASSUME Invariant, NEW t \in Threads, CallFails(t)
    PROVE  Invariant'
<1>1. UNCHANGED <<userStorage, optionStorage, history, alive, requests>>
    BY DEF CallFails
<1>2. faults' \in 0 .. MaxFaults /\ faults' # 0
    BY InMemoryAssumption DEF CallFails, Thrown, Invariant, Typed, CountersTyped
<1>3. OptionsTyped' /\ HistoryTyped' /\ CountersTyped' /\ UserTyped'
    BY <1>1, <1>2 DEF Invariant, Typed, OptionsTyped, HistoryTyped, CountersTyped, UserTyped,
                      userStorage, optionStorage, history
<1>4. IssuedFound' /\ Onward
    BY <1>1, <1>2 DEF Invariant, IssuedFound, IssuedIdsFoundBothWays,
                      FoundBothWays, Complete, Onward, userStorage, history
<1>5. CASE Thrown(t)
    <2>1. Proven(t)'
        BY <1>1, <1>4, <1>5, ThrownLocally, CleanBefore DEF Invariant, Threaded, Proven, history
    <2> QED BY <1>1, <1>3, <1>4, <1>5, <2>1, ThrownLocally, QuietStep DEF Typed, history
<1>6. CASE Done(t) /\ UNCHANGED <<work, status, seen, login>>
    <2>1. /\ LocalTyped' /\ Alone(t) /\ pc'[t] = "idle" /\ user'[t] = NoUser
        BY <1>6, DoneTyped DEF Invariant, Typed, LocalTyped, Alone
    <2>2. Typed'
        BY <1>3, <1>6, <2>1 DEF Invariant, Typed, LoginTyped, WorkTyped
    <2>3. Proven(t)' /\ Pending(t)'
        BY <1>1, <1>4, <1>6, CleanBefore DEF Invariant, Threaded, Proven, Pending, history
    <2> QED BY <1>1, <1>4, <2>1, <2>2, <2>3, Idle, QuietStep DEF history
<1> QED BY <1>5, <1>6 DEF CallFails

LEMMA CreateJwtStep ==
    ASSUME Invariant, NEW t \in Threads, CreateJwt(t)
    PROVE  Invariant'
<1>1. /\ pc[t] = "jwt"
      /\ issued' = issued \cup {<<req[t].email, user[t].id>>}
      /\ Reply(t, "created", EmptyRow)
      /\ UNCHANGED <<userStorage, optionStorage, work, secrets, renamed, counters>>
    BY DEF CreateJwt, Busy, Answer
<1>2. req[t].email \in Emails /\ user[t] \in Users /\ user[t].id \in Ids
    BY <1>1, UsersAreThere DEF Invariant, Threaded, Placed
<1>3. HistoryTyped'
    <2>1. <<req[t].email, user[t].id>> \in Emails \X Ids
        BY <1>2
    <2> QED BY <1>1, <2>1 DEF Invariant, Typed, HistoryTyped
<1>4. WorkTyped' /\ OptionsTyped' /\ CountersTyped' /\ Pending(t)'
    BY <1>1 DEF Invariant, Typed, Threaded, WorkTyped, OptionsTyped, CountersTyped, Pending,
                optionStorage, counters
<1>5. IssuedFound'
    <2> SUFFICES ASSUME NEW x \in issued'
                 PROVE  Complete(x[2]) /\ (renamed = {} => FoundBothWays(x[1], x[2]))
        BY <1>1 DEF IssuedFound, IssuedIdsFoundBothWays, FoundBothWays, Complete, userStorage
    <2>1. CASE x \in issued
        BY <2>1 DEF Invariant, IssuedFound, IssuedIdsFoundBothWays
    <2>2. CASE x = <<req[t].email, user[t].id>>
        BY <1>1, <2>2 DEF Invariant, Threaded, Named
    <2> QED BY <1>1, <2>1, <2>2
<1>6. Onward
    BY <1>1 DEF Onward, counters
<1> QED BY <1>1, <1>3, <1>4, <1>5, <1>6, RowsTyped, ReplyStep DEF Outcomes, Successes

-----------------------------------------------------------------------------
LEMMA LoginStep ==
    ASSUME Invariant, NEW t \in Threads, Login(t)
    PROVE  Invariant'
<1> DEFINE found == byEmail[req[t].email]
<1>1. /\ pc[t] = "verify"
      /\ UNCHANGED <<userStorage, optionStorage, work, history, counters>>
      /\ req[t].email \in Emails /\ password[t] \in Passwords
    BY DEF Login, Busy, Invariant, Threaded, Placed
<1>2. found \in Users \cup {NoUser}
    BY <1>1 DEF Invariant, Typed, UserTyped
<1>3. PICK outcome \in {"ok", "invalid"}, id \in Ids \cup {0} :
          /\ LoginAs(t, outcome, id)
          /\ outcome = "ok" =>
                 found # NoUser /\ id = found.id /\ found.password = Hashed(password[t])
    <2>1. CASE found # NoUser /\ Verify(password[t], found.password)
        <3>1. LoginAs(t, "ok", found.id) /\ found.id \in Ids
            BY <1>2, <2>1, UsersAreThere DEF Login
        <3> QED BY <2>1, <3>1 DEF Verify
    <2>2. CASE ~(found # NoUser /\ Verify(password[t], found.password))
        BY <2>2 DEF Login
    <2> QED BY <2>1, <2>2
<1>4. /\ Done(t) /\ UNCHANGED <<status, seen>>
      /\ login' = [login EXCEPT ![t] = [outcome |-> outcome, email |-> req[t].email,
                                        password |-> password[t], id |-> id]]
    BY <1>3 DEF LoginAs
<1>5. /\ LocalTyped' /\ pc'[t] = "idle" /\ user'[t] = NoUser
      /\ \A s \in Threads \ {t} :
             /\ pc'[s] = pc[s] /\ req'[s] = req[s] /\ password'[s] = password[s]
             /\ user'[s] = user[s] /\ poKey'[s] = poKey[s]
    BY <1>4, DoneTyped DEF Invariant, Typed, LocalTyped
<1>6. LoginTyped'
    BY <1>1, <1>4 DEF Invariant, Typed, LoginTyped, Logins
<1>7. Typed'
    BY <1>1, <1>5, <1>6
    DEF Invariant, Typed, UserTyped, WorkTyped, OptionsTyped, HistoryTyped, CountersTyped,
        userStorage, optionStorage, history, counters
<1>8. Alone(t)
    BY <1>1, <1>4, <1>5 DEF Alone, Invariant, Typed, LoginTyped
<1>9. Proven(t)'
    <2>1. Clean /\ outcome = "ok" => <<req[t].email, id, password[t]>> \in secrets
        BY <1>1, <1>3 DEF Invariant, SecretsKept
    <2>2. login'[t] = [outcome |-> outcome, email |-> req[t].email,
                       password |-> password[t], id |-> id]
        BY <1>4 DEF Invariant, Typed, LoginTyped
    <2> QED BY <1>1, <2>1, <2>2 DEF Proven, Clean, history, counters
<1>10. Pending(t)' /\ IssuedFound' /\ Onward
    BY <1>1 DEF Invariant, Threaded, Pending, IssuedFound, IssuedIdsFoundBothWays,
                FoundBothWays, Complete, Onward,
                userStorage, history, counters
<1> QED BY <1>1, <1>5, <1>7, <1>8, <1>9, <1>10, Idle, QuietStep DEF history

(* The death of the process ends the requests of all threads. *)
LEMMA LoginDiesStep ==
    ASSUME Invariant, NEW t \in Threads, LoginDies(t)
    PROVE  Invariant'
<1>1. /\ alive' = FALSE
      /\ pc' = [s \in Threads |-> "idle"]
      /\ req' = [s \in Threads |-> NoRequest]
      /\ password' = [s \in Threads |-> NoPassword]
      /\ user' = [s \in Threads |-> NoUser]
      /\ poKey' = [s \in Threads |-> DefaultOptions.key]
      /\ status' = [s \in Threads |->
                       IF req[s].kind \in AllKinds THEN "aborted" ELSE status[s]]
      /\ seen' = [s \in Threads |-> IF req[s].kind \in AllKinds THEN EmptyRow ELSE seen[s]]
      /\ UNCHANGED <<userStorage, optionStorage, work, login, history, faults, requests>>
    BY DEF LoginDies
<1>2. LocalTyped'
    <2>1. NoRequest \in InMemoryRequests /\ "idle" \in Steps /\ "aborted" \in Outcomes
        BY DEF InMemoryRequests, Steps, Outcomes, Failures
    <2> QED BY <1>1, <2>1, RowsTyped DEF Invariant, Typed, LocalTyped
<1>3. Typed'
    BY <1>1, <1>2
    DEF Invariant, Typed, UserTyped, LoginTyped, WorkTyped, OptionsTyped, HistoryTyped,
        CountersTyped, userStorage, optionStorage, history
<1>4. ASSUME NEW s \in Threads
      PROVE  (Placed(s) /\ Held(s) /\ Named(s) /\ Proven(s) /\ Pending(s))'
    <2>1. pc'[s] = "idle" /\ user'[s] = NoUser
        BY <1>1
    <2>2. Proven(s)' /\ Pending(s)'
        BY <1>1 DEF Invariant, Threaded, Proven, Clean, Pending, history
    <2> QED BY <2>1, <2>2, Idle
<1>5. Threaded'
    BY <1>4 DEF Threaded
<1>6. Filed' /\ SecretsKept' /\ StaleOnlyAfterRename'
    BY <1>1 DEF Invariant, Filed, Complete, SecretsKept, Clean, StaleOnlyAfterRename,
                userStorage, history
<1>7. /\ IssuedFound'
      /\ CopiesAgree'
    BY <1>1 DEF Invariant, IssuedFound, IssuedIdsFoundBothWays,
                FoundBothWays, Complete, CopiesAgree, SameCopies,
                Undisturbed,
                userStorage, history
<1> QED BY <1>3, <1>5, <1>6, <1>7 DEF Invariant

LEMMA ReadUserStep ==
    ASSUME Invariant, NEW t \in Threads, ReadUser(t)
    PROVE  Invariant'
<1>1. /\ pc[t] = "change" /\ user[t] = NoUser /\ req[t].uid \in Ids
      /\ UNCHANGED <<userStorage, optionStorage, work, status, seen, login, history, counters>>
    BY DEF ReadUser, Busy, Invariant, Threaded, Placed
<1>2. PICK u \in Users \cup {NoUser} :
          \/ /\ Done(t)
          \/ /\ u = byId[req[t].uid] /\ u # NoUser /\ user' = [user EXCEPT ![t] = u]
             /\ UNCHANGED <<pc, req, password, poKey>>
    BY <1>1 DEF ReadUser, Invariant, Typed, UserTyped
<1>3. /\ Pending(t)' /\ Proven(t)' /\ IssuedFound' /\ Onward
    BY <1>1 DEF Invariant, Threaded, Pending, Proven, Clean, IssuedFound,
                IssuedIdsFoundBothWays, FoundBothWays, Complete,
                Onward, userStorage, history, counters
<1>4. LocalTyped' => Typed'
    BY <1>1
    DEF Invariant, Typed, UserTyped, LoginTyped, WorkTyped, OptionsTyped, HistoryTyped,
        CountersTyped, userStorage, optionStorage, history, counters
<1>5. CASE Done(t)
    <2>1. /\ LocalTyped' /\ Alone(t) /\ pc'[t] = "idle" /\ user'[t] = NoUser
        BY <1>1, <1>5, DoneTyped DEF Invariant, Typed, LocalTyped, Alone
    <2> QED BY <1>1, <1>3, <1>4, <2>1, Idle, QuietStep DEF history
<1>6. CASE /\ u = byId[req[t].uid] /\ u # NoUser /\ user' = [user EXCEPT ![t] = u]
           /\ UNCHANGED <<pc, req, password, poKey>>
    <2>1. LocalTyped' /\ Alone(t) /\ user'[t] = u
        BY <1>1, <1>6 DEF Invariant, Typed, LocalTyped, Alone
    <2>2. Placed(t)' /\ Named(t)'
        BY <1>1, <1>6 DEF Placed, Named
    <2>3. Held(t)'
        <3>1. u.id = req[t].uid
            BY <1>1, <1>6 DEF Invariant, Filed
        <3>2. PICK x \in issued : x[2] = req[t].uid
            BY <1>1 DEF Invariant, Threaded, Held
        <3>3. byId[u.id] = u /\ Complete(u.id)
            BY <1>6, <3>1, <3>2 DEF Invariant, IssuedFound
        <3> QED BY <1>1, <1>6, <2>1, <3>1, <3>2, <3>3 DEF Held, Complete, userStorage, history
    <2> QED BY <1>1, <1>3, <1>4, <2>1, <2>2, <2>3, QuietStep DEF history
<1> QED BY <1>2, <1>5, <1>6

(* What update() may be called with. *)
LEMMA ChangedTyped ==
    ASSUME NEW old \in Users, old.email \in Emails, NEW raw \in Passwords \cup {NoPassword},
           NEW u \in Changed(old, raw)
    PROVE  /\ u \in Users /\ u.id = old.id /\ u.email \in Emails
<1>1. Hashed(raw) \in Hashes
    BY HashesTyped
<1>2. CASE u \in {[old EXCEPT !.password = Hashed(raw)] : k \in UpdateKinds \cap {"password"}}
    BY <1>1, <1>2 DEF Users
<1>3. CASE u \in {[old EXCEPT !.email = e] : e \in IF "email" \in UpdateKinds THEN Emails ELSE {}}
    BY <1>3 DEF Users
<1> QED BY <1>2, <1>3 DEF Changed

(* An update() of the account i, with what it leaves under the id and under*)
(* the email e.                                                            *)
LEMMA ChangedEntries ==
    ASSUME Invariant, NEW t \in Threads, pc[t] = "change", user[t] # NoUser,
           NEW i \in Ids, i = user[t].id, NEW e \in Emails,
           NEW a \in Users, NEW b \in Users \cup {NoUser},
           byId' = [byId EXCEPT ![i] = a], byEmail' = [byEmail EXCEPT ![e] = b],
           lastId' = lastId, a.id = i, a.email \in Emails,
           i \notin renamed' => a.email = user[t].email,
           b = byEmail[e] \/ (b \in Users /\ b.id = i /\ a.email = e),
           faults' = 0 => a = b /\ b.email = e,
           \A raw \in Passwords : b # byEmail[e] /\ b.password = Hashed(raw) =>
               \/ <<e, i, raw>> \in secrets'
               \/ byEmail[e] # NoUser /\ byEmail[e].password = b.password /\ faults' # 0,
           secrets \subseteq secrets', Onward, issued' = issued, Alone(t),
           pc'[t] = "idle", user'[t] = NoUser, login'[t] = login[t], work'[t] = work[t]
    PROVE  /\ UserTyped' /\ Threaded' /\ Filed' /\ SecretsKept' /\ StaleOnlyAfterRename'
           /\ IssuedFound' /\ CopiesAgree'
<1>1. /\ byId \in [Ids -> Users \cup {NoUser}]
      /\ byEmail \in [Emails -> Users \cup {NoUser}]
    BY DEF Invariant, Typed, UserTyped
<1>2. /\ byId'[i] = a /\ a # NoUser /\ \A j \in Ids \ {i} : byId'[j] = byId[j]
      /\ byEmail'[e] = b /\ \A d \in Emails \ {e} : byEmail'[d] = byEmail[d]
      /\ renamed \subseteq renamed' /\ (faults' = 0 => faults = 0)
    BY <1>1, UsersAreThere DEF Onward
<1>3. UserTyped'
    BY <1>1 DEF Invariant, Typed, UserTyped
<1>4. /\ Complete(i) /\ \E x \in issued : x[2] = i
      /\ i \notin renamed => byId[i].email = user[t].email
    BY DEF Invariant, Threaded, Held
<1>5. ASSUME NEW j \in Ids
      PROVE  /\ Complete(j) => Complete(j)'
             /\ j \notin renamed' => byId'[j].email = byId[j].email
    BY <1>2, <1>4 DEF Complete
<1>6. ASSUME renamed' = {}
      PROVE  renamed = {} /\ byEmail[byId[i].email].id = i /\ a.email = byId[i].email
    <2>1. renamed = {} /\ a.email = byId[i].email
        BY <1>2, <1>4, <1>6
    <2>2. PICK x \in issued : x[2] = i
        BY <1>4
    <2>3. FoundBothWays(x[1], i)
        BY <2>1, <2>2 DEF Invariant, IssuedFound, IssuedIdsFoundBothWays
    <2> QED BY <2>1, <2>3 DEF FoundBothWays
<1>7. ASSUME renamed' = {}, NEW d \in Emails, NEW j \in Ids, FoundBothWays(d, j)
      PROVE  FoundBothWays(d, j)'
    <2>1. byId'[j].email = d /\ byId'[j].id = j
        BY <1>2, <1>5, <1>7 DEF FoundBothWays
    <2>2. byEmail'[d].id = j
        BY <1>2, <1>6, <1>7 DEF FoundBothWays
    <2> QED BY <2>1, <2>2 DEF FoundBothWays
<1>8. ASSUME NEW d \in Emails, byEmail'[d] # NoUser
      PROVE  \/ /\ byEmail'[d] = byEmail[d] /\ byEmail[d] # NoUser
                /\ byEmail[d].id \in Ids /\ Complete(byEmail[d].id)
                /\ renamed = {} => byId[byEmail[d].id].email = d
                /\ faults = 0 => byEmail[d].email = d
             \/ d = e /\ byEmail'[d] = b /\ b # byEmail[e] /\ b.id = i /\ a.email = e
    BY <1>1, <1>2, <1>8, UsersAreThere DEF Invariant, Filed
<1>9. Filed'
    <2>1. ASSUME NEW j \in Ids, byId'[j] # NoUser
          PROVE  byId'[j].id = j /\ j <= lastId' /\ (faults' = 0 => byId'[j].email \in Emails)
        BY <1>2, <1>4, <2>1 DEF Invariant, Filed, Complete
    <2>2. ASSUME NEW d \in Emails, byEmail'[d] # NoUser
          PROVE  /\ byId'[byEmail'[d].id] # NoUser /\ byId'[byEmail'[d].id].email \in Emails
                 /\ renamed' = {} => byId'[byEmail'[d].id].email = d
                 /\ faults' = 0 => byEmail'[d].email = d
        <3>1. CASE /\ byEmail'[d] = byEmail[d] /\ byEmail[d] # NoUser
                   /\ byEmail[d].id \in Ids /\ Complete(byEmail[d].id)
                   /\ renamed = {} => byId[byEmail[d].id].email = d
                   /\ faults = 0 => byEmail[d].email = d
            <4>0. Complete(byEmail[d].id)'
                BY <1>5, <3>1
            <4>1. byId'[byEmail'[d].id] # NoUser /\ byId'[byEmail'[d].id].email \in Emails
                BY <3>1, <4>0 DEF Complete
            <4>2. renamed' = {} => byId'[byEmail'[d].id].email = d
                BY <1>5, <1>6, <3>1
            <4> QED BY <1>2, <3>1, <4>1, <4>2
        <3>2. CASE d = e /\ byEmail'[d] = b /\ b.id = i /\ a.email = e
            BY <1>2, <3>2 DEF Complete
        <3> QED BY <1>8, <2>2, <3>1, <3>2
    <2> QED BY <2>1, <2>2 DEF Filed, Complete
<1>10. SecretsKept'
    <2> SUFFICES ASSUME Clean', NEW d \in Emails, NEW raw \in Passwords,
                        byEmail'[d] # NoUser, byEmail'[d].password = Hashed(raw)
                 PROVE  <<d, byEmail'[d].id, raw>> \in secrets'
        BY DEF SecretsKept
    <2>0. Clean
        BY CleanBefore
    <2>1. CASE byEmail'[d] = byEmail[d] /\ byEmail[d] # NoUser
        BY <2>0, <2>1 DEF Invariant, SecretsKept
    <2>2. CASE d = e /\ byEmail'[d] = b /\ b # byEmail[e] /\ b.id = i /\ a.email = e
        <3>1. CASE byEmail[e] # NoUser /\ byEmail[e].password = b.password /\ faults' # 0
            <4>1. renamed' = {}
                BY <3>1 DEF Clean
            <4>2. byEmail[e].id = i
                BY <1>6, <2>2, <4>1
            <4>3. <<e, byEmail[e].id, raw>> \in secrets
                BY <2>0, <2>2, <3>1 DEF Invariant, SecretsKept
            <4> QED BY <2>2, <4>2, <4>3
        <3> QED BY <2>2, <3>1
    <2> QED BY <1>8, <2>1, <2>2
<1>11. StaleOnlyAfterRename'
    <2> SUFFICES ASSUME faults' = 0, NEW d \in Emails, byEmail'[d] # NoUser,
                        byEmail'[d].id \notin renamed'
                 PROVE  byId'[byEmail'[d].id] = byEmail'[d]
        BY DEF StaleOnlyAfterRename
    <2>1. CASE d = e
        <3>1. b.id = i
            BY <1>2, <2>1
        <3> QED BY <1>2, <2>1, <3>1
    <2>2. CASE d # e
        <3>1. byEmail'[d] = byEmail[d] /\ byEmail[d].id \in Ids /\ byEmail[d].id \notin renamed
            BY <1>1, <1>2, <2>2, UsersAreThere
        <3>2. byId[byEmail[d].id] = byEmail[d] /\ byEmail[d].email = d
            BY <1>2, <1>8, <3>1 DEF Invariant, StaleOnlyAfterRename, Filed
        <3>3. byEmail[d].id # i
            <4> SUFFICES ASSUME byEmail[d].id = i PROVE FALSE
                OBVIOUS
            <4>1. user[t].email = d
                BY <1>4, <3>1, <3>2
            <4>2. a.email = user[t].email /\ a.email = e
                BY <3>1
            <4> QED BY <2>2, <4>1, <4>2
        <3> QED BY <1>2, <3>1, <3>2, <3>3
    <2> QED BY <2>1, <2>2
<1>12. CopiesAgree'
    <2> SUFFICES ASSUME Undisturbed' PROVE SameCopies'
        BY DEF CopiesAgree
    <2>1. /\ renamed = {} /\ renamed' = {} /\ faults = 0 /\ faults' = 0
          /\ SameCopies
        BY <1>2 DEF Undisturbed, Invariant, CopiesAgree
    <2>2. a = b /\ a.email = e /\ byId[i].email = e /\ byEmail[e].id = i
        BY <1>6, <2>1
    <2>3. ASSUME NEW j \in Ids, byId'[j] # NoUser
          PROVE  byId'[j].id = j /\ byEmail'[byId'[j].email] = byId'[j]
        <3>1. CASE j = i
            BY <1>2, <2>2, <3>1
        <3>2. CASE j # i
            <4>1. byId'[j] = byId[j] /\ byId[j].email \in Emails
                BY <1>2, <2>1, <2>3, <3>2 DEF Invariant, Filed
            <4>2. byId[j].id = j /\ byEmail[byId[j].email] = byId[j]
                BY <2>1, <2>3, <4>1 DEF SameCopies
            <4>3. byId[j].email # e
                BY <2>2, <3>2, <4>2
            <4> QED BY <1>2, <4>1, <4>2, <4>3
        <3> QED BY <3>1, <3>2
    <2>4. ASSUME NEW d \in Emails, byEmail'[d] # NoUser
          PROVE  byEmail'[d].email = d /\ byId'[byEmail'[d].id] = byEmail'[d]
        <3>1. CASE d = e
            BY <1>2, <2>2, <3>1
        <3>2. CASE d # e
            <4>1. byEmail'[d] = byEmail[d] /\ byEmail[d].id \in Ids
                BY <1>1, <1>2, <2>4, <3>2, UsersAreThere
            <4>2. byEmail[d].email = d /\ byId[byEmail[d].id] = byEmail[d]
                BY <2>1, <2>4, <4>1 DEF SameCopies
            <4>3. byEmail[d].id # i
                BY <2>2, <3>2, <4>2
            <4> QED BY <1>2, <4>1, <4>2, <4>3
        <3> QED BY <3>1, <3>2
    <2> QED BY <2>3, <2>4 DEF SameCopies
<1>13. IssuedFound'
    <2> SUFFICES ASSUME NEW x \in issued
                 PROVE  Complete(x[2])' /\ (renamed' = {} => FoundBothWays(x[1], x[2])')
        BY DEF IssuedFound, IssuedIdsFoundBothWays, FoundBothWays, Complete
    <2>1. x[1] \in Emails /\ x[2] \in Ids /\ Complete(x[2])
        BY DEF Invariant, Typed, HistoryTyped, IssuedFound
    <2>2. renamed' = {} => FoundBothWays(x[1], x[2])
        BY <1>6 DEF Invariant, IssuedFound, IssuedIdsFoundBothWays
    <2>3. Complete(x[2])'
        BY <1>5, <2>1 DEF Complete
    <2>4. renamed' = {} => FoundBothWays(x[1], x[2])'
        BY <1>7, <2>1, <2>2 DEF FoundBothWays
    <2> QED BY <2>3, <2>4
<1>14. ASSUME NEW s \in Threads
       PROVE  (Placed(s) /\ Held(s) /\ Named(s) /\ Proven(s) /\ Pending(s))'
    <2>1. CASE s = t
        <3>1. Proven(s)' /\ Pending(s)'
            BY <2>1, CleanBefore DEF Invariant, Threaded, Proven, Pending
        <3> QED BY <2>1, <3>1, Idle
    <2>2. CASE s # t
        <3>1. Placed(s)' /\ Proven(s)' /\ Pending(s)'
            BY <2>2, OthersKept
        <3>2. /\ pc'[s] = pc[s] /\ user'[s] = user[s] /\ req'[s] = req[s]
              /\ user[s] \in Users \cup {NoUser}
            BY <2>2 DEF Alone, Invariant, Typed, LocalTyped
        <3>3. Held(s)'
            <4>0. Held(s)
                BY DEF Invariant, Threaded
            <4>1. CASE pc[s] = "change" /\ user[s] # NoUser
                <5>1. user[s].id \in Ids /\ Complete(user[s].id)
                    BY <3>2, <4>0, <4>1, UsersAreThere DEF Held
                <5>2. Complete(user[s].id)'
                    BY <1>5, <3>2, <5>1 DEF Complete
                <5> QED BY <1>2, <1>5, <3>2, <4>0, <5>1, <5>2 DEF Held
            <4>2. CASE ~(pc[s] = "change" /\ user[s] # NoUser)
                BY <3>2, <4>0, <4>2 DEF Held
            <4> QED BY <4>1, <4>2
        <3>4. Named(s)'
            <4>1. CASE pc[s] = "jwt"
                <5>1. /\ Complete(user[s].id) /\ req[s].email \in Emails /\ user[s].id \in Ids
                      /\ renamed = {} => FoundBothWays(req[s].email, user[s].id)
                    BY <4>1, UsersAreThere DEF Invariant, Threaded, Named, Placed
                <5>2. Complete(user[s].id)'
                    BY <1>5, <3>2, <5>1 DEF Complete
                <5>3. renamed' = {} => FoundBothWays(req[s].email, user[s].id)'
                    BY <1>6, <1>7, <3>2, <5>1 DEF FoundBothWays
                <5> QED BY <5>2, <5>3 DEF Named
            <4>2. CASE pc[s] # "jwt"
                BY <3>2, <4>2 DEF Named
            <4> QED BY <4>1, <4>2
        <3> QED BY <3>1, <3>3, <3>4
    <2> QED BY <2>1, <2>2
<1>15. Threaded'
    BY <1>14 DEF Threaded
<1> QED BY <1>3, <1>9, <1>10, <1>11, <1>12, <1>13, <1>15

(* What the history records of an update(). *)
LEMMA RecordedTyped ==
    ASSUME Invariant, NEW t \in Threads, NEW u \in Users, u.email \in Emails, Recorded(t, u)
    PROVE  /\ secrets \subseteq secrets' /\ secrets' \in SUBSET (Emails \X Ids \X Passwords)
           /\ renamed \subseteq renamed' /\ renamed' \in SUBSET Ids
           /\ \A raw \in Passwords :
                  byId'[u.id] = u /\ u.password = Hashed(raw) => <<u.email, u.id, raw>> \in secrets'
           /\ u.id \notin renamed' => byId'[u.id].email = user[t].email
<1>1. u.id \in Ids
    BY UsersAreThere
<1>2. {<<u.email, u.id, raw>> : raw \in {r \in Passwords : u.password = Hashed(r)}}
          \subseteq Emails \X Ids \X Passwords
    BY <1>1
<1> QED BY <1>1, <1>2 DEF Recorded, Invariant, Typed, HistoryTyped

LEMMA UpdateUserStep ==
    ASSUME Invariant, NEW t \in Threads, UpdateUser(t)
    PROVE  Invariant'
<1>1. /\ pc[t] = "change" /\ user[t] # NoUser /\ user[t] \in Users /\ user[t].email \in Emails
      /\ password[t] \in Passwords \cup {NoPassword}
      /\ Done(t)
      /\ UNCHANGED <<lastId, optionStorage, work, status, seen, login, issued, counters>>
    BY DEF UpdateUser, Busy, Invariant, Typed, LocalTyped, Threaded, Held
<1>2. PICK u \in Changed(user[t], password[t]) : Store(u) /\ Recorded(t, u)
    BY DEF UpdateUser
<1>3. u \in Users /\ u.id = user[t].id /\ u.id \in Ids /\ u.email \in Emails
    BY <1>1, ChangedTyped, UsersAreThere
<1>4. byId' = [byId EXCEPT ![u.id] = u] /\ byEmail' = [byEmail EXCEPT ![u.email] = u]
    BY <1>2 DEF Store
<1>5. byId'[u.id] = u
    BY <1>3, <1>4 DEF Invariant, Typed, UserTyped
<1>6. LocalTyped' /\ Alone(t) /\ pc'[t] = "idle" /\ user'[t] = NoUser
    BY <1>1, DoneTyped DEF Invariant, Typed, LocalTyped, Alone
<1>7. /\ secrets \subseteq secrets' /\ HistoryTyped' /\ Onward
      /\ \A raw \in Passwords : u.password = Hashed(raw) => <<u.email, u.id, raw>> \in secrets'
      /\ u.id \notin renamed' => u.email = user[t].email
    BY <1>1, <1>2, <1>3, <1>5, RecordedTyped
       DEF Invariant, Typed, HistoryTyped, Onward, counters
<1>8. /\ UserTyped' /\ Threaded' /\ Filed' /\ SecretsKept' /\ StaleOnlyAfterRename'
      /\ IssuedFound' /\ CopiesAgree'
    BY <1>1, <1>3, <1>4, <1>6, <1>7, ChangedEntries
<1>9. Typed'
    BY <1>1, <1>6, <1>7, <1>8
    DEF Invariant, Typed, LoginTyped, WorkTyped, OptionsTyped, CountersTyped,
        optionStorage, counters
<1> QED BY <1>8, <1>9 DEF Invariant

(* Whatever update() leaves when it throws. *)
LEMMA UpdateUserFailsStep ==
    ASSUME Invariant, NEW t \in Threads, UpdateUserFails(t)
    PROVE  Invariant'
<1>1. /\ pc[t] = "change" /\ user[t] # NoUser /\ user[t] \in Users /\ user[t].email \in Emails
      /\ Complete(user[t].id) /\ password[t] \in Passwords \cup {NoPassword}
      /\ Done(t)
      /\ UNCHANGED <<lastId, optionStorage, work, status, seen, login, issued, alive, requests>>
    BY DEF UpdateUserFails, Busy, Invariant, Typed, LocalTyped, Threaded, Held
<1>2. PICK u \in Changed(user[t], password[t]) : StoreThrows(u) /\ Recorded(t, u)
    BY DEF UpdateUserFails
<1>3. u \in Users /\ u.id = user[t].id /\ u.id \in Ids /\ u.email \in Emails
    BY <1>1, ChangedTyped, UsersAreThere
<1>4. /\ byId \in [Ids -> Users \cup {NoUser}]
      /\ byEmail \in [Emails -> Users \cup {NoUser}]
      /\ byId[u.id] \in Users /\ byId[u.id] # NoUser /\ byId[u.id].email \in Emails
    BY <1>1, <1>3 DEF Invariant, Typed, UserTyped, Complete
<1>5. faults' \in 0 .. MaxFaults /\ faults' # 0
    BY InMemoryAssumption DEF UpdateUserFails, Invariant, Typed, CountersTyped
<1>6. LocalTyped' /\ Alone(t) /\ pc'[t] = "idle" /\ user'[t] = NoUser
    BY <1>1, DoneTyped DEF Invariant, Typed, LocalTyped, Alone
<1>7. /\ secrets \subseteq secrets' /\ HistoryTyped' /\ Onward
      /\ \A raw \in Passwords :
             byId'[u.id] = u /\ u.password = Hashed(raw) => <<u.email, u.id, raw>> \in secrets'
      /\ u.id \notin renamed' => byId'[u.id].email = user[t].email
    BY <1>1, <1>2, <1>3, <1>5, RecordedTyped DEF Invariant, Typed, HistoryTyped, Onward
<1>8. PICK a \in Users, b \in Users \cup {NoUser} :
          /\ byId' = [byId EXCEPT ![u.id] = a] /\ byEmail' = [byEmail EXCEPT ![u.email] = b]
          /\ a.id = u.id /\ a.email \in Emails
          /\ \/ b = byEmail[u.email]
             \/ /\ b \in Users /\ b.id = u.id /\ a.email = u.email
                /\ \A raw \in Passwords : b.password = Hashed(raw) =>
                       byEmail[u.email] # NoUser /\ byEmail[u.email].password = b.password
    <2>1. CASE /\ \E entry \in HalfStored(byId[u.id], u) : byId' = [byId EXCEPT ![u.id] = entry]
               /\ UNCHANGED byEmail
        <3>1. PICK a \in HalfStored(byId[u.id], u) : byId' = [byId EXCEPT ![u.id] = a]
            BY <2>1
        <3>2. a \in Users /\ a.id = u.id /\ a.email \in {u.email, byId[u.id].email}
            BY <1>3, <1>4, HalfStoredTyped
        <3>3. /\ byEmail' = [byEmail EXCEPT ![u.email] = byEmail[u.email]]
              /\ byEmail[u.email] \in Users \cup {NoUser}
            BY <1>3, <1>4, <2>1
        <3> QED BY <1>3, <1>4, <3>1, <3>2, <3>3
    <2>2. CASE /\ byId' = [byId EXCEPT ![u.id] = u]
               /\ \E entry \in HalfStored(byEmail[u.email], u) :
                      byEmail' = [byEmail EXCEPT ![u.email] = entry]
        <3>1. PICK b \in HalfStored(byEmail[u.email], u) :
                  byEmail' = [byEmail EXCEPT ![u.email] = b]
            BY <2>2
        <3>2. byEmail[u.email] \in Users \cup {NoUser}
            BY <1>3, <1>4
        <3>3. \/ b = NoUser /\ b = byEmail[u.email]
              \/ /\ b \in Users /\ b.id = u.id
                 /\ byEmail[u.email] # NoUser => b.password = byEmail[u.email].password
                 /\ byEmail[u.email] = NoUser => b.password = NoHash
            BY <1>3, <3>2, HalfStoredTyped
        <3> QED BY <1>3, <2>2, <3>1, <3>3, HashesTyped
    <2> QED BY <1>2, <2>1, <2>2 DEF StoreThrows
<1>9. u.id \notin renamed' => a.email = user[t].email
    BY <1>3, <1>4, <1>7, <1>8
<1>10. /\ UserTyped' /\ Threaded' /\ Filed' /\ SecretsKept' /\ StaleOnlyAfterRename'
       /\ IssuedFound' /\ CopiesAgree'
    <2> DEFINE i == user[t].id
               e == u.email
    <2>1. i \in Ids /\ e \in Emails /\ u.id = i
        BY <1>3
    <2>2. byId' = [byId EXCEPT ![i] = a] /\ byEmail' = [byEmail EXCEPT ![e] = b]
        BY <1>8, <2>1
    <2>3. a.id = i /\ a.email \in Emails /\ (i \notin renamed' => a.email = user[t].email)
        BY <1>8, <1>9, <2>1
    <2>4. b = byEmail[e] \/ (b \in Users /\ b.id = i /\ a.email = e)
        BY <1>8, <2>1
    <2>5. \A raw \in Passwords : b # byEmail[e] /\ b.password = Hashed(raw) =>
              \/ <<e, i, raw>> \in secrets'
              \/ byEmail[e] # NoUser /\ byEmail[e].password = b.password /\ faults' # 0
        BY <1>5, <1>8
    <2>6. login'[t] = login[t] /\ work'[t] = work[t] /\ lastId' = lastId /\ issued' = issued
        BY <1>1
    <2>7. pc[t] = "change" /\ user[t] # NoUser
        BY <1>1
    <2> HIDE DEF e
    <2> QED BY <1>5, <1>6, <1>7, <2>1, <2>2, <2>3, <2>4, <2>5, <2>6, <2>7, ChangedEntries
<1>11. Typed'
    BY <1>1, <1>5, <1>6, <1>7, <1>10
    DEF Invariant, Typed, LoginTyped, WorkTyped, OptionsTyped, CountersTyped, optionStorage
<1> QED BY <1>10, <1>11 DEF Invariant

-----------------------------------------------------------------------------
(* The requests for plugin options. *)
LEMMA AuthenticateStep ==
    ASSUME Invariant, NEW t \in Threads, Authenticate(t)
    PROVE  Invariant'
<1>1. /\ pc[t] = "auth"
      /\ UNCHANGED <<userStorage, optionStorage, work, history, counters>>
    BY DEF Authenticate, Busy
<1>2. WorkTyped' /\ OptionsTyped' /\ HistoryTyped' /\ CountersTyped' /\ Pending(t)'
    BY <1>1 DEF Invariant, Typed, Threaded, WorkTyped, OptionsTyped, HistoryTyped,
                CountersTyped, Pending, optionStorage, history, counters
<1>3. IssuedFound' /\ Onward
    BY <1>1 DEF Invariant, IssuedFound, IssuedIdsFoundBothWays,
                FoundBothWays, Complete, Onward,
                userStorage, history, counters
<1>4. CASE Answer(t, "unauthorized")
    BY <1>1, <1>2, <1>3, <1>4, RowsTyped, ReplyStep
    DEF Answer, Outcomes, Failures, history
<1>5. CASE /\ Goto(t, IF req[t].kind = "post" THEN "find" ELSE "read")
           /\ UNCHANGED <<req, password, user, poKey, status, seen, login>>
    <2>1. /\ pc'[t] = IF req[t].kind = "post" THEN "find" ELSE "read"
          /\ req' = req /\ user' = user
        BY <1>5 DEF Invariant, Typed, LocalTyped, Goto
    <2>2. Placed(t)'
        BY <1>1, <2>1 DEF Invariant, Threaded, Placed, KeyOf, MakeUserNameKey
    <2>3. /\ user' \in [Threads -> Users \cup {NoUser}]
          /\ poKey' \in [Threads -> OptionKeys \cup {DefaultOptions.key}]
        BY <1>5 DEF Invariant, Typed, LocalTyped
    <2> QED BY <1>1, <1>2, <1>5, <2>1, <2>2, <2>3, NoCopy, MoveStep DEF Steps, counters
<1> QED BY <1>4, <1>5 DEF Authenticate

LEMMA GetOptionsStep ==
    ASSUME Invariant, NEW t \in Threads, GetOptions(t)
    PROVE  Invariant'
<1> DEFINE found == byUserIdAndName[KeyOf(t)]
<1>1. /\ pc[t] = "read"
      /\ UNCHANGED <<userStorage, optionStorage, work, history, counters>>
    BY DEF GetOptions, Busy
<1>2. WorkTyped' /\ OptionsTyped' /\ HistoryTyped' /\ CountersTyped' /\ Pending(t)'
    BY <1>1 DEF Invariant, Typed, Threaded, WorkTyped, OptionsTyped, HistoryTyped,
                CountersTyped, Pending, optionStorage, history, counters
<1>3. IssuedFound' /\ Onward
    BY <1>1 DEF Invariant, IssuedFound, IssuedIdsFoundBothWays,
                FoundBothWays, Complete, Onward,
                userStorage, history, counters
<1>4. found \in Options \cup {NoOptions}
    <2>1. KeyOf(t) \in Keys
        BY <1>1 DEF Invariant, Threaded, Placed
    <2>2. KeyOf(t) \in OptionKeys
        BY <2>1 DEF Keys, OptionKeys
    <2> QED BY <2>2 DEF Invariant, Typed, OptionsTyped
<1>5. found # NoOptions => found.row \in Rows
    BY <1>4 DEF Options
<1>6. PICK outcome \in {"notFound", "ok"}, row \in Rows : Reply(t, outcome, row)
    BY <1>5, RowsTyped DEF GetOptions, Answer
<1>7. outcome \in Outcomes
    BY DEF Outcomes, Successes
<1> HIDE DEF found
<1> QED BY <1>1, <1>2, <1>3, <1>6, <1>7, ReplyStep DEF history

LEMMA FindOptionsStep ==
    ASSUME Invariant, NEW t \in Threads, FindOptions(t)
    PROVE  Invariant'
<1> DEFINE key == IF byUserIdAndName[KeyOf(t)] = NoOptions THEN <<req[t].uid, req[t].plugin>>
                  ELSE byUserIdAndName[KeyOf(t)].key
<1>1. /\ pc[t] = "find" /\ work' = [work EXCEPT ![t] = BeginWork] /\ Goto(t, "update")
      /\ poKey' = [poKey EXCEPT ![t] = key]
      /\ UNCHANGED <<userStorage, optionStorage, req, password, user, status, seen, login,
                     history, counters>>
    BY DEF FindOptions, Busy
<1>2. OptionsTyped' /\ CountersTyped'
    BY <1>1 DEF Invariant, Typed, OptionsTyped, CountersTyped, optionStorage, counters
<1>3. key \in OptionKeys
    <2>1. KeyOf(t) \in Keys /\ KeyOf(t) = <<req[t].uid, req[t].plugin>>
        BY <1>1 DEF Invariant, Threaded, Placed, KeyOf, MakeUserNameKey
    <2>2. KeyOf(t) \in OptionKeys
        BY <2>1 DEF Keys, OptionKeys
    <2>3. byUserIdAndName[KeyOf(t)] \in Options \cup {NoOptions}
        BY <2>2 DEF Invariant, Typed, OptionsTyped
    <2> QED BY <2>1, <2>2, <2>3 DEF Options
<1> HIDE DEF key
<1>4. pc'[t] = "update" /\ poKey'[t] = key
    BY <1>1 DEF Invariant, Typed, LocalTyped, Goto
<1>5. Placed(t)' /\ Held(t)' /\ Named(t)'
    BY <1>1, <1>3, <1>4, NoCopy DEF Placed, Invariant, Threaded, KeyOf, MakeUserNameKey
<1>6. /\ WorkTyped' /\ Pending(t)'
      /\ \A s \in Threads \ {t} :
             user'[s] = user[s] /\ poKey'[s] = poKey[s] /\ work'[s] = work[s]
    BY <1>1, WorksTyped DEF Invariant, Typed, WorkTyped, LocalTyped, Pending
<1>7. /\ user' \in [Threads -> Users \cup {NoUser}]
      /\ poKey' \in [Threads -> OptionKeys \cup {DefaultOptions.key}]
    BY <1>1, <1>3 DEF Invariant, Typed, LocalTyped
<1> QED BY <1>1, <1>2, <1>5, <1>6, <1>7, MoveStep DEF Steps, counters

LEMMA NewOptionsTyped ==
    ASSUME Invariant, NEW t \in Threads, pc[t] = "update"
    PROVE  /\ NewOptions(t) \in Options /\ NewOptions(t).key = poKey[t]
           /\ KeyIn(NewOptions(t)) = poKey[t] /\ poKey[t] \in OptionKeys
<1>1. poKey[t] \in OptionKeys /\ RowOf(req[t].payload) \in Rows
    BY RowsTyped DEF Invariant, Threaded, Placed
<1> QED BY <1>1 DEF NewOptions, NewRow, Options, KeyIn, MakeUserNameKey, OptionKeys

(* What a throwing assignment of options leaves. *)
LEMMA HalfUpdatedTyped ==
    ASSUME NEW po \in Options, NEW entry \in Options \cup {NoOptions},
           NEW x \in HalfUpdated(entry, po)
    PROVE  \/ x = NoOptions /\ entry = NoOptions
           \/ /\ x \in Options /\ x.key[1] = po.key[1]
              /\ \/ x.key = po.key
                 \/ entry # NoOptions /\ x.key[2] = entry.key[2] /\ x.row = entry.row
                 \/ x.row = EmptyRow
<1> DEFINE old == IF entry = NoOptions THEN DefaultOptions ELSE entry
<1>1. /\ old.id = 0 /\ old.row \in Rows /\ old.key[2] \in Plugins \cup {NoPlugin}
      /\ old = [id |-> 0, key |-> old.key, row |-> old.row]
    BY RowsTyped DEF Options, DefaultOptions, OptionKeys
<1>2. po.key \in OptionKeys /\ po.key[1] \in Ids /\ po.row \in Rows /\ po.id = 0
    BY DEF Options, OptionKeys
<1>3. x \in {[old EXCEPT !.key = <<po.key[1], old.key[2]>>]}
              \cup {[po EXCEPT !.row.fields = fields] :
                        fields \in {old.row.fields, EmptyRow.fields}}
              \cup (IF entry = NoOptions THEN {NoOptions} ELSE {})
    BY DEF HalfUpdated
<1>4. CASE x = [old EXCEPT !.key = <<po.key[1], old.key[2]>>]
    <2>1. x = [id |-> 0, key |-> <<po.key[1], old.key[2]>>, row |-> old.row]
        BY <1>1, <1>4
    <2>2. <<po.key[1], old.key[2]>> \in OptionKeys
        BY <1>1, <1>2 DEF OptionKeys
    <2>3. x \in Options
        BY <1>1, <2>1, <2>2 DEF Options
    <2>4. entry = NoOptions => old.row = EmptyRow
        BY DEF DefaultOptions
    <2> QED BY <2>1, <2>3, <2>4
<1>5. CASE x \in {[po EXCEPT !.row.fields = fields] : fields \in {old.row.fields, EmptyRow.fields}}
    <2>1. PICK fields \in {old.row.fields, EmptyRow.fields} : x = [po EXCEPT !.row.fields = fields]
        BY <1>5
    <2>2. fields \in [FieldKeys -> Values]
        BY <1>1, RowsTyped DEF Rows
    <2> QED BY <1>2, <2>1, <2>2 DEF Options, Rows
<1>6. CASE x = NoOptions /\ entry = NoOptions
    BY <1>6
<1> QED BY <1>3, <1>4, <1>5, <1>6

LEMMA UpdateOptionsStep ==
    ASSUME Invariant, NEW t \in Threads, UpdateOptions(t)
    PROVE  Invariant'
<1>1. /\ pc[t] = "update"
      /\ optionsById' = NewOptions(t)
      /\ byUserIdAndName' = [byUserIdAndName EXCEPT ![KeyIn(NewOptions(t))] = NewOptions(t)]
      /\ work' = [work EXCEPT ![t] = CommitOf(work[t])]
      /\ Reply(t, "ok", EmptyRow)
      /\ UNCHANGED <<userStorage, history, counters>>
    BY DEF UpdateOptions, Busy, Answer
<1>2. OptionsTyped'
    BY <1>1, NewOptionsTyped DEF Invariant, Typed, OptionsTyped
<1>3. HistoryTyped' /\ CountersTyped'
    BY <1>1 DEF Invariant, Typed, HistoryTyped, CountersTyped, history, counters
<1>4. WorkTyped' /\ Pending(t)' /\ \A s \in Threads \ {t} : work'[s] = work[s]
    BY <1>1, WorksTyped DEF Invariant, Typed, WorkTyped, Pending
<1>5. IssuedFound' /\ Onward
    BY <1>1 DEF Invariant, IssuedFound, IssuedIdsFoundBothWays, FoundBothWays, Complete, Onward,
                userStorage, history, counters
<1> QED BY <1>1, <1>2, <1>3, <1>4, <1>5, RowsTyped, ReplyStep
        DEF Outcomes, Successes, history

LEMMA UpdateOptionsFailsStep ==
    ASSUME Invariant, NEW t \in Threads, UpdateOptionsFails(t)
    PROVE  Invariant'
<1> DEFINE po == NewOptions(t)
<1>1. /\ pc[t] = "update" /\ Thrown(t)
      /\ UNCHANGED <<userStorage, history, alive, requests>>
      /\ \/ /\ optionsById' \in HalfUpdated(optionsById, po)
            /\ UNCHANGED byUserIdAndName
         \/ /\ optionsById' = po
            /\ \E entry \in HalfUpdated(byUserIdAndName[KeyIn(po)], po) :
                   byUserIdAndName' = [byUserIdAndName EXCEPT ![KeyIn(po)] = entry]
    BY DEF UpdateOptionsFails, Busy
<1>2. po \in Options /\ KeyIn(po) \in OptionKeys
    BY <1>1, NewOptionsTyped
<1> HIDE DEF po
<1>3. OptionsTyped'
    <2>1. /\ \A x \in HalfUpdated(optionsById, po) : x \in Options \cup {NoOptions}
          /\ \A x \in HalfUpdated(byUserIdAndName[KeyIn(po)], po) : x \in Options \cup {NoOptions}
        BY <1>2, HalfUpdatedTyped DEF Invariant, Typed, OptionsTyped
    <2> QED BY <1>1, <1>2, <2>1 DEF Invariant, Typed, OptionsTyped
<1>4. HistoryTyped' /\ CountersTyped' /\ UserTyped'
    BY <1>1, ThrownLocally
    DEF Invariant, Typed, HistoryTyped, CountersTyped, UserTyped, history, userStorage
<1>5. IssuedFound' /\ Onward
    BY <1>1, ThrownLocally DEF Invariant, IssuedFound, IssuedIdsFoundBothWays, FoundBothWays,
                               Complete, Onward, userStorage, history
<1>6. Proven(t)'
    BY <1>1, <1>5, ThrownLocally, CleanBefore DEF Invariant, Threaded, Proven, history
<1> QED BY <1>1, <1>3, <1>4, <1>5, <1>6, ThrownLocally, QuietStep DEF Typed, history

LEMMA StutterStep == Invariant /\ UNCHANGED vars => Invariant'
<1> SUFFICES ASSUME Invariant, UNCHANGED vars PROVE Invariant'
    OBVIOUS
<1> USE DEF vars, userStorage, optionStorage, local, history, counters
<1>1. Typed'
    BY DEF Invariant, Typed, UserTyped, LocalTyped, LoginTyped, WorkTyped, OptionsTyped,
           HistoryTyped, CountersTyped
<1>2. ASSUME NEW t \in Threads
      PROVE  (Placed(t) /\ Held(t) /\ Named(t) /\ Proven(t) /\ Pending(t))'
    <2>1. Placed(t) /\ Held(t) /\ Named(t) /\ Proven(t) /\ Pending(t)
        BY DEF Invariant, Threaded
    <2>2. Placed(t)' /\ Held(t)'
        BY <2>1 DEF Placed, Held, Complete, KeyOf, MakeUserNameKey
    <2>3. Named(t)' /\ Proven(t)' /\ Pending(t)'
        BY <2>1 DEF Named, FoundBothWays, Complete, Proven, Clean, Pending
    <2> QED BY <2>2, <2>3
<1>3. Filed' /\ SecretsKept' /\ StaleOnlyAfterRename'
    BY DEF Invariant, Filed, Complete, SecretsKept, Clean, StaleOnlyAfterRename
<1>4. /\ IssuedFound'
      /\ CopiesAgree'
    BY DEF Invariant, IssuedFound, IssuedIdsFoundBothWays, FoundBothWays, Complete, CopiesAgree,
           SameCopies, Undisturbed
<1> QED BY <1>1, <1>2, <1>3, <1>4 DEF Invariant, Threaded

LEMMA StepInvariant == Invariant /\ [Next]_vars => Invariant'
<1> SUFFICES ASSUME Invariant, [Next]_vars PROVE Invariant'
    OBVIOUS
<1>1. ASSUME NEW t \in Threads, SignUpStep(t) PROVE Invariant'
    BY <1>1, HandleStep, FindByEmailStep, HashStep, AddStep, CreateJwtStep DEF SignUpStep
<1>2. ASSUME NEW t \in Threads, PluginStep(t) PROVE Invariant'
    BY <1>2, AuthenticateStep, GetOptionsStep, FindOptionsStep, UpdateOptionsStep
    DEF PluginStep
<1>3. ASSUME NEW t \in Threads, UserStep(t) PROVE Invariant'
    BY <1>3, LoginStep, LoginDiesStep, ReadUserStep, UpdateUserStep DEF UserStep
<1> QED BY <1>1, <1>2, <1>3, ReceiveStep, CallFailsStep, AddFailsStep, UpdateUserFailsStep,
           UpdateOptionsFailsStep, StutterStep
        DEF Next, Quiescent

THEOREM InvariantHolds == Spec => []Invariant
BY InitInvariant, StepInvariant, PTL DEF Spec

(* The storages, the requests and the units of work keep their types.      *)
THEOREM InMemoryTyped == Spec => []TypeOK
<1>1. Invariant => TypeOK
    BY DEF Invariant, Typed, UserTyped, LocalTyped, LoginTyped, WorkTyped, OptionsTyped,
           HistoryTyped, CountersTyped, Logins, Steps, TypeOK
<1> QED BY <1>1, InvariantHolds, PTL

(* The copies of a user agree until a call throws, or update() changes an  *)
(* email.                                                                  *)
THEOREM CopiesAgreeHolds == Spec => []CopiesAgree
<1>1. Invariant => CopiesAgree
    BY DEF Invariant
<1> QED BY <1>1, InvariantHolds, PTL

(* Wherever add() and update() throw, and whatever passwords change, an id *)
(* that a client holds is found both ways until an email changes.          *)
THEOREM IssuedIdsAreFound == Spec => []IssuedIdsFoundBothWays
<1>1. Invariant => IssuedIdsFoundBothWays
    BY DEF Invariant, IssuedFound
<1> QED BY <1>1, InvariantHolds, PTL

(* Until a call throws, findByEmail only returns something else than       *)
(* findById for a user that was renamed.                                   *)
THEOREM StaleOnlyAfterRenameHolds == Spec => []StaleOnlyAfterRename
<1>1. Invariant => StaleOnlyAfterRename
    BY DEF Invariant
<1> QED BY <1>1, InvariantHolds, PTL

(* Nobody logs in with a password that the account of that email and id    *)
(* never had, unless calls throw and emails change.                        *)
THEOREM LoginsAreProven == Spec => []LoginsProven
<1>1. Invariant => LoginsProven
    BY DEF Invariant, Threaded, Proven, LoginsProven
<1> QED BY <1>1, InvariantHolds, PTL

-----------------------------------------------------------------------------
(* How the unit of work of a thread ends. *)
Ends(t) ==
    work[t].active /\ ~work'[t].active =>
        (work'[t].committed <=> pc'[t] = "jwt" \/ status'[t] \in Successes)

LEMMA KeptWork ==
    ASSUME NEW t \in Threads, work'[t] = work[t]
    PROVE  Ends(t)
BY DEF Ends

LEMMA ReplyEnds ==
    ASSUME Invariant, NEW t \in Threads, NEW outcome \in Outcomes, NEW row \in Rows,
           Reply(t, outcome, row),
           work[t].active /\ ~work'[t].active => (work'[t].committed <=> outcome \in Successes)
    PROVE  Ends(t)
BY ReplyTyped DEF Ends, Invariant, Typed

LEMMA StepEnds ==
    ASSUME Invariant, NEW t \in Threads,
           Receive(t) \/ SignUpStep(t) \/ PluginStep(t) \/ UserStep(t) \/ CallFails(t)
               \/ AddFails(t) \/ UpdateUserFails(t) \/ UpdateOptionsFails(t)
    PROVE  \A s \in Threads : Ends(s)
<1>1. /\ work[t] \in Works /\ (work[t].active => ~work[t].committed)
      /\ work \in [Threads -> Works]
    BY DEF Invariant, Typed, WorkTyped, Threaded, Pending
<1>2. /\ "error" \notin Successes /\ "aborted" \notin Successes
      /\ "created" \in Successes /\ "ok" \in Successes
      /\ {"error", "aborted", "created", "ok"} \subseteq Outcomes
    BY DEF Outcomes, Successes, Failures
<1>3. CASE UNCHANGED work
    BY <1>3, KeptWork
<1>4. ASSUME NEW w, work' = [work EXCEPT ![t] = w], Ends(t)
      PROVE  \A s \in Threads : Ends(s)
    BY <1>1, <1>4, KeptWork
<1>5. CASE \/ Receive(t) \/ UserStep(t) \/ Handle(t) \/ CreateJwt(t)
           \/ PluginStep(t) /\ ~FindOptions(t) /\ ~UpdateOptions(t)
    <2>1. UNCHANGED work
        BY <1>5 DEF Receive, PluginStep, Authenticate, GetOptions, UserStep, Login, LoginDies,
                    ReadUser, UpdateUser, Handle, CreateJwt
    <2> QED BY <1>3, <2>1
<1>6. CASE FindOptions(t)
    <2>1. work' = [work EXCEPT ![t] = BeginWork]
        BY <1>6 DEF FindOptions
    <2> QED BY <1>1, <1>4, <2>1 DEF BeginWork, Ends
<1>7. CASE FindByEmail(t)
    <2>1. UNCHANGED work \/ work' = [work EXCEPT ![t] = BeginWork]
        BY <1>7 DEF FindByEmail
    <2> QED BY <1>1, <1>3, <1>4, <2>1 DEF BeginWork, Ends
<1>8. CASE Hash(t)
    <2>1. CASE work' = [work EXCEPT ![t] = BeginWork]
        BY <1>1, <1>4, <2>1 DEF BeginWork, Ends
    <2>2. CASE work' = [work EXCEPT ![t] = RollbackOf(BeginWork)] /\ Answer(t, "error")
        <3>1. ~work'[t].committed
            BY <1>1, <2>2 DEF RollbackOf, BeginWork
        <3> QED BY <1>2, <1>4, <2>2, <3>1, RowsTyped, ReplyEnds DEF Answer
    <2> QED BY <1>8, <2>1, <2>2 DEF Hash
<1>9. CASE Add(t)
    <2>1. CASE work' = [work EXCEPT ![t] = CommitOf(work[t])] /\ Goto(t, "jwt")
        <3>1. pc'[t] = "jwt"
            BY <2>1 DEF Invariant, Typed, LocalTyped, Goto
        <3>2. work[t].active => work'[t].committed
            BY <1>1, <2>1 DEF CommitOf
        <3> QED BY <1>4, <2>1, <3>1, <3>2 DEF Ends
    <2>2. CASE work' = [work EXCEPT ![t] = CommitOf(work[t])] /\ Answer(t, "created")
        <3>1. work[t].active => work'[t].committed
            BY <1>1, <2>2 DEF CommitOf
        <3> QED BY <1>2, <1>4, <2>2, <3>1, RowsTyped, ReplyEnds DEF Answer
    <2>3. CASE work' = [work EXCEPT ![t] = RollbackOf(work[t])] /\ Answer(t, "error")
        <3>1. work[t].active => ~work'[t].committed
            BY <1>1, <2>3 DEF RollbackOf
        <3> QED BY <1>2, <1>4, <2>3, <3>1, RowsTyped, ReplyEnds DEF Answer
    <2> QED BY <1>9, <2>1, <2>2, <2>3 DEF Add, AddNew, AddTaken, AfterError
<1>10. CASE UpdateOptions(t)
    <2>1. work' = [work EXCEPT ![t] = CommitOf(work[t])] /\ Answer(t, "ok")
        BY <1>10 DEF UpdateOptions
    <2>2. work[t].active => work'[t].committed
        BY <1>1, <2>1 DEF CommitOf
    <2> QED BY <1>2, <1>4, <2>1, <2>2, RowsTyped, ReplyEnds DEF Answer
<1>11. CASE Thrown(t)
    <2>1. work' = [work EXCEPT ![t].active = FALSE]
        BY <1>11 DEF Thrown
    <2>2. PICK outcome \in Failures : Reply(t, outcome, EmptyRow)
        BY <1>11, ThrownLocally
    <2>3. outcome \in Outcomes /\ outcome \notin Successes
        BY DEF Outcomes, Successes, Failures
    <2>4. work'[t].committed = work[t].committed
        BY <1>1, <2>1 DEF Works
    <2>5. \A s \in Threads \ {t} : Ends(s)
        BY <1>1, <2>1, KeptWork
    <2> QED BY <1>1, <2>1, <2>2, <2>3, <2>4, <2>5, RowsTyped, ReplyEnds
<1>12. CASE CallFails(t) \/ AddFails(t) \/ UpdateUserFails(t) \/ UpdateOptionsFails(t)
    BY <1>3, <1>11, <1>12 DEF CallFails, AddFails, UpdateUserFails, UpdateOptionsFails
<1> QED BY <1>5, <1>6, <1>7, <1>8, <1>9, <1>10, <1>12 DEF SignUpStep, PluginStep

(* A unit of work is committed exactly if its request succeeds: no handler *)
(* relies on a rollback, which would take nothing back.                    *)
THEOREM CommittedExactlyOnSuccessHolds == Spec => CommittedExactlyOnSuccess
<1>1. ASSUME Invariant, [Next]_vars PROVE [\A t \in Threads : Ends(t)]_vars
    <2>1. CASE UNCHANGED vars
        BY <2>1
    <2>2. CASE Next
        BY <1>1, <2>1, <2>2, StepEnds DEF Next, Quiescent
    <2> QED BY <1>1, <2>1, <2>2
<1>2. Invariant /\ [Next]_vars =>
          [\A t \in Threads :
               work[t].active /\ ~work'[t].active =>
                   (work'[t].committed <=> pc'[t] = "jwt" \/ status'[t] \in Successes)]_vars
    BY <1>1 DEF Ends
<1> QED BY <1>2, InvariantHolds, PTL DEF Spec, CommittedExactlyOnSuccess

-----------------------------------------------------------------------------
(* The refinement.  A thread makes only the calls of its kind of request;  *)
(* ids are given out without a gap, so the last one is in use; and options *)
(* are filed under their user and name, and are not empty, until a call    *)
(* throws.                                                                 *)
CallsOf(kind) ==
    CASE kind = "google"   -> {"handle", "lookup", "add", "jwt"}
      [] kind = "register" -> {"hash", "add"}
      [] kind = "post"     -> {"auth", "find", "update"}
      [] kind = "get"      -> {"auth", "read"}
      [] kind = "login"    -> {"verify"}
      [] kind = "update"   -> {"change"}
      [] OTHER             -> {"idle"}

Served(t) ==
    /\ pc[t] \in CallsOf(req[t].kind)
    /\ req[t].kind \in {"post", "get"} => \E x \in issued : x[2] = req[t].uid

(* The key of a thread's options is of the user that it serves, and the    *)
(* one it looked for until a call throws.                                  *)
Own(t) ==
    pc[t] = "update" =>
        /\ poKey[t][1] = req[t].uid
        /\ faults = 0 => poKey[t] = KeyOf(t)

LastFound ==
    Undisturbed => lastId = 0 \/ \E e \in Emails : byEmail[e].id = lastId

RowsFilled ==
    faults = 0 =>
        \A k \in Keys : byUserIdAndName[k] # NoOptions => byUserIdAndName[k].row # EmptyRow

(* OptionsOfTheirUser, for a name that was not assigned too. *)
OptionsFiled ==
    \A k \in OptionKeys :
        LET found == byUserIdAndName[k]
        IN  found # NoOptions =>
                /\ found.key[1] = k[1]
                /\ found.key[2] = k[2] \/ (faults > 0 /\ found.row = EmptyRow)

Serving ==
    /\ \A t \in Threads : Served(t) /\ Own(t)
    /\ LastFound /\ RowsFilled /\ OptionsFiled

Fails(t) == CallFails(t) \/ AddFails(t) \/ UpdateUserFails(t) \/ UpdateOptionsFails(t)

StepOf(t) ==
    Receive(t) \/ SignUpStep(t) \/ PluginStep(t) \/ UserStep(t) \/ Fails(t)

LEMMA KindsTyped ==
    ASSUME NEW r \in InMemoryRequests
    PROVE  /\ r = NoRequest <=> r.kind = "none"
           /\ r.kind \in AllKinds => r \in Requests
           /\ r.kind \in AllKinds \cup {"login", "update", "none"}
BY DEF InMemoryRequests, Requests, SignUps, Writes, Reads, NoRequest, AllKinds

LEMMA IdleServed ==
    ASSUME NEW t \in Threads, pc'[t] = "idle", req'[t] = NoRequest
    PROVE  Served(t)'
BY DEF Served, CallsOf, NoRequest

LEMMA DoneServed ==
    ASSUME LocalTyped, NEW t \in Threads, Done(t), \A s \in Threads : Served(s),
           issued \subseteq issued'
    PROVE  \A s \in Threads : Served(s)'
<1>1. /\ pc'[t] = "idle" /\ req'[t] = NoRequest
      /\ \A s \in Threads \ {t} : pc'[s] = pc[s] /\ req'[s] = req[s]
    BY DEF LocalTyped, Done, Goto
<1> QED BY <1>1, IdleServed DEF Served

LEMMA GotoServed ==
    ASSUME LocalTyped, NEW t \in Threads, NEW next \in CallsOf(req[t].kind), Goto(t, next),
           req' = req, \A s \in Threads : Served(s), issued \subseteq issued'
    PROVE  \A s \in Threads : Served(s)'
<1>1. /\ pc'[t] = next
      /\ \A s \in Threads \ {t} : pc'[s] = pc[s]
    BY DEF LocalTyped, Goto
<1> QED BY <1>1 DEF Served

LEMMA ReceiveServed ==
    ASSUME Invariant, Serving, NEW t \in Threads, Receive(t)
    PROVE  \A s \in Threads : Served(s)'
<1>0. LocalTyped
    BY DEF Invariant, Typed
<1>1. PICK r \in InMemoryRequests \ {NoRequest} :
          /\ r.kind \in {"post", "get", "update"} => \E x \in issued : x[2] = r.uid
          /\ req' = [req EXCEPT ![t] = r]
          /\ Goto(t, FirstStep(r.kind))
    BY DEF Receive
<1>2. /\ req'[t] = r /\ pc'[t] = FirstStep(r.kind) /\ issued' = issued
      /\ \A s \in Threads \ {t} : pc'[s] = pc[s] /\ req'[s] = req[s]
    BY <1>0, <1>1 DEF LocalTyped, Goto, Receive, history
<1>3. FirstStep(r.kind) \in CallsOf(r.kind)
    BY KindsTyped DEF FirstStep, CallsOf, AllKinds
<1> QED BY <1>1, <1>2, <1>3 DEF Serving, Served

LEMMA ServedStep ==
    ASSUME Invariant, Serving, NEW t \in Threads, StepOf(t)
    PROVE  \A s \in Threads : Served(s)'
<1>0. /\ LocalTyped /\ \A s \in Threads : Served(s)
      /\ pc[t] \in CallsOf(req[t].kind)
      /\ req[t].kind \in AllKinds \cup {"login", "update", "none"}
    BY KindsTyped DEF Invariant, Typed, LocalTyped, Serving, Served
<1> USE DEF CallsOf, AllKinds, Busy
<1>1. CASE Receive(t)
    BY <1>1, ReceiveServed
<1>2. CASE Handle(t) \/ FindByEmail(t) \/ Hash(t)
    BY <1>0, <1>2, GotoServed, DoneServed DEF Handle, FindByEmail, Hash, Answer, Reply, history
<1>3. CASE Add(t) \/ CreateJwt(t)
    BY <1>0, <1>3, GotoServed, DoneServed DEF Add, AddNew, AddTaken, CreateJwt, Answer, Reply
<1>4. CASE Authenticate(t) \/ GetOptions(t) \/ FindOptions(t) \/ UpdateOptions(t)
    BY <1>0, <1>4, GotoServed, DoneServed DEF Authenticate, GetOptions, FindOptions,
       UpdateOptions, Answer, Reply, history
<1>5. CASE Login(t) \/ UpdateUser(t)
    BY <1>0, <1>5, DoneServed DEF Login, LoginAs, UpdateUser, history
<1>6. CASE ReadUser(t)
    <2>1. Done(t) \/ (pc' = pc /\ req' = req)
        BY <1>6 DEF ReadUser
    <2> QED BY <1>0, <1>6, <2>1, DoneServed DEF ReadUser, Served, history
<1>7. CASE LoginDies(t)
    BY <1>7, IdleServed DEF LoginDies
<1>8. CASE Fails(t)
    BY <1>0, <1>8, DoneServed DEF Fails, CallFails, AddFails, UpdateUserFails,
       UpdateOptionsFails, Thrown, Answer, Reply, history
<1> QED
    BY <1>1, <1>2, <1>3, <1>4, <1>5, <1>6, <1>7, <1>8
       DEF StepOf, SignUpStep, PluginStep, UserStep

(* No fault and no change of an email is forgotten. *)
LEMMA UndisturbedBefore ==
    ASSUME Invariant, NEW t \in Threads, StepOf(t), Undisturbed'
    PROVE  Undisturbed /\ ~Fails(t)
<1>0. faults \in Nat
    BY InMemoryAssumption DEF Invariant, Typed, CountersTyped
<1>1. CASE Fails(t)
    BY <1>0, <1>1 DEF Fails, CallFails, AddFails, UpdateUserFails, UpdateOptionsFails, Thrown,
                      Undisturbed
<1>2. CASE Receive(t)
    BY <1>0, <1>1, <1>2 DEF Receive, history, Undisturbed
<1>3. ASSUME SignUpStep(t) \/ PluginStep(t) \/ UserStep(t)
      PROVE  faults' = faults /\ renamed \subseteq renamed'
    <2>1. CASE SignUpStep(t)
        BY <2>1 DEF SignUpStep, Handle, FindByEmail, Hash, Add, CreateJwt, history, counters
    <2>2. CASE PluginStep(t)
        BY <2>2 DEF PluginStep, Authenticate, GetOptions, FindOptions, UpdateOptions,
           history, counters
    <2>3. CASE UserStep(t)
        BY <2>3 DEF UserStep, Login, LoginDies, ReadUser, UpdateUser, Recorded, history, counters
    <2> QED BY <1>3, <2>1, <2>2, <2>3
<1> QED BY <1>0, <1>1, <1>2, <1>3 DEF StepOf, Undisturbed

(* Changing a password leaves the id under the email. *)
LEMMA UpdateKeepsIds ==
    ASSUME Invariant, NEW t \in Threads, UpdateUser(t), Undisturbed, Undisturbed'
    PROVE  \A e \in Emails : byEmail'[e].id = byEmail[e].id
<1>1. /\ pc[t] = "change" /\ user[t] # NoUser /\ user[t] \in Users /\ user[t].email \in Emails
      /\ password[t] \in Passwords \cup {NoPassword}
    BY DEF UpdateUser, Busy, Invariant, Typed, LocalTyped, Threaded, Held
<1>2. PICK u \in Changed(user[t], password[t]) : Store(u) /\ Recorded(t, u)
    BY DEF UpdateUser
<1>3. u \in Users /\ u.id = user[t].id /\ u.id \in Ids /\ u.email \in Emails
    BY <1>1, <1>2, ChangedTyped, UsersAreThere
<1>4. u.email = user[t].email
    <2>1. byId'[u.id] = u
        BY <1>2, <1>3 DEF Store, Invariant, Typed, UserTyped
    <2> QED BY <1>2, <1>3, <2>1, RecordedTyped DEF Undisturbed
<1>5. byEmail[u.email].id = u.id
    <2>1. byId[u.id] # NoUser /\ byId[u.id].email = u.email
        BY <1>1, <1>3, <1>4 DEF Invariant, Threaded, Held, Complete, Undisturbed
    <2> QED BY <1>3, <2>1 DEF Invariant, CopiesAgree, SameCopies
<1>6. byEmail' = [byEmail EXCEPT ![u.email] = u]
    BY <1>2 DEF Store
<1> QED BY <1>5, <1>6 DEF Invariant, Typed, UserTyped

(* A new account gets the next id. *)
LEMMA AddGivesNextId ==
    ASSUME Invariant, Serving, NEW t \in Threads, Add(t), ~Taken(req[t].email), Undisturbed
    PROVE  /\ req[t].email \in Emails /\ byEmail[req[t].email].id = 0
           /\ lastId' = lastId + 1 /\ lastId + 1 \in Ids
           /\ \A e \in Emails : byEmail[e].id <= lastId
           /\ lastId = 0 \/ \E e \in Emails : byEmail[e].id = lastId
           /\ \A e \in Emails : byEmail'[e].id =
                  IF e = req[t].email THEN lastId + 1 ELSE byEmail[e].id
<1> DEFINE u == NewUser(t, GenerateId)
<1>1. pc[t] = "add" /\ u.id \in Ids /\ lastId' = lastId + 1
      /\ byEmail' = [byEmail EXCEPT ![u.email] = u]
    BY DEF Add, Busy, AddNew, GenerateId, StoreNew, CopyForEmail
<1>2. u \in Users /\ u.id = lastId + 1 /\ u.email = req[t].email
    BY <1>1, NewUserTyped
<1> HIDE DEF u
<1>3. req[t].email \in Emails /\ byEmail[req[t].email] = NoUser
    BY <1>1 DEF Taken, Invariant, Threaded, Placed
<1>4. ASSUME NEW e \in Emails
      PROVE  byEmail[e].id <= lastId
    <2>1. lastId \in Nat
        BY DataAssumption DEF Invariant, Typed, UserTyped
    <2>2. CASE byEmail[e] = NoUser
        BY <2>1, <2>2 DEF NoUser
    <2>3. CASE byEmail[e] # NoUser
        <3>1. byEmail[e] \in Users /\ byEmail[e].id \in Ids
            BY <2>3, UsersAreThere DEF Invariant, Typed, UserTyped
        <3>2. byId[byEmail[e].id] # NoUser
            BY <2>3 DEF Invariant, Filed, Complete
        <3> QED BY <3>1, <3>2 DEF Invariant, Filed
    <2> QED BY <2>2, <2>3
<1>5. lastId = 0 \/ \E e \in Emails : byEmail[e].id = lastId
    BY DEF Serving, LastFound
<1>6. byEmail \in [Emails -> Users \cup {NoUser}]
    BY DEF Invariant, Typed, UserTyped
<1> QED BY <1>1, <1>2, <1>3, <1>4, <1>5, <1>6 DEF NoUser

(* What can be found by email, until a fault or another email. *)
LEMMA IdsStep ==
    ASSUME Invariant, NEW t \in Threads, StepOf(t), Undisturbed'
    PROVE  \/ /\ \A e \in Emails : byEmail'[e].id = byEmail[e].id
              /\ lastId' = lastId
           \/ Add(t) /\ ~Taken(req[t].email)
<1>0. Undisturbed /\ ~Fails(t)
    BY UndisturbedBefore
<1>1. CASE Receive(t)
    BY <1>1 DEF Receive, userStorage
<1>2. CASE SignUpStep(t)
    BY <1>2 DEF SignUpStep, Handle, FindByEmail, Hash, Add, AddTaken, CreateJwt, userStorage
<1>3. CASE PluginStep(t)
    BY <1>3 DEF PluginStep, Authenticate, GetOptions, FindOptions, UpdateOptions, userStorage
<1>4. CASE UserStep(t)
    BY <1>0, <1>4, UpdateKeepsIds DEF UserStep, Login, LoginDies, ReadUser, UpdateUser,
       userStorage
<1> QED BY <1>0, <1>1, <1>2, <1>3, <1>4 DEF StepOf

LEMMA LastFoundStep ==
    ASSUME Invariant, Serving, NEW t \in Threads, StepOf(t)
    PROVE  LastFound'
<1> SUFFICES ASSUME Undisturbed'
             PROVE  lastId' = 0 \/ \E e \in Emails : byEmail'[e].id = lastId'
    BY DEF LastFound
<1>1. Undisturbed
    BY UndisturbedBefore
<1>2. CASE Add(t) /\ ~Taken(req[t].email)
    BY <1>1, <1>2, AddGivesNextId
<1>3. CASE /\ \A e \in Emails : byEmail'[e].id = byEmail[e].id
           /\ lastId' = lastId
    BY <1>1, <1>3 DEF Serving, LastFound
<1> QED BY <1>2, <1>3, IdsStep

(* The options change by a POST only. *)
LEMMA OptionsStep ==
    ASSUME Invariant, NEW t \in Threads, StepOf(t)
    PROVE  UNCHANGED optionStorage \/ UpdateOptions(t) \/ UpdateOptionsFails(t)
<1>1. CASE Receive(t)
    BY <1>1 DEF Receive
<1>2. CASE SignUpStep(t)
    BY <1>2 DEF SignUpStep, Handle, FindByEmail, Hash, Add, CreateJwt
<1>3. CASE PluginStep(t)
    BY <1>3 DEF PluginStep, Authenticate, GetOptions, FindOptions
<1>4. CASE UserStep(t)
    BY <1>4 DEF UserStep, Login, LoginDies, ReadUser, UpdateUser
<1>5. CASE Fails(t)
    BY <1>5 DEF Fails, CallFails, AddFails, UpdateUserFails
<1> QED BY <1>1, <1>2, <1>3, <1>4, <1>5 DEF StepOf

(* What update() of the options writes, and where. *)
LEMMA NewRowFilled ==
    ASSUME Invariant, Serving, NEW t \in Threads, pc[t] = "update"
    PROVE  /\ NewOptions(t).key = poKey[t] /\ KeyIn(NewOptions(t)) = poKey[t]
           /\ poKey[t] \in OptionKeys /\ KeyOf(t) \in Keys
           /\ faults = 0 => poKey[t] = KeyOf(t)
           /\ NewOptions(t).row = RowOf(req[t].payload)
           /\ NewOptions(t).row # EmptyRow /\ NewOptions(t) # NoOptions
<1>1. KeyOf(t) \in Keys /\ req[t].payload \in Payloads
    BY DEF Invariant, Threaded, Placed
<1>2. RowOf(req[t].payload) # EmptyRow
    BY <1>1, DataAssumption DEF RowOf, EmptyRow
<1>3. faults = 0 => poKey[t] = KeyOf(t)
    BY DEF Serving, Own
<1> QED BY <1>1, <1>2, <1>3, NewOptionsTyped DEF NewOptions, NewRow, NoOptions

LEMMA FaultsGoOn ==
    ASSUME Invariant, NEW t \in Threads, StepOf(t)
    PROVE  faults \in Nat /\ faults' \in {faults, faults + 1}
<1>1. faults \in Nat
    BY InMemoryAssumption DEF Invariant, Typed, CountersTyped
<1>2. CASE SignUpStep(t)
    BY <1>1, <1>2 DEF SignUpStep, Handle, FindByEmail, Hash, Add, CreateJwt, counters
<1>3. CASE PluginStep(t)
    BY <1>1, <1>3 DEF PluginStep, Authenticate, GetOptions, FindOptions, UpdateOptions, counters
<1>4. CASE UserStep(t)
    BY <1>1, <1>4 DEF UserStep, Login, LoginDies, ReadUser, UpdateUser, counters
<1>5. CASE Receive(t)
    BY <1>1, <1>5 DEF Receive
<1>6. CASE Fails(t)
    BY <1>1, <1>6 DEF Fails, CallFails, AddFails, UpdateUserFails, UpdateOptionsFails, Thrown
<1> QED BY <1>1, <1>2, <1>3, <1>4, <1>5, <1>6 DEF StepOf

LEMMA RowsStep ==
    ASSUME Invariant, Serving, NEW t \in Threads, StepOf(t)
    PROVE  RowsFilled' /\ OptionsFiled'
<1>1. /\ RowsFilled /\ OptionsFiled
      /\ byUserIdAndName \in [OptionKeys -> Options \cup {NoOptions}]
      /\ \A k \in Keys : k \in OptionKeys
    BY DEF Serving, Invariant, Typed, OptionsTyped, Keys, OptionKeys
<1>2. faults \in Nat /\ (faults' = 0 => faults = 0) /\ (faults > 0 => faults' > 0)
    BY FaultsGoOn
<1>3. CASE UNCHANGED optionStorage
    BY <1>1, <1>2, <1>3 DEF RowsFilled, OptionsFiled, optionStorage
<1>4. CASE UpdateOptions(t)
    <2> DEFINE po == NewOptions(t)
    <2>1. /\ byUserIdAndName' = [byUserIdAndName EXCEPT ![KeyIn(po)] = po]
          /\ pc[t] = "update" /\ po # NoOptions /\ po.row # EmptyRow
          /\ KeyIn(po) = po.key /\ KeyIn(po) \in OptionKeys
        BY <1>4, NewRowFilled DEF UpdateOptions, Busy
    <2> HIDE DEF po
    <2>2. RowsFilled'
        BY <1>1, <1>2, <2>1 DEF RowsFilled
    <2>3. OptionsFiled'
        BY <1>1, <1>2, <2>1 DEF OptionsFiled
    <2> QED BY <2>2, <2>3
<1>5. CASE UpdateOptionsFails(t)
    <2> DEFINE po == NewOptions(t)
    <2>1. /\ pc[t] = "update" /\ po \in Options /\ KeyIn(po) = po.key /\ KeyIn(po) \in OptionKeys
        BY <1>5, NewOptionsTyped DEF UpdateOptionsFails, Busy
    <2>2. faults' > 0
        BY <1>2, <1>5 DEF UpdateOptionsFails, Thrown
    <2>3. \/ byUserIdAndName' = byUserIdAndName
          \/ \E entry \in HalfUpdated(byUserIdAndName[KeyIn(po)], po) :
                 byUserIdAndName' = [byUserIdAndName EXCEPT ![KeyIn(po)] = entry]
        BY <1>5 DEF UpdateOptionsFails
    <2> HIDE DEF po
    <2>4. RowsFilled'
        BY <2>2 DEF RowsFilled
    <2>5. CASE byUserIdAndName' = byUserIdAndName
        <3> SUFFICES ASSUME NEW k \in OptionKeys, byUserIdAndName'[k] # NoOptions
                     PROVE  /\ byUserIdAndName'[k].key[1] = k[1]
                            /\ \/ byUserIdAndName'[k].key[2] = k[2]
                               \/ faults' > 0 /\ byUserIdAndName'[k].row = EmptyRow
            BY <2>4 DEF OptionsFiled
        <3> QED BY <1>1, <2>2, <2>5 DEF OptionsFiled
    <2>6. ASSUME NEW entry \in HalfUpdated(byUserIdAndName[KeyIn(po)], po),
                 byUserIdAndName' = [byUserIdAndName EXCEPT ![KeyIn(po)] = entry]
          PROVE  OptionsFiled'
        <3> DEFINE k == KeyIn(po)
        <3>0. k \in OptionKeys /\ po.key = k /\ byUserIdAndName[k] \in Options \cup {NoOptions}
            BY <1>1, <2>1
        <3>1. entry # NoOptions =>
                  entry.key[1] = k[1] /\ (entry.key[2] = k[2] \/ entry.row = EmptyRow)
            <4>1. byUserIdAndName[k] # NoOptions =>
                      \/ byUserIdAndName[k].key[2] = k[2]
                      \/ byUserIdAndName[k].row = EmptyRow
                BY <1>1, <3>0 DEF OptionsFiled
            <4>2. \/ entry = NoOptions
                  \/ /\ entry.key[1] = po.key[1]
                     /\ \/ entry.key = po.key
                        \/ /\ byUserIdAndName[k] # NoOptions
                           /\ entry.key[2] = byUserIdAndName[k].key[2]
                           /\ entry.row = byUserIdAndName[k].row
                        \/ entry.row = EmptyRow
                BY <2>1, <3>0, HalfUpdatedTyped
            <4> QED BY <3>0, <4>1, <4>2
        <3>2. byUserIdAndName'[k] = entry
            BY <1>1, <2>6, <3>0
        <3>3. \A j \in OptionKeys \ {k} : byUserIdAndName'[j] = byUserIdAndName[j]
            BY <1>1, <2>6, <3>0
        <3> HIDE DEF k
        <3> QED BY <1>1, <2>2, <3>1, <3>2, <3>3 DEF OptionsFiled
    <2> QED BY <2>3, <2>4, <2>5, <2>6
<1> QED BY <1>3, <1>4, <1>5, OptionsStep

LEMMA OwnStep ==
    ASSUME Invariant, Serving, NEW t \in Threads, StepOf(t)
    PROVE  \A s \in Threads : Own(s)'
<1>0. /\ LocalTyped /\ (faults' = 0 => faults = 0) /\ \A s \in Threads : Own(s)
    BY FaultsGoOn DEF Invariant, Typed, Serving
<1>1. ASSUME NEW s \in Threads, UNCHANGED <<pc[s], req[s], poKey[s]>> \/ pc'[s] # "update"
      PROVE  Own(s)'
    BY <1>0, <1>1 DEF Own, KeyOf, MakeUserNameKey
<1>2. CASE FindOptions(t)
    <2> DEFINE found == byUserIdAndName[KeyOf(t)]
    <2>1. /\ pc[t] = "find" /\ req' = req /\ Goto(t, "update") /\ UNCHANGED counters
          /\ poKey' = [poKey EXCEPT ![t] = IF found = NoOptions THEN <<req[t].uid, req[t].plugin>>
                                           ELSE found.key]
        BY <1>2 DEF FindOptions, Busy
    <2>2. KeyOf(t) \in OptionKeys /\ KeyOf(t) = <<req[t].uid, req[t].plugin>>
        BY <2>1 DEF Invariant, Threaded, Placed, KeyOf, MakeUserNameKey, Keys, OptionKeys
    <2>3. found # NoOptions =>
              /\ found.key[1] = req[t].uid
              /\ faults = 0 => found.key[2] = req[t].plugin
        BY <2>2 DEF Serving, OptionsFiled
    <2>4. found # NoOptions => found.key = <<found.key[1], found.key[2]>>
        <3>1. found \in Options \cup {NoOptions}
            BY <2>2 DEF Invariant, Typed, OptionsTyped
        <3> QED BY <3>1 DEF Options, OptionKeys
    <2>5. poKey'[t] = IF found = NoOptions THEN <<req[t].uid, req[t].plugin>> ELSE found.key
        BY <1>0, <2>1 DEF LocalTyped
    <2> HIDE DEF found
    <2>6. Own(t)'
        BY <1>0, <2>1, <2>2, <2>3, <2>4, <2>5 DEF Own, KeyOf, MakeUserNameKey, counters
    <2>7. \A s \in Threads \ {t} : UNCHANGED <<pc[s], req[s], poKey[s]>>
        BY <1>0, <2>1 DEF LocalTyped, Goto
    <2> QED BY <1>1, <2>6, <2>7
<1>3. CASE LoginDies(t)
    BY <1>1, <1>3 DEF LoginDies
<1>4. CASE ~FindOptions(t) /\ ~LoginDies(t)
    <2>1. /\ \A s \in Threads \ {t} : UNCHANGED <<pc[s], req[s], poKey[s]>>
          /\ UNCHANGED <<pc[t], req[t], poKey[t]>> \/ pc'[t] # "update"
        <3>0. \A k : FirstStep(k) # "update"
            BY DEF FirstStep
        <3>1. CASE Receive(t)
            BY <1>0, <3>0, <3>1 DEF Receive, LocalTyped, Goto
        <3>2. CASE SignUpStep(t)
            BY <1>0, <3>2 DEF SignUpStep, Handle, FindByEmail, Hash, Add, AddNew, AddTaken,
               CreateJwt, Answer, Reply, Done, LocalTyped, Goto
        <3>3. CASE PluginStep(t)
            BY <1>0, <1>4, <3>3 DEF PluginStep, Authenticate, GetOptions, UpdateOptions,
               Answer, Reply, Done, LocalTyped, Goto
        <3>4. CASE UserStep(t)
            BY <1>0, <1>4, <3>4 DEF UserStep, Login, LoginAs, ReadUser, UpdateUser, Done,
               LocalTyped, Goto
        <3>5. CASE Fails(t)
            BY <1>0, <3>5 DEF Fails, CallFails, AddFails, UpdateUserFails, UpdateOptionsFails,
               Thrown, Answer, Reply, Done, LocalTyped, Goto
        <3> QED BY <3>1, <3>2, <3>3, <3>4, <3>5 DEF StepOf
    <2> QED BY <1>1, <2>1
<1> QED BY <1>2, <1>3, <1>4

LEMMA ServingStep == Invariant /\ Serving /\ [Next]_vars => Serving'
<1> SUFFICES ASSUME Invariant, Serving, [Next]_vars PROVE Serving'
    OBVIOUS
<1>1. CASE UNCHANGED vars
    BY <1>1 DEF Serving, Served, Own, KeyOf, MakeUserNameKey, LastFound, Undisturbed,
       RowsFilled, OptionsFiled, vars, userStorage, optionStorage, local, history, counters
<1>2. ASSUME NEW t \in Threads, StepOf(t)
      PROVE  Serving'
    BY <1>2, ServedStep, OwnStep, LastFoundStep, RowsStep DEF Serving
<1> QED BY <1>1, <1>2 DEF Next, StepOf, Fails, Quiescent

LEMMA ServingHolds == Spec => []Serving
<1>1. Init => Serving
    BY DEF Init, Serving, Served, Own, CallsOf, NoRequest, LastFound, RowsFilled,
       OptionsFiled, Keys, OptionKeys
<1> QED BY <1>1, ServingStep, InvariantHolds, PTL DEF Spec

(* A user never finds somebody else's options, wherever update() throws;   *)
(* until it does, nobody finds those of another name either.               *)
THEOREM OptionsAreTheirUsers == Spec => []OptionsOfTheirUser
<1>1. Serving => OptionsOfTheirUser
    BY DEF Serving, OptionsFiled, OptionsOfTheirUser, MakeUserNameKey, Keys, OptionKeys
<1> QED BY <1>1, ServingHolds, PTL

-----------------------------------------------------------------------------
(* The state that AtomicStore sees. *)
accounts == [e \in Emails |-> byEmail[e].id]
rows == [k \in Keys |-> IF byUserIdAndName[k] = NoOptions THEN EmptyRow
                        ELSE byUserIdAndName[k].row]
waiting == [t \in Threads |-> IF req[t].kind \in AllKinds THEN req[t] ELSE NoRequest]
answered ==
    [t \in Threads |->
        IF req[t].kind \in AllKinds THEN [outcome |-> "pending", row |-> EmptyRow]
                                    ELSE [outcome |-> status[t], row |-> seen[t]]]

LEMMA SameData ==
    /\ Atomic!Requests = Requests /\ Atomic!NoRequest = NoRequest
    /\ Atomic!Ids = Ids /\ Atomic!Keys = Keys
    /\ Atomic!EmptyRow = EmptyRow /\ Atomic!Failures = Failures
    /\ \A p : Atomic!RowOf(p) = RowOf(p)
    /\ \A users, id : Atomic!IsUser(users, id) <=> IsUser(users, id)
    /\ \A users, id : Atomic!NextRowid(users, id) <=> NextRowid(users, id)
BY DEF Atomic!Requests, Requests, Atomic!SignUps, SignUps, Atomic!Writes, Writes,
       Atomic!Reads, Reads, Atomic!NoRequest, NoRequest, Atomic!Ids, Ids, Atomic!Keys, Keys,
       Atomic!EmptyRow, EmptyRow, Atomic!Failures, Failures, Atomic!RowOf, RowOf,
       Atomic!IsUser, IsUser, Atomic!NextRowid, NextRowid

AtomicStep == [Atomic!Next]_(Atomic!vars)

LEMMA SilentStep ==
    ASSUME accounts' = accounts, rows' = rows, issued' = issued,
           waiting' = waiting, answered' = answered
    PROVE  AtomicStep
BY DEF AtomicStep, Atomic!vars, accounts, rows, waiting, answered

(* What a reply does to what AtomicStore sees, and how it is seen there. *)
Replies(t, outcome, row) ==
    /\ waiting' = [waiting EXCEPT ![t] = NoRequest]
    /\ answered' = [answered EXCEPT ![t] = [outcome |-> outcome, row |-> row]]

LEMMA AtomicReply ==
    ASSUME NEW t \in Threads, NEW outcome, NEW row
    PROVE  Atomic!Reply(t, outcome, row) <=> Replies(t, outcome, row)
BY SameData DEF Atomic!Reply, Replies, waiting, answered

LEMMA ReplySeen ==
    ASSUME LocalTyped, NEW t \in Threads, NEW outcome, NEW row, Reply(t, outcome, row)
    PROVE  Replies(t, outcome, row)
<1>1. /\ req' = [req EXCEPT ![t] = NoRequest]
      /\ status' = [status EXCEPT ![t] = outcome]
      /\ seen' = [seen EXCEPT ![t] = row]
    BY DEF Reply, Done
<1>2. /\ DOMAIN req = Threads /\ DOMAIN status = Threads /\ DOMAIN seen = Threads
      /\ req = [s \in Threads |-> req[s]] /\ status = [s \in Threads |-> status[s]]
      /\ seen = [s \in Threads |-> seen[s]]
    BY DEF LocalTyped
<1>3. NoRequest.kind \notin AllKinds
    BY DEF NoRequest, AllKinds
<1>4. waiting' = [waiting EXCEPT ![t] = NoRequest]
    BY <1>1, <1>2, <1>3 DEF waiting
<1>5. answered' = [answered EXCEPT ![t] = [outcome |-> outcome, row |-> row]]
    BY <1>1, <1>2, <1>3 DEF answered
<1> QED BY <1>4, <1>5 DEF Replies

(* A request that is none of AtomicStore's ends unseen. *)
LEMMA DoneUnseen ==
    ASSUME LocalTyped, NEW t \in Threads, Done(t), req[t].kind \notin AllKinds,
           status' = status, seen' = seen
    PROVE  waiting' = waiting /\ answered' = answered
<1>1. /\ req'[t].kind \notin AllKinds
      /\ \A s \in Threads \ {t} : req'[s] = req[s]
    BY DEF Done, LocalTyped, NoRequest, AllKinds
<1> QED BY <1>1 DEF waiting, answered

LEMMA SameRequests ==
    ASSUME req' = req, status' = status, seen' = seen
    PROVE  waiting' = waiting /\ answered' = answered
BY DEF waiting, answered

LEMMA SameStorages ==
    /\ UNCHANGED userStorage => accounts' = accounts
    /\ UNCHANGED optionStorage => rows' = rows
BY DEF userStorage, optionStorage, accounts, rows

(* The request of a thread, as AtomicStore has it. *)
LEMMA ServedSeen ==
    ASSUME Invariant, Serving, NEW t \in Threads
    PROVE  /\ req[t].kind \in AllKinds => waiting[t] = req[t] /\ waiting[t] # NoRequest
           /\ pc[t] \in CallsOf(req[t].kind)
           /\ req[t].kind \in AllKinds \cup {"login", "update", "none"}
           /\ Undisturbed /\ req[t].kind \in {"post", "get"} => IsUser(accounts, req[t].uid)
<1>1. req[t] \in InMemoryRequests
    BY DEF Invariant, Typed, LocalTyped
<1>2. /\ req[t].kind \in AllKinds => req[t] # NoRequest
      /\ req[t].kind \in AllKinds \cup {"login", "update", "none"}
    BY <1>1, KindsTyped DEF AllKinds
<1>3. ASSUME Undisturbed, req[t].kind \in {"post", "get"}
      PROVE  IsUser(accounts, req[t].uid)
    <2>1. PICK x \in issued : x[2] = req[t].uid
        BY <1>3 DEF Serving, Served
    <2>2. x[1] \in Emails /\ x[2] \in Ids
        BY DEF Invariant, Typed, HistoryTyped
    <2>3. byEmail[x[1]].id = x[2]
        BY <1>3 DEF Undisturbed, Invariant, IssuedFound, IssuedIdsFoundBothWays, FoundBothWays
    <2> QED BY <2>1, <2>2, <2>3, DataAssumption DEF IsUser, accounts, Ids
<1> QED BY <1>2, <1>3 DEF waiting, Serving, Served

LEMMA FailSeen ==
    ASSUME Invariant, Serving, NEW t \in Threads, req[t].kind \in AllKinds,
           NEW outcome \in Failures, Answer(t, outcome),
           UNCHANGED <<userStorage, optionStorage, issued>>
    PROVE  AtomicStep
<1>1. Replies(t, outcome, EmptyRow)
    BY ReplySeen DEF Answer, Invariant, Typed
<1>2. waiting[t] # NoRequest /\ accounts' = accounts /\ rows' = rows
    BY ServedSeen, SameStorages
<1>3. Atomic!Fail(t)
    BY <1>1, <1>2, SameData
       DEF Atomic!Fail, Atomic!Reply, Replies, accounts, rows, waiting, answered
<1> QED BY <1>3 DEF AtomicStep, Atomic!Next

LEMMA ReceiveSeen ==
    ASSUME Invariant, Serving, NEW t \in Threads, Receive(t)
    PROVE  AtomicStep
<1>1. PICK r \in InMemoryRequests \ {NoRequest} :
          /\ r.kind \in {"post", "get", "update"} => \E x \in issued : x[2] = r.uid
          /\ req' = [req EXCEPT ![t] = r]
    BY DEF Receive
<1>2. /\ UNCHANGED <<userStorage, optionStorage, issued, status, seen>>
      /\ accounts' = accounts /\ rows' = rows
    BY SameStorages DEF Receive, history
<1>3. req[t].kind = "none" /\ req[t].kind \notin AllKinds
    BY ServedSeen DEF Receive, CallsOf, AllKinds
<1>4. /\ req'[t] = r /\ \A s \in Threads \ {t} : req'[s] = req[s]
      /\ r.kind \in AllKinds => r \in Requests
    BY <1>1, KindsTyped DEF Invariant, Typed, LocalTyped
<1>5. CASE r.kind \in AllKinds
    <2>1. waiting' = [waiting EXCEPT ![t] = r]
        BY <1>4, <1>5 DEF waiting
    <2>2. answered' = [answered EXCEPT ![t] = [outcome |-> "pending", row |-> EmptyRow]]
        BY <1>2, <1>4, <1>5 DEF answered
    <2>3. waiting[t] = NoRequest
        BY <1>3 DEF waiting
    <2>4. r \in Requests /\ (r.kind \in {"post", "get"} => \E x \in issued : x[2] = r.uid)
        BY <1>1, <1>4, <1>5
    <2>5. Atomic!Submit(t)
        BY <1>2, <2>1, <2>2, <2>3, <2>4, SameData
           DEF Atomic!Submit, accounts, rows, waiting, answered
    <2> QED BY <2>5 DEF AtomicStep, Atomic!Next
<1>6. CASE r.kind \notin AllKinds
    <2>1. waiting' = waiting /\ answered' = answered
        BY <1>2, <1>3, <1>4, <1>6 DEF waiting, answered
    <2> QED BY <1>2, <2>1, SilentStep
<1> QED BY <1>5, <1>6

LEMMA AddSeen ==
    ASSUME Invariant, Serving, NEW t \in Threads, Add(t), Undisturbed
    PROVE  AtomicStep
<1> USE DEF CallsOf, AllKinds
<1>0. /\ req[t].kind \in {"google", "register"} /\ waiting[t] = req[t]
      /\ waiting[t] # NoRequest
    BY ServedSeen DEF Add, Busy
<1>1. CASE Taken(req[t].email)
    BY <1>0, <1>1, FailSeen DEF Add, AddTaken, Failures
<1>2. CASE ~Taken(req[t].email)
    <2>1. /\ req[t].email \in Emails /\ accounts[req[t].email] = 0
          /\ lastId + 1 \in Ids /\ NextRowid(accounts, lastId + 1)
          /\ accounts' = [accounts EXCEPT ![req[t].email] = lastId + 1]
        <3>1. lastId \in Nat
            BY DataAssumption DEF Invariant, Typed, UserTyped
        <3>2. byEmail[req[t].email].id = 0 /\ req[t].email \in Emails /\ lastId + 1 \in Ids
            BY <1>2, AddGivesNextId
        <3>3. \A e \in Emails : accounts[e] = byEmail[e].id
            BY DEF accounts
        <3>4. accounts' = [accounts EXCEPT ![req[t].email] = lastId + 1]
            BY <1>2, AddGivesNextId DEF accounts
        <3>5. \A e \in Emails : byEmail[e].id \in Nat
            BY DataAssumption DEF Invariant, Typed, UserTyped, Users, NoUser, Ids
        <3>6. \A e \in Emails : accounts[e] < lastId + 1
            BY <1>2, <3>1, <3>3, <3>5, AddGivesNextId
        <3>7. lastId + 1 = 1 \/ \E e \in Emails : accounts[e] = (lastId + 1) - 1
            BY <1>2, <3>1, <3>3, AddGivesNextId
        <3> QED BY <3>2, <3>3, <3>4, <3>6, <3>7 DEF NextRowid
    <2>2. /\ accounts[waiting[t].email] = 0
          /\ \E id \in Ids : /\ NextRowid(accounts, id)
                            /\ accounts' = [accounts EXCEPT ![waiting[t].email] = id]
        BY <1>0, <2>1
    <2>3. rows' = rows
        BY SameStorages DEF Add
    <2> DEFINE u == NewUser(t, GenerateId)
    <2>4. u.email = req[t].email /\ u.id = lastId + 1
        BY DEF NewUser, GenerateId
    <2>5. CASE req[t].kind = "google"
        <3>1. UNCHANGED <<req, status, seen, issued>>
            BY <1>2, <2>5 DEF Add, AddNew
        <3>2. waiting' = waiting /\ answered' = answered
            BY <3>1, SameRequests
        <3>3. Atomic!CreateAccount(t)
            BY <1>0, <2>2, <2>3, <2>5, <3>1, <3>2, SameData
               DEF Atomic!CreateAccount, Atomic!AddUser, accounts, rows, waiting, answered
        <3> QED BY <3>3 DEF AtomicStep, Atomic!Next
    <2>6. CASE req[t].kind = "register"
        <3>1. /\ issued' = issued \cup {<<u.email, u.id>>}
              /\ Reply(t, "created", EmptyRow)
            BY <1>2, <2>6 DEF Add, AddNew, Answer
        <3>2. Replies(t, "created", EmptyRow)
            BY <3>1, ReplySeen DEF Invariant, Typed
        <3>3. accounts'[req[t].email] = lastId + 1
            BY <2>1 DEF accounts
        <3>4. issued' = issued \cup {<<req[t].email, accounts'[req[t].email]>>}
            BY <2>4, <3>1, <3>3
        <3>5. Atomic!Register(t)
            BY <1>0, <2>2, <2>3, <2>6, <3>2, <3>4, SameData
               DEF Atomic!Register, Atomic!AddUser, Atomic!Reply, Replies,
                   accounts, rows, waiting, answered
        <3> QED BY <3>5 DEF AtomicStep, Atomic!Next
    <2> QED BY <1>0, <2>5, <2>6
<1> QED BY <1>1, <1>2

LEMMA JwtSeen ==
    ASSUME Invariant, Serving, NEW t \in Threads, CreateJwt(t), Undisturbed
    PROVE  AtomicStep
<1>0. /\ req[t].kind = "google" /\ waiting[t] = req[t]
    BY ServedSeen DEF CreateJwt, Busy, CallsOf, AllKinds
<1>1. req[t].email \in Emails /\ user[t] \in Users
    BY DEF CreateJwt, Busy, Invariant, Threaded, Placed
<1>2. byEmail[req[t].email].id = user[t].id
    BY DEF CreateJwt, Busy, Invariant, Threaded, Named, Undisturbed, FoundBothWays
<1>3. accounts[req[t].email] = user[t].id /\ user[t].id # 0
    BY <1>1, <1>2, UsersAreThere, DataAssumption DEF accounts, Ids
<1>4. /\ issued' = issued \cup {<<req[t].email, user[t].id>>}
      /\ Reply(t, "created", EmptyRow)
      /\ accounts' = accounts /\ rows' = rows
    BY SameStorages DEF CreateJwt, Answer
<1>5. Replies(t, "created", EmptyRow)
    BY <1>4, ReplySeen DEF Invariant, Typed
<1>6. Atomic!SendToken(t)
    BY <1>0, <1>3, <1>4, <1>5, SameData
       DEF Atomic!SendToken, Atomic!Reply, Replies, accounts, rows, waiting, answered
<1> QED BY <1>6 DEF AtomicStep, Atomic!Next

LEMMA GetSeen ==
    ASSUME Invariant, Serving, NEW t \in Threads, GetOptions(t), Undisturbed
    PROVE  AtomicStep
<1>0. /\ req[t].kind = "get" /\ waiting[t] = req[t] /\ IsUser(accounts, req[t].uid)
    BY ServedSeen DEF GetOptions, Busy, CallsOf, AllKinds
<1>1. /\ KeyOf(t) \in Keys /\ UNCHANGED <<userStorage, optionStorage, issued>>
    BY DEF GetOptions, Busy, Invariant, Threaded, Placed, history
<1>2. PICK row :
          /\ row = rows[KeyOf(t)]
          /\ Reply(t, IF row = EmptyRow THEN "notFound" ELSE "ok", row)
    <2>1. CASE byUserIdAndName[KeyOf(t)] = NoOptions
        <3>1. rows[KeyOf(t)] = EmptyRow
            BY <1>1, <2>1 DEF rows
        <3>2. Reply(t, "notFound", EmptyRow)
            BY <2>1 DEF GetOptions, Answer
        <3> QED BY <3>1, <3>2
    <2>2. CASE byUserIdAndName[KeyOf(t)] # NoOptions
        <3> DEFINE found == byUserIdAndName[KeyOf(t)].row
        <3>1. rows[KeyOf(t)] = found
            BY <1>1, <2>2 DEF rows
        <3>2. found # EmptyRow
            BY <1>1, <2>2 DEF Serving, RowsFilled, Undisturbed
        <3>3. Reply(t, "ok", found)
            BY <2>2 DEF GetOptions
        <3> HIDE DEF found
        <3> QED BY <3>1, <3>2, <3>3
    <2> QED BY <2>1, <2>2
<1> DEFINE outcome == IF row = EmptyRow THEN "notFound" ELSE "ok"
<1>3. Replies(t, outcome, row)
    BY <1>2, ReplySeen DEF Invariant, Typed
<1>4. accounts' = accounts /\ rows' = rows
    BY <1>1, SameStorages
<1>5. Atomic!Get(t)
    BY <1>0, <1>1, <1>2, <1>3, <1>4, SameData
       DEF Atomic!Get, Atomic!Reply, Replies, KeyOf, MakeUserNameKey,
           accounts, rows, waiting, answered
<1> QED BY <1>5 DEF AtomicStep, Atomic!Next

LEMMA PostSeen ==
    ASSUME Invariant, Serving, NEW t \in Threads, UpdateOptions(t), Undisturbed
    PROVE  AtomicStep
<1>0. /\ req[t].kind = "post" /\ waiting[t] = req[t] /\ IsUser(accounts, req[t].uid)
    BY ServedSeen DEF UpdateOptions, Busy, CallsOf, AllKinds
<1>1. /\ pc[t] = "update" /\ UNCHANGED <<userStorage, issued>>
      /\ byUserIdAndName' =
             [byUserIdAndName EXCEPT ![KeyIn(NewOptions(t))] = NewOptions(t)]
      /\ Reply(t, "ok", EmptyRow)
    BY DEF UpdateOptions, Busy, Answer, history
<1>2. DOMAIN byUserIdAndName = OptionKeys /\ \A k \in Keys : k \in OptionKeys
    BY DEF Invariant, Typed, OptionsTyped, Keys, OptionKeys
<1>3. rows' = [rows EXCEPT ![KeyOf(t)] = RowOf(req[t].payload)]
    <2>1. /\ KeyIn(NewOptions(t)) = KeyOf(t) /\ KeyOf(t) \in Keys
          /\ NewOptions(t).row = RowOf(req[t].payload) /\ NewOptions(t) # NoOptions
        BY <1>1, NewRowFilled DEF Undisturbed
    <2> QED BY <1>1, <1>2, <2>1 DEF rows
<1>4. Replies(t, "ok", EmptyRow)
    BY <1>1, ReplySeen DEF Invariant, Typed
<1>5. accounts' = accounts
    BY <1>1, SameStorages
<1>6. Atomic!Post(t)
    BY <1>0, <1>1, <1>3, <1>4, <1>5, SameData
       DEF Atomic!Post, Atomic!Reply, Replies, KeyOf, MakeUserNameKey,
           accounts, rows, waiting, answered
<1> QED BY <1>6 DEF AtomicStep, Atomic!Next

(* A process that dies fails what it was serving. *)
LEMMA DeathSeen ==
    ASSUME Invariant, Serving, NEW t \in Threads, LoginDies(t)
    PROVE  AtomicStep
<1>1. \A s \in Threads : waiting[s] = NoRequest <=> req[s].kind \notin AllKinds
    BY ServedSeen DEF waiting
<1>2. waiting' = [s \in Threads |-> NoRequest]
    BY DEF LoginDies, waiting, NoRequest, AllKinds
<1>3. answered' = [s \in Threads |->
                      IF waiting[s] = NoRequest THEN answered[s]
                      ELSE [outcome |-> "aborted", row |-> EmptyRow]]
    BY <1>1 DEF LoginDies, answered, NoRequest, AllKinds
<1>4. accounts' = accounts /\ rows' = rows /\ issued' = issued
    BY SameStorages DEF LoginDies, history
<1>5. Atomic!Crash
    BY <1>2, <1>3, <1>4, SameData DEF Atomic!Crash, accounts, rows, waiting, answered
<1> QED BY <1>5 DEF AtomicStep, Atomic!Next

(* Log-ins and changes of a password are none of AtomicStore's. *)
LEMMA UserStepSeen ==
    ASSUME Invariant, Serving, NEW t \in Threads, UserStep(t), Undisturbed, Undisturbed'
    PROVE  AtomicStep
<1>1. CASE LoginDies(t)
    BY <1>1, DeathSeen
<1>2. CASE ~LoginDies(t)
    <2>0. Login(t) \/ ReadUser(t) \/ UpdateUser(t)
        BY <1>2 DEF UserStep
    <2>1. accounts' = accounts
        BY <2>0, UpdateKeepsIds, SameStorages DEF Login, ReadUser, accounts
    <2>2. rows' = rows /\ issued' = issued /\ status' = status /\ seen' = seen
        BY <2>0, SameStorages DEF Login, LoginAs, ReadUser, UpdateUser, history
    <2>3. req[t].kind \notin AllKinds
        BY <2>0, ServedSeen DEF Login, ReadUser, UpdateUser, Busy, CallsOf, AllKinds
    <2>4. Done(t) \/ req' = req
        BY <2>0 DEF Login, LoginAs, ReadUser, UpdateUser
    <2>5. waiting' = waiting /\ answered' = answered
        BY <2>2, <2>3, <2>4, DoneUnseen, SameRequests DEF Invariant, Typed
    <2> QED BY <2>1, <2>2, <2>5, SilentStep
<1> QED BY <1>1, <1>2

LEMMA StepSeen ==
    ASSUME Invariant, Serving, NEW t \in Threads, StepOf(t), Undisturbed'
    PROVE  AtomicStep
<1>0. Undisturbed /\ ~Fails(t)
    BY UndisturbedBefore
<1>1. CASE Receive(t)
    BY <1>1, ReceiveSeen
<1>2. ASSUME UNCHANGED <<userStorage, optionStorage, issued>>,
             req[t].kind \in AllKinds,
             \/ UNCHANGED <<req, status, seen>>
             \/ \E outcome \in Failures : Answer(t, outcome)
      PROVE  AtomicStep
    BY <1>2, FailSeen, SilentStep, SameStorages, SameRequests
<1>3. CASE SignUpStep(t)
    <2>1. CASE Handle(t) \/ FindByEmail(t) \/ Hash(t)
        <3>1. req[t].kind \in AllKinds
            BY <2>1, ServedSeen DEF Handle, FindByEmail, Hash, Busy, CallsOf, AllKinds
        <3> QED BY <1>2, <2>1, <3>1 DEF Handle, FindByEmail, Hash, Failures, history
    <2> QED BY <1>0, <1>3, <2>1, AddSeen, JwtSeen DEF SignUpStep
<1>4. CASE PluginStep(t)
    <2>1. CASE Authenticate(t) \/ FindOptions(t)
        <3>1. req[t].kind \in AllKinds
            BY <2>1, ServedSeen DEF Authenticate, FindOptions, Busy, CallsOf, AllKinds
        <3> QED BY <1>2, <2>1, <3>1 DEF Authenticate, FindOptions, Failures, history
    <2> QED BY <1>0, <1>4, <2>1, GetSeen, PostSeen DEF PluginStep
<1>5. CASE UserStep(t)
    BY <1>0, <1>5, UserStepSeen
<1> QED BY <1>0, <1>1, <1>3, <1>4, <1>5 DEF StepOf

LEMMA InitSeen == Init => Atomic!Init
<1> SUFFICES ASSUME Init PROVE Atomic!Init
    OBVIOUS
<1>1. accounts = InitialUsers
    <2>1. \A e \in Emails : byEmail[e].id = InitialUsers[e]
        BY InMemoryAssumption DEF Init, NoUser
    <2>2. InitialUsers = [e \in Emails |-> InitialUsers[e]]
        BY InitialUsersAssumption
    <2> QED BY <2>1, <2>2 DEF accounts
<1>2. rows = [k \in Keys |-> EmptyRow]
    <2>1. \A k \in Keys : byUserIdAndName[k] = NoOptions
        BY DEF Init, Keys, OptionKeys
    <2> QED BY <2>1 DEF rows
<1>3. issued = {x \in Emails \X Ids : InitialUsers[x[1]] = x[2]}
    BY InMemoryAssumption, DataAssumption DEF Init, Ids
<1>4. /\ waiting = [t \in Threads |-> NoRequest]
      /\ answered = [t \in Threads |-> [outcome |-> "none", row |-> EmptyRow]]
    BY DEF Init, waiting, answered, NoRequest, AllKinds
<1> QED BY <1>1, <1>2, <1>3, <1>4, SameData
           DEF Atomic!Init, accounts, rows, waiting, answered

(* The handlers keep on the in-memory storages the promise they keep on    *)
(* SQLite: until a call throws or an email changes, every request takes    *)
(* effect at once or not at all, for any threads, requests and log-ins, and*)
(* although a rollback takes nothing back.                                 *)
THEOREM InMemoryImplementation == Spec => ImplementsAtomicStore
<1>1. ASSUME Invariant, Serving, [Next]_vars
      PROVE  [Undisturbed' => [Atomic!Next]_(Atomic!vars)]_vars
    <2>1. CASE UNCHANGED vars
        BY <2>1
    <2>2. ASSUME NEW t \in Threads, StepOf(t)
          PROVE  [Undisturbed' => [Atomic!Next]_(Atomic!vars)]_vars
        BY <1>1, <2>2, StepSeen DEF AtomicStep
    <2> QED BY <1>1, <2>1, <2>2 DEF Next, StepOf, Fails, Quiescent
<1> QED BY <1>1, InitSeen, InvariantHolds, ServingHolds, PTL DEF Spec, ImplementsAtomicStore

=============================================================================
