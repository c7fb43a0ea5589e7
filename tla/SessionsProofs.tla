--------------------------- MODULE SessionsProofs ---------------------------
(***************************************************************************)
(* Proofs about Sessions, for any lifetimes, delays and numbers of clients.*)
(*                                                                         *)
(* A token is made for the id that the sign-in has just returned, and a    *)
(* client only needs one when it holds tokens: with that, whatever refuses *)
(* it has a cause, and the refusals ahead of it can be counted.            *)
(***************************************************************************)
EXTENDS Sessions, SequenceTheorems, TLAPS

Prompt == \A c \in Clients : waited[c] <= MaxDelay

(* What the sign-in returns is the client's own, or lost. *)
OwnId(c, id) == id # 0 /\ (Names(c, id) \/ <<c, id>> \in lost)

SignedUp == \A c \in Clients : pc[c] = "createJwt" => OwnId(c, given[c])

Invariant == TypeOK /\ Prompt /\ SignedUp /\ ConfinedDamage

Steps == {"idle", "signIn", "createJwt", "verify", "find",
          "verifyAuth", "keep", "verifyRefresh", "renew"}

-----------------------------------------------------------------------------
LEMMA InitInvariant == Init => Invariant
<1> SUFFICES ASSUME Init PROVE Invariant
    OBVIOUS
<1> USE SessionsAssumption
<1>1. users \in Seq(Clients) /\ Len(users) = 0
    BY EmptySeq DEF Init
<1>2. NoToken \in Tokens
    BY DEF NoToken, Tokens
<1>3. TypeOK
    <2>1. synced \in 0 .. Len(users) /\ losses \in 0 .. MaxLosses /\ faults \in 0 .. MaxFaults
        BY <1>1 DEF Init
    <2>2. age \in [Clients -> 0 .. AuthLife] /\ refused \in [Clients -> 0 .. MaxRefusals]
        BY DEF Init
    <2> QED BY <1>1, <1>2, <2>1, <2>2 DEF Init, TypeOK
<1>5. Prompt
    <2>1. \A c \in Clients : waited[c] = 0
        BY DEF Init
    <2>2. 0 <= MaxDelay
        OBVIOUS
    <2> QED BY <2>1, <2>2 DEF Prompt
<1>6. SignedUp
    BY DEF Init, SignedUp
<1>7. ConfinedDamage
    BY DEF Init, ConfinedDamage
<1> QED BY <1>3, <1>5, <1>6, <1>7 DEF Invariant

(* An answer, a refusal and the move to the next step, in their types. *)
LEMMA AnswerTyped ==
    ASSUME TypeOK, Prompt, NEW c \in Clients, NEW r \in {"signIn", "use", "refresh"},
           NEW n \in 0 .. MaxRefusals, Answer(c, r, n)
    PROVE  /\ next' \in [Clients -> {"signIn", "use", "refresh"}]
           /\ pc' = [pc EXCEPT ![c] = "idle"]
           /\ waited' = [waited EXCEPT ![c] = 0]
           /\ refused' \in [Clients -> 0 .. MaxRefusals]
BY DEF TypeOK, Answer, Goto

LEMMA RefuseTyped ==
    ASSUME TypeOK, Prompt, NEW c \in Clients, NEW r \in {"signIn", "use", "refresh"},
           Refuse(c, r)
    PROVE  /\ next' \in [Clients -> {"signIn", "use", "refresh"}]
           /\ pc' = [pc EXCEPT ![c] = "idle"]
           /\ waited' = [waited EXCEPT ![c] = 0]
           /\ refused' \in [Clients -> 0 .. MaxRefusals]
<1> DEFINE n == IF refused[c] = MaxRefusals THEN refused[c] ELSE refused[c] + 1
<1>1. n \in 0 .. MaxRefusals
    BY SessionsAssumption DEF TypeOK
<1>2. Answer(c, r, n)
    BY DEF Refuse
<1> HIDE DEF n
<1> QED BY <1>1, <1>2, AnswerTyped

LEMMA FailsTyped ==
    ASSUME TypeOK, Prompt, NEW c \in Clients, NEW r \in {"signIn", "use", "refresh"},
           Fails(c, r)
    PROVE  /\ next' \in [Clients -> {"signIn", "use", "refresh"}]
           /\ pc' = [pc EXCEPT ![c] = "idle"]
           /\ waited' = [waited EXCEPT ![c] = 0]
           /\ refused' \in [Clients -> 0 .. MaxRefusals]
           /\ faults' \in 0 .. MaxFaults
<1>1. faults' \in 0 .. MaxFaults
    BY SessionsAssumption DEF Fails, TypeOK
<1> QED BY <1>1, RefuseTyped DEF Fails

(* A step that answers, or moves a request to another step, and leaves the *)
(* users and the tokens alone.                                             *)
LEMMA QuietStep ==
    ASSUME Invariant, NEW c \in Clients, UNCHANGED <<table, tokens>>,
           NEW step \in Steps \ {"createJwt"},
           pc' = [pc EXCEPT ![c] = step],
           waited' = waited \/ waited' = [waited EXCEPT ![c] = 0],
           given' = given \/ given' = [given EXCEPT ![c] = 0],
           faults' \in 0 .. MaxFaults,
           next' \in [Clients -> {"signIn", "use", "refresh"}],
           refused' \in [Clients -> 0 .. MaxRefusals]
    PROVE  Invariant'
<1> USE SessionsAssumption DEF Invariant, tokens, table
<1>1. TypeOK'
    <2>1. waited' \in [Clients -> Nat]
        <3>1. CASE waited' = waited
            BY <3>1 DEF TypeOK
        <3>2. CASE waited' = [waited EXCEPT ![c] = 0]
            BY <3>2 DEF TypeOK
        <3> QED BY <3>1, <3>2
    <2>2. given' \in [Clients -> Nat]
        <3>1. CASE given' = given
            BY <3>1 DEF TypeOK
        <3>2. CASE given' = [given EXCEPT ![c] = 0]
            BY <3>2 DEF TypeOK
        <3> QED BY <3>1, <3>2
    <2>3. pc' \in [Clients -> Steps]
        BY DEF TypeOK, Steps
    <2> QED BY <2>1, <2>2, <2>3 DEF TypeOK, Steps
<1>2. Prompt'
    <2>1. ASSUME NEW d \in Clients
          PROVE  waited'[d] = waited[d] \/ waited'[d] = 0
        BY DEF TypeOK
    <2> QED BY <2>1 DEF Prompt, TypeOK
<1>3. SignedUp'
    <2> SUFFICES ASSUME NEW d \in Clients, pc'[d] = "createJwt" PROVE OwnId(d, given[d])'
        BY DEF SignedUp
    <2>1. d # c /\ pc[d] = "createJwt" /\ given'[d] = given[d]
        BY DEF TypeOK
    <2> QED BY <2>1 DEF SignedUp, OwnId, Names
<1>4. ConfinedDamage'
    BY DEF ConfinedDamage, Names
<1> QED BY <1>1, <1>2, <1>3, <1>4

LEMMA FailsStep ==
    ASSUME Invariant, NEW c \in Clients, NEW r \in {"signIn", "use", "refresh"}, Fails(c, r),
           UNCHANGED <<table, tokens>>, given' = given \/ given' = [given EXCEPT ![c] = 0]
    PROVE  Invariant'
BY FailsTyped, QuietStep DEF Invariant, Steps

-----------------------------------------------------------------------------
(* The table when a client may have been added at its end. *)
LEMMA UsersGrow ==
    ASSUME TypeOK, NEW c \in Clients, users' = users \/ users' = Append(users, c)
    PROVE  /\ users' \in Seq(Clients) /\ Len(users) \in Nat /\ Len(users) <= Len(users')
           /\ Len(users') \in Nat
           /\ DOMAIN users = 1 .. Len(users) /\ DOMAIN users' = 1 .. Len(users')
           /\ \A i \in DOMAIN users : i \in DOMAIN users' /\ users'[i] = users[i]
           /\ users' = Append(users, c) =>
                  Len(users) + 1 \in DOMAIN users' /\ users'[Len(users) + 1] = c
<1>1. Len(users) \in Nat /\ DOMAIN users = 1 .. Len(users)
    BY LenProperties DEF TypeOK
<1>2. CASE users' = users
    <2>2. ASSUME users' = Append(users, c) PROVE FALSE
        <3>1. users \in Seq(Clients)
            BY DEF TypeOK
        <3>2. Len(users') = Len(users) + 1
            BY <2>2, <3>1, AppendProperties
        <3> QED BY <1>1, <1>2, <3>2
    <2>3. users \in Seq(Clients)
        BY DEF TypeOK
    <2>4. users' \in Seq(Clients) /\ Len(users') = Len(users) /\ DOMAIN users' = DOMAIN users
        BY <1>2, <2>3
    <2>5. \A i \in DOMAIN users : users'[i] = users[i]
        BY <1>2
    <2>6. ASSUME NEW n \in Nat, NEW m, m = n PROVE n <= m
        BY <2>6
    <2>7. Len(users) <= Len(users')
        BY <1>1, <2>4, <2>6, Zenon
    <2> QED BY <1>1, <2>2, <2>4, <2>5, <2>7
<1>3. CASE users' = Append(users, c)
    <2>1. /\ users' \in Seq(Clients) /\ Len(users') = Len(users) + 1
          /\ \A i \in 1 .. Len(users) : users'[i] = users[i]
          /\ users'[Len(users) + 1] = c
        BY <1>3, AppendProperties DEF TypeOK
    <2>2. DOMAIN users' = 1 .. Len(users')
        BY <2>1, LenProperties
    <2> QED BY <1>1, <2>1, <2>2
<1> QED BY <1>2, <1>3

(* A sign-in that gets to its end, with whatever id. *)
LEMMA SignedInStep ==
    ASSUME Invariant, NEW c \in Clients, users' = users \/ users' = Append(users, c),
           NEW id \in Nat, given' = [given EXCEPT ![c] = id], OwnId(c, id)',
           pc' = [pc EXCEPT ![c] = "createJwt"],
           lost \subseteq lost', lost' \in SUBSET (Clients \X Nat), losses' \in 0 .. MaxLosses,
           UNCHANGED <<synced, faults, tokens, next, waited, refused>>
    PROVE  Invariant'
<1> USE SessionsAssumption DEF Invariant, tokens
<1>1. TypeOK'
    <2>1. synced' \in 0 .. Len(users')
        BY UsersGrow DEF TypeOK
    <2>2. given' \in [Clients -> Nat] /\ pc' \in [Clients -> Steps]
        BY DEF TypeOK, Steps
    <2> QED BY <2>1, <2>2, UsersGrow DEF TypeOK, Steps
<1>2. Prompt'
    BY DEF Prompt
<1>3. ASSUME NEW d \in Clients, NEW i, Names(d, i) \/ <<d, i>> \in lost
      PROVE  Names(d, i)' \/ <<d, i>> \in lost'
    BY <1>3, UsersGrow DEF Names
<1>4. SignedUp'
    <2> SUFFICES ASSUME NEW d \in Clients, pc'[d] = "createJwt" PROVE OwnId(d, given[d])'
        BY DEF SignedUp
    <2>1. CASE d = c
        <3>1. given'[d] = id
            BY <2>1 DEF TypeOK
        <3> QED BY <2>1, <3>1 DEF OwnId, Names
    <2>2. CASE d # c
        <3>1. given'[d] = given[d] /\ OwnId(d, given[d])
            BY <2>2 DEF SignedUp, TypeOK
        <3> QED BY <1>3, <3>1 DEF OwnId, Names
    <2> QED BY <2>1, <2>2
<1>5. ASSUME NEW d \in Clients, NEW token \in {auth'[d], refresh'[d]}
      PROVE  token = NoToken \/ Names(d, token.id)' \/ <<d, token.id>> \in lost'
    BY <1>3, <1>5 DEF ConfinedDamage, Names
<1>6. ConfinedDamage'
    BY <1>5 DEF ConfinedDamage, Names
<1> QED BY <1>1, <1>2, <1>4, <1>6

LEMMA SignInReturnsOwn ==
    ASSUME Invariant, NEW c \in Clients, SignIn(c)
    PROVE  /\ users' = users \/ users' = Append(users, c)
           /\ \E id \in Nat \ {0} :
                  /\ given' = [given EXCEPT ![c] = id]
                  /\ id \in DOMAIN users' /\ users'[id] = c
<1>1. users' = users \/ users' = Append(users, c)
    BY DEF SignIn
<1>2. \E i \in DOMAIN users' : users'[i] = c
    <2>1. CASE Registered(c)
        BY <2>1 DEF SignIn, Registered
    <2>2. CASE ~Registered(c)
        BY <2>2, UsersGrow DEF SignIn, Invariant
    <2> QED BY <2>1, <2>2
<1>3. PICK id : id = CHOOSE i \in DOMAIN users' : users'[i] = c
    OBVIOUS
<1>4. id \in DOMAIN users' /\ users'[id] = c
    BY <1>2, <1>3
<1>5. given' = [given EXCEPT ![c] = id]
    BY <1>3 DEF SignIn, UserId
<1>6. DOMAIN users' = 1 .. Len(users') /\ Len(users') \in Nat
    BY <1>1, UsersGrow DEF Invariant
<1>7. id \in Nat \ {0}
    BY <1>4, <1>6
<1> QED BY <1>1, <1>4, <1>5, <1>7

LEMMA SignInStep ==
    ASSUME Invariant, NEW c \in Clients, SignIn(c)
    PROVE  Invariant'
<1>1. PICK id \in Nat \ {0} :
          /\ given' = [given EXCEPT ![c] = id]
          /\ id \in DOMAIN users' /\ users'[id] = c
    BY SignInReturnsOwn
<1>2. /\ pc' = [pc EXCEPT ![c] = "createJwt"]
      /\ UNCHANGED <<synced, lost, losses, faults, tokens, next, waited, refused>>
    BY DEF SignIn, Goto
<1>3. lost' \in SUBSET (Clients \X Nat) /\ losses' \in 0 .. MaxLosses
    BY <1>2 DEF Invariant, TypeOK
<1>4. OwnId(c, id)'
    BY <1>1 DEF OwnId, Names
<1> QED BY <1>1, <1>2, <1>3, <1>4, SignInReturnsOwn, SignedInStep

LEMMA SignInAstrayStep ==
    ASSUME Invariant, NEW c \in Clients, SignInAstray(c)
    PROVE  Invariant'
<1>1. PICK id \in 1 .. Len(users) + 1 :
          given' = [given EXCEPT ![c] = id] /\ lost' = lost \cup {<<c, id>>}
    BY DEF SignInAstray
<1>2. /\ users' = users \/ users' = Append(users, c)
      /\ pc' = [pc EXCEPT ![c] = "createJwt"]
      /\ UNCHANGED <<synced, faults, tokens, next, waited, refused>>
    BY DEF SignInAstray, Goto
<1>3. id \in Nat /\ id # 0
    BY LenProperties DEF Invariant, TypeOK
<1>4. OwnId(c, id)'
    BY <1>1, <1>3 DEF OwnId
<1>5. lost' \in SUBSET (Clients \X Nat) /\ losses' \in 0 .. MaxLosses
    BY <1>1, <1>3, SessionsAssumption DEF SignInAstray, Invariant, TypeOK
<1> QED BY <1>1, <1>2, <1>3, <1>4, <1>5, SignedInStep

LEMMA CreateJwtStep ==
    ASSUME Invariant, NEW c \in Clients, CreateJwt(c)
    PROVE  Invariant'
<1> USE SessionsAssumption DEF Invariant
<1> DEFINE id == given[c]
<1>1. id \in Nat /\ OwnId(c, id)
    BY DEF CreateJwt, SignedUp, TypeOK
<1>3. /\ auth' = [auth EXCEPT ![c] = [id |-> id, left |-> AuthLife]]
      /\ refresh' = [refresh EXCEPT ![c] = [id |-> id, left |-> RefreshLife]]
      /\ age' = [age EXCEPT ![c] = 0]
      /\ given' = [given EXCEPT ![c] = 0]
      /\ UNCHANGED <<table, faults>>
    BY DEF CreateJwt, CreateAuthToken, CreateRefreshToken
<1> HIDE DEF id
<1>4. /\ next' \in [Clients -> {"signIn", "use", "refresh"}]
      /\ pc' = [pc EXCEPT ![c] = "idle"]
      /\ waited' = [waited EXCEPT ![c] = 0]
      /\ refused' \in [Clients -> 0 .. MaxRefusals]
    <2>1. refused[c] \in 0 .. MaxRefusals
        BY DEF TypeOK
    <2>2. Answer(c, "use", refused[c])
        BY DEF CreateJwt
    <2> QED BY <2>1, <2>2, AnswerTyped
<1>5. TypeOK'
    <2>1. /\ [id |-> id, left |-> AuthLife] \in Tokens
          /\ [id |-> id, left |-> RefreshLife] \in Tokens
        BY <1>1 DEF Tokens
    <2>3. auth' \in [Clients -> Tokens] /\ refresh' \in [Clients -> Tokens]
        BY <1>3, <2>1 DEF TypeOK
    <2>4. age' \in [Clients -> 0 .. AuthLife] /\ given' \in [Clients -> Nat]
        BY <1>3 DEF TypeOK
    <2>5. waited' \in [Clients -> Nat] /\ pc' \in [Clients -> Steps]
        BY <1>4 DEF TypeOK, Steps
    <2> QED BY <1>3, <1>4, <2>3, <2>4, <2>5 DEF TypeOK, Steps, table
<1>6. Prompt'
    BY <1>4 DEF Prompt, TypeOK
<1>8. SignedUp'
    <2> SUFFICES ASSUME NEW d \in Clients, pc'[d] = "createJwt" PROVE OwnId(d, given[d])'
        BY DEF SignedUp
    <2>1. d # c /\ pc[d] = "createJwt" /\ given'[d] = given[d]
        BY <1>3, <1>4 DEF TypeOK
    <2> QED BY <1>3, <2>1 DEF SignedUp, OwnId, Names, table
<1>9. ASSUME NEW d \in Clients, NEW token \in {auth'[d], refresh'[d]}
      PROVE  token = NoToken \/ Names(d, token.id)' \/ <<d, token.id>> \in lost'
    <2>1. CASE d = c
        <3>1. auth'[d].id = id /\ refresh'[d].id = id
            BY <2>1, <1>3 DEF TypeOK
        <3>2. token.id = id
            BY <1>9, <3>1
        <3> QED BY <2>1, <1>1, <1>3, <3>2 DEF OwnId, Names, table
    <2>2. CASE d # c
        BY <2>2, <1>3, <1>9 DEF ConfinedDamage, Names, table, TypeOK
    <2> QED BY <2>1, <2>2
<1>10. ConfinedDamage'
    BY <1>9 DEF ConfinedDamage, Names
<1> QED BY <1>5, <1>6, <1>8, <1>10

LEMMA RenewStep ==
    ASSUME Invariant, NEW c \in Clients, RenewAuthToken(c)
    PROVE  Invariant'
<1> USE SessionsAssumption DEF Invariant
<1>0. faults \in 0 .. MaxFaults
    BY DEF TypeOK
<1>1. CASE Refuse(c, "signIn") /\ UNCHANGED <<auth, faults>>
    <2>1. UNCHANGED <<table, tokens, given>>
        BY <1>1 DEF RenewAuthToken, tokens
    <2> QED BY <1>0, <1>1, <2>1, RefuseTyped, QuietStep DEF Steps
<1>3. CASE Fails(c, "signIn") /\ UNCHANGED auth
    <2>1. UNCHANGED <<table, tokens, given>>
        BY <1>3 DEF RenewAuthToken, tokens
    <2> QED BY <1>3, <2>1, FailsStep
<1>2. CASE /\ Found(refresh[c].id) /\ auth' = [auth EXCEPT ![c] = Renewed(c)]
           /\ Answer(c, "use", refused[c]) /\ UNCHANGED faults
    <2>1. /\ auth' = [auth EXCEPT ![c] = [id |-> refresh[c].id, left |-> AuthLife]]
          /\ refresh' = refresh /\ age' = age /\ UNCHANGED <<table, given, faults>>
        BY <1>2 DEF RenewAuthToken, Renewed, CreateAuthToken, TypeOK
    <2>2. /\ next' \in [Clients -> {"signIn", "use", "refresh"}]
          /\ pc' = [pc EXCEPT ![c] = "idle"]
          /\ waited' = [waited EXCEPT ![c] = 0]
          /\ refused' \in [Clients -> 0 .. MaxRefusals]
        <3>1. refused[c] \in 0 .. MaxRefusals
            BY DEF TypeOK
        <3>2. Answer(c, "use", refused[c])
            BY <1>2
        <3> QED BY <3>1, <3>2, AnswerTyped
    <2>3. TypeOK'
        BY <2>1, <2>2 DEF TypeOK, table, Tokens
    <2>4. Prompt' /\ SignedUp'
        BY <2>1, <2>2 DEF Prompt, SignedUp, OwnId, Names, TypeOK, table
    <2>7. Found(refresh[c].id) => refresh[c] # NoToken
        <3>1. 0 \notin DOMAIN users
            BY LenProperties DEF TypeOK
        <3> QED BY <3>1 DEF Found, NoToken
    <2>8. Names(c, refresh[c].id) \/ <<c, refresh[c].id>> \in lost
        BY <1>2, <2>7 DEF ConfinedDamage
    <2>9. ASSUME NEW d \in Clients, NEW token \in {auth'[d], refresh'[d]}
          PROVE  token = NoToken \/ Names(d, token.id)' \/ <<d, token.id>> \in lost'
        <3>1. CASE d = c
            <4>1. auth'[d].id = refresh[c].id /\ refresh'[d].id = refresh[c].id
                BY <3>1, <2>1 DEF TypeOK
            <4>2. token.id = refresh[c].id
                BY <2>9, <4>1
            <4> QED BY <3>1, <2>1, <2>8, <4>2 DEF Names, table
        <3>2. CASE d # c
            BY <3>2, <2>1, <2>9 DEF ConfinedDamage, Names, table, TypeOK
        <3> QED BY <3>1, <3>2
    <2>10. ConfinedDamage'
        BY <2>9 DEF ConfinedDamage, Names
    <2> QED BY <2>3, <2>4, <2>10
<1> QED BY <1>1, <1>2, <1>3 DEF RenewAuthToken

LEMMA TickStep ==
    ASSUME Invariant, Tick
    PROVE  Invariant'
<1> USE SessionsAssumption DEF Invariant
<1>1. ASSUME NEW token \in Tokens
      PROVE  /\ Older(token) \in Tokens /\ Older(token).id = token.id
             /\ Older(token).left = IF token.left = 0 THEN 0 ELSE token.left - 1
             /\ token = NoToken => Older(token) = NoToken
    BY <1>1 DEF Older, Tokens, NoToken
<1>2. TypeOK'
    <2>1. auth' \in [Clients -> Tokens] /\ refresh' \in [Clients -> Tokens]
        BY <1>1 DEF Tick, TypeOK
    <2>2. age' \in [Clients -> 0 .. AuthLife]
        <3>1. ASSUME NEW c \in Clients
              PROVE  (IF age[c] = AuthLife THEN age[c] ELSE age[c] + 1) \in 0 .. AuthLife
            <4>1. age[c] \in 0 .. AuthLife
                BY DEF TypeOK
            <4> QED BY <4>1
        <3> QED BY <3>1 DEF Tick
    <2>3. waited' \in [Clients -> Nat]
        BY DEF Tick, TypeOK
    <2> QED BY <2>1, <2>2, <2>3 DEF Tick, TypeOK, table
<1>3. Prompt'
    BY DEF Tick, Prompt, TypeOK
<1>6. SignedUp'
    BY DEF Tick, SignedUp, OwnId, Names, table
<1>7. ASSUME NEW c \in Clients, NEW token \in {auth[c], refresh[c]}
      PROVE  Older(token) = NoToken \/ Names(c, Older(token).id)
                 \/ <<c, Older(token).id>> \in lost
    <2>1. token \in Tokens
        BY <1>7 DEF TypeOK
    <2>2. token = NoToken \/ Names(c, token.id) \/ <<c, token.id>> \in lost
        BY <1>7 DEF ConfinedDamage
    <2> QED BY <1>1, <2>1, <2>2
<1>8. UNCHANGED <<users, lost>>
    BY DEF Tick, table
<1>9. \A c \in Clients : auth'[c] = Older(auth[c]) /\ refresh'[c] = Older(refresh[c])
    BY DEF Tick
<1>10. ConfinedDamage'
    BY <1>7, <1>8, <1>9 DEF ConfinedDamage, Names
<1> QED BY <1>2, <1>3, <1>6, <1>10

LEMMA PowerLossStep ==
    ASSUME Invariant, PowerLoss
    PROVE  Invariant'
<1> USE SessionsAssumption DEF Invariant
<1>1. PICK n \in Surviving :
          /\ users' = SubSeq(users, 1, n)
          /\ synced' = n
          /\ lost' = lost \cup {<<users[i], i>> : i \in (n + 1) .. Len(users)}
    BY DEF PowerLoss
<1>2. /\ Len(users) \in Nat /\ DOMAIN users = 1 .. Len(users)
      /\ n \in Nat /\ n <= Len(users)
      /\ \A i \in 1 .. Len(users) : users[i] \in Clients
    BY LenProperties DEF Surviving, TypeOK
<1>3. /\ users' \in Seq(Clients) /\ Len(users') = n
      /\ \A i \in 1 .. n : users'[i] = users[i]
    <2>1. \A i \in 1 .. n : users[i] \in Clients
        BY <1>2
    <2>2. /\ SubSeq(users, 1, n) \in Seq(Clients)
          /\ Len(SubSeq(users, 1, n)) = IF 1 <= n THEN n - 1 + 1 ELSE 0
          /\ \A i \in 1 .. n - 1 + 1 : SubSeq(users, 1, n)[i] = users[1 + i - 1]
        BY <1>2, <2>1, SubSeqProperties
    <2>3. \A i \in 1 .. n : i \in 1 .. n - 1 + 1 /\ 1 + i - 1 = i
        BY <1>2
    <2> QED BY <1>1, <1>2, <2>2, <2>3
<1>4. DOMAIN users' = 1 .. n
    BY <1>3, LenProperties
<1>5. /\ UNCHANGED <<faults, auth, refresh, next, age, refused>>
      /\ given' = [c \in Clients |-> 0]
      /\ pc' = [c \in Clients |-> "idle"] /\ waited' = [c \in Clients |-> 0]
      /\ losses' \in 0 .. MaxLosses
    BY DEF PowerLoss, TypeOK, tokens
<1>6. lost' \in SUBSET (Clients \X Nat)
    <2>1. \A i \in (n + 1) .. Len(users) : users[i] \in Clients /\ i \in Nat
        BY <1>2
    <2>2. {<<users[i], i>> : i \in (n + 1) .. Len(users)} \subseteq Clients \X Nat
        BY <2>1
    <2> QED BY <1>1, <2>2 DEF TypeOK
<1>7. TypeOK'
    <2>1. synced' \in 0 .. Len(users')
        BY <1>1, <1>2, <1>3
    <2>2. /\ pc' \in [Clients -> {"idle", "signIn", "createJwt", "verify", "find",
                                  "verifyAuth", "keep", "verifyRefresh", "renew"}]
          /\ waited' \in [Clients -> Nat] /\ given' \in [Clients -> Nat]
        BY <1>5
    <2> QED BY <1>3, <1>5, <1>6, <2>1, <2>2 DEF TypeOK
<1>8. Prompt' /\ SignedUp'
    BY <1>5 DEF Prompt, SignedUp
<1>9. ASSUME NEW c \in Clients, NEW i \in Nat, Names(c, i) \/ <<c, i>> \in lost
      PROVE  Names(c, i)' \/ <<c, i>> \in lost'
    <2>1. CASE Names(c, i) /\ i > n
        BY <1>1, <1>2, <2>1 DEF Names
    <2>2. CASE Names(c, i) /\ i <= n
        BY <1>2, <1>3, <1>4, <2>2 DEF Names
    <2>3. CASE <<c, i>> \in lost
        BY <1>1, <2>3
    <2> QED BY <1>2, <1>9, <2>1, <2>2, <2>3
<1>10. ASSUME NEW c \in Clients, NEW token \in {auth[c], refresh[c]}
       PROVE  token = NoToken \/ Names(c, token.id)' \/ <<c, token.id>> \in lost'
    <2>1. token.id \in Nat
        BY <1>10 DEF TypeOK, Tokens
    <2>2. token = NoToken \/ Names(c, token.id) \/ <<c, token.id>> \in lost
        BY <1>10 DEF ConfinedDamage
    <2> QED BY <1>9, <2>1, <2>2
<1>11. ConfinedDamage'
    BY <1>5, <1>10 DEF ConfinedDamage, Names
<1> QED BY <1>7, <1>8, <1>11

-----------------------------------------------------------------------------
LEMMA NextInvariant == Invariant /\ [Next]_vars => Invariant'
<1> SUFFICES ASSUME Invariant, [Next]_vars PROVE Invariant'
    OBVIOUS
<1> USE DEF Invariant
<1>1. ASSUME NEW c \in Clients, Send(c) PROVE Invariant'
    <2>1. UNCHANGED <<table, tokens, given>> /\ waited' = [waited EXCEPT ![c] = 0]
          /\ next' = next /\ refused' = refused /\ faults' = faults
        BY <1>1 DEF Send
    <2>2. \E step \in {"signIn", "verify", "verifyAuth"} : pc' = [pc EXCEPT ![c] = step]
        BY <1>1 DEF Send, Goto
    <2>3. /\ next' \in [Clients -> {"signIn", "use", "refresh"}]
          /\ refused' \in [Clients -> 0 .. MaxRefusals]
          /\ faults' \in 0 .. MaxFaults
        BY <2>1 DEF TypeOK
    <2> QED BY <2>1, <2>2, <2>3, QuietStep DEF Steps
<1>2. ASSUME NEW c \in Clients, Verify(c) \/ VerifyRefresh(c) PROVE Invariant'
    <2>1. UNCHANGED <<table, tokens, given, faults>> /\ faults' \in 0 .. MaxFaults
        BY <1>2 DEF Verify, VerifyRefresh, TypeOK
    <2>2. \/ \E r \in {"signIn", "refresh"} : Refuse(c, r)
          \/ /\ UNCHANGED <<next, refused, waited>>
             /\ \/ Goto(c, "find")
                \/ Goto(c, "renew") /\ Verified(refresh[c])
        BY <1>2 DEF Verify, VerifyRefresh
    <2>3. CASE \E r \in {"signIn", "refresh"} : Refuse(c, r)
        BY <2>1, <2>3, RefuseTyped, QuietStep DEF Steps
    <2>4. CASE /\ UNCHANGED <<next, refused, waited>>
               /\ \/ Goto(c, "find")
                  \/ Goto(c, "renew") /\ Verified(refresh[c])
        <3>1. /\ next' \in [Clients -> {"signIn", "use", "refresh"}]
              /\ refused' \in [Clients -> 0 .. MaxRefusals]
              /\ waited' = waited
            BY <2>4 DEF TypeOK
        <3> QED BY <2>1, <2>4, <3>1, QuietStep DEF Goto, Steps
    <2> QED BY <2>2, <2>3, <2>4
<1>3. ASSUME NEW c \in Clients, FindUser(c) \/ KeepTokens(c) PROVE Invariant'
    <2>1. UNCHANGED <<table, tokens, given>>
        BY <1>3 DEF FindUser, KeepTokens
    <2>2. 0 \in 0 .. MaxRefusals /\ refused[c] \in 0 .. MaxRefusals /\ faults \in 0 .. MaxFaults
        BY SessionsAssumption DEF TypeOK
    <2>3. \/ \E n \in 0 .. MaxRefusals : Answer(c, "use", n) /\ faults' = faults
          \/ \E r \in {"signIn", "refresh"} : Refuse(c, r) /\ faults' = faults
          \/ \E r \in {"signIn", "refresh"} : Fails(c, r)
        BY <1>3, <2>2 DEF FindUser, KeepTokens
    <2>4. CASE \E n \in 0 .. MaxRefusals : Answer(c, "use", n) /\ faults' = faults
        BY <2>1, <2>2, <2>4, AnswerTyped, QuietStep DEF Steps
    <2>5. CASE \E r \in {"signIn", "refresh"} : Refuse(c, r) /\ faults' = faults
        BY <2>1, <2>2, <2>5, RefuseTyped, QuietStep DEF Steps
    <2>6. CASE \E r \in {"signIn", "refresh"} : Fails(c, r)
        BY <2>1, <2>6, FailsStep
    <2> QED BY <2>3, <2>4, <2>5, <2>6
<1>7. ASSUME NEW c \in Clients, SignInFails(c) PROVE Invariant'
    BY <1>7, FailsStep DEF SignInFails
<1>4. ASSUME NEW c \in Clients, VerifyAuth(c) PROVE Invariant'
    <2>1. UNCHANGED <<table, tokens, given, faults, next, refused, waited>>
        BY <1>4 DEF VerifyAuth
    <2>2. \E step \in {"keep", "verifyRefresh"} : pc' = [pc EXCEPT ![c] = step]
        BY <1>4 DEF VerifyAuth, Goto
    <2>3. /\ next' \in [Clients -> {"signIn", "use", "refresh"}]
          /\ refused' \in [Clients -> 0 .. MaxRefusals]
          /\ faults' \in 0 .. MaxFaults
        BY <2>1 DEF TypeOK
    <2> QED BY <2>1, <2>2, <2>3, QuietStep DEF Steps
<1>5. ASSUME Checkpoint PROVE Invariant'
    <2>1. Len(users) \in Nat
        BY LenProperties DEF TypeOK
    <2>2. TypeOK'
        BY <1>5, <2>1 DEF Checkpoint, TypeOK, tokens
    <2> QED BY <1>5, <2>2 DEF Checkpoint, Prompt, SignedUp, OwnId, ConfinedDamage, Names, tokens
<1>6. ASSUME UNCHANGED vars PROVE Invariant'
    BY <1>6 DEF vars, table, tokens, TypeOK, Prompt, SignedUp, OwnId, ConfinedDamage, Names
<1> QED BY <1>1, <1>2, <1>3, <1>4, <1>5, <1>6, <1>7, SignInStep, SignInAstrayStep,
           CreateJwtStep, RenewStep,
           TickStep, PowerLossStep DEF Next, Serve

-----------------------------------------------------------------------------
(* Why a request is refused.  A client that does not have to sign in holds *)
(* tokens; it only sends requests for which it needs them; an auth token is*)
(* made to last, and the refresh token is only looked at when it has not.  *)
HoldsTokens ==
    \A c \in Clients : next[c] # "signIn" => auth[c].id # 0 /\ refresh[c].id # 0

SentWithTokens ==
    \A c \in Clients :
        pc[c] \notin {"idle", "signIn", "createJwt"} => next[c] # "signIn"

MadeToLast ==
    \A c \in Clients : next[c] # "signIn" => age[c] + auth[c].left >= AuthLife

RefreshNeeded == \A c \in Clients : pc[c] = "verifyRefresh" => Aged(c)

Grounds == HoldsTokens /\ SentWithTokens /\ MadeToLast /\ RefreshNeeded

LEMMA InitGrounds == Init => Grounds
BY DEF Init, Grounds, HoldsTokens, SentWithTokens, MadeToLast, RefreshNeeded

(* A token that does not verify, in the hands of a client that holds one. *)
LEMMA UnverifiedIsAged ==
    ASSUME TypeOK, Grounds, NEW c \in Clients, next[c] # "signIn", ~Verified(auth[c])
    PROVE  Aged(c)
<1>1. auth[c] \in Tokens /\ age[c] \in Nat
    BY SessionsAssumption DEF TypeOK
<1>2. auth[c] # NoToken
    BY DEF Grounds, HoldsTokens, NoToken
<1>3. SignerChecksExpiry /\ auth[c].left = 0
    BY <1>1, <1>2 DEF Verified, Tokens
<1>4. age[c] + auth[c].left >= AuthLife
    BY DEF Grounds, MadeToLast
<1> QED BY <1>1, <1>3, <1>4, SessionsAssumption DEF Aged

(* An id in the hands of a client that is not found was lost. *)
LEMMA UnfoundIsLost ==
    ASSUME ConfinedDamage, Grounds, NEW c \in Clients, next[c] # "signIn",
           NEW token \in {auth[c], refresh[c]}, ~Found(token.id)
    PROVE  \E x \in lost : x[1] = c
<1>1. token # NoToken
    BY DEF Grounds, HoldsTokens, NoToken
<1>2. <<c, token.id>> \in lost
    BY <1>1 DEF ConfinedDamage, Names, Found
<1> QED BY <1>2

(* A step that leaves the tokens alone and moves one request on. *)
LEMMA QuietGrounds ==
    ASSUME TypeOK, Grounds, NEW c \in Clients, UNCHANGED tokens,
           NEW step, pc' = [pc EXCEPT ![c] = step],
           \/ next' = next
           \/ \E r : next' = [next EXCEPT ![c] = r] /\ step = "idle",
           next'[c] # "signIn" => next[c] # "signIn",
           step \notin {"idle", "signIn", "createJwt"} => next[c] # "signIn",
           step = "verifyRefresh" => Aged(c)
    PROVE  Grounds'
<1>1. ASSUME NEW d \in Clients
      PROVE  /\ next'[d] # "signIn" => next[d] # "signIn"
             /\ d # c => next'[d] = next[d] /\ pc'[d] = pc[d]
             /\ pc'[c] = step
    BY DEF TypeOK
<1>2. HoldsTokens' /\ MadeToLast'
    BY <1>1 DEF Grounds, HoldsTokens, MadeToLast, tokens
<1>3. SentWithTokens'
    BY <1>1 DEF Grounds, SentWithTokens
<1>4. RefreshNeeded'
    BY <1>1 DEF Grounds, RefreshNeeded, Aged, tokens
<1> QED BY <1>2, <1>3, <1>4 DEF Grounds

LEMMA NextGrounds == Invariant /\ Grounds /\ [Next]_vars => Grounds'
<1> SUFFICES ASSUME Invariant, Grounds, [Next]_vars PROVE Grounds'
    OBVIOUS
<1> USE DEF Invariant
<1>1. ASSUME NEW c \in Clients, Send(c) PROVE Grounds'
    <2>1. UNCHANGED tokens /\ next' = next
        BY <1>1 DEF Send
    <2>2. \E step \in {"signIn", "verify", "verifyAuth"} :
              /\ pc' = [pc EXCEPT ![c] = step]
              /\ step # "signIn" => next[c] # "signIn"
        BY <1>1 DEF Send, Goto
    <2> QED BY <2>1, <2>2, QuietGrounds
<1>2. ASSUME NEW c \in Clients, SignIn(c) \/ SignInAstray(c) PROVE Grounds'
    BY <1>2, QuietGrounds DEF SignIn, SignInAstray, Goto
<1>9. ASSUME NEW c \in Clients, SignInFails(c) PROVE Grounds'
    <2>1. UNCHANGED tokens /\ \E n : Answer(c, "signIn", n)
        BY <1>9 DEF SignInFails, Fails, Refuse
    <2> QED BY <2>1, QuietGrounds DEF Answer, Goto, TypeOK
<1>3. ASSUME NEW c \in Clients,
             Verify(c) \/ FindUser(c) \/ VerifyAuth(c) \/ KeepTokens(c) \/ VerifyRefresh(c)
      PROVE  Grounds'
    <2>1. next[c] # "signIn" /\ UNCHANGED tokens
        BY <1>3 DEF Verify, FindUser, VerifyAuth, KeepTokens, VerifyRefresh,
                    Grounds, SentWithTokens
    <2>2. \/ \E r \in {"signIn", "use", "refresh"} : \E n : Answer(c, r, n)
          \/ /\ next' = next
             /\ \E step \in {"find", "keep", "renew", "verifyRefresh"} :
                    /\ Goto(c, step)
                    /\ step = "verifyRefresh" => ~Verified(auth[c])
        BY <1>3 DEF Verify, FindUser, VerifyAuth, KeepTokens, VerifyRefresh, Refuse, Fails
    <2>3. CASE \E r \in {"signIn", "use", "refresh"} : \E n : Answer(c, r, n)
        BY <2>1, <2>3, QuietGrounds DEF Answer, Goto
    <2>4. CASE /\ next' = next
               /\ \E step \in {"find", "keep", "renew", "verifyRefresh"} :
                      /\ Goto(c, step)
                      /\ step = "verifyRefresh" => ~Verified(auth[c])
        BY <2>1, <2>4, QuietGrounds, UnverifiedIsAged DEF Goto
    <2> QED BY <2>2, <2>3, <2>4
<1>4. ASSUME NEW c \in Clients, CreateJwt(c) PROVE Grounds'
    <2> DEFINE id == given[c]
    <2>2. id # 0
        BY <1>4 DEF CreateJwt, SignedUp, OwnId
    <2>3. /\ auth' = [auth EXCEPT ![c] = [id |-> id, left |-> AuthLife]]
          /\ refresh' = [refresh EXCEPT ![c] = [id |-> id, left |-> RefreshLife]]
          /\ age' = [age EXCEPT ![c] = 0]
          /\ next' = [next EXCEPT ![c] = "use"] /\ pc' = [pc EXCEPT ![c] = "idle"]
        BY <1>4 DEF CreateJwt, CreateAuthToken, CreateRefreshToken, Answer, Goto
    <2> HIDE DEF id
    <2>4. HoldsTokens' /\ SentWithTokens'
        BY <2>2, <2>3 DEF Grounds, HoldsTokens, SentWithTokens, TypeOK
    <2>5. MadeToLast'
        BY <2>3, SessionsAssumption DEF Grounds, MadeToLast, TypeOK
    <2>6. RefreshNeeded'
        BY <2>3 DEF Grounds, RefreshNeeded, Aged, TypeOK
    <2> QED BY <2>4, <2>5, <2>6 DEF Grounds
<1>5. ASSUME NEW c \in Clients, RenewAuthToken(c) PROVE Grounds'
    <2>1. next[c] # "signIn"
        BY <1>5 DEF RenewAuthToken, Grounds, SentWithTokens
    <2>2. CASE UNCHANGED auth /\ (Refuse(c, "signIn") \/ Fails(c, "signIn"))
        <3>1. UNCHANGED tokens /\ \E n : Answer(c, "signIn", n)
            BY <1>5, <2>2 DEF RenewAuthToken, Refuse, Fails, tokens
        <3> QED BY <2>1, <3>1, QuietGrounds DEF Answer, Goto
    <2>3. CASE auth' = [auth EXCEPT ![c] = Renewed(c)] /\ Answer(c, "use", refused[c])
        <3>1. /\ auth' = [auth EXCEPT ![c] = [id |-> refresh[c].id, left |-> AuthLife]]
              /\ refresh' = refresh /\ age' = age
              /\ next' = [next EXCEPT ![c] = "use"] /\ pc' = [pc EXCEPT ![c] = "idle"]
            BY <1>5, <2>3 DEF RenewAuthToken, Renewed, CreateAuthToken, Answer, Goto
        <3>2. HoldsTokens' /\ SentWithTokens'
            BY <2>1, <3>1 DEF Grounds, HoldsTokens, SentWithTokens, TypeOK
        <3>3. age[c] + AuthLife >= AuthLife
            BY SessionsAssumption DEF TypeOK
        <3>4. MadeToLast'
            BY <3>1, <3>3 DEF Grounds, MadeToLast, TypeOK
        <3>5. RefreshNeeded'
            BY <3>1 DEF Grounds, RefreshNeeded, Aged, TypeOK
        <3> QED BY <3>2, <3>4, <3>5 DEF Grounds
    <2> QED BY <1>5, <2>2, <2>3 DEF RenewAuthToken
<1>6. ASSUME Tick PROVE Grounds'
    <2>1. ASSUME NEW c \in Clients
          PROVE  /\ auth'[c].id = auth[c].id /\ refresh'[c].id = refresh[c].id
                 /\ age[c] \in 0 .. AuthLife /\ age'[c] \in Nat /\ age'[c] >= age[c]
                 /\ age[c] + auth[c].left >= AuthLife => age'[c] + auth'[c].left >= AuthLife
        <3>1. /\ auth[c] \in Tokens /\ refresh[c] \in Tokens
              /\ age[c] \in 0 .. AuthLife /\ AuthLife \in Nat
            BY SessionsAssumption DEF TypeOK
        <3>2. /\ auth'[c] = Older(auth[c]) /\ refresh'[c] = Older(refresh[c])
              /\ age'[c] = IF age[c] = AuthLife THEN age[c] ELSE age[c] + 1
            BY <1>6 DEF Tick
        <3>3. /\ Older(auth[c]).id = auth[c].id /\ Older(refresh[c]).id = refresh[c].id
              /\ Older(auth[c]).left =
                     IF auth[c].left = 0 THEN 0 ELSE auth[c].left - 1
            BY <3>1 DEF Older, Tokens
        <3>4. auth[c].left \in Nat
            BY <3>1 DEF Tokens
        <3> QED BY <3>1, <3>2, <3>3, <3>4, SessionsAssumption
    <2>2. next' = next /\ pc' = pc
        BY <1>6 DEF Tick
    <2>3. HoldsTokens' /\ SentWithTokens' /\ MadeToLast'
        BY <2>1, <2>2 DEF Grounds, HoldsTokens, SentWithTokens, MadeToLast
    <2>4. RefreshNeeded'
        <3> SUFFICES ASSUME NEW c \in Clients, pc'[c] = "verifyRefresh" PROVE Aged(c)'
            BY DEF RefreshNeeded
        <3>1. Aged(c)
            BY <2>2 DEF Grounds, RefreshNeeded
        <3>2. age[c] \in Nat /\ age'[c] \in Nat /\ age'[c] >= age[c]
            BY <2>1
        <3> QED BY <3>1, <3>2, SessionsAssumption DEF Aged
    <2> QED BY <2>3, <2>4 DEF Grounds
<1>7. ASSUME PowerLoss PROVE Grounds'
    BY <1>7 DEF PowerLoss, Grounds, HoldsTokens, SentWithTokens, MadeToLast, RefreshNeeded, tokens
<1>8. ASSUME Checkpoint \/ UNCHANGED vars PROVE Grounds'
    BY <1>8 DEF Checkpoint, vars, Grounds, HoldsTokens, SentWithTokens, MadeToLast,
                RefreshNeeded, Aged, tokens
<1> QED BY <1>1, <1>2, <1>3, <1>4, <1>5, <1>6, <1>7, <1>8, <1>9 DEF Next, Serve

(* A step that refuses has its grounds. *)
LEMMA RefusalHasCause ==
    ASSUME Invariant, Grounds, [Next]_vars, NEW c \in Clients, refused'[c] > refused[c]
    PROVE  (\E x \in lost : x[1] = c) \/ faults' > faults \/ Aged(c)
<1> USE DEF Invariant
<1>0. refused \in [Clients -> 0 .. MaxRefusals] /\ faults \in Nat
    BY SessionsAssumption DEF TypeOK
<1>1. ASSUME NEW d \in Clients, NEW r, NEW n, Answer(d, r, n), c # d \/ n \in {0, refused[d]}
      PROVE  FALSE
    <2>1. refused' = [refused EXCEPT ![d] = n]
        BY <1>1 DEF Answer
    <2>2. refused[c] \in Nat
        BY <1>0, SessionsAssumption
    <2> QED BY <1>0, <1>1, <2>1, <2>2
<1>2. ASSUME UNCHANGED refused PROVE FALSE
    BY <1>0, <1>2, SessionsAssumption
<1>7. CASE \E d \in Clients, r \in {"signIn", "refresh"} : Fails(d, r)
    BY <1>0, <1>7 DEF Fails
<1>8. CASE ~\E d \in Clients, r \in {"signIn", "refresh"} : Fails(d, r)
    <2>1. PICK d \in Clients :
              Verify(d) \/ FindUser(d) \/ KeepTokens(d) \/ VerifyRefresh(d) \/ RenewAuthToken(d)
        BY <1>1, <1>2, <1>8 DEF Next, Serve, Send, SignIn, SignInAstray, SignInFails, CreateJwt,
                                VerifyAuth, Tick, Checkpoint, PowerLoss, vars
    <2>2. next[d] # "signIn"
        BY <2>1 DEF Verify, FindUser, KeepTokens, VerifyRefresh, RenewAuthToken,
                    Grounds, SentWithTokens
    <2>3. Aged(d) \/ ~Found(auth[d].id) \/ ~Found(refresh[d].id)
        <3>1. CASE Verify(d)
            BY <3>1, <1>2, <2>2, UnverifiedIsAged DEF Verify
        <3>2. CASE FindUser(d) \/ KeepTokens(d) \/ RenewAuthToken(d)
            BY <3>2, <1>1, <1>8 DEF FindUser, KeepTokens, RenewAuthToken
        <3>3. CASE VerifyRefresh(d)
            BY <3>3 DEF VerifyRefresh, Grounds, RefreshNeeded
        <3> QED BY <2>1, <3>1, <3>2, <3>3
    <2>4. c = d
        <3>1. (\E r, n : Answer(d, r, n)) \/ UNCHANGED refused
            BY <2>1, <1>8 DEF Verify, FindUser, KeepTokens, VerifyRefresh, RenewAuthToken, Refuse
        <3> QED BY <3>1, <1>1, <1>2
    <2> QED BY <2>2, <2>3, <2>4, UnfoundIsLost
<1> QED BY <1>7, <1>8

(* The invariant of every reachable state. *)
THEOREM InvariantHolds == Spec => []Invariant
BY InitInvariant, NextInvariant, PTL DEF Spec

(* Every reachable state is well typed. *)
THEOREM SessionsTyped == Spec => []TypeOK
<1>1. Invariant => TypeOK
    BY DEF Invariant
<1> QED BY <1>1, InvariantHolds, PTL

(* A token names the user of its client, or one that a power loss took back*)
(* or whose sign-in went astray.                                           *)
THEOREM DamageIsConfined == Spec => []ConfinedDamage
<1>1. Invariant => ConfinedDamage
    BY DEF Invariant
<1> QED BY <1>1, InvariantHolds, PTL

(* Nobody is refused but for a loss of its user, a failure of this very    *)
(* request or, if the signer minds the expiration, because it signed in    *)
(* longer ago than an auth token lives.                                    *)
THEOREM RefusalsHaveCauses == Spec => RefusedForCause
<1>1. Invariant /\ Grounds /\ [Next]_vars => Grounds'
    BY NextGrounds
<1>2. ASSUME Invariant, Grounds, [Next]_vars
      PROVE  [\A c \in Clients :
                 refused'[c] > refused[c] =>
                     (\E x \in lost : x[1] = c) \/ faults' > faults \/ Aged(c)]_vars
    BY <1>2, RefusalHasCause
<1> QED BY <1>1, <1>2, InitGrounds, InvariantHolds, PTL DEF Spec, RefusedForCause

-----------------------------------------------------------------------------
(* How often a client is refused in a row.  Ahead is the number of refusals*)
(* that may still come before it is served, unless something is lost or    *)
(* fails: none if it signs in next, or asks for a known user with a token  *)
(* that outlives the way; one if all the refresh can do is to renew the    *)
(* token or to send it to the sign-in.                                     *)
Expired(c) == SignerChecksExpiry /\ auth[c].left = 0

WayLeft(c) == (IF pc[c] = "idle" THEN 2 * MaxDelay ELSE MaxDelay) - waited[c]

Fresh(c) == SignerChecksExpiry => auth[c].left > WayLeft(c)

RenewsOrEnds(c) ==
    \/ pc[c] \in {"verifyRefresh", "renew"}
    \/ Expired(c) /\ pc[c] # "keep"
    \/ ~Several /\ ~Found(auth[c].id)

Ahead(c) ==
    IF next[c] = "signIn" THEN IF pc[c] = "createJwt" /\ ~Found(given[c]) THEN LossCosts ELSE 0
    ELSE IF next[c] = "refresh" THEN IF RenewsOrEnds(c) THEN 1 ELSE 2
    ELSE IF ~Found(auth[c].id) THEN LossCosts
    ELSE IF Fresh(c) THEN 0 ELSE 2

Allowed == 2 + LossCosts * losses + FaultCosts * faults

InBounds(c) == refused[c] > 0 => refused[c] + Ahead(c) <= Allowed

(* What the request that is being served is, a refresh of the client's own *)
(* accord included.                                                        *)
Asks(c) ==
    /\ pc[c] \in {"signIn", "createJwt"} => next[c] = "signIn"
    /\ pc[c] \in {"verify", "find"} => next[c] = "use"
    /\ pc[c] \in {"verifyAuth", "keep", "verifyRefresh", "renew"} =>
           next[c] = "refresh" \/ (next[c] = "use" /\ refused[c] = 0)

(* Users are only missing after a loss. *)
Known(c) ==
    losses = 0 =>
        /\ next[c] # "signIn" => Found(auth[c].id)
        /\ pc[c] = "createJwt" => Found(given[c])

Patient(c) == InBounds(c) /\ Asks(c) /\ Known(c)

LEMMA AllowedTyped ==
    ASSUME TypeOK
    PROVE  /\ Allowed \in Nat /\ LossCosts \in {2, 3} /\ FaultCosts = LossCosts + 1
           /\ losses \in Nat /\ faults \in Nat
           /\ Allowed >= 2
           /\ losses # 0 => Allowed >= 2 + LossCosts
<1>1. losses \in Nat /\ faults \in Nat
    BY SessionsAssumption DEF TypeOK
<1>2. CASE Several
    BY <1>1, <1>2 DEF Allowed, LossCosts, FaultCosts
<1>3. CASE ~Several
    BY <1>1, <1>3 DEF Allowed, LossCosts, FaultCosts
<1> QED BY <1>1, <1>2, <1>3

(* What a loss and what a failure add. *)
LEMMA SumGrows ==
    ASSUME NEW a \in Nat, NEW b \in Nat, NEW p \in {a, a + 1}, NEW q \in {b, b + 1}
    PROVE  /\ 2 + 2 * p + 3 * q \in Nat /\ 2 + 2 * p + 3 * q >= 2 + 2 * a + 3 * b
           /\ p = a + 1 => 2 + 2 * p + 3 * q >= 2 + 2 * a + 3 * b + 2
           /\ q = b + 1 => 2 + 2 * p + 3 * q >= 2 + 2 * a + 3 * b + 3
           /\ 2 + 3 * p + 4 * q \in Nat /\ 2 + 3 * p + 4 * q >= 2 + 3 * a + 4 * b
           /\ p = a + 1 => 2 + 3 * p + 4 * q >= 2 + 3 * a + 4 * b + 3
           /\ q = b + 1 => 2 + 3 * p + 4 * q >= 2 + 3 * a + 4 * b + 4
OBVIOUS

LEMMA AllowedGrows ==
    ASSUME TypeOK, losses' \in {losses, losses + 1}, faults' \in {faults, faults + 1}
    PROVE  /\ Allowed' \in Nat /\ Allowed' >= Allowed
           /\ losses' = losses + 1 => Allowed' >= Allowed + LossCosts
           /\ faults' = faults + 1 => Allowed' >= Allowed + LossCosts + 1
           /\ faults' = faults /\ losses' = losses => Allowed' = Allowed
<1>1. losses \in Nat /\ faults \in Nat /\ Allowed \in Nat
    BY AllowedTyped
<1>2. CASE Several
    <2>1. Allowed = 2 + 3 * losses + 4 * faults /\ Allowed' = 2 + 3 * losses' + 4 * faults'
        BY <1>2 DEF Allowed, LossCosts, FaultCosts, Several
    <2>2. LossCosts = 3
        BY <1>2 DEF LossCosts
    <2>3. /\ Allowed' \in Nat /\ Allowed' >= Allowed
          /\ losses' = losses + 1 => Allowed' >= Allowed + 3
          /\ faults' = faults + 1 => Allowed' >= Allowed + 4
          /\ faults' = faults /\ losses' = losses => Allowed' = Allowed
        BY <1>1, <2>1, SumGrows
    <2>4. Allowed + LossCosts + 1 = Allowed + 4
        BY <1>1, <2>2
    <2> QED BY <2>2, <2>3, <2>4
<1>3. CASE ~Several
    <2>1. Allowed = 2 + 2 * losses + 3 * faults /\ Allowed' = 2 + 2 * losses' + 3 * faults'
        BY <1>3 DEF Allowed, LossCosts, FaultCosts, Several
    <2>2. LossCosts = 2
        BY <1>3 DEF LossCosts
    <2>3. /\ Allowed' \in Nat /\ Allowed' >= Allowed
          /\ losses' = losses + 1 => Allowed' >= Allowed + 2
          /\ faults' = faults + 1 => Allowed' >= Allowed + 3
          /\ faults' = faults /\ losses' = losses => Allowed' = Allowed
        BY <1>1, <2>1, SumGrows
    <2>4. Allowed + LossCosts + 1 = Allowed + 3
        BY <1>1, <2>2
    <2> QED BY <2>2, <2>3, <2>4
<1> QED BY <1>2, <1>3

LEMMA AheadTyped ==
    ASSUME NEW c
    PROVE  /\ Ahead(c) \in Nat /\ Ahead(c) <= LossCosts
           /\ Ahead(c)' \in Nat /\ Ahead(c)' <= LossCosts
           /\ LossCosts' = LossCosts
           /\ next[c] = "refresh" => Ahead(c) \in {1, 2}
<1>1. LossCosts' = LossCosts
    BY DEF LossCosts, Several
<1>2. Ahead(c) \in Nat /\ Ahead(c) <= LossCosts /\ (next[c] = "refresh" => Ahead(c) \in {1, 2})
    BY DEF Ahead, LossCosts
<1>3. Ahead(c)' \in Nat /\ Ahead(c)' <= LossCosts'
    BY DEF Ahead, LossCosts
<1> QED BY <1>1, <1>2, <1>3

LEMMA CountsTyped ==
    ASSUME TypeOK, NEW c \in Clients
    PROVE  /\ refused[c] \in Nat /\ Allowed \in Nat /\ Ahead(c) \in Nat
           /\ Allowed >= 2
           /\ losses # 0 => Allowed >= 2 + LossCosts
<1>1. refused[c] \in Nat
    BY SessionsAssumption DEF TypeOK
<1> QED BY <1>1, AllowedTyped, AheadTyped

(* Who is not refused, and has no more ahead than before, stays in bounds. *)
LEMMA BoundsKept ==
    ASSUME TypeOK, NEW c \in Clients, InBounds(c),
           losses' \in {losses, losses + 1}, faults' \in {faults, faults + 1},
           refused'[c] = refused[c],
           refused[c] > 0 => Ahead(c)' <= Ahead(c) \/ losses' = losses + 1
    PROVE  InBounds(c)'
<1>1. refused[c] \in Nat /\ Allowed \in Nat /\ Ahead(c) \in Nat
    BY CountsTyped
<1>2. Ahead(c)' \in Nat /\ Ahead(c)' <= LossCosts /\ LossCosts \in Nat
    BY AheadTyped, AllowedTyped
<1>3. refused[c] > 0 => refused[c] + Ahead(c) <= Allowed
    BY DEF InBounds
<1>4. /\ Allowed' \in Nat /\ Allowed' >= Allowed
      /\ losses' = losses + 1 => Allowed' >= Allowed + LossCosts
    BY AllowedGrows
<1>5. refused[c] > 0 => refused[c] + Ahead(c)' <= Allowed'
    BY <1>1, <1>2, <1>3, <1>4
<1> QED BY <1>5 DEF InBounds

(* A client whose own state a step leaves alone, while no user gets lost.  *)
LEMMA LeftAlone ==
    ASSUME TypeOK, NEW c \in Clients, Patient(c),
           losses' \in {losses, losses + 1}, faults' \in {faults, faults + 1},
           auth'[c] = auth[c], given'[c] = given[c], next'[c] = next[c], pc'[c] = pc[c],
           waited'[c] = waited[c], refused'[c] = refused[c],
           DOMAIN users \subseteq DOMAIN users', users' = users \/ Several
    PROVE  Patient(c)'
<1> USE DEF Patient
<1>1. losses \in Nat
    BY AllowedTyped
<1>2. /\ Found(auth[c].id) => Found(auth[c].id)'
      /\ Found(given[c]) => Found(given[c])'
      /\ Several' <=> Several
      /\ ~Several => (Found(auth[c].id)' <=> Found(auth[c].id))
    BY DEF Found, Several
<1>3. /\ Fresh(c)' <=> Fresh(c)
      /\ Expired(c)' <=> Expired(c)
      /\ RenewsOrEnds(c)' <=> RenewsOrEnds(c)
    BY <1>2 DEF Fresh, WayLeft, Expired, RenewsOrEnds
<1>4. Ahead(c)' <= Ahead(c)
    <2>1. LossCosts \in {2, 3} /\ LossCosts' = LossCosts
        BY <1>2 DEF LossCosts
    <2> QED BY <1>2, <1>3, <2>1 DEF Ahead
<1>5. InBounds(c)'
    BY <1>4, BoundsKept
<1>6. Asks(c)' /\ Known(c)'
    BY <1>1, <1>2 DEF Asks, Known
<1> QED BY <1>5, <1>6

(* What the client of an answer or of a refusal is left with. *)
LEMMA AnswerArrives ==
    ASSUME TypeOK, NEW c \in Clients, NEW r, NEW n, Answer(c, r, n)
    PROVE  /\ pc'[c] = "idle" /\ next'[c] = r /\ refused'[c] = n /\ waited'[c] = 0
           /\ \A d \in Clients \ {c} :
                  /\ pc'[d] = pc[d] /\ next'[d] = next[d] /\ refused'[d] = refused[d]
                  /\ waited'[d] = waited[d]
BY DEF TypeOK, Answer, Goto

LEMMA RefusalArrives ==
    ASSUME TypeOK, NEW c \in Clients, NEW r, Refuse(c, r)
    PROVE  /\ pc'[c] = "idle" /\ next'[c] = r /\ waited'[c] = 0
           /\ refused'[c] \in Nat /\ refused'[c] > 0 /\ refused'[c] <= refused[c] + 1
<1> DEFINE n == IF refused[c] = MaxRefusals THEN refused[c] ELSE refused[c] + 1
<1>1. n \in Nat /\ n > 0 /\ n <= refused[c] + 1
    BY SessionsAssumption DEF TypeOK
<1>2. Answer(c, r, n)
    BY DEF Refuse
<1> HIDE DEF n
<1> QED BY <1>1, <1>2, AnswerArrives

(* A refusal is in bounds, because it uses up one that was ahead; the first*)
(* of a row has all of them ahead.                                         *)
LEMMA RefusalInBounds ==
    ASSUME TypeOK, NEW c \in Clients, InBounds(c), NEW r, Refuse(c, r),
           UNCHANGED <<losses, faults>>,
           \/ refused[c] > 0 /\ Ahead(c)' < Ahead(c)
           \/ refused[c] = 0 /\ (Ahead(c)' <= 1 \/ losses # 0)
    PROVE  InBounds(c)'
<1>1. /\ refused[c] \in Nat /\ Allowed \in Nat /\ Ahead(c) \in Nat
      /\ losses # 0 => Allowed >= 2 + LossCosts
      /\ Allowed >= 2
    BY CountsTyped
<1>2. Allowed' = Allowed
    BY AllowedGrows
<1>3. Ahead(c)' \in Nat /\ Ahead(c)' <= LossCosts /\ LossCosts \in {2, 3}
    BY AheadTyped, AllowedTyped
<1>4. refused'[c] \in Nat /\ refused'[c] <= refused[c] + 1
    BY RefusalArrives
<1>5. refused[c] > 0 => refused[c] + Ahead(c) <= Allowed
    BY DEF InBounds
<1>6. refused'[c] + Ahead(c)' <= Allowed
    <2>1. CASE refused[c] > 0 /\ Ahead(c)' < Ahead(c)
        BY <1>1, <1>3, <1>4, <1>5, <2>1
    <2>2. CASE refused[c] = 0 /\ (Ahead(c)' <= 1 \/ losses # 0)
        BY <1>1, <1>3, <1>4, <2>2
    <2> QED BY <2>1, <2>2
<1> QED BY <1>2, <1>6 DEF InBounds

(* A failure pays for its own refusal and for whatever is then ahead.      *)
LEMMA FailsPatient ==
    ASSUME Invariant, NEW c \in Clients, Patient(c), UNCHANGED <<users, losses, auth>>,
           NEW r, Fails(c, r),
           r = "signIn" \/ (r = "refresh" /\ next[c] # "signIn")
    PROVE  Patient(c)'
<1> USE DEF Invariant, Patient
<1>1. Refuse(c, r) /\ faults' = faults + 1
    BY DEF Fails
<1>2. /\ pc'[c] = "idle" /\ next'[c] = r
      /\ refused'[c] \in Nat /\ refused'[c] <= refused[c] + 1
    BY <1>1, RefusalArrives
<1>3. InBounds(c)'
    <2>1. /\ refused[c] \in Nat /\ Allowed \in Nat /\ Ahead(c) \in Nat
          /\ refused[c] > 0 => refused[c] + Ahead(c) <= Allowed
        BY CountsTyped DEF InBounds
    <2>2. Ahead(c)' \in Nat /\ Ahead(c)' <= LossCosts /\ LossCosts \in Nat
        BY AheadTyped, AllowedTyped
    <2>3. Allowed' \in Nat /\ Allowed' >= Allowed + LossCosts + 1
        BY <1>1, AllowedGrows
    <2>4. refused'[c] + Ahead(c)' <= Allowed'
        BY <1>2, <2>1, <2>2, <2>3
    <2> QED BY <2>4 DEF InBounds
<1> QED BY <1>2, <1>3 DEF Asks, Known, Found

(* The steps of a client's own. *)
LEMMA SendPatient ==
    ASSUME Invariant, NEW c \in Clients, Patient(c), Send(c)
    PROVE  Patient(c)'
<1> USE DEF Invariant, Patient
<1>1. /\ pc[c] = "idle" /\ waited'[c] = 0
      /\ UNCHANGED <<users, losses, faults, auth, next, refused>>
      /\ next[c] = "signIn" => pc'[c] = "signIn"
      /\ next[c] = "refresh" => pc'[c] = "verifyAuth"
      /\ next[c] = "use" =>
             pc'[c] = "verify" \/ (pc'[c] = "verifyAuth" /\ refused[c] = 0)
    BY DEF Send, Goto, TypeOK, table, tokens
<1>2. refused[c] > 0 => Ahead(c)' <= Ahead(c)
    <2>1. waited[c] \in Nat /\ waited[c] <= MaxDelay /\ MaxDelay \in Nat
          /\ auth[c].left \in Nat
        BY SessionsAssumption DEF TypeOK, Prompt, Tokens
    <2>2. pc'[c] = "verify" /\ Fresh(c) => Fresh(c)'
        BY <1>1, <2>1 DEF Fresh, WayLeft
    <2>3. RenewsOrEnds(c) /\ next[c] = "refresh" => RenewsOrEnds(c)'
        BY <1>1 DEF RenewsOrEnds, Expired, Several, Found
    <2>4. LossCosts' = LossCosts /\ LossCosts \in {2, 3} /\ Found(auth[c].id)' = Found(auth[c].id)
        BY <1>1 DEF LossCosts, Several, Found
    <2>5. next[c] \in {"signIn", "use", "refresh"}
        BY DEF TypeOK
    <2> QED BY <1>1, <2>2, <2>3, <2>4, <2>5 DEF Ahead
<1>3. InBounds(c)'
    BY <1>1, <1>2, BoundsKept
<1>4. next[c] \in {"signIn", "use", "refresh"}
    BY DEF TypeOK
<1>5. Asks(c)'
    BY <1>1, <1>4 DEF Asks
<1>6. Known(c)'
    BY <1>1, <1>4 DEF Known, Found
<1> QED BY <1>3, <1>5, <1>6

LEMMA SignInPatient ==
    ASSUME Invariant, NEW c \in Clients, Patient(c), SignIn(c)
    PROVE  Patient(c)'
<1> USE DEF Invariant, Patient
<1>1. /\ next[c] = "signIn" /\ UNCHANGED <<next, refused, losses, faults>>
      /\ pc'[c] = "createJwt"
    BY DEF SignIn, Goto, Asks, TypeOK
<1>2. Found(given[c])'
    <2>1. PICK id \in Nat \ {0} : given' = [given EXCEPT ![c] = id] /\ id \in DOMAIN users'
        BY SignInReturnsOwn
    <2>2. given'[c] = id
        BY <2>1 DEF TypeOK
    <2> QED BY <2>1, <2>2 DEF Found
<1>3. Ahead(c)' = 0
    BY <1>1, <1>2 DEF Ahead
<1>4. InBounds(c)'
    BY <1>1, <1>3, AheadTyped, BoundsKept
<1> QED BY <1>1, <1>2, <1>4 DEF Asks, Known

(* A sign-in gone astray adds what it costs. *)
LEMMA SignInAstrayPatient ==
    ASSUME Invariant, NEW c \in Clients, Patient(c), SignInAstray(c)
    PROVE  Patient(c)'
<1> USE DEF Invariant, Patient
<1>1. /\ next[c] = "signIn" /\ UNCHANGED <<next, refused, faults>>
      /\ losses' = losses + 1 /\ losses \in Nat /\ pc'[c] = "createJwt"
    BY AllowedTyped DEF SignInAstray, Goto, Asks, TypeOK
<1>2. InBounds(c)'
    BY <1>1, BoundsKept
<1> QED BY <1>1, <1>2 DEF Asks, Known

LEMMA SignInFailsPatient ==
    ASSUME Invariant, NEW c \in Clients, Patient(c), SignInFails(c)
    PROVE  Patient(c)'
BY FailsPatient DEF SignInFails, table, tokens

(* A new auth token outlives the way to the client and back.               *)
LEMMA SignedPatient ==
    ASSUME Invariant, LongLived, NEW c \in Clients, Patient(c), NEW id,
           UNCHANGED <<users, losses, faults>>,
           auth'[c] = [id |-> id, left |-> AuthLife], Answer(c, "use", refused[c]),
           losses = 0 => Found(id), Found(id) \/ Ahead(c) = LossCosts
    PROVE  Patient(c)'
<1> USE DEF Invariant, Patient
<1>1. pc'[c] = "idle" /\ next'[c] = "use" /\ refused'[c] = refused[c] /\ waited'[c] = 0
    BY AnswerArrives
<1>2. Found(auth[c].id)' <=> Found(id)
    BY DEF Found
<1>3. Fresh(c)'
    BY <1>1, SessionsAssumption DEF Fresh, WayLeft, LongLived
<1>4. Ahead(c)' <= Ahead(c)
    <2>1. CASE Found(id)
        <3>1. Ahead(c)' = 0
            BY <1>1, <1>2, <1>3, <2>1 DEF Ahead
        <3> QED BY <3>1, AheadTyped
    <2>2. CASE Ahead(c) = LossCosts
        BY <2>2, AheadTyped
    <2> QED BY <2>1, <2>2
<1>5. InBounds(c)'
    BY <1>1, <1>4, BoundsKept
<1> QED BY <1>1, <1>2, <1>5 DEF Asks, Known

LEMMA CreateJwtPatient ==
    ASSUME Invariant, LongLived, NEW c \in Clients, Patient(c), CreateJwt(c)
    PROVE  Patient(c)'
<1> DEFINE id == given[c]
<1>1. losses = 0 => Found(id)
    BY DEF CreateJwt, Patient, Known
<1>2. Found(id) \/ Ahead(c) = LossCosts
    BY DEF CreateJwt, Ahead, Patient, Asks
<1>3. /\ UNCHANGED <<users, losses, faults>> /\ Answer(c, "use", refused[c])
      /\ auth'[c] = [id |-> id, left |-> AuthLife]
    BY DEF CreateJwt, CreateAuthToken, table, Invariant, TypeOK
<1> HIDE DEF id
<1> QED BY <1>1, <1>2, <1>3, SignedPatient

(* A refusal that sends the client to the sign-in is its last.             *)
LEMMA SentToSignIn ==
    ASSUME Invariant, NEW c \in Clients, Patient(c), UNCHANGED <<users, losses, faults>>,
           Refuse(c, "signIn"), next[c] = "refresh" \/ refused[c] = 0
    PROVE  Patient(c)'
<1> USE DEF Invariant, Patient
<1>1. pc'[c] = "idle" /\ next'[c] = "signIn"
    BY RefusalArrives
<1>2. Ahead(c)' = 0
    BY <1>1 DEF Ahead
<1>3. refused[c] = 0 \/ (refused[c] > 0 /\ Ahead(c)' < Ahead(c))
    <2>1. refused[c] \in Nat
        BY SessionsAssumption DEF TypeOK
    <2> QED BY <1>2, <2>1, AheadTyped
<1>4. InBounds(c)'
    BY <1>2, <1>3, RefusalInBounds
<1> QED BY <1>1, <1>4 DEF Asks, Known

LEMMA RenewPatient ==
    ASSUME Invariant, LongLived, NEW c \in Clients, Patient(c), RenewAuthToken(c)
    PROVE  Patient(c)'
<1>1. UNCHANGED <<users, losses>> /\ (next[c] = "refresh" \/ refused[c] = 0)
    BY DEF RenewAuthToken, table, Patient, Asks
<1>2. CASE /\ Found(refresh[c].id) /\ auth' = [auth EXCEPT ![c] = Renewed(c)]
           /\ Answer(c, "use", refused[c]) /\ UNCHANGED faults
    <2>1. auth'[c] = [id |-> refresh[c].id, left |-> AuthLife]
        BY <1>2 DEF Renewed, CreateAuthToken, Invariant, TypeOK
    <2> QED BY <1>1, <1>2, <2>1, SignedPatient
<1>3. CASE Refuse(c, "signIn") /\ UNCHANGED <<auth, faults>>
    BY <1>1, <1>3, SentToSignIn
<1>4. CASE Fails(c, "signIn") /\ UNCHANGED auth
    BY <1>1, <1>4, FailsPatient
<1> QED BY <1>2, <1>3, <1>4 DEF RenewAuthToken

LEMMA VerifyPatient ==
    ASSUME Invariant, Grounds, NEW c \in Clients, Patient(c), Verify(c)
    PROVE  Patient(c)'
<1> USE DEF Invariant, Patient
<1>1. next[c] = "use" /\ pc[c] = "verify" /\ UNCHANGED <<users, losses, faults, auth>>
    BY DEF Verify, Asks, table, tokens
<1>2. CASE Verified(auth[c])
    <2>1. /\ pc'[c] = "find" /\ UNCHANGED <<next, refused, waited>>
        BY <1>2 DEF Verify, Goto, TypeOK
    <2>2. Ahead(c)' = Ahead(c)
        BY <1>1, <2>1 DEF Ahead, Found, Fresh, WayLeft, LossCosts, Several
    <2>3. InBounds(c)'
        BY <1>1, <2>1, <2>2, CountsTyped, BoundsKept
    <2> QED BY <1>1, <2>1, <2>3 DEF Asks, Known, Found
<1>3. CASE ~Verified(auth[c])
    <2>1. Refuse(c, "refresh")
        BY <1>3 DEF Verify
    <2>2. pc'[c] = "idle" /\ next'[c] = "refresh"
        BY <2>1, RefusalArrives
    <2>3. Expired(c)
        <3>1. auth[c] # NoToken
            BY <1>1 DEF Grounds, HoldsTokens, NoToken
        <3> QED BY <1>3, <3>1 DEF Verified, Expired, TypeOK, Tokens
    <2>4. Expired(c)'
        BY <1>1, <2>3 DEF Expired
    <2>5. Ahead(c)' = 1
        BY <2>2, <2>4 DEF Ahead, RenewsOrEnds
    <2>6. Ahead(c) >= 2
        <3>1. ~Fresh(c)
            BY <1>1, <2>3, SessionsAssumption DEF Fresh, WayLeft, Expired, Prompt, TypeOK
        <3> QED BY <1>1, <3>1 DEF Ahead, LossCosts
    <2>7. InBounds(c)'
        BY <1>1, <2>1, <2>5, <2>6, CountsTyped, RefusalInBounds
    <2> QED BY <1>1, <2>2, <2>7 DEF Asks, Known, Found
<1> QED BY <1>2, <1>3

LEMMA FindPatient ==
    ASSUME Invariant, NEW c \in Clients, Patient(c), FindUser(c)
    PROVE  Patient(c)'
<1> USE DEF Invariant, Patient
<1>1. next[c] = "use" /\ pc[c] = "find" /\ UNCHANGED <<users, losses, auth>>
    BY DEF FindUser, Asks, table, tokens
<1>2. CASE Found(auth[c].id) /\ Answer(c, "use", 0)
    <2>1. pc'[c] = "idle" /\ next'[c] = "use" /\ refused'[c] = 0
        BY <1>2, AnswerArrives
    <2> QED BY <1>1, <1>2, <2>1 DEF InBounds, Asks, Known, Found
<1>3. CASE ~Found(auth[c].id) /\ Refuse(c, "refresh") /\ UNCHANGED faults
    <2>2. pc'[c] = "idle" /\ next'[c] = "refresh"
        BY <1>3, RefusalArrives
    <2>3. losses # 0
        BY <1>1, <1>3 DEF Known
    <2>4. Ahead(c)' < Ahead(c)
        <3>1. Ahead(c) = LossCosts /\ LossCosts \in {2, 3}
            BY <1>1, <1>3 DEF Ahead, LossCosts
        <3>2. Ahead(c)' \in {1, 2}
            BY <2>2 DEF Ahead
        <3>3. ~Several => Ahead(c)' = 1
            BY <1>1, <1>3, <2>2 DEF Ahead, RenewsOrEnds, Found, Several
        <3>4. Several => LossCosts = 3
            BY DEF LossCosts
        <3> QED BY <3>1, <3>2, <3>3, <3>4
    <2>5. InBounds(c)'
        BY <1>1, <1>3, <2>3, <2>4, CountsTyped, RefusalInBounds
    <2> QED BY <1>1, <2>2, <2>3, <2>5 DEF Asks, Known
<1>4. CASE Fails(c, "refresh")
    BY <1>1, <1>4, FailsPatient
<1> QED BY <1>2, <1>3, <1>4 DEF FindUser

LEMMA VerifyAuthPatient ==
    ASSUME Invariant, NEW c \in Clients, Patient(c), VerifyAuth(c)
    PROVE  Patient(c)'
<1> USE DEF Invariant, Patient
<1>1. /\ pc[c] = "verifyAuth"
      /\ next[c] = "refresh" \/ (next[c] = "use" /\ refused[c] = 0)
      /\ UNCHANGED <<users, losses, faults, auth, next, refused>>
      /\ pc'[c] = IF Verified(auth[c]) THEN "keep" ELSE "verifyRefresh"
    BY DEF VerifyAuth, Goto, Asks, TypeOK, table, tokens
<1>2. Verified(auth[c]) => ~Expired(c)
    BY DEF Verified, Expired
<1>3. /\ Expired(c)' <=> Expired(c)
      /\ Found(auth[c].id)' <=> Found(auth[c].id)
      /\ Several' <=> Several
    BY <1>1 DEF Expired, Found, Several
<1>4. refused[c] > 0 => Ahead(c)' <= Ahead(c)
    <2>1. CASE Expired(c)
        <3>1. pc'[c] = "verifyRefresh"
            BY <1>1, <1>2, <2>1
        <3>2. RenewsOrEnds(c)'
            BY <3>1 DEF RenewsOrEnds
        <3> QED BY <1>1, <3>2 DEF Ahead
    <2>2. CASE ~Several /\ ~Found(auth[c].id)
        <3>1. RenewsOrEnds(c)'
            BY <1>3, <2>2 DEF RenewsOrEnds
        <3> QED BY <1>1, <3>1 DEF Ahead
    <2>3. CASE ~Expired(c) /\ (Several \/ Found(auth[c].id))
        <3>1. ~RenewsOrEnds(c)
            BY <1>1, <2>3 DEF RenewsOrEnds
        <3> QED BY <1>1, <3>1 DEF Ahead
    <2> QED BY <2>1, <2>2, <2>3
<1>5. InBounds(c)'
    BY <1>1, <1>4, BoundsKept
<1> QED BY <1>1, <1>3, <1>5 DEF Asks, Known

LEMMA KeepPatient ==
    ASSUME Invariant, NEW c \in Clients, Patient(c), KeepTokens(c)
    PROVE  Patient(c)'
<1> USE DEF Invariant, Patient
<1>1. /\ pc[c] = "keep"
      /\ next[c] = "refresh" \/ (next[c] = "use" /\ refused[c] = 0)
      /\ UNCHANGED <<users, losses, auth>>
    BY DEF KeepTokens, Asks, table, tokens
<1>2. CASE Found(auth[c].id) /\ Answer(c, "use", refused[c]) /\ UNCHANGED faults
    <2>1. pc'[c] = "idle" /\ next'[c] = "use" /\ refused'[c] = refused[c]
        BY <1>2, AnswerArrives
    <2>2. refused[c] > 0 => Ahead(c) = 2
        BY <1>1, <1>2 DEF Ahead, RenewsOrEnds
    <2>3. Found(auth[c].id)'
        BY <1>1, <1>2 DEF Found
    <2>4. Ahead(c)' <= 2
        BY <2>1, <2>3 DEF Ahead
    <2>5. InBounds(c)'
        BY <1>1, <1>2, <2>1, <2>2, <2>4, BoundsKept
    <2> QED BY <2>1, <2>3, <2>5 DEF Asks, Known
<1>3. CASE ~Found(auth[c].id) /\ Refuse(c, "signIn") /\ UNCHANGED faults
    BY <1>1, <1>3, SentToSignIn
<1>4. CASE Fails(c, "signIn")
    BY <1>1, <1>4, FailsPatient
<1> QED BY <1>2, <1>3, <1>4 DEF KeepTokens

LEMMA VerifyRefreshPatient ==
    ASSUME Invariant, NEW c \in Clients, Patient(c), VerifyRefresh(c)
    PROVE  Patient(c)'
<1> USE DEF Invariant, Patient
<1>1. /\ pc[c] = "verifyRefresh"
      /\ next[c] = "refresh" \/ (next[c] = "use" /\ refused[c] = 0)
      /\ UNCHANGED <<users, losses, faults, auth>>
    BY DEF VerifyRefresh, Asks, table, tokens
<1>2. CASE Verified(refresh[c])
    <2>1. pc'[c] = "renew" /\ UNCHANGED <<next, refused>>
        BY <1>2 DEF VerifyRefresh, Goto, TypeOK
    <2>2. refused[c] > 0 => Ahead(c)' <= Ahead(c)
        BY <1>1, <2>1 DEF Ahead, RenewsOrEnds
    <2>3. InBounds(c)'
        BY <1>1, <2>1, <2>2, BoundsKept
    <2> QED
        BY <1>1, <2>1, <2>3 DEF Asks, Known, Found
<1>3. CASE ~Verified(refresh[c])
    BY <1>1, <1>3, SentToSignIn DEF VerifyRefresh
<1> QED BY <1>2, <1>3

(* A tick brings the end of a token as much nearer as the end of the way.  *)
LEMMA TickPatient ==
    ASSUME Invariant, NEW c \in Clients, Patient(c), Tick
    PROVE  Patient(c)'
<1> USE DEF Invariant, Patient
<1>1. /\ UNCHANGED <<users, losses, faults, given, next, pc, refused>>
      /\ auth'[c] = Older(auth[c])
      /\ refused[c] > 0 => waited'[c] = waited[c] + 1
      /\ refused[c] > 0 => waited[c] < MaxDelay
    BY DEF Tick, Pressing, table
<1>2. /\ Older(auth[c]).id = auth[c].id
      /\ Older(auth[c]).left = IF auth[c].left = 0 THEN 0 ELSE auth[c].left - 1
      /\ auth[c].left \in Nat /\ waited[c] \in Nat /\ MaxDelay \in Nat
    BY SessionsAssumption DEF Older, TypeOK, Tokens
<1>3. /\ Expired(c) => Expired(c)'
      /\ Found(auth[c].id)' <=> Found(auth[c].id)
      /\ Found(given[c])' <=> Found(given[c])
      /\ Several' <=> Several
    BY <1>1, <1>2 DEF Expired, Found, Several
<1>4. refused[c] > 0 => Ahead(c)' <= Ahead(c)
    <2> SUFFICES ASSUME refused[c] > 0 PROVE Ahead(c)' <= Ahead(c)
        OBVIOUS
    <2>1. Fresh(c) => Fresh(c)'
        BY <1>1, <1>2 DEF Fresh, WayLeft
    <2>2. RenewsOrEnds(c) => RenewsOrEnds(c)'
        BY <1>1, <1>3 DEF RenewsOrEnds
    <2>3. LossCosts' = LossCosts /\ LossCosts \in {2, 3}
        BY <1>3 DEF LossCosts
    <2> QED BY <1>1, <1>3, <2>1, <2>2, <2>3 DEF Ahead
<1>5. InBounds(c)'
    BY <1>1, <1>4, BoundsKept
<1> QED BY <1>1, <1>3, <1>5 DEF Asks, Known

(* A power loss adds what it costs.                                        *)
LEMMA PowerLossPatient ==
    ASSUME Invariant, NEW c \in Clients, Patient(c), PowerLoss
    PROVE  Patient(c)'
<1> USE DEF Invariant, Patient
<1>1. /\ losses' = losses + 1 /\ losses \in Nat /\ UNCHANGED <<faults, next, refused>>
      /\ pc'[c] = "idle"
    BY AllowedTyped DEF PowerLoss
<1>2. InBounds(c)'
    BY <1>1, BoundsKept
<1> QED BY <1>1, <1>2 DEF Asks, Known

-----------------------------------------------------------------------------
(* What a step of one client leaves alone.                                 *)
LEMMA OthersPatient ==
    ASSUME Invariant, NEW c \in Clients, NEW d \in Clients \ {c}, Patient(d),
           Send(c) \/ Serve(c)
    PROVE  Patient(d)'
<1> USE DEF Invariant
<1>1. losses' \in {losses, losses + 1} /\ faults' \in {faults, faults + 1}
    BY DEF Send, Serve, SignIn, SignInAstray, SignInFails, CreateJwt, Verify, FindUser,
           VerifyAuth, KeepTokens, VerifyRefresh, RenewAuthToken, Fails, table
<1>2. auth'[d] = auth[d] /\ given'[d] = given[d]
    BY DEF Send, Serve, SignIn, SignInAstray, SignInFails, CreateJwt, Verify, FindUser,
           VerifyAuth, KeepTokens, VerifyRefresh, RenewAuthToken, tokens, TypeOK
<1>3. pc'[d] = pc[d] /\ next'[d] = next[d] /\ refused'[d] = refused[d] /\ waited'[d] = waited[d]
    <2>1. CASE \E r, n : Answer(c, r, n)
        BY <2>1, AnswerArrives
    <2>2. CASE /\ UNCHANGED <<next, refused>>
               /\ \E step : Goto(c, step)
               /\ waited' = waited \/ waited' = [waited EXCEPT ![c] = 0]
        BY <2>2 DEF Goto, TypeOK
    <2> QED
        BY <2>1, <2>2
        DEF Send, Serve, SignIn, SignInAstray, SignInFails, CreateJwt, Verify, FindUser,
            VerifyAuth, KeepTokens, VerifyRefresh, RenewAuthToken, Refuse, Fails
<1>4. users' = users \/ users' = Append(users, c)
    BY DEF Send, Serve, SignIn, SignInAstray, SignInFails, CreateJwt, Verify, FindUser,
           VerifyAuth, KeepTokens, VerifyRefresh, RenewAuthToken, table
<1>5. DOMAIN users \subseteq DOMAIN users'
    BY <1>4, UsersGrow
<1>6. Several
    BY DEF Several
<1> QED BY <1>1, <1>2, <1>3, <1>5, <1>6, LeftAlone

LEMMA NextPatient ==
    ASSUME Invariant, Grounds, LongLived, \A c \in Clients : Patient(c), [Next]_vars
    PROVE  \A c \in Clients : Patient(c)'
<1> SUFFICES ASSUME NEW d \in Clients PROVE Patient(d)'
    OBVIOUS
<1>1. ASSUME NEW c \in Clients, Send(c) \/ Serve(c) PROVE Patient(d)'
    <2>1. CASE d = c
        BY <1>1, <2>1, SendPatient, SignInPatient, SignInAstrayPatient, SignInFailsPatient,
           CreateJwtPatient, VerifyPatient, FindPatient, VerifyAuthPatient, KeepPatient,
           VerifyRefreshPatient, RenewPatient DEF Serve
    <2>2. CASE d # c
        BY <1>1, <2>2, OthersPatient
    <2> QED BY <2>1, <2>2
<1>2. ASSUME Checkpoint \/ UNCHANGED vars PROVE Patient(d)'
    BY <1>2, LeftAlone DEF Checkpoint, vars, table, tokens, Invariant
<1> QED BY <1>1, <1>2, TickPatient, PowerLossPatient DEF Next

LEMMA InitPatient == Init => \A c \in Clients : Patient(c)
<1> SUFFICES ASSUME Init, NEW c \in Clients PROVE Patient(c)
    BY Zenon
<1>1. refused[c] = 0 /\ next[c] = "signIn" /\ pc[c] = "idle"
    BY DEF Init
<1>2. InBounds(c)
    BY <1>1 DEF InBounds
<1> QED BY <1>1, <1>2 DEF Patient, Asks, Known

(* Whoever is refused while new tokens outlive the way is refused at most  *)
(* twice in a row before it is served, and twice more for each power loss  *)
(* or sign-in gone astray, or three times if there are others to whom the  *)
(* id of its lost user may be given; a failure costs one more than a loss. *)
THEOREM RefusalsAreFew == Spec => []FewRefusals
<1> DEFINE Patience == LongLived => \A c \in Clients : Patient(c)
<1>1. Init => Patience
    BY InitPatient, Zenon
<1>2. Invariant /\ Grounds /\ Patience /\ [Next]_vars => Patience'
    <2> SUFFICES ASSUME Invariant, Grounds, Patience, [Next]_vars, LongLived
                 PROVE  \A c \in Clients : Patient(c)'
        BY DEF LongLived
    <2> QED BY NextPatient
<1>3. Invariant /\ Patience => FewRefusals
    <2> SUFFICES ASSUME Invariant, LongLived, NEW c \in Clients, Patient(c)
                 PROVE  refused[c] <= Allowed
        BY Zenon DEF FewRefusals, Allowed
    <2>1. /\ refused[c] \in Nat /\ Allowed \in Nat /\ Ahead(c) \in Nat
          /\ refused[c] > 0 => refused[c] + Ahead(c) <= Allowed
        BY CountsTyped DEF Patient, InBounds, Invariant
    <2> QED BY <2>1
<1> HIDE DEF Patience
<1> QED BY <1>1, <1>2, <1>3, InitInvariant, NextInvariant, InitGrounds, NextGrounds, PTL DEF Spec

=============================================================================
