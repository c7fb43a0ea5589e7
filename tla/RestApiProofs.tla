---------------------------- MODULE RestApiProofs ---------------------------
(***************************************************************************)
(* Proofs about RestApi, for any number of steps.                          *)
(*                                                                         *)
(* What an answer promises about the commands that were called for it      *)
(* depends on how far the request had come: Progress says which commands   *)
(* have been called, and what has been asked of the token, at every step.  *)
(***************************************************************************)
EXTENDS RestApi, SequenceTheorems, TLAPS

Commands == {"AuthUserViaGoogle", "CreateJwt", "RefreshJwt",
             "RetrieveId", "GetPluginOptions", "PostPluginOptions"}

Writing == Dispatched("AuthUserViaGoogle") \/ Dispatched("PostPluginOptions")

Progress ==
    /\ step # "done" => sent = <<>>
    /\ step = "done" => Len(sent) = 1
    /\ step \notin {"done", "createJwt"} =>
           ~Writing /\ ~Dispatched("GetPluginOptions")
    /\ step = "createJwt" =>
           ~Dispatched("GetPluginOptions") /\ ~Dispatched("PostPluginOptions")
    /\ step \in {"handleGetRequest", "handlePostRequest"} =>
           BearerOf(request) /\ request.auth = "user"

Invariant ==
    /\ TypeOK
    /\ Progress
    /\ OnlyAuthorized
    /\ RefusedWithoutEffect
    /\ GivenTokensAccepted

-----------------------------------------------------------------------------
LEMMA InitInvariant == Init => Invariant
<1> SUFFICES ASSUME Init PROVE Invariant
    OBVIOUS
<1>1. \A command : ~Dispatched(command)
    BY DEF Init, Dispatched
<1>2. TypeOK
    BY EmptySeq DEF Init, TypeOK, Steps
<1>3. Progress
    BY <1>1 DEF Init, Progress, Writing
<1> QED BY <1>1, <1>2, <1>3
        DEF Init, Invariant, OnlyAuthorized, RefusedWithoutEffect, GivenTokensAccepted

(* A call adds its command and no other. *)
LEMMA CallDispatches ==
    ASSUME TypeOK, NEW command \in Commands, Call(command)
    PROVE  /\ dispatched' \in Seq(Commands)
           /\ \A other : Dispatched(other)' <=> Dispatched(other) \/ other = command
<1>1. /\ dispatched \in Seq(Commands)
      /\ dispatched' = Append(dispatched, command)
    BY DEF TypeOK, Call, Commands
<1>2. /\ dispatched' \in Seq(Commands) /\ Len(dispatched') = Len(dispatched) + 1
      /\ \A i \in 1 .. Len(dispatched) : dispatched'[i] = dispatched[i]
      /\ dispatched'[Len(dispatched) + 1] = command
    BY <1>1, AppendProperties
<1>3. /\ Len(dispatched) \in Nat
      /\ DOMAIN dispatched = 1 .. Len(dispatched)
      /\ DOMAIN dispatched' = 1 .. Len(dispatched) + 1
    BY <1>1, <1>2, LenProperties
<1>4. ASSUME NEW other
      PROVE  Dispatched(other)' <=> Dispatched(other) \/ other = command
    <2>1. ASSUME Dispatched(other) PROVE Dispatched(other)'
        BY <1>2, <1>3, <2>1 DEF Dispatched
    <2>2. ASSUME other = command PROVE Dispatched(other)'
        BY <1>2, <1>3, <2>2 DEF Dispatched
    <2>3. ASSUME Dispatched(other)', other # command PROVE Dispatched(other)
        BY <1>2, <1>3, <2>3 DEF Dispatched
    <2> QED BY <2>1, <2>2, <2>3
<1> QED BY <1>2, <1>4

(* The answer to a request that has none yet. *)
LEMMA AnswerSent ==
    ASSUME sent = <<>>, NEW status \in Statuses, Answer(status)
    PROVE  /\ sent' \in Seq(Statuses) /\ Len(sent') = 1 /\ sent'[1] = status
           /\ step' = "done"
<1>1. sent \in Seq(Statuses) /\ Len(sent) = 0
    BY EmptySeq
<1> QED BY <1>1, AppendProperties DEF Answer

LEMMA ThrowSent ==
    ASSUME sent = <<>>, Throw
    PROVE  /\ sent' \in Seq(Statuses) /\ Len(sent') = 1 /\ sent'[1] = 500
           /\ step' = "done" /\ given' = given
BY DEF Throw, Statuses

(* What ends a request without a token: it must not have called a command  *)
(* that writes if it is refused, nor one for options without authority.    *)
LEMMA EndStep ==
    ASSUME Invariant, request' = request, dispatched' \in Seq(Commands),
           NEW status \in Statuses, step' = "done",
           sent' \in Seq(Statuses), Len(sent') = 1, sent'[1] = status,
           given' \in Tokens \cup {NoToken}, GivenTokensAccepted',
           status \in {400, 401, 405} => ~Writing',
           OnlyAuthorized'
    PROVE  Invariant'
<1>1. TypeOK'
    BY DEF Invariant, TypeOK, Commands, Steps
<1>2. Progress'
    BY DEF Progress
<1>3. RefusedWithoutEffect'
    BY DEF RefusedWithoutEffect, Writing
<1> QED BY <1>1, <1>2, <1>3 DEF Invariant

(* A refusal where no command that writes has been called. *)
LEMMA RefuseStep ==
    ASSUME Invariant, step # "done", ~Writing, NEW status \in Statuses, Refuse(status),
           request' = request
    PROVE  Invariant'
<1>1. sent = <<>>
    BY DEF Invariant, Progress
<1>2. /\ sent' \in Seq(Statuses) /\ Len(sent') = 1 /\ sent'[1] = status
      /\ step' = "done"
    BY <1>1, AnswerSent DEF Refuse
<1>3. dispatched' = dispatched /\ given' = given
    BY DEF Refuse
<1>4. dispatched' \in Seq(Commands) /\ given' \in Tokens \cup {NoToken}
    BY <1>3 DEF Invariant, TypeOK, Commands
<1>5. OnlyAuthorized' /\ GivenTokensAccepted' /\ ~Writing'
    BY <1>3 DEF Invariant, OnlyAuthorized, GivenTokensAccepted, Writing, Dispatched,
                BearerOf, Retrieves, Verified, Found
<1> QED BY <1>2, <1>4, <1>5, EndStep

(* An exception reaches Poco where what has been called stays allowed.     *)
LEMMA ThrowStep ==
    ASSUME Invariant, step # "done", Throw, request' = request,
           dispatched' \in Seq(Commands), OnlyAuthorized'
    PROVE  Invariant'
<1>1. sent = <<>>
    BY DEF Invariant, Progress
<1>2. /\ sent' \in Seq(Statuses) /\ Len(sent') = 1 /\ sent'[1] = 500
      /\ step' = "done" /\ given' = given
    BY <1>1, ThrowSent
<1>3. GivenTokensAccepted' /\ given' \in Tokens \cup {NoToken}
    BY <1>2 DEF GivenTokensAccepted, Invariant, TypeOK
<1>4. 500 \in Statuses /\ 500 \notin {400, 401, 405}
    BY DEF Statuses
<1> QED BY <1>2, <1>3, <1>4, EndStep

-----------------------------------------------------------------------------
LEMMA CreateRequestHandlerStep == Invariant /\ CreateRequestHandler => Invariant'
<1> SUFFICES ASSUME Invariant, CreateRequestHandler PROVE Invariant'
    OBVIOUS
<1>1. step = "route" /\ UNCHANGED <<request, dispatched>>
    BY DEF CreateRequestHandler
<1>2. OnlyAuthorized' /\ dispatched' \in Seq(Commands)
    BY <1>1 DEF Invariant, TypeOK, Commands, OnlyAuthorized, Dispatched
<1>3. CASE Throw
    BY <1>1, <1>2, <1>3, ThrowStep
<1>4. CASE step' \in Controllers /\ UNCHANGED <<sent, given>>
    <2>1. TypeOK'
        BY <1>1, <1>4 DEF Invariant, TypeOK, Steps
    <2>2. Progress'
        BY <1>1, <1>4 DEF Invariant, Progress, Writing, Dispatched, Controllers
    <2>3. RefusedWithoutEffect' /\ GivenTokensAccepted'
        BY <1>1, <1>4 DEF Invariant, RefusedWithoutEffect, GivenTokensAccepted,
                          Dispatched, Controllers
    <2> QED BY <1>2, <2>1, <2>2, <2>3 DEF Invariant
<1> QED BY <1>3, <1>4 DEF CreateRequestHandler, Controllers

LEMMA NotFoundStep == Invariant /\ NotFound => Invariant'
BY RefuseStep DEF NotFound, Invariant, Progress, Statuses

LEMMA HandleAuthRequestStep == Invariant /\ HandleAuthRequest => Invariant'
<1> SUFFICES ASSUME Invariant, HandleAuthRequest PROVE Invariant'
    OBVIOUS
<1>1. step = "AuthController" /\ request' = request /\ ~Writing
    BY DEF HandleAuthRequest, Invariant, Progress
<1>2. CASE Refuse(405)
    BY <1>1, <1>2, RefuseStep DEF Statuses
<1>3. CASE /\ step' \in {"authUserViaGoogle", "refreshAuth"}
           /\ UNCHANGED <<dispatched, sent, given>>
    <2>1. TypeOK'
        BY <1>1, <1>3 DEF Invariant, TypeOK, Steps
    <2>2. Progress'
        BY <1>1, <1>3 DEF Invariant, Progress, Writing, Dispatched
    <2>3. OnlyAuthorized' /\ RefusedWithoutEffect' /\ GivenTokensAccepted'
        BY <1>1, <1>3 DEF Invariant, OnlyAuthorized, RefusedWithoutEffect,
                          GivenTokensAccepted, Dispatched
    <2> QED BY <2>1, <2>2, <2>3 DEF Invariant
<1> QED BY <1>2, <1>3 DEF HandleAuthRequest

LEMMA AuthUserViaGoogleStep == Invariant /\ AuthUserViaGoogle => Invariant'
<1> SUFFICES ASSUME Invariant, AuthUserViaGoogle PROVE Invariant'
    OBVIOUS
<1>1. /\ step = "authUserViaGoogle" /\ request' = request /\ sent = <<>>
      /\ ~Writing /\ ~Dispatched("GetPluginOptions")
    BY DEF AuthUserViaGoogle, Invariant, Progress
<1>2. CASE ~request.readable
    BY <1>1, <1>2, RefuseStep DEF AuthUserViaGoogle, Statuses
<1>3. CASE request.readable
    <2>1. /\ dispatched' \in Seq(Commands)
          /\ ~Dispatched("GetPluginOptions")' /\ ~Dispatched("PostPluginOptions")'
        BY <1>1, <1>3, CallDispatches DEF AuthUserViaGoogle, Invariant, Commands, Writing
    <2>2. given' = given
        BY <1>3 DEF AuthUserViaGoogle, Throw
    <2>3. OnlyAuthorized' /\ GivenTokensAccepted' /\ given' \in Tokens \cup {NoToken}
        BY <2>1, <2>2 DEF OnlyAuthorized, GivenTokensAccepted, Invariant, TypeOK
    <2>4. CASE step' = "createJwt" /\ sent' = sent
        <3>1. TypeOK'
            BY <1>1, <2>1, <2>3, <2>4 DEF Invariant, TypeOK, Steps, Commands
        <3>2. Progress' /\ RefusedWithoutEffect'
            BY <1>1, <2>1, <2>4 DEF Progress, RefusedWithoutEffect
        <3> QED BY <2>3, <3>1, <3>2 DEF Invariant
    <2>5. CASE Answer(500)
        BY <1>1, <2>1, <2>3, <2>5, AnswerSent, EndStep DEF Statuses
    <2>6. CASE Throw
        BY <1>1, <2>1, <2>3, <2>6, ThrowSent, EndStep DEF Statuses
    <2> QED BY <1>3, <2>4, <2>5, <2>6 DEF AuthUserViaGoogle
<1> QED BY <1>2, <1>3

LEMMA CreateJwtStep == Invariant /\ CreateJwt => Invariant'
<1> SUFFICES ASSUME Invariant, CreateJwt PROVE Invariant'
    OBVIOUS
<1>1. /\ step = "createJwt" /\ request' = request /\ sent = <<>>
      /\ ~Dispatched("GetPluginOptions") /\ ~Dispatched("PostPluginOptions")
    BY DEF CreateJwt, Invariant, Progress
<1>2. /\ dispatched' \in Seq(Commands)
      /\ ~Dispatched("GetPluginOptions")' /\ ~Dispatched("PostPluginOptions")'
    BY <1>1, CallDispatches DEF CreateJwt, Invariant, Commands
<1>3. OnlyAuthorized'
    BY <1>2 DEF OnlyAuthorized
<1>4. CASE Answer(201) /\ given' = Issued
    <2>1. GivenTokensAccepted' /\ given' \in Tokens \cup {NoToken}
        BY <1>4 DEF Issued, GivenTokensAccepted, Retrieves, Verified, Found, Tokens
    <2> QED BY <1>1, <1>2, <1>3, <1>4, <2>1, AnswerSent, EndStep DEF Statuses
<1>5. CASE Throw
    BY <1>1, <1>2, <1>3, <1>5, ThrowStep
<1> QED BY <1>4, <1>5 DEF CreateJwt

(* What the refresh gives out is accepted. *)
LEMMA RefreshedAccepted ==
    ASSUME NEW auth \in Tokens, NEW refresh \in Tokens
    PROVE  /\ Refreshed(auth, refresh) \in Tokens \cup {NoToken}
           /\ Refreshed(auth, refresh) # NoToken => Retrieves(Refreshed(auth, refresh))
BY DEF Refreshed, NoToken, Tokens

LEMMA RefreshAuthStep == Invariant /\ RefreshAuth => Invariant'
<1> SUFFICES ASSUME Invariant, RefreshAuth PROVE Invariant'
    OBVIOUS
<1>1. /\ step = "refreshAuth" /\ request' = request /\ sent = <<>>
      /\ ~Writing /\ ~Dispatched("GetPluginOptions")
    BY DEF RefreshAuth, Invariant, Progress
<1>2. CASE ~request.readable
    BY <1>1, <1>2, RefuseStep DEF RefreshAuth, Statuses
<1>3. CASE request.readable
    <2>1. /\ dispatched' \in Seq(Commands)
          /\ ~Writing' /\ ~Dispatched("GetPluginOptions")'
        BY <1>1, <1>3, CallDispatches DEF RefreshAuth, Invariant, Commands, Writing
    <2>2. OnlyAuthorized'
        BY <2>1 DEF OnlyAuthorized, Writing
    <2>3. CASE /\ given' \in {Refreshed(request.auth, request.refresh), NoToken}
               /\ Answer(IF given' = NoToken THEN 401 ELSE 200)
        <3>1. request.auth \in Tokens /\ request.refresh \in Tokens
            BY DEF Invariant, TypeOK, Requests
        <3>2. /\ given' \in Tokens \cup {NoToken}
              /\ given' # NoToken => Retrieves(given')
            BY <2>3, <3>1, RefreshedAccepted
        <3>3. GivenTokensAccepted'
            BY <3>2 DEF GivenTokensAccepted, Retrieves, Verified, Found
        <3>4. PICK status \in {401, 200} : Answer(status)
            BY <2>3
        <3> QED BY <1>1, <2>1, <2>2, <3>2, <3>3, <3>4, AnswerSent, EndStep DEF Statuses
    <2>4. CASE Throw
        BY <1>1, <2>1, <2>2, <2>4, ThrowStep
    <2> QED BY <1>3, <2>3, <2>4 DEF RefreshAuth
<1> QED BY <1>2, <1>3

LEMMA HandleOptionsRequestStep == Invariant /\ HandleOptionsRequest => Invariant'
<1> SUFFICES ASSUME Invariant, HandleOptionsRequest PROVE Invariant'
    OBVIOUS
<1>1. /\ step = "PluginOptionsController" /\ request' = request /\ sent = <<>>
      /\ ~Writing /\ ~Dispatched("GetPluginOptions")
    BY DEF HandleOptionsRequest, Invariant, Progress
<1>2. CASE ~BearerOf(request)
    BY <1>1, <1>2, RefuseStep DEF HandleOptionsRequest, Statuses
<1>3. CASE BearerOf(request)
    <2>1. /\ dispatched' \in Seq(Commands)
          /\ ~Writing' /\ ~Dispatched("GetPluginOptions")'
        BY <1>1, <1>3, CallDispatches DEF HandleOptionsRequest, Invariant, Commands, Writing
    <2>2. OnlyAuthorized'
        BY <2>1 DEF OnlyAuthorized, Writing
    <2>3. given' = given
        BY <1>3 DEF HandleOptionsRequest, Throw
    <2>4. GivenTokensAccepted' /\ given' \in Tokens \cup {NoToken}
        BY <2>3 DEF GivenTokensAccepted, Invariant, TypeOK
    <2>5. CASE Throw
        BY <1>1, <2>1, <2>2, <2>5, ThrowStep
    <2>6. ASSUME NEW status \in {401, 405}, Answer(status) PROVE Invariant'
        BY <1>1, <2>1, <2>2, <2>4, <2>6, AnswerSent, EndStep DEF Statuses
    <2>7. CASE /\ Retrieves(request.auth) /\ sent' = sent
               /\ step' \in {"handleGetRequest", "handlePostRequest"}
        <3>1. TypeOK'
            BY <1>1, <2>1, <2>4, <2>7 DEF Invariant, TypeOK, Steps, Commands
        <3>2. BearerOf(request') /\ request'.auth = "user"
            BY <1>1, <1>3, <2>7 DEF Retrieves, Found, BearerOf
        <3>3. Progress'
            BY <1>1, <2>1, <2>7, <3>2 DEF Progress, BearerOf
        <3>4. RefusedWithoutEffect'
            BY <2>7 DEF RefusedWithoutEffect
        <3> QED BY <2>2, <2>4, <3>1, <3>3, <3>4 DEF Invariant
    <2> QED BY <1>3, <2>6, <2>7, <2>5 DEF HandleOptionsRequest
<1> QED BY <1>2, <1>3

LEMMA HandleGetRequestStep == Invariant /\ HandleGetRequest => Invariant'
<1> SUFFICES ASSUME Invariant, HandleGetRequest PROVE Invariant'
    OBVIOUS
<1>1. /\ step = "handleGetRequest" /\ request' = request /\ sent = <<>> /\ ~Writing
      /\ BearerOf(request) /\ request.auth = "user"
    BY DEF HandleGetRequest, Invariant, Progress
<1>2. CASE request.query # "plugin_name"
    BY <1>1, <1>2, RefuseStep DEF HandleGetRequest, Statuses
<1>3. CASE request.query = "plugin_name"
    <2>1. dispatched' \in Seq(Commands) /\ ~Writing'
        BY <1>1, <1>3, CallDispatches DEF HandleGetRequest, Invariant, Commands, Writing
    <2>2. given' = given
        BY <1>3 DEF HandleGetRequest, Throw
    <2>3. /\ OnlyAuthorized' /\ GivenTokensAccepted'
          /\ given' \in Tokens \cup {NoToken}
        BY <1>1, <2>2 DEF OnlyAuthorized, BearerOf, GivenTokensAccepted, Invariant, TypeOK
    <2>4. ASSUME NEW status \in {200, 404}, Answer(status) PROVE Invariant'
        BY <1>1, <2>1, <2>3, <2>4, AnswerSent, EndStep DEF Statuses
    <2>5. CASE Throw
        BY <1>1, <2>1, <2>3, <2>5, ThrowSent, EndStep DEF Statuses
    <2> QED BY <1>3, <2>4, <2>5 DEF HandleGetRequest
<1> QED BY <1>2, <1>3

LEMMA HandlePostRequestStep == Invariant /\ HandlePostRequest => Invariant'
<1> SUFFICES ASSUME Invariant, HandlePostRequest PROVE Invariant'
    OBVIOUS
<1>1. /\ step = "handlePostRequest" /\ request' = request /\ sent = <<>> /\ ~Writing
      /\ BearerOf(request) /\ request.auth = "user"
    BY DEF HandlePostRequest, Invariant, Progress
<1>2. CASE ~request.readable
    BY <1>1, <1>2, RefuseStep DEF HandlePostRequest, Statuses
<1>3. CASE request.readable
    <2>1. dispatched' \in Seq(Commands)
        BY <1>1, <1>3, CallDispatches DEF HandlePostRequest, Invariant, Commands
    <2>2. given' = given
        BY <1>3 DEF HandlePostRequest, Throw
    <2>3. /\ OnlyAuthorized' /\ GivenTokensAccepted'
          /\ given' \in Tokens \cup {NoToken}
        BY <1>1, <2>2 DEF OnlyAuthorized, BearerOf, GivenTokensAccepted, Invariant, TypeOK
    <2>4. CASE Answer(200)
        BY <1>1, <2>1, <2>3, <2>4, AnswerSent, EndStep DEF Statuses
    <2>5. CASE Throw
        BY <1>1, <2>1, <2>3, <2>5, ThrowSent, EndStep DEF Statuses
    <2> QED BY <1>3, <2>4, <2>5 DEF HandlePostRequest
<1> QED BY <1>2, <1>3

-----------------------------------------------------------------------------
LEMMA StepInvariant == Invariant /\ [Next]_vars => Invariant'
<1> SUFFICES ASSUME Invariant, [Next]_vars PROVE Invariant'
    OBVIOUS
<1>1. CASE UNCHANGED vars
    BY <1>1 DEF vars, Invariant, TypeOK, Progress, Writing, OnlyAuthorized,
                RefusedWithoutEffect, GivenTokensAccepted, Dispatched
<1>2. CASE Answered
    BY <1>1, <1>2 DEF Answered
<1> QED BY <1>1, <1>2, CreateRequestHandlerStep, NotFoundStep, HandleAuthRequestStep,
           AuthUserViaGoogleStep, CreateJwtStep, RefreshAuthStep,
           HandleOptionsRequestStep, HandleGetRequestStep, HandlePostRequestStep
        DEF Next

THEOREM InvariantHolds == Spec => []Invariant
BY InitInvariant, StepInvariant, PTL DEF Spec

(* The request and its answer keep their types, whatever the request. *)
THEOREM RequestTyped == Spec => []TypeOK
<1>1. Invariant => TypeOK
    BY DEF Invariant
<1> QED BY <1>1, InvariantHolds, PTL

(* Every path through the router, the middleware and the controllers sends *)
(* exactly one response.                                                   *)
THEOREM AnsweredOnceHolds == Spec => []AnsweredOnce
<1>1. Invariant => AnsweredOnce
    BY EmptySeq DEF Invariant, Progress, AnsweredOnce
<1> QED BY <1>1, InvariantHolds, PTL

(* The commands for options are called only for a verified bearer token    *)
(* whose user exists.                                                      *)
THEOREM OnlyAuthorizedHolds == Spec => []OnlyAuthorized
<1>1. Invariant => OnlyAuthorized
    BY DEF Invariant
<1> QED BY <1>1, InvariantHolds, PTL

(* A request that is refused for what it is has called no command that     *)
(* writes.                                                                 *)
THEOREM RefusedWithoutEffectHolds == Spec => []RefusedWithoutEffect
<1>1. Invariant => RefusedWithoutEffect
    BY DEF Invariant
<1> QED BY <1>1, InvariantHolds, PTL

(* RetrieveId takes every auth token that an answer gives out. *)
THEOREM GivenTokensAcceptedHolds == Spec => []GivenTokensAccepted
<1>1. Invariant => GivenTokensAccepted
    BY DEF Invariant
<1> QED BY <1>1, InvariantHolds, PTL

=============================================================================
