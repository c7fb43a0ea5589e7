------------------------------- MODULE RestApi ------------------------------
(***************************************************************************)
(* One HTTP request from the router to its answer: RequestRouter and the   *)
(* resolvers, the controllers, AuthMiddleware and the three commands of    *)
(* JwtHandler.  What a storage or Google makes of a command is one of the  *)
(* outcomes that its handler has.                                          *)
(*                                                                         *)
(* Paths, queries, bodies and tokens are classes that the code tells apart.*)
(* A token is "user" (its id is a user's), "stranger" (an id without user),*)
(* "noId" (no id in it), "rejected" (the signer throws                     *)
(* SignatureVerificationException, which the handler takes for expiry) or  *)
(* "malformed" (it throws something else).                                 *)
(***************************************************************************)
EXTENDS Integers, Sequences

AuthPaths == {"/auth/google", "/auth/google/", "/auth/refresh", "/auth/refresh/"}
GooglePaths == {"/auth/google", "/auth/google/"}
OptionsPath == "/plugin/options"

(* The path of test_requests/PluginOptions.http. *)
SamplePath == "/auth/plugin/options"

Paths == AuthPaths \cup {OptionsPath, SamplePath, "/plugin/options/", "other"}

Queries == {"none", "plugin_name", "other"}
Methods == {"GET", "POST", "PUT"}
Headers == {"none", "basic", "bearer"}
Tokens == {"user", "stranger", "noId", "rejected", "malformed"}
NoToken == "noToken"

Requests == [path : Paths, query : Queries, method : Methods, header : Headers,
             readable : BOOLEAN, auth : Tokens, refresh : Tokens]

Controllers == {"AuthController", "PluginOptionsController", "NotFoundController"}

Statuses == {200, 201, 400, 401, 404, 405, 500}

VARIABLES
    request,    \* the request at hand
    step,       \* the method that runs next
    dispatched, \* the commands called on the bus
    sent,       \* the status codes sent, one for each answer
    given       \* the auth token in the body of the answer

vars == <<request, step, dispatched, sent, given>>

Steps == {"route", "done"} \cup Controllers
             \cup {"authUserViaGoogle", "createJwt", "refreshAuth",
                   "handleGetRequest", "handlePostRequest"}

TypeOK ==
    /\ request \in Requests
    /\ step \in Steps
    /\ dispatched \in Seq({"AuthUserViaGoogle", "CreateJwt", "RefreshJwt",
                           "RetrieveId", "GetPluginOptions", "PostPluginOptions"})
    /\ sent \in Seq(Statuses)
    /\ given \in Tokens \cup {NoToken}

Init ==
    /\ request \in Requests
    /\ step = "route"
    /\ dispatched = <<>>
    /\ sent = <<>>
    /\ given = NoToken

-----------------------------------------------------------------------------
(* Resolvers match the path of the URI. *)
AuthResolverMatches(r) == r.path \in AuthPaths
OptionsResolverMatches(r) == r.path = OptionsPath

(* handleRequest of AuthController matches the URI with its query. *)
AuthControllerMatches(r) == r.path \in AuthPaths /\ r.query = "none"

(* Signer::verify. *)
Verified(token) == token \in {"user", "stranger", "noId"}

(* findById, for an id that has been verified. *)
Found(token) == token = "user"

(* RetrieveIdCommand: does it yield an id?  Every exception is an error,   *)
(* also one of findById.  As a defect, without the look-up of the user.    *)
RetrievesUnasked(token) == Verified(token) /\ token # "noId"

Retrieves(token) == Verified(token) /\ token # "noId" /\ Found(token)

(* RefreshJwtCommand: the auth token that it returns, or NoToken for an    *)
(* error.  The refresh token is asked only when the auth token was rejected*)
(* and the new token is for the id in the refresh token.  As a defect, a   *)
(* rejected auth token is given back.                                      *)
RefreshedAsGiven(auth, refresh) ==
    IF auth = "rejected" /\ Retrieves(refresh) THEN auth
    ELSE IF Retrieves(auth) THEN auth ELSE NoToken

Refreshed(auth, refresh) ==
    IF auth = "rejected"
    THEN IF Retrieves(refresh) THEN refresh ELSE NoToken
    ELSE IF Retrieves(auth) THEN auth ELSE NoToken

-----------------------------------------------------------------------------
Answer(status) ==
    /\ sent' = Append(sent, status)
    /\ step' = "done"

(* A refusal, and as a defect one without the return that follows it. *)
RefuseAndGoOn(status) ==
    /\ sent' = Append(sent, status)
    /\ step' = "createJwt"
    /\ UNCHANGED <<dispatched, given>>

Refuse(status) == Answer(status) /\ UNCHANGED <<dispatched, given>>

(* An exception reaches Poco, which answers if nothing has been sent. *)
Throw ==
    /\ sent' = IF sent = <<>> THEN <<500>> ELSE sent
    /\ step' = "done"
    /\ UNCHANGED given

Call(command) == dispatched' = Append(dispatched, command)

(* The first resolver that matches makes the controller, unless the parsing*)
(* of the URI or an allocation throws.                                     *)
CreateRequestHandler ==
    /\ step = "route"
    /\ \/ /\ step' = IF AuthResolverMatches(request) THEN "AuthController"
                     ELSE IF OptionsResolverMatches(request) THEN "PluginOptionsController"
                     ELSE "NotFoundController"
          /\ UNCHANGED <<sent, given>>
       \/ Throw
    /\ UNCHANGED <<request, dispatched>>

NotFound ==
    /\ step = "NotFoundController"
    /\ Refuse(404)
    /\ UNCHANGED request

(* AuthController::handleRequest. *)
HandleAuthRequest ==
    /\ step = "AuthController"
    /\ IF request.method = "POST" /\ AuthControllerMatches(request)
       THEN /\ step' = IF request.path \in GooglePaths
                       THEN "authUserViaGoogle" ELSE "refreshAuth"
            /\ UNCHANGED <<dispatched, sent, given>>
       ELSE Refuse(405)
    /\ UNCHANGED request

(* The body is read, then the sign-in is called: it returns, returns an    *)
(* error or throws.                                                        *)
AuthUserViaGoogle ==
    /\ step = "authUserViaGoogle"
    /\ IF ~request.readable
       THEN Refuse(400)
       ELSE /\ Call("AuthUserViaGoogle")
            /\ \/ step' = "createJwt" /\ UNCHANGED <<sent, given>>
               \/ Answer(500) /\ UNCHANGED given
               \/ Throw
    /\ UNCHANGED request

(* What createAuthToken signs is a token with the id of the user. *)
Issued == "user"

(* Signing may throw, and nothing catches it: the user stays signed up.    *)
CreateJwt ==
    /\ step = "createJwt"
    /\ Call("CreateJwt")
    /\ \/ Answer(201) /\ given' = Issued
       \/ Throw
    /\ UNCHANGED request

(* An exception of findById is one more error of RefreshJwt; one of the bus*)
(* is caught nowhere.                                                      *)
RefreshAuth ==
    /\ step = "refreshAuth"
    /\ IF ~request.readable
       THEN Refuse(400)
       ELSE /\ Call("RefreshJwt")
            /\ \/ /\ given' \in {Refreshed(request.auth, request.refresh), NoToken}
                  /\ Answer(IF given' = NoToken THEN 401 ELSE 200)
               \/ Throw
    /\ UNCHANGED request

(* AuthMiddleware::execute looks for a bearer token before it calls a      *)
(* command to verify it.                                                   *)
BearerOf(r) == r.header = "bearer"

(* PluginOptionsController::handleRequest.  A 401 also answers a valid     *)
(* token when findById throws; an exception of the bus goes on to Poco.    *)
HandleOptionsRequest ==
    /\ step = "PluginOptionsController"
    /\ IF ~BearerOf(request)
       THEN Refuse(401)
       ELSE /\ Call("RetrieveId")
            /\ \/ Answer(401) /\ UNCHANGED given
               \/ Throw
               \/ /\ Retrieves(request.auth)
                  /\ UNCHANGED given
                  /\ \/ /\ request.method = "GET"
                        /\ step' = "handleGetRequest" /\ UNCHANGED sent
                     \/ /\ request.method = "POST"
                        /\ step' = "handlePostRequest" /\ UNCHANGED sent
                     \/ /\ request.method \notin {"GET", "POST"}
                        /\ Answer(405)
    /\ UNCHANGED request

HandleGetRequest ==
    /\ step = "handleGetRequest"
    /\ IF request.query # "plugin_name"
       THEN Refuse(400)
       ELSE /\ Call("GetPluginOptions")
            /\ \/ \E status \in {200, 404} : Answer(status) /\ UNCHANGED given
               \/ Throw
    /\ UNCHANGED request

(* PostPluginOptionsHandler returns or throws; it never returns an error.  *)
(* As a defect, the body is looked at after the command.                   *)
HandlePostUnread ==
    /\ step = "handlePostRequest"
    /\ Call("PostPluginOptions")
    /\ Answer(IF request.readable THEN 200 ELSE 400)
    /\ UNCHANGED <<request, given>>

HandlePostRequest ==
    /\ step = "handlePostRequest"
    /\ IF ~request.readable
       THEN Refuse(400)
       ELSE /\ Call("PostPluginOptions")
            /\ \/ Answer(200) /\ UNCHANGED given
               \/ Throw
    /\ UNCHANGED request

Answered == step = "done" /\ UNCHANGED vars

Next ==
    \/ CreateRequestHandler \/ NotFound \/ Answered
    \/ HandleAuthRequest \/ AuthUserViaGoogle \/ CreateJwt \/ RefreshAuth
    \/ HandleOptionsRequest \/ HandleGetRequest \/ HandlePostRequest

Spec == Init /\ [][Next]_vars

-----------------------------------------------------------------------------
(* On every path through the router, the middleware and the controllers    *)
(* exactly one response is sent.                                           *)
AnsweredOnce == Len(sent) <= 1 /\ (step = "done" => Len(sent) = 1)

Dispatched(command) == \E i \in DOMAIN dispatched : dispatched[i] = command

(* The options of a user are read or written only for a bearer token that  *)
(* the middleware has verified and whose user exists.                      *)
OnlyAuthorized ==
    Dispatched("GetPluginOptions") \/ Dispatched("PostPluginOptions") =>
        BearerOf(request) /\ request.auth = "user"

(* A request that is refused for what it is (400, 401, 405) has changed    *)
(* nothing: no command that writes was called for it.                      *)
RefusedWithoutEffect ==
    step = "done" /\ sent[1] \in {400, 401, 405} =>
        ~Dispatched("AuthUserViaGoogle") /\ ~Dispatched("PostPluginOptions")

(* The auth token in an answer is one that the middleware accepts: what    *)
(* RefreshJwt gives out, RetrieveId takes.                                 *)
GivenTokensAccepted == given # NoToken => Retrieves(given)

(* The sample request of test_requests/PluginOptions.http finds its way to *)
(* a controller.                                                           *)
SampleRequestRouted ==
    request.path = SamplePath /\ step = "done" => sent[1] # 404

=============================================================================
