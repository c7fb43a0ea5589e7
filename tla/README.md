# aTerminal SyncService: specification and proofs

The service keeps the plugin options of the users of aTerminal. It is one C++
process: a Poco HTTP server with a pool of four threads, a message bus that
hands a command to its handler, and two storages on one SQLite connection.
This directory holds a TLA+ model of it, the TLC instances that check the model,
and proofs that TLAPS checks.

Paths below are relative to the repository.

## The system

| part | state | operations | talks to |
|---|---|---|---|
| SQLite unit of work (`src/app/src/SqliteStorageUoW.cpp`) | the lock on a storage's recursive mutex, a `SQLite::Transaction`, `_active` | construct (lock, BEGIN), `commit`, `rollback`, destroy | the connection |
| user storage (`SqliteUserStorage.cpp`) | its mutex; table `users` | `findById`, `findByEmail`, `add` under a savepoint, `beginWork` | the connection |
| plugin option storage (`SqlitePluginOptionStorage.cpp`) | its mutex; tables `plugin_options`, `plugin_option_fields` | `findByUserIdAndName`, `update` under a savepoint, `beginWork` | the connection |
| SQLite connection (SQLiteCpp, external) | committed database, open transaction and savepoints, last insert rowid | the statements | the disk |
| handlers (`AuthUserViaGoogleHandler.h`, `RegisterUserHandler.inl`, `PostPluginOptionsHandler.h`, `GetPluginOptionsHandler.h`) | none between calls | `execute` | storage, Google, hasher |
| JWT handler (`JwtHandler.h`) | the key | create, retrieve id, refresh | user storage |
| middleware, controllers (`AuthMiddleware.cpp`, `AuthController.cpp`, `PluginOptionsController.cpp`) | none | one HTTP request | message bus |
| router, resolvers (`RequestRouter.inl`, `*Resolver.cpp`) | none | path to controller | |
| message bus (`MessageBus.h`) | map from command type to handler, shared mutex | `registerHandler`, `call` | handlers by `weak_ptr` |
| Google key handler (`GoogleAuthKeyHandler.cpp`) | none of its own; the process-wide SSL manager | `handle` | Google |
| in-memory storages (`InMemoryUserStorage.cpp`, `InMemoryPluginOptionStorage.cpp` and their units of work) | a shared mutex; each object twice, in two maps; the last id | `findBy...`, `add`, `update`, `beginWork` | the same handlers; not built by `main.cpp` |
| hasher, login (`PasswordHasher.cpp`, `LoginUserHandler.inl`) | none | `hash`, `verify`, `execute` | user storage; `main.cpp` only builds the hasher |
| utilities (`StringUtils.h`, `Meta.h`, `Poco/*.h`) | none | templates and formatting | everything |
| `main.cpp` | owns all of the above | start, wait, stop | |

What is hard here is that the two storages have a mutex *each* but share *one*
connection. The mutexes serialize the work on one storage; the transaction is
the connection's, whoever began it. Every guarantee of the handlers (a row is
updated whole, an id belongs to the account just added, a failed request leaves
nothing behind) rests on the transaction being the thread's own while its unit of
work runs. The rest is the usual: a statement that fails half way, exceptions that
unwind through two guards which swallow errors, a process that dies, a lookup
that is stale when it is acted upon. `PROJECT.json` lists these hazards at their
lines.

What makes each part correct:

- unit of work: its transaction is its own and is ended by it; mutex and
  transaction are given back on every path;
- user storage: at most one account per address, never lost once committed; the id
  `add` reports is that account's;
- plugin option storage: a committed row is one POST's row, and what a GET
  returns is one POST's row;
- handlers: each takes effect at once or not at all; every request is answered;
- tokens: a token names the user it was issued to, now and after a restart; what a
  refresh gives out is accepted afterwards; nobody is refused without a cause, and a client
  that is refused gets back in;
- Google exchange: it ends on every path, the SSL library is up while it is inside, and its
  code goes out under the settings it has set up unless another exchange interferes;
- in-memory storages: both copies of a user agree, a user only ever finds its own options, and
  the handlers keep on them the promises they keep on SQLite, although there a rollback undoes
  nothing;
- controllers and middleware: exactly one answer on every path, no options without a
  verified user, no effect of a refused request;
- bus and life cycle: every command has its handler when the first request comes, a
  running call keeps its handler alive, and while `main` destroys its locals a call that
  comes late is refused.

## Modules

| module | what it holds |
|---|---|
| `SqliteConnection` | the connection as a record with one operator per SQL statement that changes it (external: modelled from the statements the code sends). `stack` is the open transaction: BEGIN and savepoint frames, each with the thread that opened it and the database to go back to |
| `SyncData` | users, option rows, requests, outcomes; constants of the data |
| `SyncStore` | the program: threads, mutexes, handlers, statements, faults, crashes; its properties |
| `AtomicStore` | what clients are promised: every request is one indivisible step, or fails without effect |
| `SyncStoreRefinement` | the refinement mapping from `SyncStore` to `AtomicStore` |
| `SyncStoreInvariants` | the inductive invariant |
| `MCSyncStore` | values of the constants for TLC |
| `SyncStoreTypes` | lemmas about the connection's operators, and the proof of type correctness |
| `SyncStoreProofs` | proofs of `NoLeakedTransaction`, `Isolated` and `CommittedUsersStay` |
| `SyncStoreDataProofs` | proofs about the data: ids, rows, answers and tokens; the inductive invariant; the refinement |
| `Lifecycle` | `main()` from its first local to its return, the message bus, and the requests' way through router, controller, bus and handler |
| `MCLifecycle` | values of its constants for TLC |
| `LifecycleProofs` | proofs of its safety properties |
| `RestApi` | one request from the router to its answer: resolvers, controllers, middleware and the three JWT commands |
| `RestApiProofs` | proofs of its properties |
| `InMemoryStore` | the handlers, log-in included, on the in-memory storages and their units of work |
| `MCInMemoryStore` | values of its constants for TLC |
| `InMemoryStoreProofs` | proofs of its properties and of the refinement |
| `GoogleExchange` | exchanges with Google by several threads, on the process-wide SSL library |
| `GoogleExchangeProofs` | proofs of its safety properties |
| `Sessions` | tokens over time: lifetimes, refreshes, clients that try again, power losses |
| `MCSessions` | the symmetry of its clients, for TLC |
| `SessionsProofs` | proofs of its safety properties |

The specifications look at one request at different depths. `RestApi` says which
commands a request dispatches and what it is answered; `Lifecycle` says which objects
a command needs while main builds and destroys them; `SyncStore` says what the
commands do to the database, with all threads and failures, and `InMemoryStore` what they
do to the other pair of storages; both implement `AtomicStore`. `GoogleExchange` opens up the
one step that a sign-in spends with Google, and `Sessions` follows the tokens that are made
at its end.

### How `SyncStore` corresponds to the code

One action is one SQL statement together with the code up to the next one.
SQLite serializes the calls on one connection, so a statement is atomic; between
two statements a thread touches only its own locals. A mutex that is taken for
one statement, or together with BEGIN, or given back after the last statement, is
part of that statement's step. `pc[t]` is the statement that thread `t` sends
next:

| handler | statements |
|---|---|
| Google sign-in | `handle` (Google), `lookup`, then `begin savepoint insert rowid release commit` for a new address, and `jwt` |
| registration | `begin hash savepoint insert rowid release commit` |
| POST options | `auth`, `begin row (fields) savepoint upsert (optionid) delete field* release commit` |
| GET options | `auth`, `read`, `readFields` |

An exception inside `add` or `update` runs `~SavepointGuard` (`rollbackTo`,
`releaseSp`) and then `~SqliteStorageUoW` (`dtor`). A duplicate address or a failed hash
is an error value: the handler calls `rollback()` (`rollback`), which destroys the
`SQLite::Transaction` (`txreset`). These statements fail like any other. The guard swallows
the error of its ROLLBACK TO or RELEASE and leaves the savepoint open (`FaultInside`); an
error of the explicit ROLLBACK leaves `rollback()` as an exception, so the destructor sends
another one; and `~Transaction` swallows the error of that last one, after which the transaction
stays open on the shared connection until the process is started again (`FaultInDestructor`, `stuck`).
`status[t]` holds the outcome for the client: `created`, `ok`, `notFound`, `unauthorized`,
`error` (a 500 the controller sends) or `aborted` (an exception that reached Poco,
or a crash).

`main.cpp` registers the Google sign-in, the two option handlers and the JWT
handler. `RegisterUserHandler` is not registered, and its unit tests, like those of
`LoginUserHandler`, still call a `::make` and a throwing `add` that are gone; it is in the model as one more client of the user storage, because it is the one
handler with work inside the unit of work that can fail before the first statement.
The two counterexamples below use registered handlers only.

Two things the code leaves to SQLite and SQLiteCpp are parameters:

- `DtorRollsBackAgain`. `SQLite::Transaction::rollback` does not mark the transaction as
  finished, so `~Transaction` sends a second ROLLBACK. TRUE is the build as
  it is; FALSE is one in which the destructor leaves an ended transaction alone.
- `FaultKinds`. A failing statement undoes itself (`"statement"`); on an I/O error, a
  full disk or lack of memory SQLite may roll back the whole transaction by
  itself (`"transaction"`).

A *sound* build, below, is one with `DtorRollsBackAgain = FALSE` and statement faults only. It
is not the program; its run shows what the handlers would keep if rollbacks
were the business of the thread that owns the transaction. For the program as it is, the history
variable `damaged` records that a rollback has ended a foreign transaction or that a last
ROLLBACK has failed. The theorems are about every build and say what holds until then.

Left out of the data: passwords, verification methods, and the text of fields.
A POST carries one payload, which stands for its flags and for the value of each
of its fields, so a mixed row differs from a whole one. The row ids of the
option tables are one value, 0: none of them is the id of the user just added.

### How `Lifecycle` corresponds to the code

`Locals` lists the local variables of `ApplicationMain::main` that a request may
refer to, in the order of their declarations; `built` counts those alive.
`Construct` declares the next one (for a handler together with the
`registerHandler` calls of its `make...Handler` function), `Destroy` is the
destruction in reverse order after `return`. A thread of the pool is in one of
`route` (`RequestRouter::createRequestHandler`, which reads the tuple of resolvers that
it holds by reference), `find` (`MessageBus::call` up to the copy of the function),
`lock` (`wobj.lock()`) and `execute` (the handler's method); a controller with two
commands goes through the last three twice. A step that refers to a local which is gone
is undefined behaviour: `Undefined` crashes the process or ends the request
anyhow. `stop()` does not wait: Poco documents that no new connections are accepted and that
those already handled continue to be served, so `Stop` has no guard on the threads, `main` destroys
its locals under the requests in progress, and a thread that has answered may still get
the next request of a connection that stays open (`Connected`). Requests do reach destroyed locals
in the model, as they may in the program; the repository promises nothing about it, so there is no
finding, and the properties say how far it goes.

### How `RestApi` corresponds to the code

`step` is the method that runs next, `dispatched` lists the commands called on the bus and
`sent` the status codes sent. A request is a record of classes: the paths the regular
expressions tell apart, the kind of query, method and header, whether the body can be read
into the DTO, and the class of its tokens. Every combination is an initial state. What
a storage or Google makes of a command is nondeterministic: each outcome that
the handler's `execute` has, an exception included. So may the router throw (`Poco::URI` parses
the request's URI), the bus, and the signer of `CreateJwt`, after the sign-up was committed. An
exception inside `RetrieveId` or `RefreshJwt` is turned into an error there, and a 401. `Verified` is what the signer accepts;
a token that it rejects by `SignatureVerificationException` is `"rejected"`.

### How `InMemoryStore` corresponds to the code

One action is one call of a storage with the code of the handler up to the next call: each
method holds the storage's `shared_mutex` from its first line to its last. `byId`, `byEmail`
and `lastId` are the members of `InMemoryUserStorage`; `byUserIdAndName` and `optionsById` those
of the other storage, of whose first map only the entry 0 is ever used. `user[t]` is
the thread's own copy of a `User`. `work[t]` is the unit of work, whose `active` and
`committed` are all it has: `beginWork` locks nothing, and `rollback` changes these two flags
and no map. The handlers are the same templates as in `SyncStore` and send the
same calls, plus `login` (`verify` with the hasher) and `update`.

Each call may throw (`CallFails`, `Thrown`). The calls that write may throw half-way: `add` and
`update` assign the object to two entries, and each assignment may throw before `operator[]` has
inserted a default object, after that, or between two members of the copy (`HalfStored`,
`HalfUpdated`, in the order of the members of `User` and `PluginOptions`). So `add` may leave an account
under its id only, or with an entry by email that has no password or no email yet (`AddFails`);
`update` may change one copy and part of the other (`UpdateUserFails`); and `update` of the options
may leave an entry without its name, from which a later POST takes the empty name for its own
key: it is answered with 200 and GET never sees it (`poKey`). The last fault is libsodium handed
the null pointer of an empty hash: the library documents a string, so the call may return false or
kill the process (`LoginDies`). No handler calls `update` of the user storage; `UpdateKinds` gives it
a caller that holds an id, reads the user, changes its password or email, and stores it.

### How `GoogleExchange` corresponds to the code

`pc[t]` is the call that `handle` or `fetchResult` makes next, from `initializeSSL` to the end;
`FailToken` and `FailUserInfo` are their early returns and the exceptions that leave them: there is no
catch block in the file. Poco's part is
external and read from how the code uses it: a reference count of initializations, and one
default client context for the process. `initializeClient` sets it, a session takes it when
made (one is made from the application's configuration if there is none), and
`uninitializeSSL` counts down and shuts the manager down, which drops it. A context is named after
the thread whose exchange made it.

Two things the model shows are no properties, because nothing in the repository says otherwise.
Every exchange that fails before `uninitializeSSL` leaves one initialization behind for ever, and
the email is fetched by a session made after `uninitializeSSL`, so never under the context that the
exchange has set up.

### How `Sessions` corresponds to the code

A token is an id and the time it has left; `createAuthToken` and `createRefreshToken` give
15 minutes and 7 days, of which only the order and the ratio to a delay matter. The commands
of `JwtHandler` are two steps each, the look at the token and the look-up of the user, so time
or a power loss may come in between. Clients are external: each signs in, uses its token,
refreshes when refused and signs in when the refresh is refused, as the service's status codes
suggest. `PowerLoss` takes back any committed rows that no checkpoint has made safe
(`synchronous=NORMAL` in WAL mode), and their ids are given out again.

Every request may fail (`Fails`): a look-up that throws is turned into a refusal by the catch
blocks of `JwtHandler`, and a sign-in fails with Google, BEGIN, `add` or the signer (`SignInFails`).
A sign-in may also go astray (`SignInAstray`): as built its row can be rolled back by another thread, or
it can be answered with the row id of somebody else's insert, which is what `lost_sign_in` shows. `lost`
has the client and the id then.

`SignerChecksExpiry` says whether `Signer::verify` minds the `exp` claim. The handler does not compare
it with the clock, and Poco is not in the repository; its documentation only speaks of the signature. So
the model and its proofs have both values. With FALSE tokens never expire, and no property says
that a session ends.

## Runs

| run | build | instance | states |
|---|---|---|---|
| `sound` | sound, statement faults | 3 threads, 4 requests of all kinds, 1 fault, 1 crash | 434 000 |
| `as_built` | as built, both faults, fair | 2 threads, 3 requests of all kinds, 2 faults, 1 crash | 116 000 |
| `lost_sign_in` | as built, no fault | 3 threads, 5 requests, sign-in and POST | counterexample |
| `refused_begin` | as built, no fault | 2 threads, 2 requests, sign-in and POST | counterexample |
| `lifecycle` | fair | 2 threads, 4 requests of all kinds | 41 000 |
| `rest` | | all 10 800 requests | 45 000 |
| `rest_sample` | | all 10 800 requests | counterexample |
| `in_memory` | 1 throw or null hash; `update` of passwords and emails | 2 threads, 4 requests of all kinds, 2 addresses | 2 102 000 |
| `google_exchange` | fair | 3 threads, 4 exchanges | 36 000 |
| `sessions_expiry` | signer minds expiration | 2 clients, lifetimes 3 and 4, 1 loss, 1 failure | 6 353 000 |
| `sessions_unchecked` | signer does not | 2 clients, lifetimes 3 and 4, 1 loss, 1 failure | 687 000 |
| `sessions_live` | signer minds expiration, fair | 1 client, lifetimes 3 and 4, 2 losses, 1 failure | 12 000 |

`sound` checks the inductive invariant, `Isolated` (a unit of work in its
body owns the open transaction), `IssuedIdsNameTheirUser`, `WholeOptions`,
`WholeAnswers`, `TokensAccepted` (a token is refused only after a fault), and that every
step is a step of `AtomicStore` or a stutter (`ImplementsAtomicStore`).
`as_built` checks what survives in the program: `CommittedUsersStay`;
`NoLeakedTransaction`, that only a last ROLLBACK that fails leaves a transaction open;
`ConfinedDamage`, that nothing else is lost before a foreign transaction is hit; and that
requests are answered all the same (`Answered`).

`lifecycle` checks the inductive invariant `Consistent`, that no command is without
handler (`AlwaysRegistered`), that a running call keeps its handler while `main` destroys its locals
(`HandlersOutliveCalls`), that nothing is lost before (`LostOnlyInShutdown`), and that
requests end (`RequestsEnd`). `LateCallsRefused` is about the order of `main`'s locals: the
handlers are destroyed before the storages they refer to, so the `weak_ptr` of a handler that
nobody is inside refuses the call that comes too late. It enters a handler whose storage is gone only
together with another call, which keeps the object; a bus of `shared_ptr`s would let every
late call in. `rest` checks
`AnsweredOnce`, `OnlyAuthorized`, `RefusedWithoutEffect` and `GivenTokensAccepted`.

`in_memory` checks the same promise as `sound`, `AtomicStore`, for the other pair of
storages, up to the first call that throws or email that changes, and as long
that the copies of a user agree (`CopiesAgree`).
It checks why the empty rollback does no harm: a handler commits exactly when its
request succeeds (`CommittedExactlyOnSuccess`). And it checks what is left afterwards. Whatever throws,
an id that a client holds is found by id and by email until an email changes: an
account that `add` has stored by its id only is held by nobody, and one with a half assigned entry by
email, which the next sign-in takes over, is whole under its id (`IssuedIdsFoundBothWays`). Until
something throws, a copy is outdated for renamed users only (`StaleOnlyAfterRename`). Nobody logs
in without a password the account has had, an account from Google included, unless a call has
thrown and an email has changed as well (`LoginsProven`). And a user never finds the options of another,
nor, but for an empty entry that `update` has left half assigned, of another name (`OptionsOfTheirUser`).

`google_exchange` checks that the library is up for each exchange between `initializeSSL` and
`uninitializeSSL` (`UpWhileInside`): the count is the process's, so one call too many, in
whatever exchange, takes it down under another. It checks that a code goes out under the settings of an
exchange unless another one took the manager down (`CodeUnderOwnSettings`), and that exchanges
end. `sessions_expiry` checks that after a loss a
token may name a stranger only if its own user was lost (`ConfinedDamage`), that nobody is
refused for another reason than the age of its session, such a loss or the failure of this very request
(`RefusedForCause`), and that there are at most two refusals in a row, three more for a loss and four more for
a failure (`FewRefusals`). The third needs a second client: it is given the id of the lost user while the
first one refreshes, so the refresh keeps an auth token that may expire once more; with one client it is
two. A failure costs its own refusal and the detour it sends the client on.
`sessions_unchecked` checks the causes for a signer that does not mind the expiration: then age is none
of them. `sessions_live` checks that a refused client is served again.

The bounds. Three threads are one per role in the worst interleaving found: one
that rolls back, one that begins in between, one that meets what is left. `as_built` has
two and three requests; its safety properties are proved for any number of threads. Two
addresses, one known and one new, give sign-ins that find, create and collide.
Two payloads, one with fewer fields than the other, show a mixture of two POSTs. One fault
reaches the exception path of every statement outside an unwinding, and of the guard and the
ROLLBACK after a duplicate address, whose unwinding needs none. `as_built` has a second one, which hits
the ROLLBACK TO, RELEASE or ROLLBACK that the first has led to; in `sound` these fail by
themselves when the transaction is gone. One crash anywhere reaches every restart point. Threads are
symmetric where no fairness is assumed. In `Lifecycle` one thread executes while another one looks up
and locks, and main destroys an object; the other requests follow on connections that stay open. `RestApi` needs no
bound: its requests are finitely many and a request takes at most four steps.
In `InMemoryStore` two threads race between the look-up and `add`, and four requests let a
third and fourth meet what the race, the throw or the rename left; ids go to 3, as a
throw may spend one. Three exchanges overlap in `GoogleExchange`: one that takes the library
down, one it hits before its session and one that sets the library up again; the fourth finds
what they left. In `Sessions` a delay is one tick and the auth token lives for three, so it
outlives the way to the client and back by one (`LongLived`, which 15 minutes do) and can
still expire on a way that it does not begin new: before its verification, between verification and
look-up, or on the way back; a second client takes the id that a power loss frees. The count of refusals
goes to one more than the nine that are allowed. The live run has two losses in a row instead, for one
client.

### What the counterexamples show

`lost_sign_in`. Two first sign-ins of the same address: the second one's INSERT
fails and its handler calls `rollback()`. Between the ROLLBACK and the one of
`~Transaction`, a POST begins its transaction on the other storage, and loses it to
the second ROLLBACK. The POST goes on without a transaction. A third sign-in now
begins, and the two interleave inside one transaction: the POST's upsert falls
between the INSERT of the user and the read of the last rowid, and the sign-in is
answered with a token for an id that is not the user's.

`refused_begin`. A sign-up meets the open transaction of a POST (or the other way
round): BEGIN fails at once and the request ends in a 500. `busy_timeout` is about
other connections and does not make it wait.

`rest_sample`. `test_requests/PluginOptions.http` asks for `/api/v0/auth/plugin/options`;
the resolver matches `/api/v0/plugin/options`, so the sample request ends at the
`NotFoundController`.

### Fairness

`Fairness` is weak fairness of `Run(t)` for each thread: the operating system
schedules the pool threads, and a `std::recursive_mutex` that is free again and again
is obtained. Nothing is assumed about arrivals, faults or crashes. Weak fairness
is enough because a bounded number of requests cannot keep a mutex busy for ever;
with unbounded traffic a fair mutex would be needed, which `std::recursive_mutex`
does not promise. SQLite calls and the exchange with Google are assumed to return.

`GoogleExchange` assumes weak fairness of an exchange that has begun: both sessions have
time-outs. `Sessions` assumes that requests are handled and that a client that was refused tries
again; nobody who is content has to send anything, time may stand still, and
checkpoints are not fair. A request or a retry takes at most `MaxDelay`: that bound is a guard of
`Tick`, and without it a token could expire before every use.

`Lifecycle` assumes weak fairness of main's own steps and of each thread's steps in a
request. Neither new requests nor the termination request are fair: nobody has
to connect or to end the process.

## Proofs

All theorems hold for every value of the constants: any numbers of threads, users,
requests, faults, crashes, power losses, any lifetimes and delays. They use `ThreadsAssumption`,
`BuildAssumption`, `BoundsAssumption`, `DataAssumption`, `InitialUsersAssumption`,
`LifecycleAssumption`, `InMemoryAssumption`, `ExchangeAssumption` and `SessionsAssumption`, and what
a theorem states as its own hypothesis.

The type invariant of each module is proved; in `SyncStore` and `Lifecycle` it is also run, as a part of
`Inductive` and `Consistent`.

- `SyncStoreTypes!TypeInvariant`: `Spec => []TypeOK`.
- `SyncStoreProofs!TransactionsEnd`: `Spec => []NoLeakedTransaction`.
- `SyncStoreProofs!IsolationUnlessDamaged`: `Spec => [](~damaged => Isolated)`.
- `SyncStoreProofs!UsersStay`: `Spec => CommittedUsersStay`.
- `SyncStoreDataProofs!InductiveHolds`: `Spec => []Inductive`.
- `SyncStoreDataProofs!DamageIsConfined`: `Spec => []ConfinedDamage`.
- `SyncStoreDataProofs!AnswersAreWhole` and `TokensStayAccepted`: `Spec => [](~damaged => P)` for
  `WholeAnswers` and `TokensAccepted`.
- `SyncStoreDataProofs!AtomicUnlessDamaged`: each step from a state that is not damaged is a step
  of `AtomicStore` or invisible.
- `SyncStoreDataProofs!Implementation`: `Spec /\ []~damaged => ImplementsAtomicStore`.
- `LifecycleProofs!LifecycleConsistent`, `HandlersAreKept`, `CommandsAreRegistered`,
  `LostOnlyInShutdownHolds` and `LateCallsAreRefused`: `Consistent`, `HandlersOutliveCalls`,
  `AlwaysRegistered`, `LostOnlyInShutdown` and `LateCallsRefused`.
- `RestApiProofs!RequestTyped`, `AnsweredOnceHolds`, `OnlyAuthorizedHolds`,
  `RefusedWithoutEffectHolds` and `GivenTokensAcceptedHolds`: all properties of `RestApi`.
- `InMemoryStoreProofs!InMemoryTyped`, and `CommittedExactlyOnSuccessHolds` and
  `OptionsAreTheirUsers` whatever throws and whoever calls `update`; `CopiesAgreeHolds` and
  `InMemoryImplementation` until a call throws or an email changes; `StaleOnlyAfterRenameHolds` until a
  call throws; `IssuedIdsAreFound` until an email changes, wherever calls throw; and
  `LoginsAreProven` unless a call has thrown and an email has changed as well.
- `GoogleExchangeProofs!ExchangeTyped`, `UpWhileInsideHolds` and `CodeUnderOwnSettingsHolds`.
- `SessionsProofs!SessionsTyped`, `DamageIsConfined`, `RefusalsHaveCauses` and `RefusalsAreFew`.

No theorem about `SyncStore` assumes a sound build: all of them hold in every build, the one as
it is included. `~damaged` can be lost without any fault there, which is what `lost_sign_in` shows.

`NoLeakedTransaction` is not inductive: that a frame's thread is in a unit of work
says nothing about the step in which that thread leaves it. `FramesOwned` is
stronger at the one place where it matters: after the explicit ROLLBACK, at `txreset`, the
thread has no frame left, although its unit of work is still alive. It holds
because every way out of a unit of work empties the stack, and the only
other step that takes a thread out of it (`txreset`) has no frame to leave behind. A last ROLLBACK
that fails is the exception: then frames stay without a unit of work until a restart, so the
invariant is `~stuck => FramesOwned`, with `stuck => damaged` and a crash as the only step that
takes `stuck` back (`StuckStays`). `Isolated` needs the same for a foreign rollback: any step that
empties the stack without being the owner's sets `damaged`.

`CommittedUsersStay` rests on `UsersKept`: what the statements read, and every image a
ROLLBACK TO can go back to, has all users of the committed database, so neither a COMMIT nor
a rollback of anybody's transaction takes a user away. That no thread keeps a mutex (`MutexesHeld`) is
proved step by step: a step takes no mutex and gives none back, or takes the
free one of its storage, or gives that one back.

The properties of the data rest on `Intact`, which holds until something is `damaged`.
`OneTransaction` and `Uncommitted` say that the open transaction is one thread's, that all it can go back to is the committed database, and that what is read differs from that only in the
tables of the thread's storage; so a statement on the other storage, in a transaction or not, reads what
is committed (`ReadsAsCommitted`). `WorkDone` says, for each statement, what the unit of work has made of the
committed database so far: at COMMIT that is the one new user or the one whole row
(`CommitDone`). `IdsKnown` follows an id from the read of the last rowid to the token, and
`RowStays` the row of a GET from its first SELECT to its second, between which the mutex keeps the
writers out. `Intact` is not inductive with `~damaged` alone: the step that
damages may break it, which is why the invariant is `~damaged => ~stuck /\ Isolated /\ Intact`, and a
step that does not damage starts in a state `Calm`. `TokensGiven`, that a request only bears an id that
a client was given, holds in every build.

The refinement follows the outcome of a step. What a step may do to the data is classified once
(`StepEffect`): nothing, a change of what is not yet committed, or a COMMIT. A step that does not end
a request and commits nothing is a stutter of `AtomicStore` (`SilentStep`), one that ends it without
success is `Fail` (`FailedStep`); the COMMIT is the point at which a sign-up or a POST takes effect
(`CommitIsAtomic`), a GET's is its last SELECT (`ReadIsAtomic`), a sign-in's the making of its
token (`TokenIsAtomic`), and a crash fails every request in progress (`CrashIsAtomic`): a first sign-in
that it meets after the COMMIT has left an account, which `AtomicStore` makes a step of its own, before
the token. `Implementation` needs the hypothesis `[]~damaged`; `AtomicUnlessDamaged` says what is left
without it: everything up to the damage, the step that does it included.

`SyncStoreTypes` isolates the facts about sequences: what each statement
does to the frames (`BegunStack`, `SavepointOpenedStack`, `RolledBackToStack`,
`ReleasedStack`, `EndedStack`) and that each keeps a connection well typed.

The properties of `Lifecycle` follow from `TypeOK /\ Consistent`, which is inductive.
None of them is by itself: that the object of a call exists needs that the call
owns it (`CallsHold`) and that what is owned exists (`ObjectsOwned`); that a command
is found needs that a request in progress means main has left its start-up
(`ServedWhileBuilt`) and that the bus is full by then (`BusFilled`). A request is only lost by a
failed lock of a `weak_ptr` or a reference to a local that is gone (`LostBy`), and while the server runs
or stops all locals are alive, which own the handlers. `LateCallsRefused` needs that only a lock takes a
call into a handler (`EnteredByLock`), that the object is then owned by a local or a call, and that a
handler whose local is alive finds its storages alive too, for they were built before
(`HandlersGoFirst`).

The properties of `RestApi` need `Progress`: what has been dispatched and answered at each
step, so that a step that answers is known to be the first one to do so, and one that reads
options to come after a look-up that succeeded.

In `InMemoryStore`, `Filed` says that an entry by id is under its own id, that no id above
`lastId` is in use, and that an entry by email belongs to an account that is complete under its
id, whatever of the entry itself a throw has left out. It is the order of the members that makes this
hold: the id is assigned first, so a half assigned entry by email still names its account
(`HalfStored`). `Held` says the same of the copies of users in the hands of threads, which is
where a stale copy could come from; `Named` ties the ids that clients hold, or are about to be given, to
both maps; `SecretsKept` says that a hash, wherever it is, is the hash of a password its account has
had. `CopiesAgree` survives `add` because the look-up and the insertion are under one lock: the
new id is above every id in use, and the email in no entry. The refinement needs `Serving`: a
thread only makes the calls of its kind of request, with an id that was given to a client (`Served`), and
on options of the user it serves (`Own`); the last id given out is in use, so the next one is
the one after the largest, as on SQLite (`LastFound`); no row is empty, so that a GET answers
`notFound` only if there is none (`RowsFilled`); and every entry of the options is under its own
user and, unless it is empty, its own name (`OptionsFiled`). An email that was free
at the look-up and is not at `add` is a failed request, as on SQLite.

`UpWhileInside` is not inductive: an `uninitializeSSL` of one thread says nothing of the others.
`UpForEach` is: the count is at least the number of threads inside, each of which has counted up once
and not yet down. That is why `Threads` is assumed to be finite. The settings of a code need
`SetUpFound`: a thread that waits for its session finds a context set up by an exchange unless it was
interrupted.

`ConfinedDamage` needs `SignedUp`: between the sign-in and the making of its tokens the user is
the client's own, or lost; and `Prompt`, that a request has waited at most `MaxDelay`, bounds
time. `RefusedForCause` needs `Grounds`: a client that does not have to sign in holds tokens, the age
of a session and what its auth token has left add up to at least `AuthLife`, and the refresh token is only
looked at when the auth token had expired by then.

`FewRefusals` counts the refusals that may still come (`Ahead`) besides those that have: none
for a client that signs in next, or asks for a known user with a token that outlives
the way (`Fresh`); one if the refresh can only renew the token or send the client to the sign-in; two if
it may keep the token; and all that a loss costs if the user is missing. A refusal uses one up
(`RefusalInBounds`), no other step adds one (`BoundsKept`), a power loss or a sign-in gone astray adds
what it costs, because `Ahead` is never more than that (`PowerLossPatient`, `SignInAstrayPatient`), and a
failure costs its own refusal on top (`FailsPatient`). The first refusal of a row needs `Known`: without a loss
no user is missing. A lone client's user stays missing until it signs in, so the refresh
keeps no token and a loss costs one less. The hypothesis `LongLived` is in `FewRefusals` itself: an
auth token outlives the way to the client and back. How long a refresh token lives does not matter.

Every safety and action property that a passing run checks is proved. Only model-checked:
liveness (`Answered`, `RequestsEnd`, `ExchangesEnd`, `Recovers`), which with
fairness and ENABLED is out of the prover's reach; and the counterexamples, which are behaviours of
an instance.

## Not modelled

Several processes on one database file; SQLite's own correctness (`SqliteConnection` and
`Sessions!PowerLoss` take it at its word); what is inside a request to Google, the TLS
handshake and the check of the certificate; the queue of Poco's thread pool, so a
request that waits for a free thread is one that has not arrived; HTTP parsing, status texts
and logging; the configuration of the program.

Three dangers of the code have no property. The queue of the pool, which all requests wait in while each
of the four threads waits for Google or for a unit of work: `ExchangesEnd` and `Answered` say that a
thread comes free again. The initializations of the SSL library that failed exchanges leave behind,
and the email that is fetched under other settings than the code: the models contain both, but no
document, comment or test says what should hold. The router also keeps a reference to a
temporary (`main.cpp`, the `NotFoundControllerResolver`) that is gone after the statement;
nothing reads it.

`SqliteUserStorage::update` has no caller, and neither have `existsByEmail` and the `findById` of
options, which only read. `update` of the in-memory version is modelled because its
two maps make it a matter of more than one assignment. The utilities are templates and
formatting without state. `main.cpp` uses neither `RegisterUserHandler`, `LoginUserHandler`,
the in-memory storages nor the hasher's two methods: they are modelled as the library code that
they are, and no run on registered handlers only (`lost_sign_in`, `refused_begin`) depends on them.

## Plan

The core (the database under concurrency), the life cycle, the REST layer, the other
pair of storages, the exchange with Google and the tokens over time are there. What remains, in
this order:

1. `SqliteUserStorage::update` in `SyncStore`, should a handler begin to call it.
2. The queue of the thread pool in front of `Lifecycle`, with the exchange with Google
   occupying its threads.
